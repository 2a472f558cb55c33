-------------------------- MODULE IngestCommitProofs --------------------------
(***************************************************************************)
(* What the end of an ingest promises, in the table it wrote and in the    *)
(* database that records it.                                               *)
(*                                                                         *)
(* The table: a completion marker means that every key's last mutation is  *)
(* there or was past its retention, for every number of keys, partitions,  *)
(* windows and attempts, every chunk limit, however late or often an       *)
(* attempt or one of its tasks runs again, and whatever retention deletes  *)
(* meanwhile.  The invariant follows a task: what it has passed is in the  *)
(* table, at its window or a later one, until retention takes it.          *)
(*                                                                         *)
(* The database: no interleaving of statements completes a snapshot early  *)
(* or opens a gate, for any number of datasets.                            *)
(***************************************************************************)
EXTENDS ReplayMerge, SnapshotCommit, FiniteSetTheorems, SequenceTheorems, WellFoundedInduction, TLAPS

Steps    == {"read", "merge", "verify"}
Tasks    == [offset : Nat, step : Steps, robbed : BOOLEAN]
Attempts ==
  [window : Nat, stage : {"write", "marked", "ended", "conflict"}, task : [TaskPartitions -> Tasks]]

\* A stored row is that of a mutation in the window whose number it carries.
StoredOK(wd, st, k) ==
  \/ st[k] = AbsentRow
  \/ \E w \in 1..Len(wd) :
       /\ ~Blocks(wd[w])
       /\ \E mut \in collapse_snapshot_mutations(wd[w]) : mut.key = k /\ st[k] = StoredRow(w, mut)

\* A mutation of the key at this window or a later one is past its retention.
Gone(wd, cu, k, w) ==
  \E v \in 1..Len(wd) : \E mut \in collapse_snapshot_mutations(wd[v]) :
    v >= w /\ mut.key = k /\ retention_predicate(mut, cu)

\* The mutations of a set are in the table, or later ones of their keys.
Holds(st, rows, w) == \A mut \in rows : st[mut.key].seq >= w

\* Or they have expired.
Kept(wd, cu, st, rows, w) == \A mut \in rows : st[mut.key].seq >= w \/ Gone(wd, cu, mut.key, w)

Passed(rows, offset) == {mut \in rows : Place(rows, mut) < offset}

NextSlice(rows, offset) == Slice(rows, offset, replay_table_chunks(rows, offset))

TaskOK(wd, cu, rows, st, w, t) ==
  /\ t.offset \in 0..Cardinality(rows)
  /\ Kept(wd, cu, st, Passed(rows, t.offset), w)
  /\ t.step = "verify" /\ t.offset # Cardinality(rows) /\ ~t.robbed => Holds(st, NextSlice(rows, t.offset), w)

AttemptOK(wd, ap, cu, st, mk, c) ==
  /\ c \in Attempts /\ c.window \in 1..Len(wd) /\ c.window <= ap + 1
  /\ ~Blocks(wd[c.window])
  /\ c.stage \in {"marked", "ended"} => c.window <= mk.window
  /\ c.stage = "write" =>
       \A p \in TaskPartitions : TaskOK(wd, cu, PartitionRows(wd[c.window], p), st, c.window, c.task[p])
  /\ c.stage = "conflict" => \E p \in TaskPartitions : c.task[p].robbed

\* The marked windows are in the table, and what was applied is marked.
MarkerOK(wd, ap, cu, st, mk) ==
  /\ mk.window \in 0..Len(wd) /\ ap \in 0..mk.window
  /\ mk.window # Unset => mk.digest = terminal_source_digest(wd[mk.window])
  /\ \A v \in 1..mk.window : Kept(wd, cu, st, collapse_snapshot_mutations(wd[v]), v)

ReplayInvariant ==
  /\ window \in Seq(SourceRows) /\ attempt \in Seq(Attempts) /\ DOMAIN stored = Keys /\ cutoff \in Nat
  /\ \A k \in Keys : StoredOK(window, stored, k)
  /\ MarkerOK(window, applied, cutoff, stored, marker)
  /\ \A a \in 1..Len(attempt) : AttemptOK(window, applied, cutoff, stored, marker, attempt[a])

-----------------------------------------------------------------------------
(* Windows and their slices.                                               *)

\* The mutations of a window are those of finitely many keys; one that passes the checks
\* has at most one of each key.
LEMMA WindowRows ==
  ASSUME NEW rows \in SourceRows
  PROVE  /\ IsFiniteSet(collapse_snapshot_mutations(rows))
         /\ \A mut \in collapse_snapshot_mutations(rows) : mut.key \in Keys /\ mut.ts \in Nat
         /\ ~Blocks(rows) => \A a, b \in collapse_snapshot_mutations(rows) : a.key = b.key => a = b
<1>1. IsFiniteSet(rows) /\ \A mut \in rows : mut.key \in Keys /\ mut.ts \in Nat
  BY ReplayAssumption DEF ReplayAssumption
<1>2. IsFiniteSet(collapse_snapshot_mutations(rows))
  <2> DEFINE f == [mut \in rows |-> normalize_terminal(mut)]
  <2>1. f \in Surjection(rows, collapse_snapshot_mutations(rows))
    BY DEF Surjection, collapse_snapshot_mutations
  <2> QED BY <1>1, <2>1, FS_Surjection
<1>3. \A mut \in collapse_snapshot_mutations(rows) : mut.key \in Keys /\ mut.ts \in Nat
  BY <1>1 DEF collapse_snapshot_mutations, normalize_terminal
<1>4. ASSUME ~Blocks(rows), NEW a \in collapse_snapshot_mutations(rows),
             NEW b \in collapse_snapshot_mutations(rows), a.key = b.key
      PROVE  a = b
  <2>1. PICK x \in rows : a = normalize_terminal(x)  BY DEF collapse_snapshot_mutations
  <2>2. PICK y \in rows : b = normalize_terminal(y)  BY DEF collapse_snapshot_mutations
  <2>3. a.digest = b.digest  BY <1>4 DEF Blocks, SameSnapshotConflict
  <2>4. /\ x.key = y.key /\ normalize_operation(x.op) = normalize_operation(y.op)
        /\ x.ts = y.ts /\ x.vector = y.vector
    BY <2>1, <2>2, <2>3 DEF normalize_terminal, canonical_event_digest
  <2> QED BY <2>1, <2>2, <2>4 DEF normalize_terminal, canonical_event_digest
<1> QED BY <1>2, <1>3, <1>4

\* The places of a partition's rows are below their number.
LEMMA PartitionPlaces ==
  ASSUME NEW rows \in SourceRows, NEW p
  PROVE  /\ PartitionRows(rows, p) \subseteq collapse_snapshot_mutations(rows)
         /\ Cardinality(PartitionRows(rows, p)) \in Nat
         /\ \A mut \in PartitionRows(rows, p) :
              Place(PartitionRows(rows, p), mut) \in 0..(Cardinality(PartitionRows(rows, p)) - 1)
<1> DEFINE R == PartitionRows(rows, p)
<1>1. R \subseteq collapse_snapshot_mutations(rows)  BY DEF PartitionRows
<1>2. IsFiniteSet(R)  BY <1>1, WindowRows, FS_Subset
<1>3. Cardinality(R) \in Nat  BY <1>2, FS_CardinalityType
<1>4. ASSUME NEW mut \in R  PROVE Place(R, mut) \in 0..(Cardinality(R) - 1)
  <2> DEFINE B == {r \in R : r.key < mut.key}
  <2>1. mut.key \in Nat  BY <1>1, WindowRows, ReplayAssumption DEF ReplayAssumption
  <2>2. B \subseteq R /\ B # R  BY <2>1
  <2>3. Cardinality(B) \in Nat /\ Cardinality(B) < Cardinality(R)
    BY <1>2, <2>2, FS_Subset, FS_CardinalityType
  <2> QED BY <2>3, <1>3 DEF Place
<1> HIDE DEF R
<1> QED BY <1>1, <1>3, <1>4 DEF R

\* Every non-empty set of numbers has a least one.
LEMMA LeastNumber ==
  ASSUME NEW T \in SUBSET Nat, T # {}
  PROVE  \E x \in T : \A y \in T : x =< y
<1>1. \E x \in T : \A y \in T : ~(<<y, x>> \in OpToRel(<, Nat))
  BY NatLessThanWellFounded, WFMin
<1>2. \A x, y \in Nat : y < x => <<y, x>> \in OpToRel(<, Nat)
  BY DEF OpToRel
<1>3. \E R : /\ \E x \in T : \A y \in T : ~(<<y, x>> \in R)
             /\ \A x, y \in Nat : y < x => <<y, x>> \in R
  BY <1>1, <1>2
<1>4. PICK R : /\ \E x \in T : \A y \in T : ~(<<y, x>> \in R)
               /\ \A x, y \in Nat : y < x => <<y, x>> \in R
  BY <1>3
<1>5. PICK x \in T : \A y \in T : ~(<<y, x>> \in R)
  BY <1>4
<1>6. \A y \in T : ~(y < x)
  BY <1>4, <1>5
<1> QED BY <1>6

\* And Min names it.
LEMMA LeastLength ==
  ASSUME NEW T \in SUBSET Nat, T # {}
  PROVE  Min(T) \in T
BY LeastNumber DEF Min

\* A bounded set of window numbers has a greatest one.
LEMMA GreatestWindow ==
  ASSUME NEW n \in Nat, NEW V \in SUBSET (1..n)
  PROVE  Max({Unset} \cup V) \in {Unset} \cup V
<1> DEFINE T == {Unset} \cup V
           D == {n - v : v \in T}
<1>1. T \subseteq 0..n /\ Unset \in T
  BY DEF Unset
<1>2. D \in SUBSET Nat /\ D # {}
  BY <1>1
<1>3. PICK m \in T : \A y \in T : y =< m
  <2>1. \E z \in D : \A y \in D : z =< y
    <3> HIDE DEF D
    <3> QED BY <1>2, LeastNumber
  <2>2. PICK m \in T : \A y \in D : n - m =< y
    BY <2>1
  <2>3. \A v \in T : n - m =< n - v /\ v \in Int /\ m \in Int
    BY <1>1, <2>2
  <2>4. \A v \in T : v =< m
    BY <2>3
  <2> QED BY <2>4
<1> QED BY <1>3 DEF Max

\* A chunk has at least one row and no more than are left.
LEMMA ChunkAdvances ==
  ASSUME NEW rows, Cardinality(rows) \in Nat, NEW offset \in 0..(Cardinality(rows) - 1)
  PROVE  /\ replay_table_chunks(rows, offset) \in Nat
         /\ replay_table_chunks(rows, offset) \in 1..(Cardinality(rows) - offset)
<1> DEFINE n == Min({MaxChunkRows, Cardinality(rows) - offset})
           L == {m \in 1..n : \A S \in SUBSET (1..n) : Tried(rows, offset, n, S) => m \in S}
<1>1. MaxChunkRows \in Nat \ {0} /\ Cardinality(rows) - offset \in Nat \ {0}
  BY ReplayAssumption DEF ReplayAssumption
<1>2. n \in {MaxChunkRows, Cardinality(rows) - offset}
  BY <1>1, LeastLength
<1>3. n <= Cardinality(rows) - offset
  <2>1. \E z \in {MaxChunkRows, Cardinality(rows) - offset} :
          \A y \in {MaxChunkRows, Cardinality(rows) - offset} : z =< y
    <3>1. CASE MaxChunkRows =< Cardinality(rows) - offset  BY <1>1, <3>1
    <3>2. CASE ~(MaxChunkRows =< Cardinality(rows) - offset)  BY <1>1, <3>2
    <3> QED BY <3>1, <3>2
  <2> QED BY <2>1 DEF Min
<1>4. n \in Nat /\ n >= 1
  BY <1>1, <1>2
<1> HIDE DEF n
<1>5. n \in L
  BY <1>4 DEF Tried
<1>6. L \in SUBSET Nat
  BY <1>4
<1>7. Min(L) \in L
  <2> HIDE DEF L
  <2> QED BY <1>5, <1>6, LeastLength
<1>8. Min(L) \in 1..n
  BY <1>7
<1>9. replay_table_chunks(rows, offset) = Min(L)
  BY DEF replay_table_chunks, n
<1> HIDE DEF L
<1> QED BY <1>1, <1>3, <1>4, <1>8, <1>9

\* What is passed after a slice is what was passed before it, and the slice.
LEMMA PassedGrows ==
  ASSUME NEW rows, NEW offset \in Nat, NEW length \in Nat,
         \A mut \in rows : Place(rows, mut) \in Nat
  PROVE  /\ Passed(rows, 0) = {}
         /\ Passed(rows, offset + length) = Passed(rows, offset) \cup Slice(rows, offset, length)
<1>1. Passed(rows, 0) = {}
  BY DEF Passed
<1>2. \A mut \in rows :
        Place(rows, mut) < offset + length <=>
          Place(rows, mut) < offset \/ Place(rows, mut) \in offset..(offset + length - 1)
  OBVIOUS
<1> QED BY <1>1, <1>2 DEF Passed, Slice

-----------------------------------------------------------------------------
(* Carrying the parts from one state to the next.                          *)

\* Windows are never changed, the sequence of a stored row never falls, the marker and the
\* applied window never move back.  Retention is a step of its own.
Grows(wd, ap, st, mk, wd2, ap2, st2, mk2) ==
  /\ Len(wd) <= Len(wd2) /\ \A v \in 1..Len(wd) : wd2[v] = wd[v]
  /\ \A k \in Keys : st[k].seq \in Nat /\ st2[k].seq \in Nat /\ st[k].seq <= st2[k].seq
  /\ ap <= ap2 /\ mk.window <= mk2.window

\* The sequence of a stored row is a number.
LEMMA StoredSequence ==
  ASSUME NEW wd, NEW st, NEW k, StoredOK(wd, st, k)
  PROVE  st[k].seq \in Nat
<1>1. CASE st[k] = AbsentRow
  BY <1>1 DEF AbsentRow, Unset
<1>2. CASE st[k] # AbsentRow
  <2>1. PICK w \in 1..Len(wd) : \E mut \in collapse_snapshot_mutations(wd[w]) : st[k] = StoredRow(w, mut)
    BY <1>2 DEF StoredOK
  <2>2. st[k].seq = w  BY <2>1 DEF StoredRow
  <2> QED BY <2>2
<1> QED BY <1>1, <1>2

\* What has expired stays so when windows arrive.
LEMMA GoneCarries ==
  ASSUME NEW wd \in Seq(SourceRows), NEW wd2 \in Seq(SourceRows), NEW cu, NEW k, NEW w,
         Len(wd) <= Len(wd2), \A v \in 1..Len(wd) : wd2[v] = wd[v], Gone(wd, cu, k, w)
  PROVE  Gone(wd2, cu, k, w)
<1>1. PICK v \in 1..Len(wd) : \E mut \in collapse_snapshot_mutations(wd[v]) :
        v >= w /\ mut.key = k /\ retention_predicate(mut, cu)
  BY DEF Gone
<1>2. v \in 1..Len(wd2) /\ wd2[v] = wd[v]
  OBVIOUS
<1> QED BY <1>1, <1>2 DEF Gone

\* What the table holds it goes on holding, or a later mutation.
LEMMA HoldsCarries ==
  ASSUME NEW st, NEW st2, NEW rows, NEW w \in Nat, \A mut \in rows : mut.key \in Keys,
         \A k \in Keys : st[k].seq \in Nat /\ st2[k].seq \in Nat /\ st[k].seq <= st2[k].seq,
         Holds(st, rows, w)
  PROVE  Holds(st2, rows, w)
BY DEF Holds

\* And what it has kept it goes on keeping.
LEMMA KeptCarries ==
  ASSUME NEW wd \in Seq(SourceRows), NEW wd2 \in Seq(SourceRows), NEW cu,
         NEW st, NEW st2, NEW rows, NEW w \in Nat, \A mut \in rows : mut.key \in Keys,
         Len(wd) <= Len(wd2), \A v \in 1..Len(wd) : wd2[v] = wd[v],
         \A k \in Keys : st[k].seq \in Nat /\ st2[k].seq \in Nat /\ st[k].seq <= st2[k].seq,
         Kept(wd, cu, st, rows, w)
  PROVE  Kept(wd2, cu, st2, rows, w)
<1> SUFFICES ASSUME NEW mut \in rows
             PROVE  st2[mut.key].seq >= w \/ Gone(wd2, cu, mut.key, w)
  BY DEF Kept
<1>1. st[mut.key].seq >= w \/ Gone(wd, cu, mut.key, w)  BY DEF Kept
<1>2. CASE st[mut.key].seq >= w  BY <1>2
<1>3. CASE Gone(wd, cu, mut.key, w)  BY <1>3, GoneCarries
<1> QED BY <1>1, <1>2, <1>3

\* The facts about an attempt survive every step of the others.
LEMMA AttemptCarries ==
  ASSUME NEW wd \in Seq(SourceRows), NEW ap \in Nat, NEW cu, NEW st, NEW mk, mk.window \in Nat,
         NEW wd2 \in Seq(SourceRows), NEW ap2 \in Nat, NEW st2, NEW mk2, mk2.window \in Nat,
         Grows(wd, ap, st, mk, wd2, ap2, st2, mk2), NEW c, AttemptOK(wd, ap, cu, st, mk, c)
  PROVE  AttemptOK(wd2, ap2, cu, st2, mk2, c)
<1>1. c \in Attempts /\ c.window \in Nat /\ c.window \in 1..Len(wd) /\ c.window <= ap + 1
  BY DEF AttemptOK, Attempts
<1>2. wd2[c.window] = wd[c.window] /\ c.window \in 1..Len(wd2) /\ c.window <= ap2 + 1
  BY <1>1 DEF Grows
<1>3. wd[c.window] \in SourceRows
  BY <1>1
<1>4. ASSUME c.stage = "write", NEW p \in TaskPartitions
      PROVE  TaskOK(wd2, cu, PartitionRows(wd2[c.window], p), st2, c.window, c.task[p])
  <2> DEFINE R == PartitionRows(wd[c.window], p)
             t == c.task[p]
  <2>1. TaskOK(wd, cu, R, st, c.window, t)
    BY <1>4 DEF AttemptOK
  <2>2. \A mut \in R : mut.key \in Keys
    BY <1>3, PartitionPlaces, WindowRows
  <2>3. Kept(wd2, cu, st2, Passed(R, t.offset), c.window)
    <3>1. \A mut \in Passed(R, t.offset) : mut.key \in Keys  BY <2>2 DEF Passed
    <3>2. Kept(wd, cu, st, Passed(R, t.offset), c.window)  BY <2>1 DEF TaskOK
    <3> QED BY <1>1, <3>1, <3>2, KeptCarries DEF Grows
  <2>4. t.step = "verify" /\ t.offset # Cardinality(R) /\ ~t.robbed => Holds(st2, NextSlice(R, t.offset), c.window)
    <3>1. \A mut \in NextSlice(R, t.offset) : mut.key \in Keys  BY <2>2 DEF NextSlice, Slice
    <3>2. t.step = "verify" /\ t.offset # Cardinality(R) /\ ~t.robbed => Holds(st, NextSlice(R, t.offset), c.window)
      BY <2>1 DEF TaskOK
    <3> QED BY <1>1, <3>1, <3>2, HoldsCarries DEF Grows
  <2>5. t.offset \in 0..Cardinality(R)  BY <2>1 DEF TaskOK
  <2>6. TaskOK(wd2, cu, R, st2, c.window, t)  BY <2>3, <2>4, <2>5 DEF TaskOK
  <2> QED BY <2>6, <1>2
<1>5. c.stage \in {"marked", "ended"} => c.window <= mk2.window
  BY <1>1 DEF AttemptOK, Grows
<1> QED BY <1>1, <1>2, <1>4, <1>5 DEF AttemptOK

\* So do those about the table.
LEMMA StoredCarries ==
  ASSUME NEW wd \in Seq(SourceRows), NEW wd2 \in Seq(SourceRows), NEW st, NEW k,
         Len(wd) <= Len(wd2), \A v \in 1..Len(wd) : wd2[v] = wd[v], StoredOK(wd, st, k)
  PROVE  StoredOK(wd2, st, k)
<1>1. \A w \in 1..Len(wd) : w \in 1..Len(wd2)
  OBVIOUS
<1> QED BY <1>1 DEF StoredOK

\* And those about a marker that stays where it is.
LEMMA MarkerCarries ==
  ASSUME NEW wd \in Seq(SourceRows), NEW ap \in Nat, NEW cu, NEW st, NEW mk,
         NEW wd2 \in Seq(SourceRows), NEW ap2 \in Nat, NEW st2,
         Grows(wd, ap, st, mk, wd2, ap2, st2, mk), MarkerOK(wd, ap, cu, st, mk), ap2 <= mk.window
  PROVE  MarkerOK(wd2, ap2, cu, st2, mk)
<1>1. mk.window \in Nat /\ mk.window \in 0..Len(wd) /\ ap2 \in 0..mk.window /\ mk.window \in 0..Len(wd2)
  BY DEF MarkerOK, Grows
<1>2. \A v \in 1..mk.window : v \in Nat /\ wd2[v] = wd[v] /\ wd[v] \in SourceRows
  BY <1>1 DEF Grows
<1>3. ASSUME NEW v \in 1..mk.window PROVE Kept(wd2, cu, st2, collapse_snapshot_mutations(wd2[v]), v)
  <2>1. Kept(wd, cu, st, collapse_snapshot_mutations(wd[v]), v)  BY DEF MarkerOK
  <2>2. \A mut \in collapse_snapshot_mutations(wd[v]) : mut.key \in Keys  BY <1>2, WindowRows
  <2> QED BY <1>2, <2>1, <2>2, KeptCarries DEF Grows
<1>4. mk.window # Unset => mk.digest = terminal_source_digest(wd2[mk.window])
  BY <1>1, <1>2 DEF MarkerOK, Unset
<1> QED BY <1>1, <1>3, <1>4 DEF MarkerOK

\* A step of one attempt, from what becomes of it, of the table and of the marker.
LEMMA AttemptMoves ==
  ASSUME ReplayInvariant, NEW a \in 1..Len(attempt), NEW c,
         attempt' = [attempt EXCEPT ![a] = c], window' = window, cutoff' = cutoff,
         applied' \in Nat, marker'.window \in Nat,
         DOMAIN stored' = Keys, \A k \in Keys : StoredOK(window, stored', k),
         Grows(window, applied, stored, marker, window, applied', stored', marker'),
         MarkerOK(window, applied', cutoff, stored', marker'),
         AttemptOK(window, applied', cutoff, stored', marker', c)
  PROVE  ReplayInvariant'
<1>1. window \in Seq(SourceRows) /\ attempt \in Seq(Attempts) /\ applied \in Nat /\ marker.window \in Nat
  BY DEF ReplayInvariant, MarkerOK
<1>2. c \in Attempts
  BY DEF AttemptOK
<1>3. attempt' \in Seq(Attempts) /\ Len(attempt') = Len(attempt)
  BY <1>1, <1>2
<1>4. ASSUME NEW b \in 1..Len(attempt) PROVE AttemptOK(window, applied', cutoff, stored', marker', attempt'[b])
  <2>1. CASE b = a  BY <1>1, <2>1
  <2>2. CASE b # a
    <3>1. attempt'[b] = attempt[b]  BY <1>1, <2>2
    <3>2. AttemptOK(window, applied, cutoff, stored, marker, attempt[b])  BY DEF ReplayInvariant
    <3> QED BY <1>1, <3>1, <3>2, AttemptCarries
  <2> QED BY <2>1, <2>2
<1> QED BY <1>1, <1>3, <1>4 DEF ReplayInvariant

\* Nothing shrinks where the table, the marker and the applied window stay.
LEMMA GrowsTrivially ==
  ASSUME ReplayInvariant
  PROVE  /\ Grows(window, applied, stored, marker, window, applied, stored, marker)
         /\ applied \in Nat /\ marker.window \in Nat /\ window \in Seq(SourceRows)
         /\ \A k \in Keys : stored[k].seq \in Nat
<1>1. \A k \in Keys : stored[k].seq \in Nat
  BY StoredSequence DEF ReplayInvariant
<1>2. applied \in Nat /\ marker.window \in Nat /\ window \in Seq(SourceRows)
  BY DEF ReplayInvariant, MarkerOK
<1> QED BY <1>1, <1>2 DEF Grows

\* A row stored at the window of an attempt is the attempt's own mutation of the key.
LEMMA SameDigest ==
  ASSUME ReplayInvariant, NEW w \in 1..Len(window), ~Blocks(window[w]),
         NEW mut \in collapse_snapshot_mutations(window[w]), stored[mut.key].seq = w
  PROVE  stored[mut.key].digest = mut.digest
<1>1. window[w] \in SourceRows
  BY DEF ReplayInvariant
<1>2. mut.key \in Keys /\ StoredOK(window, stored, mut.key)
  BY <1>1, WindowRows DEF ReplayInvariant
<1>3. stored[mut.key] # AbsentRow
  BY DEF AbsentRow, Unset
<1>4. PICK v \in 1..Len(window) :
        \E r \in collapse_snapshot_mutations(window[v]) :
          /\ r.key = mut.key
          /\ stored[mut.key] = StoredRow(v, r)
  BY <1>2, <1>3 DEF StoredOK
<1>5. v = w
  BY <1>4 DEF StoredRow
<1>6. PICK r \in collapse_snapshot_mutations(window[w]) :
        r.key = mut.key /\ stored[mut.key].digest = r.digest
  BY <1>4, <1>5 DEF StoredRow
<1>7. r = mut
  BY <1>1, <1>6, WindowRows
<1> QED BY <1>6, <1>7

\* What a task at work looks at.
LEMMA TaskAtWork ==
  ASSUME ReplayInvariant, NEW a \in DOMAIN attempt, NEW p \in TaskPartitions, attempt[a].stage = "write"
  PROVE  /\ a \in 1..Len(attempt) /\ attempt[a] \in Attempts
         /\ AttemptOK(window, applied, cutoff, stored, marker, attempt[a])
         /\ attempt[a].window \in 1..Len(window) /\ ~Blocks(window[attempt[a].window])
         /\ window[attempt[a].window] \in SourceRows
         /\ TaskOK(window, cutoff, TaskRows(a, p), stored, attempt[a].window, attempt[a].task[p])
         /\ TaskRows(a, p) \subseteq collapse_snapshot_mutations(window[attempt[a].window])
         /\ \A mut \in TaskRows(a, p) : mut.key \in Keys /\ stored[mut.key].seq \in Nat
         /\ \A mut \in TaskRows(a, p) : Place(TaskRows(a, p), mut) \in 0..(Cardinality(TaskRows(a, p)) - 1)
         /\ Cardinality(TaskRows(a, p)) \in Nat
         /\ Chunk(a, p) = NextSlice(TaskRows(a, p), attempt[a].task[p].offset)
         /\ Chunk(a, p) \subseteq TaskRows(a, p)
<1>1. a \in 1..Len(attempt) /\ attempt[a] \in Attempts
  BY DEF ReplayInvariant
<1>2. AttemptOK(window, applied, cutoff, stored, marker, attempt[a])
  BY <1>1 DEF ReplayInvariant
<1>3. attempt[a].window \in 1..Len(window) /\ ~Blocks(window[attempt[a].window])
  BY <1>2 DEF AttemptOK
<1>4. window[attempt[a].window] \in SourceRows
  BY <1>3 DEF ReplayInvariant
<1>5. TaskOK(window, cutoff, TaskRows(a, p), stored, attempt[a].window, attempt[a].task[p])
  BY <1>2 DEF AttemptOK, TaskRows
<1>6. /\ TaskRows(a, p) \subseteq collapse_snapshot_mutations(window[attempt[a].window])
      /\ Cardinality(TaskRows(a, p)) \in Nat
      /\ \A mut \in TaskRows(a, p) : Place(TaskRows(a, p), mut) \in 0..(Cardinality(TaskRows(a, p)) - 1)
  BY <1>4, PartitionPlaces DEF TaskRows
<1>7. \A mut \in TaskRows(a, p) : mut.key \in Keys /\ stored[mut.key].seq \in Nat
  BY <1>4, <1>6, WindowRows, GrowsTrivially
<1>8. Chunk(a, p) = NextSlice(TaskRows(a, p), attempt[a].task[p].offset)
  BY DEF Chunk, NextSlice
<1>9. Chunk(a, p) \subseteq TaskRows(a, p)
  BY <1>8 DEF NextSlice, Slice
<1> QED BY <1>1, <1>2, <1>3, <1>4, <1>5, <1>6, <1>7, <1>8, <1>9

\* A step of one task.
LEMMA TaskMoves ==
  ASSUME ReplayInvariant, NEW a \in DOMAIN attempt, NEW p \in TaskPartitions, attempt[a].stage = "write",
         NEW t \in Tasks, attempt' = [attempt EXCEPT ![a].task[p] = t],
         UNCHANGED <<window, applied, cutoff, marker>>, DOMAIN stored' = Keys,
         \A k \in Keys : StoredOK(window, stored', k) /\ stored[k].seq <= stored'[k].seq,
         TaskOK(window, cutoff, TaskRows(a, p), stored', attempt[a].window, t)
  PROVE  ReplayInvariant'
<1> DEFINE c == [attempt[a] EXCEPT !.task[p] = t]
<1>1. a \in 1..Len(attempt) /\ attempt[a] \in Attempts /\ AttemptOK(window, applied, cutoff, stored, marker, attempt[a])
  BY TaskAtWork
<1>2. \A k \in Keys : stored[k].seq \in Nat /\ stored'[k].seq \in Nat
  BY GrowsTrivially, StoredSequence
<1>3. Grows(window, applied, stored, marker, window, applied, stored', marker)
  BY <1>2, GrowsTrivially DEF Grows
<1>4. AttemptOK(window, applied, cutoff, stored', marker, attempt[a])
  BY <1>1, <1>3, GrowsTrivially, AttemptCarries
<1>5. /\ c \in Attempts /\ c.window = attempt[a].window /\ c.stage = "write"
      /\ \A q \in TaskPartitions : c.task[q] = IF q = p THEN t ELSE attempt[a].task[q]
  BY <1>1 DEF Attempts
<1>6. AttemptOK(window, applied, cutoff, stored', marker, c)
  <2> HIDE DEF c
  <2>1. \A q \in TaskPartitions :
          TaskOK(window, cutoff, PartitionRows(window[c.window], q), stored', c.window, c.task[q])
    BY <1>4, <1>5 DEF AttemptOK, TaskRows
  <2> QED BY <1>4, <1>5, <2>1 DEF AttemptOK
<1>7. MarkerOK(window, applied, cutoff, stored', marker)
  <2>1. applied <= marker.window /\ MarkerOK(window, applied, cutoff, stored, marker)
    BY DEF ReplayInvariant, MarkerOK
  <2> QED BY <1>3, <2>1, GrowsTrivially, MarkerCarries
<1>8. attempt' = [attempt EXCEPT ![a] = c]
  OBVIOUS
<1> HIDE DEF c
<1> QED BY <1>1, <1>3, <1>6, <1>7, <1>8, GrowsTrivially, AttemptMoves

-----------------------------------------------------------------------------
(* One lemma per action.                                                   *)

\* The preflight finds no conflict: what is stored at this window are its own mutations.
LEMMA PreflightKeeps ==
  ASSUME ReplayInvariant, NEW a \in DOMAIN attempt, NEW p \in TaskPartitions, Preflight(a, p)
  PROVE  ReplayInvariant'
<1> USE DEF Preflight, Task
<1> DEFINE step == IF requires_replay_merge(a, p) THEN "merge" ELSE "verify"
           old == attempt[a].task[p]
           t == [old EXCEPT !.step = step, !.robbed = FALSE]
<1>1. ~detect_same_sequence_conflicts(a, p)
  BY TaskAtWork, SameDigest DEF detect_same_sequence_conflicts
<1>2. old \in Tasks /\ attempt \in Seq(Attempts) /\ a \in 1..Len(attempt)
  BY TaskAtWork DEF Attempts, ReplayInvariant
<1>3. t \in Tasks /\ t.offset = old.offset /\ t.step = step
  BY <1>2 DEF Tasks, Steps
<1>4. attempt' = [attempt EXCEPT ![a].task[p] = t]
  BY <1>1, <1>2 DEF StepTo
<1>5. step = "verify" => Holds(stored, NextSlice(TaskRows(a, p), old.offset), attempt[a].window)
  BY TaskAtWork DEF requires_replay_merge, Holds
<1>6. TaskOK(window, cutoff, TaskRows(a, p), stored, attempt[a].window, t)
  <2> HIDE DEF t, step
  <2>1. TaskOK(window, cutoff, TaskRows(a, p), stored, attempt[a].window, old)  BY TaskAtWork
  <2> QED BY <1>3, <1>5, <2>1 DEF TaskOK
<1>7. /\ DOMAIN stored = Keys
      /\ \A k \in Keys : StoredOK(window, stored, k) /\ stored[k].seq \in Nat /\ stored[k].seq <= stored[k].seq
  BY GrowsTrivially DEF ReplayInvariant
<1> HIDE DEF t, step
<1> QED BY <1>3, <1>4, <1>6, <1>7, TaskMoves

\* A merge raises rows to its window and touches no row that is there already.
LEMMA MergeKeeps ==
  ASSUME ReplayInvariant, NEW a \in DOMAIN attempt, NEW p \in TaskPartitions, Merge(a, p)
  PROVE  ReplayInvariant'
<1> DEFINE w == attempt[a].window
           mut(k) == CHOOSE r \in Chunk(a, p) : r.key = k
           old == attempt[a].task[p]
           t(step) == [old EXCEPT !.step = step, !.robbed = FALSE]
           merged == [k \in Keys |->
               IF (\E r \in Chunk(a, p) : r.key = k) /\ replay_update_condition(w, k)
               THEN StoredRow(w, mut(k))
               ELSE stored[k]]
<1>1. /\ attempt[a].stage = "write" /\ UNCHANGED <<window, applied, cutoff, marker>>
      /\ \/ stored' = merged /\ attempt' = [attempt EXCEPT ![a].task[p] = t("verify")]
         \/ stored' = stored /\ attempt' = [attempt EXCEPT ![a].task[p] = t("read")]
  BY DEF Merge, Task, StepTo
<1>2. old \in Tasks /\ attempt \in Seq(Attempts) /\ a \in 1..Len(attempt)
  BY <1>1, TaskAtWork DEF Attempts, ReplayInvariant
<1>3. \A step \in Steps : t(step) \in Tasks /\ t(step).offset = old.offset /\ t(step).step = step
  BY <1>2 DEF Tasks
<1>4. TaskOK(window, cutoff, TaskRows(a, p), stored, w, old)
  BY <1>1, TaskAtWork
<1>5. /\ DOMAIN stored = Keys
      /\ \A k \in Keys : StoredOK(window, stored, k) /\ stored[k].seq \in Nat /\ stored[k].seq <= stored[k].seq
  BY GrowsTrivially DEF ReplayInvariant
<1>6. w \in Nat /\ w \in 1..Len(window) /\ ~Blocks(window[w])
  BY <1>1, TaskAtWork
<1>7. CASE stored' = stored /\ attempt' = [attempt EXCEPT ![a].task[p] = t("read")]
  <2>1. TaskOK(window, cutoff, TaskRows(a, p), stored, w, t("read"))
    BY <1>3, <1>4 DEF TaskOK, Steps
  <2>2. t("read") \in Tasks  BY <1>3 DEF Steps
  <2> HIDE DEF t
  <2> QED BY <1>1, <1>5, <1>7, <2>1, <2>2, TaskMoves
<1>8. CASE stored' = merged /\ attempt' = [attempt EXCEPT ![a].task[p] = t("verify")]
  <2>1. \A k \in Keys : (\E r \in Chunk(a, p) : r.key = k) => mut(k) \in Chunk(a, p) /\ mut(k).key = k
    OBVIOUS
  <2>2. \A r \in Chunk(a, p) : r \in collapse_snapshot_mutations(window[w]) /\ r.key \in Keys
    BY <1>1, TaskAtWork
  <2>3. ASSUME NEW k \in Keys
        PROVE  /\ StoredOK(window, merged, k) /\ merged[k].seq \in Nat /\ stored[k].seq <= merged[k].seq
               /\ (\E r \in Chunk(a, p) : r.key = k) => merged[k].seq >= w
    <3>1. CASE (\E r \in Chunk(a, p) : r.key = k) /\ replay_update_condition(w, k)
      <4>1. /\ mut(k) \in collapse_snapshot_mutations(window[w]) /\ mut(k).key = k
            /\ merged[k] = StoredRow(w, mut(k))
        BY <2>1, <2>2, <3>1
      <4> HIDE DEF merged, mut
      <4>2. StoredOK(window, merged, k)  BY <1>6, <4>1 DEF StoredOK
      <4>3. merged[k].seq = w  BY <4>1 DEF StoredRow
      <4> QED BY <1>5, <1>6, <3>1, <4>2, <4>3 DEF replay_update_condition
    <3>2. CASE ~((\E r \in Chunk(a, p) : r.key = k) /\ replay_update_condition(w, k))
      <4>1. merged[k] = stored[k]  BY <3>2
      <4> HIDE DEF merged
      <4>2. StoredOK(window, merged, k)  BY <1>5, <4>1 DEF StoredOK
      <4> QED BY <1>5, <1>6, <3>2, <4>1, <4>2 DEF replay_update_condition
    <3> QED BY <3>1, <3>2
  <2>4. DOMAIN merged = Keys  OBVIOUS
  <2> HIDE DEF merged
  <2>5. Holds(merged, NextSlice(TaskRows(a, p), old.offset), w)
    BY <1>1, <2>2, <2>3, TaskAtWork DEF Holds
  <2>6. Kept(window, cutoff, merged, Passed(TaskRows(a, p), old.offset), w)
    <3>1. \A r \in Passed(TaskRows(a, p), old.offset) : r.key \in Keys
      BY <1>1, TaskAtWork DEF Passed
    <3>2. Kept(window, cutoff, stored, Passed(TaskRows(a, p), old.offset), w)  BY <1>4 DEF TaskOK
    <3>3. window \in Seq(SourceRows)  BY DEF ReplayInvariant
    <3> QED BY <1>5, <1>6, <2>3, <3>1, <3>2, <3>3, KeptCarries
  <2>7. TaskOK(window, cutoff, TaskRows(a, p), merged, w, t("verify")) /\ t("verify") \in Tasks
    BY <1>3, <1>4, <2>5, <2>6 DEF TaskOK, Steps
  <2> HIDE DEF t
  <2> QED BY <1>1, <1>8, <2>3, <2>4, <2>7, TaskMoves
<1> QED BY <1>1, <1>7, <1>8

\* The verification passes, and the task goes on behind its chunk, unless retention took a
\* row of it.
LEMMA VerifyKeeps ==
  ASSUME ReplayInvariant, NEW a \in DOMAIN attempt, NEW p \in TaskPartitions, Verify(a, p)
  PROVE  ReplayInvariant'
<1> DEFINE w == attempt[a].window
           old == attempt[a].task[p]
           t == [NewTask EXCEPT !.offset = NextOffset(a, p)]
           R == TaskRows(a, p)
<1>1. /\ attempt[a].stage = "write" /\ old.step = "verify" /\ old.offset # Cardinality(R)
      /\ UNCHANGED <<window, applied, stored, cutoff, marker>>
  BY DEF Verify, Task, TaskEnded
<1>2. /\ TaskOK(window, cutoff, R, stored, w, old) /\ Cardinality(R) \in Nat /\ w \in 1..Len(window)
      /\ ~Blocks(window[w]) /\ old \in Tasks
  BY <1>1, TaskAtWork DEF Attempts
<1>3. Chunk(a, p) = NextSlice(R, old.offset)
  BY <1>1, TaskAtWork
<1>4. ~old.robbed => verify_reconciled_states(a, p)
  <2> SUFFICES ASSUME ~old.robbed, NEW mut \in Chunk(a, p)
               PROVE  \/ stored[mut.key].seq > w
                      \/ stored[mut.key].seq = w /\ stored[mut.key].digest = mut.digest
    BY DEF verify_reconciled_states
  <2>1. mut \in collapse_snapshot_mutations(window[w]) /\ stored[mut.key].seq \in Nat
    BY <1>1, TaskAtWork
  <2>2. stored[mut.key].seq >= w  BY <1>1, <1>2, <1>3 DEF TaskOK, Holds
  <2>3. stored[mut.key].seq = w => stored[mut.key].digest = mut.digest
    BY <1>2, <2>1, SameDigest
  <2> QED BY <1>2, <2>1, <2>2, <2>3
<1>5. /\ DOMAIN stored = Keys
      /\ \A k \in Keys : StoredOK(window, stored, k) /\ stored[k].seq \in Nat /\ stored[k].seq <= stored[k].seq
  BY GrowsTrivially DEF ReplayInvariant
<1>6. CASE verify_reconciled_states(a, p)
  <2>1. attempt' = [attempt EXCEPT ![a].task[p] = t]
    BY <1>6 DEF Verify
  <2>2. old.offset \in 0..(Cardinality(R) - 1)
    BY <1>1, <1>2 DEF TaskOK
  <2>3. replay_table_chunks(R, old.offset) \in Nat /\ replay_table_chunks(R, old.offset) \in 1..(Cardinality(R) - old.offset)
    BY <1>2, <2>2, ChunkAdvances
  <2>4. t.offset = old.offset + replay_table_chunks(R, old.offset) /\ t.step = "read" /\ t.robbed = FALSE
    BY DEF NextOffset, NewTask
  <2>5. Passed(R, t.offset) = Passed(R, old.offset) \cup NextSlice(R, old.offset)
    <3>1. \A mut \in R : Place(R, mut) \in Nat  BY <1>1, TaskAtWork
    <3> HIDE DEF t, R
    <3>2. old.offset \in Nat  BY <1>2, <2>2
    <3>3. Passed(R, old.offset + replay_table_chunks(R, old.offset)) =
            Passed(R, old.offset) \cup Slice(R, old.offset, replay_table_chunks(R, old.offset))
      BY <2>3, <3>1, <3>2, PassedGrows
    <3> QED BY <2>4, <3>3 DEF NextSlice
  <2>6. t.offset \in 0..Cardinality(R) /\ t.offset \in Nat  BY <1>2, <2>2, <2>3, <2>4
  <2>7. t \in Tasks  BY <2>6 DEF Tasks, Steps, NewTask
  <2>8. \A mut \in NextSlice(R, old.offset) : stored[mut.key].seq >= w
    <3> SUFFICES ASSUME NEW mut \in Chunk(a, p) PROVE stored[mut.key].seq >= w
      BY <1>3
    <3>1. stored[mut.key].seq > w \/ stored[mut.key].seq = w  BY <1>6 DEF verify_reconciled_states
    <3>2. stored[mut.key].seq \in Nat /\ w \in Nat  BY <1>1, <1>2, TaskAtWork
    <3> QED BY <3>1, <3>2
  <2>9. Kept(window, cutoff, stored, Passed(R, t.offset), w)
    BY <1>2, <2>5, <2>8 DEF TaskOK, Kept
  <2> HIDE DEF t, R
  <2>10. TaskOK(window, cutoff, R, stored, w, t)
    BY <2>4, <2>6, <2>9 DEF TaskOK
  <2> QED BY <1>1, <1>5, <2>1, <2>7, <2>10, TaskMoves DEF R
<1>7. CASE ~verify_reconciled_states(a, p)
  <2> DEFINE c == [attempt[a] EXCEPT !.stage = "conflict"]
  <2>1. attempt' = [attempt EXCEPT ![a] = c] /\ old.robbed
    <3>1. old.robbed  BY <1>2, <1>4, <1>7 DEF Tasks
    <3> QED BY <1>7, <3>1 DEF Verify, Fails
  <2>2. /\ a \in 1..Len(attempt) /\ attempt[a] \in Attempts
        /\ AttemptOK(window, applied, cutoff, stored, marker, attempt[a])
    BY <1>1, TaskAtWork
  <2>3. c \in Attempts /\ c.window = w /\ c.stage = "conflict" /\ c.task = attempt[a].task
    BY <2>2 DEF Attempts
  <2>4. AttemptOK(window, applied, cutoff, stored, marker, c)
    BY <2>1, <2>2, <2>3 DEF AttemptOK
  <2>5. MarkerOK(window, applied, cutoff, stored, marker)
    BY DEF ReplayInvariant
  <2> HIDE DEF c
  <2> QED BY <1>1, <1>5, <2>1, <2>2, <2>4, <2>5, GrowsTrivially, AttemptMoves
<1> QED BY <1>6, <1>7

\* A task that runs again has passed nothing yet.
LEMMA TaskRetryKeeps ==
  ASSUME ReplayInvariant, NEW a \in DOMAIN attempt, NEW p \in TaskPartitions, TaskRetry(a, p)
  PROVE  ReplayInvariant'
<1>1. /\ attempt[a].stage = "write" /\ UNCHANGED <<window, applied, stored, cutoff, marker>>
      /\ attempt' = [attempt EXCEPT ![a].task[p] = NewTask]
  BY DEF TaskRetry
<1>2. NewTask \in Tasks /\ NewTask.offset = 0 /\ NewTask.step = "read" /\ NewTask.robbed = FALSE
  BY DEF NewTask, Tasks, Steps
<1>3. TaskOK(window, cutoff, TaskRows(a, p), stored, attempt[a].window, NewTask)
  <2>1. \A mut \in TaskRows(a, p) : Place(TaskRows(a, p), mut) \in Nat  BY <1>1, TaskAtWork
  <2>2. Passed(TaskRows(a, p), 0) = {}  BY <2>1, PassedGrows
  <2>3. Cardinality(TaskRows(a, p)) \in Nat  BY <1>1, TaskAtWork
  <2> QED BY <1>2, <2>2, <2>3 DEF TaskOK, Kept
<1>4. /\ DOMAIN stored = Keys
      /\ \A k \in Keys : StoredOK(window, stored, k) /\ stored[k].seq \in Nat /\ stored[k].seq <= stored[k].seq
  BY GrowsTrivially DEF ReplayInvariant
<1> QED BY <1>1, <1>2, <1>3, <1>4, TaskMoves

\* A window that is marked is marked with its own digest.
LEMMA NoCompletionConflict ==
  ASSUME ReplayInvariant, NEW w \in 1..Len(window)
  PROVE  ~completion_conflict(w)
BY DEF completion_conflict, ReplayInvariant, MarkerOK, Unset

\* When every task has ended the whole window is in the table or has expired.
LEMMA EndedTasksHold ==
  ASSUME ReplayInvariant, NEW a \in DOMAIN attempt, attempt[a].stage = "write",
         \A p \in TaskPartitions : TaskEnded(a, p)
  PROVE  Kept(window, cutoff, stored, collapse_snapshot_mutations(window[attempt[a].window]), attempt[a].window)
<1> DEFINE w == attempt[a].window
<1> SUFFICES ASSUME NEW mut \in collapse_snapshot_mutations(window[w])
             PROVE  stored[mut.key].seq >= w \/ Gone(window, cutoff, mut.key, w)
  BY DEF Kept
<1> DEFINE p == PartitionOf[mut.key]
<1>1. window[w] \in SourceRows
  <2>1. AttemptOK(window, applied, cutoff, stored, marker, attempt[a]) /\ window \in Seq(SourceRows)
    BY DEF ReplayInvariant
  <2> QED BY <2>1 DEF AttemptOK
<1>2. mut.key \in Keys /\ p \in TaskPartitions
  BY <1>1, WindowRows DEF TaskPartitions
<1>3. mut \in TaskRows(a, p)
  BY DEF TaskRows, PartitionRows
<1> HIDE DEF p
<1>4. /\ TaskOK(window, cutoff, TaskRows(a, p), stored, w, attempt[a].task[p])
      /\ Place(TaskRows(a, p), mut) \in 0..(Cardinality(TaskRows(a, p)) - 1)
      /\ Cardinality(TaskRows(a, p)) \in Nat
  BY <1>2, <1>3, TaskAtWork
<1>5. mut \in Passed(TaskRows(a, p), attempt[a].task[p].offset)
  BY <1>2, <1>3, <1>4 DEF Passed, TaskEnded
<1> QED BY <1>4, <1>5 DEF TaskOK, Kept

\* The marker moves to the next window only, once that is in the table.
LEMMA FinalizeKeeps ==
  ASSUME ReplayInvariant, NEW a \in DOMAIN attempt, finalize_marker(a)
  PROVE  ReplayInvariant'
<1> DEFINE w == attempt[a].window
           c == [attempt[a] EXCEPT !.stage = "marked"]
           next == [window |-> w, digest |-> terminal_source_digest(window[w])]
<1>1. /\ a \in 1..Len(attempt) /\ attempt[a] \in Attempts /\ attempt[a].stage = "write"
      /\ AttemptOK(window, applied, cutoff, stored, marker, attempt[a])
  BY DEF finalize_marker, ReplayInvariant
<1>2. w \in 1..Len(window) /\ w <= applied + 1 /\ ~Blocks(window[w])
  BY <1>1 DEF AttemptOK
<1>3. MarkerOK(window, applied, cutoff, stored, marker)
  BY DEF ReplayInvariant
<1>4. /\ marker' = IF marker.window >= w THEN marker ELSE next
      /\ attempt' = [attempt EXCEPT ![a] = c]
      /\ UNCHANGED <<window, applied, stored, cutoff>>
  BY <1>2, NoCompletionConflict DEF finalize_marker, completion_is_desired
<1>5. applied \in Nat /\ marker.window \in Nat /\ applied <= marker.window /\ marker.window <= Len(window)
  BY <1>3 DEF MarkerOK
<1>6. /\ marker'.window \in Nat /\ marker.window <= marker'.window /\ w <= marker'.window
      /\ MarkerOK(window, applied, cutoff, stored, marker')
  <2>1. CASE marker.window >= w
    BY <1>3, <1>4, <1>5, <2>1
  <2>2. CASE ~(marker.window >= w)
    <3>1. marker' = next /\ marker'.window = w /\ marker'.digest = terminal_source_digest(window[w])
      BY <1>4, <2>2
    <3>2. w = marker.window + 1
      BY <1>2, <1>5, <2>2
    <3>3. Kept(window, cutoff, stored, collapse_snapshot_mutations(window[w]), w)
      BY EndedTasksHold DEF finalize_marker
    <3>4. \A v \in 1..w : v = w \/ v \in 1..marker.window
      BY <1>5, <3>2
    <3>5. \A v \in 1..w : Kept(window, cutoff, stored, collapse_snapshot_mutations(window[v]), v)
      BY <1>3, <3>3, <3>4 DEF MarkerOK
    <3> QED BY <1>2, <1>5, <3>1, <3>2, <3>5 DEF MarkerOK
  <2> QED BY <2>1, <2>2
<1>7. Grows(window, applied, stored, marker, window, applied, stored, marker')
  BY <1>6, GrowsTrivially DEF Grows
<1>8. c \in Attempts /\ c.window = w /\ c.stage = "marked"
  BY <1>1 DEF Attempts
<1>9. AttemptOK(window, applied, cutoff, stored, marker', c)
  BY <1>2, <1>6, <1>8 DEF AttemptOK
<1> HIDE DEF c
<1> QED BY <1>1, <1>4, <1>5, <1>6, <1>7, <1>9, AttemptMoves DEF ReplayInvariant

\* The database follows the marker.
LEMMA CompleteKeeps ==
  ASSUME ReplayInvariant, NEW a \in DOMAIN attempt, CompleteIngest(a)
  PROVE  ReplayInvariant'
<1> DEFINE c == [attempt[a] EXCEPT !.stage = "ended"]
<1>1. /\ a \in 1..Len(attempt) /\ attempt[a] \in Attempts /\ attempt[a].stage = "marked"
      /\ AttemptOK(window, applied, cutoff, stored, marker, attempt[a])
  BY DEF CompleteIngest, ReplayInvariant
<1>2. /\ attempt[a].window \in 1..Len(window) /\ attempt[a].window <= applied + 1
      /\ ~Blocks(window[attempt[a].window]) /\ attempt[a].window <= marker.window
  BY <1>1 DEF AttemptOK
<1>3. /\ applied' = IF attempt[a].window = applied + 1 THEN applied + 1 ELSE applied
      /\ attempt' = [attempt EXCEPT ![a] = c] /\ UNCHANGED <<window, stored, cutoff, marker>>
  BY DEF CompleteIngest
<1>4. applied \in Nat /\ marker.window \in Nat /\ MarkerOK(window, applied, cutoff, stored, marker) /\ applied <= marker.window
  BY DEF ReplayInvariant, MarkerOK
<1>5. applied' \in Nat /\ applied <= applied' /\ applied' <= marker.window
  BY <1>2, <1>3, <1>4
<1>6. Grows(window, applied, stored, marker, window, applied', stored, marker)
  BY <1>4, <1>5, GrowsTrivially DEF Grows
<1>7. MarkerOK(window, applied', cutoff, stored, marker)
  BY <1>4, <1>5, <1>6, GrowsTrivially, MarkerCarries
<1>8. c \in Attempts /\ c.window = attempt[a].window /\ c.stage = "ended"
  BY <1>1 DEF Attempts
<1>9. AttemptOK(window, applied', cutoff, stored, marker, c)
  BY <1>2, <1>4, <1>5, <1>8 DEF AttemptOK
<1> HIDE DEF c
<1> QED BY <1>1, <1>3, <1>4, <1>5, <1>6, <1>7, <1>9, AttemptMoves DEF ReplayInvariant

\* A new attempt starts behind the applied windows with nothing passed.
LEMMA BeginKeeps ==
  ASSUME ReplayInvariant, BeginAttempt
  PROVE  ReplayInvariant'
<1> DEFINE w == applied + 1
           c == [window |-> w, stage |-> IF marker.window >= w THEN "marked" ELSE "write",
                 task |-> [p \in TaskPartitions |-> NewTask]]
<1>1. /\ applied \in Nat /\ marker.window \in Nat /\ window \in Seq(SourceRows)
      /\ \A k \in Keys : stored[k].seq \in Nat
  BY GrowsTrivially
<1>2. w \in 1..Len(window) /\ ~Blocks(window[w]) /\ UNCHANGED <<window, applied, stored, cutoff, marker>>
  BY <1>1 DEF BeginAttempt
<1>3. attempt' = Append(attempt, c)
  <2>1. ~completion_conflict(w)  BY <1>2, NoCompletionConflict
  <2> QED BY <2>1 DEF BeginAttempt, completion_is_desired
<1>4. c \in Attempts /\ c.window = w /\ c.stage = IF marker.window >= w THEN "marked" ELSE "write"
  BY <1>1 DEF Attempts, NewTask, Tasks, Steps
<1>5. ASSUME NEW p \in TaskPartitions
      PROVE  TaskOK(window, cutoff, PartitionRows(window[w], p), stored, w, c.task[p])
  <2> DEFINE R == PartitionRows(window[w], p)
  <2>1. Cardinality(R) \in Nat /\ \A mut \in R : Place(R, mut) \in Nat
    BY <1>1, <1>2, PartitionPlaces
  <2>2. Passed(R, 0) = {}  BY <2>1, PassedGrows
  <2>3. c.task[p].offset = 0 /\ c.task[p].step = "read"  BY DEF NewTask
  <2> QED BY <2>1, <2>2, <2>3 DEF TaskOK, Kept
<1> HIDE DEF c
<1>6. AttemptOK(window, applied, cutoff, stored, marker, c)
  BY <1>1, <1>2, <1>4, <1>5 DEF AttemptOK
<1>7. attempt \in Seq(Attempts) /\ \A b \in 1..Len(attempt) : AttemptOK(window, applied, cutoff, stored, marker, attempt[b])
  BY DEF ReplayInvariant
<1>8. attempt' \in Seq(Attempts) /\ \A b \in 1..Len(attempt') : AttemptOK(window, applied, cutoff, stored, marker, attempt'[b])
  BY <1>3, <1>4, <1>6, <1>7
<1> QED BY <1>2, <1>8 DEF ReplayInvariant

\* A window that arrives changes none of the others.
LEMMA ArriveKeeps ==
  ASSUME ReplayInvariant, Arrive
  PROVE  ReplayInvariant'
<1>1. /\ applied \in Nat /\ marker.window \in Nat /\ window \in Seq(SourceRows)
      /\ \A k \in Keys : stored[k].seq \in Nat
  BY GrowsTrivially
<1>2. window' \in Seq(SourceRows) /\ Len(window) <= Len(window') /\ \A v \in 1..Len(window) : window'[v] = window[v]
  BY <1>1 DEF Arrive
<1>3. UNCHANGED <<applied, stored, cutoff, marker, attempt>>
  BY DEF Arrive
<1>4. Grows(window, applied, stored, marker, window', applied, stored, marker)
  BY <1>1, <1>2 DEF Grows
<1>5. \A k \in Keys : StoredOK(window', stored, k)
  BY <1>1, <1>2, StoredCarries DEF ReplayInvariant
<1>6. MarkerOK(window', applied, cutoff, stored, marker)
  <2>1. MarkerOK(window, applied, cutoff, stored, marker) /\ applied <= marker.window
    BY DEF ReplayInvariant, MarkerOK
  <2> QED BY <1>1, <1>2, <1>4, <2>1, MarkerCarries
<1>7. \A b \in 1..Len(attempt) : AttemptOK(window', applied, cutoff, stored, marker, attempt[b])
  BY <1>1, <1>2, <1>4, AttemptCarries DEF ReplayInvariant
<1> QED BY <1>2, <1>3, <1>5, <1>6, <1>7 DEF ReplayInvariant

\* The larger of two numbers.
LEMMA LargerOne ==
  ASSUME NEW m \in Nat, NEW n \in Nat
  PROVE  Max({m, n}) \in Nat /\ m <= Max({m, n}) /\ n <= Max({m, n})
<1>1. \E x \in {m, n} : \A y \in {m, n} : x >= y
  <2>1. CASE m >= n  BY <2>1
  <2>2. CASE ~(m >= n)  BY <2>2
  <2> QED BY <2>1, <2>2
<1>2. PICK x \in {m, n} : x = Max({m, n}) /\ \A y \in {m, n} : x >= y
  BY <1>1 DEF Max
<1> QED BY <1>2

\* What is past its retention stays so.
LEMMA ExpiryLasts ==
  ASSUME NEW rows \in SourceRows, NEW mut \in collapse_snapshot_mutations(rows),
         NEW c \in Nat, NEW d \in Nat, c <= d, retention_predicate(mut, c)
  PROVE  retention_predicate(mut, d)
<1>1. mut.ts \in Nat /\ extra_seconds \in Nat
  BY WindowRows, ReplayAssumption DEF ReplayAssumption
<1>2. CASE mut.deleted  BY <1>1, <1>2 DEF retention_predicate
<1>3. CASE ~mut.deleted  BY <1>1, <1>3 DEF retention_predicate
<1> QED BY <1>2, <1>3

\* A retention pass takes rows that are past their retention, and marks the tasks it robs.
LEMMA RetentionKeeps ==
  ASSUME ReplayInvariant, run_retention
  PROVE  ReplayInvariant'
<1> DEFINE expired(c) == {k \in Keys : stored[k].seq # Unset /\ retention_predicate(stored[k], c)}
           robs(c, a, p) == Task(a, p, "verify") /\ \E mut \in Chunk(a, p) : mut.key \in expired(c)
<1>1. PICK c \in Cutoffs :
        /\ stored' = [k \in Keys |-> IF k \in expired(c) THEN AbsentRow ELSE stored[k]]
        /\ cutoff' = Max({cutoff, c})
        /\ attempt' = [a \in DOMAIN attempt |-> [attempt[a] EXCEPT !.task =
             [p \in TaskPartitions |-> IF robs(c, a, p) THEN [attempt[a].task[p] EXCEPT !.robbed = TRUE]
                                                       ELSE attempt[a].task[p]]]]
        /\ UNCHANGED <<window, applied, marker>>
  BY DEF run_retention
<1> DEFINE E == expired(c)
<1>2. /\ window \in Seq(SourceRows) /\ attempt \in Seq(Attempts) /\ DOMAIN stored = Keys /\ cutoff \in Nat
      /\ \A k \in Keys : StoredOK(window, stored, k) /\ stored[k].seq \in Nat
      /\ applied \in Nat /\ marker.window \in Nat
  BY GrowsTrivially DEF ReplayInvariant
<1>3. c \in Nat /\ cutoff' \in Nat /\ cutoff <= cutoff' /\ c <= cutoff'
  <2>1. c \in Nat  BY ReplayAssumption DEF ReplayAssumption
  <2> QED BY <1>1, <1>2, <2>1, LargerOne
<1>4. ASSUME NEW k \in Keys PROVE StoredOK(window, stored', k)
  <2>1. stored'[k] = IF k \in E THEN AbsentRow ELSE stored[k]  BY <1>1
  <2> HIDE DEF E
  <2> QED BY <1>2, <2>1 DEF StoredOK
<1>5. ASSUME NEW k \in E, NEW w \in Nat, stored[k].seq >= w PROVE Gone(window, cutoff', k, w)
  <2>1. k \in Keys /\ stored[k].seq # Unset /\ retention_predicate(stored[k], c)  OBVIOUS
  <2>2. stored[k] # AbsentRow  BY <2>1 DEF AbsentRow
  <2>3. PICK v \in 1..Len(window) :
          \E mut \in collapse_snapshot_mutations(window[v]) : mut.key = k /\ stored[k] = StoredRow(v, mut)
    BY <1>2, <2>1, <2>2 DEF StoredOK
  <2>4. PICK mut \in collapse_snapshot_mutations(window[v]) : mut.key = k /\ stored[k] = StoredRow(v, mut)
    BY <2>3
  <2>5. stored[k].seq = v /\ stored[k].ts = mut.ts /\ stored[k].deleted = mut.deleted
    BY <2>4 DEF StoredRow
  <2>6. retention_predicate(mut, c)  BY <2>1, <2>5 DEF retention_predicate
  <2>7. window[v] \in SourceRows  BY <1>2
  <2>8. retention_predicate(mut, cutoff')  BY <1>3, <2>6, <2>7, ExpiryLasts
  <2> QED BY <1>5, <2>4, <2>5, <2>8 DEF Gone
<1>6. ASSUME NEW k, NEW w, Gone(window, cutoff, k, w) PROVE Gone(window, cutoff', k, w)
  <2>1. PICK v \in 1..Len(window) : \E mut \in collapse_snapshot_mutations(window[v]) :
          v >= w /\ mut.key = k /\ retention_predicate(mut, cutoff)
    BY <1>6 DEF Gone
  <2>2. PICK mut \in collapse_snapshot_mutations(window[v]) :
          v >= w /\ mut.key = k /\ retention_predicate(mut, cutoff)
    BY <2>1
  <2>3. window[v] \in SourceRows  BY <1>2
  <2>4. retention_predicate(mut, cutoff')  BY <1>2, <1>3, <2>2, <2>3, ExpiryLasts
  <2> QED BY <2>2, <2>4 DEF Gone
<1>7. \A k \in Keys : k \notin E => stored'[k] = stored[k]
  BY <1>1
<1> HIDE DEF E
<1>8. ASSUME NEW rows, NEW w \in Nat, \A mut \in rows : mut.key \in Keys, Kept(window, cutoff, stored, rows, w)
      PROVE  Kept(window, cutoff', stored', rows, w)
  <2> SUFFICES ASSUME NEW mut \in rows
               PROVE  stored'[mut.key].seq >= w \/ Gone(window, cutoff', mut.key, w)
    BY DEF Kept
  <2>1. mut.key \in Keys /\ (stored[mut.key].seq >= w \/ Gone(window, cutoff, mut.key, w))
    BY <1>8 DEF Kept
  <2>2. CASE Gone(window, cutoff, mut.key, w)  BY <1>6, <2>2
  <2>3. CASE stored[mut.key].seq >= w /\ mut.key \in E  BY <1>5, <2>3
  <2>4. CASE stored[mut.key].seq >= w /\ mut.key \notin E  BY <1>7, <2>1, <2>4
  <2> QED BY <2>1, <2>2, <2>3, <2>4
<1>9. MarkerOK(window, applied, cutoff', stored', marker)
  <2>1. MarkerOK(window, applied, cutoff, stored, marker)  BY DEF ReplayInvariant
  <2>2. ASSUME NEW v \in 1..marker.window
        PROVE  Kept(window, cutoff', stored', collapse_snapshot_mutations(window[v]), v)
    <3>1. v \in Nat /\ window[v] \in SourceRows  BY <1>2, <2>1 DEF MarkerOK
    <3>2. \A mut \in collapse_snapshot_mutations(window[v]) : mut.key \in Keys  BY <3>1, WindowRows
    <3> QED BY <1>8, <2>1, <3>1, <3>2 DEF MarkerOK
  <2> QED BY <2>1, <2>2 DEF MarkerOK
<1>10. ASSUME NEW a \in 1..Len(attempt)
       PROVE  AttemptOK(window, applied, cutoff', stored', marker, attempt'[a])
  <2> DEFINE b == attempt[a]
             d == attempt'[a]
             w == b.window
  <2>1. b \in Attempts /\ a \in DOMAIN attempt /\ AttemptOK(window, applied, cutoff, stored, marker, b)
    BY <1>2 DEF ReplayInvariant
  <2>2. d = [b EXCEPT !.task = [p \in TaskPartitions |->
               IF robs(c, a, p) THEN [b.task[p] EXCEPT !.robbed = TRUE] ELSE b.task[p]]]
    BY <1>1, <2>1
  <2>3. \A p \in TaskPartitions : b.task[p] \in Tasks
    BY <2>1 DEF Attempts
  <2>4. \A p \in TaskPartitions : [b.task[p] EXCEPT !.robbed = TRUE] \in Tasks
    BY <2>3 DEF Tasks
  <2>5. /\ d \in Attempts /\ d.window = w /\ d.stage = b.stage
        /\ \A p \in TaskPartitions :
             d.task[p] = IF robs(c, a, p) THEN [b.task[p] EXCEPT !.robbed = TRUE] ELSE b.task[p]
    <3> HIDE DEF robs
    <3> QED BY <2>1, <2>2, <2>3, <2>4 DEF Attempts
  <2>6. ASSUME NEW p \in TaskPartitions
        PROVE  /\ d.task[p].offset = b.task[p].offset /\ d.task[p].step = b.task[p].step
               /\ b.task[p].robbed \/ robs(c, a, p) => d.task[p].robbed
    <3> HIDE DEF robs
    <3>1. CASE robs(c, a, p)  BY <2>3, <2>5, <3>1 DEF Tasks
    <3>2. CASE ~robs(c, a, p)  BY <2>3, <2>5, <3>2 DEF Tasks
    <3> QED BY <3>1, <3>2
  <2>7. ASSUME b.stage = "write", NEW p \in TaskPartitions
        PROVE  TaskOK(window, cutoff', PartitionRows(window[w], p), stored', w, d.task[p])
    <3> DEFINE R == TaskRows(a, p)
               t == b.task[p]
    <3>1. /\ TaskOK(window, cutoff, R, stored, w, t) /\ w \in Nat /\ \A mut \in R : mut.key \in Keys
          /\ Chunk(a, p) = NextSlice(R, t.offset) /\ Chunk(a, p) \subseteq R
      BY <2>1, <2>7, TaskAtWork DEF Attempts
    <3>2. Kept(window, cutoff', stored', Passed(R, t.offset), w)
      <4>1. \A mut \in Passed(R, t.offset) : mut.key \in Keys  BY <3>1 DEF Passed
      <4> QED BY <1>8, <3>1, <4>1 DEF TaskOK
    <3>3. ASSUME t.step = "verify", t.offset # Cardinality(R), ~d.task[p].robbed
          PROVE  Holds(stored', NextSlice(R, t.offset), w)
      <4>1. ~t.robbed /\ ~robs(c, a, p)  BY <2>6, <3>3
      <4>2. Task(a, p, "verify")  BY <2>7, <3>3 DEF Task, TaskEnded
      <4>3. \A mut \in Chunk(a, p) : mut.key \notin E  BY <4>1, <4>2 DEF E
      <4>4. Holds(stored, NextSlice(R, t.offset), w)  BY <3>1, <3>3, <4>1 DEF TaskOK
      <4> QED BY <1>7, <3>1, <4>3, <4>4 DEF Holds
    <3>4. R = PartitionRows(window[w], p)  BY DEF TaskRows
    <3>5. t.offset \in 0..Cardinality(R)  BY <3>1 DEF TaskOK
    <3> HIDE DEF R, t
    <3>6. TaskOK(window, cutoff', R, stored', w, d.task[p])
      <4>1. d.task[p].offset = t.offset /\ d.task[p].step = t.step  BY <2>6 DEF t
      <4> HIDE DEF d
      <4> QED BY <3>2, <3>3, <3>5, <4>1 DEF TaskOK
    <3> QED BY <3>4, <3>6
  <2>8. b.stage = "conflict" => \E p \in TaskPartitions : d.task[p].robbed
    BY <2>1, <2>6 DEF AttemptOK
  <2> HIDE DEF d, b
  <2> QED BY <2>1, <2>5, <2>7, <2>8 DEF AttemptOK, d
<1>11. attempt' \in Seq(Attempts) /\ Len(attempt') = Len(attempt)
  <2>1. \A a \in 1..Len(attempt) : attempt'[a] \in Attempts
    BY <1>10 DEF AttemptOK
  <2>2. attempt' = [a \in 1..Len(attempt) |-> attempt'[a]]
    BY <1>1, <1>2
  <2>3. Len(attempt) \in Nat  BY <1>2
  <2>4. attempt' \in [1..Len(attempt) -> Attempts]  BY <2>1, <2>2
  <2> QED BY <2>3, <2>4
<1>12. DOMAIN stored' = Keys /\ window' = window /\ applied' = applied /\ marker' = marker
  BY <1>1
<1> QED BY <1>2, <1>3, <1>4, <1>9, <1>10, <1>11, <1>12 DEF ReplayInvariant

-----------------------------------------------------------------------------

\* What tasks have passed, what is marked and what is applied is in the table or has
\* expired, in that order, whatever attempts and retention passes overlap.
THEOREM ReplaySafety == ReplaySpec => []ReplayInvariant
<1>1. ReplayInit => ReplayInvariant
  <2> SUFFICES ASSUME ReplayInit PROVE ReplayInvariant  OBVIOUS
  <2>1. window = <<>> /\ attempt = <<>> /\ applied = 0 /\ cutoff = 0 /\ marker = [window |-> Unset, digest |-> Unset]
    BY DEF ReplayInit
  <2>2. DOMAIN stored = Keys /\ \A k \in Keys : stored[k] = AbsentRow
    BY DEF ReplayInit
  <2>3. MarkerOK(window, applied, cutoff, stored, marker)
    BY <2>1 DEF MarkerOK, Unset
  <2> QED BY <2>1, <2>2, <2>3 DEF ReplayInvariant, StoredOK
<1>2. ReplayInvariant /\ [ReplayNext]_replayVars => ReplayInvariant'
  <2> SUFFICES ASSUME ReplayInvariant, [ReplayNext]_replayVars PROVE ReplayInvariant'  OBVIOUS
  <2>1. CASE UNCHANGED replayVars
    BY <2>1 DEF replayVars, ReplayInvariant
  <2>2. CASE ReplayNext
    BY <2>2, ArriveKeeps, BeginKeeps, FinalizeKeeps, CompleteKeeps, PreflightKeeps, MergeKeeps,
       VerifyKeeps, TaskRetryKeeps, RetentionKeeps DEF ReplayNext
  <2> QED BY <2>1, <2>2
<1> QED BY <1>1, <1>2, PTL DEF ReplaySpec

\* No attempt, however late or repeated, is told of a conflict unless retention took rows it
\* had just written (detect_same_sequence_conflicts, verify_reconciled_states,
\* completion_is_desired).
THEOREM NoFalseConflictHolds == ReplaySpec => []NoFalseConflict
<1>1. ReplayInvariant => NoFalseConflict
  BY DEF ReplayInvariant, AttemptOK, NoFalseConflict
<1> QED BY <1>1, ReplaySafety, PTL

\* A table marked with a window holds every key's last mutation up to it or a later one,
\* unless such a mutation is past its retention, and nothing that no window said; with event
\* times in order, an older live row that is back is past its retention
\* (replay_update_condition, finalize_marker, retention_predicate).
THEOREM MarkedTableIsCompleteHolds == ReplaySpec => []MarkedTableIsComplete
<1>1. ReplayInvariant => MarkedTableIsComplete
  <2> SUFFICES ASSUME ReplayInvariant, NEW k \in Keys
               PROVE  LET seq == stored[k].seq
                          last == LastWindow(k, marker.window) IN
                      /\ seq >= last \/ Expired(k, last)
                      /\ stored[k] = IF seq = Unset THEN AbsentRow ELSE Terminal(k, seq)
                      /\ seq # Unset /\ seq < last /\ EventsInOrder(k) => stored[k].deleted \/ stored[k].ts < cutoff
    BY DEF MarkedTableIsComplete
  <2> DEFINE seq == stored[k].seq
             last == LastWindow(k, marker.window)
  <2>1. /\ window \in Seq(SourceRows) /\ StoredOK(window, stored, k) /\ seq \in Nat /\ cutoff \in Nat
        /\ MarkerOK(window, applied, cutoff, stored, marker) /\ marker.window \in Nat
    BY GrowsTrivially DEF ReplayInvariant
  <2>2. last \in Nat /\ (seq >= last \/ Expired(k, last))
    <3> DEFINE V == {v \in 1..marker.window : \E mut \in window[v] : mut.key = k}
    <3>1. \A v \in {Unset} \cup V : v \in Nat /\ (seq >= v \/ Gone(window, cutoff, k, v))
      <4>1. seq >= Unset /\ Unset \in Nat  BY <2>1 DEF Unset
      <4>2. ASSUME NEW v \in V PROVE (seq >= v \/ Gone(window, cutoff, k, v)) /\ v \in Nat
        <5>1. PICK mut \in window[v] : mut.key = k  OBVIOUS
        <5>2. normalize_terminal(mut) \in collapse_snapshot_mutations(window[v])
          BY DEF collapse_snapshot_mutations
        <5>3. normalize_terminal(mut).key = k  BY <5>1 DEF normalize_terminal
        <5>4. v \in 1..marker.window /\ v \in Nat  BY <2>1
        <5> QED BY <2>1, <5>2, <5>3, <5>4 DEF MarkerOK, Kept
      <4> QED BY <4>1, <4>2
    <3>2. Max({Unset} \cup V) \in {Unset} \cup V
      <4>1. V \in SUBSET (1..marker.window)  OBVIOUS
      <4> HIDE DEF V
      <4> QED BY <2>1, <4>1, GreatestWindow
    <3>3. last = Max({Unset} \cup V)  BY DEF LastWindow
    <3> HIDE DEF V, last
    <3>4. last \in Nat /\ (seq >= last \/ Gone(window, cutoff, k, last))  BY <3>1, <3>2, <3>3
    <3> QED BY <3>4 DEF Gone, Expired, retention_predicate
  <2>3. stored[k] # AbsentRow =>
          \E w \in 1..Len(window) : \E mut \in collapse_snapshot_mutations(window[w]) :
            /\ ~Blocks(window[w]) /\ mut.key = k /\ stored[k] = StoredRow(w, mut)
    BY <2>1 DEF StoredOK
  <2>4. stored[k] = IF seq = Unset THEN AbsentRow ELSE Terminal(k, seq)
    <3>1. CASE stored[k] = AbsentRow
      BY <3>1 DEF AbsentRow
    <3>2. CASE stored[k] # AbsentRow
      <4>1. PICK w \in 1..Len(window) : \E mut \in collapse_snapshot_mutations(window[w]) :
              /\ ~Blocks(window[w]) /\ mut.key = k /\ stored[k] = StoredRow(w, mut)
        BY <2>3, <3>2
      <4>2. PICK mut \in collapse_snapshot_mutations(window[w]) :
              /\ ~Blocks(window[w]) /\ mut.key = k /\ stored[k] = StoredRow(w, mut)
        BY <4>1
      <4>3. window[w] \in SourceRows  BY <2>1
      <4>4. (CHOOSE r \in collapse_snapshot_mutations(window[w]) : r.key = k) = mut
        BY <4>2, <4>3, WindowRows
      <4>5. stored[k].seq = w /\ w # Unset  BY <4>2 DEF Unset, StoredRow
      <4>6. Terminal(k, w) = stored[k]  BY <4>2, <4>4 DEF Terminal
      <4> QED BY <4>5, <4>6
    <3> QED BY <3>1, <3>2
  <2>5. ASSUME seq # Unset, seq < last, EventsInOrder(k) PROVE stored[k].deleted \/ stored[k].ts < cutoff
    <3>1. PICK v \in 1..Len(window) : \E new \in collapse_snapshot_mutations(window[v]) :
            v >= last /\ new.key = k /\ new.ts + (IF new.deleted THEN extra_seconds ELSE 0) < cutoff
      <4>1. Expired(k, last)  BY <2>1, <2>2, <2>5
      <4> HIDE DEF last
      <4> QED BY <4>1 DEF Expired
    <3>2. PICK new \in collapse_snapshot_mutations(window[v]) :
            v >= last /\ new.key = k /\ new.ts + (IF new.deleted THEN extra_seconds ELSE 0) < cutoff
      BY <3>1
    <3>3. new.ts \in Nat /\ extra_seconds \in Nat
      <4>1. window[v] \in SourceRows  BY <2>1
      <4> QED BY <4>1, WindowRows, ReplayAssumption DEF ReplayAssumption
    <3>4. new.ts < cutoff
      <4>1. CASE new.deleted  BY <2>1, <3>2, <3>3, <4>1
      <4>2. CASE ~new.deleted  BY <2>1, <3>2, <3>3, <4>2
      <4> QED BY <4>1, <4>2
    <3>5. CASE stored[k] = AbsentRow
      BY <2>5, <3>5 DEF AbsentRow
    <3>6. CASE stored[k] # AbsentRow
      <4>1. PICK w \in 1..Len(window) : \E mut \in collapse_snapshot_mutations(window[w]) :
              /\ ~Blocks(window[w]) /\ mut.key = k /\ stored[k] = StoredRow(w, mut)
        BY <2>3, <3>6
      <4>2. PICK mut \in collapse_snapshot_mutations(window[w]) :
              /\ ~Blocks(window[w]) /\ mut.key = k /\ stored[k] = StoredRow(w, mut)
        BY <4>1
      <4>3. seq = w /\ stored[k].ts = mut.ts  BY <4>2 DEF StoredRow
      <4>4. w <= v
        <5> HIDE DEF last, seq
        <5> QED BY <2>2, <2>5, <3>2, <4>3
      <4>5. mut.ts <= new.ts  BY <2>5, <3>2, <4>2, <4>4 DEF EventsInOrder
      <4>6. mut.ts \in Nat
        <5>1. window[w] \in SourceRows  BY <2>1
        <5> QED BY <5>1, WindowRows
      <4> QED BY <2>1, <3>3, <3>4, <4>3, <4>5, <4>6
    <3> QED BY <3>5, <3>6
  <2> QED BY <2>2, <2>4, <2>5
<1> QED BY <1>1, ReplaySafety, PTL

-----------------------------------------------------------------------------
(* The statements that complete or gate a snapshot.                        *)

\* A freshly sealed snapshot satisfies the witness invariant.
LEMMA WitnessInit ==
  ASSUME Init
  PROVE  CompletionWitness
BY HoldersAssumption
   DEF HoldersAssumption, Init, CompletionWitness, TypeOK, NeverEarly, GateIdle, incomplete, AllApplied, Gate

\* Every statement of a completion preserves it.
LEMMA WitnessIngest ==
  ASSUME CompletionWitness, NEW d \in Datasets,
         ApplyIngest(d) \/ complete_snapshot_if_applied(d) \/ CommitIngest(d) \/ AbortIngest(d)
  PROVE  CompletionWitness'
<1> USE DEF CompletionWitness
<1>1. CASE ApplyIngest(d)
  BY <1>1, HoldersAssumption DEF HoldersAssumption, ApplyIngest, TypeOK, NeverEarly, incomplete, AllApplied
<1>2. CASE complete_snapshot_if_applied(d)
  <2>1. TypeOK'
    BY <1>2 DEF complete_snapshot_if_applied, TypeOK
  <2>2. \A e \in Datasets : txn'[e] # "idle" => row'[e] = "RUNNING"
    BY <1>2 DEF complete_snapshot_if_applied, TypeOK
  <2>3. \A e \in Datasets : lock' = e => txn'[e] = "marked" /\ ~incomplete(e)'
    BY <1>2, HoldersAssumption DEF HoldersAssumption, complete_snapshot_if_applied, qualifies, TypeOK, incomplete
  <2> QED BY <1>2, <2>1, <2>2, <2>3 DEF complete_snapshot_if_applied, NeverEarly, AllApplied
<1>3. CASE CommitIngest(d)
  <2>1. /\ row' = [row EXCEPT ![d] = "SUCCEEDED"] /\ txn' = [txn EXCEPT ![d] = "idle"]
        /\ lock' = IF lock = d THEN Nobody ELSE lock
        /\ snap' = IF lock = d THEN "COMPLETE" ELSE snap
        /\ UNCHANGED <<gate, gates, aborts>>
    BY <1>3 DEF CommitIngest, Unlocked
  <2>2. TypeOK'
    BY <2>1 DEF TypeOK
  <2>3. AllApplied => AllApplied'
    BY <2>1 DEF AllApplied, TypeOK
  <2>4. lock = d => AllApplied'
    BY <2>1 DEF AllApplied, TypeOK, incomplete
  <2>5. NeverEarly'
    BY <2>1, <2>3, <2>4 DEF NeverEarly
  <2>6. \A e \in Datasets : txn'[e] # "idle" => row'[e] = "RUNNING"
    BY <2>1 DEF TypeOK
  <2>7. \A e \in Datasets : lock' = e => txn'[e] = "marked" /\ ~incomplete(e)'
    BY <2>1, HoldersAssumption DEF HoldersAssumption, TypeOK, incomplete
  <2> QED BY <2>1, <2>2, <2>3, <2>5, <2>6, <2>7
<1>4. CASE AbortIngest(d)
  <2>1. /\ txn' = [txn EXCEPT ![d] = "idle"] /\ aborts' \in 0..MaxAborts
        /\ lock' = IF lock = d THEN Nobody ELSE lock
        /\ UNCHANGED <<row, snap, gate, gates>>
    BY <1>4, HoldersAssumption DEF HoldersAssumption, AbortIngest, Unlocked, TypeOK
  <2>2. TypeOK' /\ NeverEarly' /\ (gate'.next = "COMPLETE" => AllApplied')
    BY <2>1 DEF TypeOK, NeverEarly, AllApplied
  <2>3. \A e \in Datasets : txn'[e] # "idle" => row'[e] = "RUNNING"
    BY <2>1 DEF TypeOK
  <2>4. \A e \in Datasets : lock' = e => txn'[e] = "marked" /\ ~incomplete(e)'
    BY <2>1, HoldersAssumption DEF HoldersAssumption, TypeOK, incomplete
  <2> QED BY <2>2, <2>3, <2>4
<1> QED BY <1>1, <1>2, <1>3, <1>4

\* So does every statement of a gate transaction.
LEMMA WitnessGate ==
  ASSUME CompletionWitness,
         \/ block_source_snapshot \/ retry_blocked_source_snapshot
         \/ RestoredState \/ CommitGate
  PROVE  CompletionWitness'
<1> USE DEF CompletionWitness
<1>1. CASE block_source_snapshot \/ retry_blocked_source_snapshot
  <2>1. /\ lock' = Gate /\ gate' \in [op : {"block", "retry"}, next : {"BLOCKED", "unread"}]
        /\ gates' \in 0..MaxGates /\ UNCHANGED <<row, snap, txn, aborts>>
    BY <1>1, HoldersAssumption
       DEF HoldersAssumption, block_source_snapshot, retry_blocked_source_snapshot, LockSnapshot, TypeOK
  <2> QED BY <2>1, HoldersAssumption DEF HoldersAssumption, TypeOK, NeverEarly, AllApplied
<1>2. CASE RestoredState
  <2>1. UNCHANGED <<row, snap, txn, lock, gates, aborts>>
    BY <1>2 DEF RestoredState
  <2>2. /\ gate' \in [op : {"none", "block", "retry"}, next : {"unread", "SEALED", "COMPLETE", "BLOCKED"}]
        /\ gate'.next = "COMPLETE" => AllApplied
    BY <1>2 DEF RestoredState, TypeOK, AllApplied
  <2> QED BY <2>1, <2>2 DEF TypeOK, NeverEarly, AllApplied, incomplete
<1>3. CASE CommitGate
  <2>1. /\ snap' = gate.next /\ gate' = GateIdle /\ gate.next # "unread"
        /\ lock' = IF lock = Gate THEN Nobody ELSE lock
        /\ UNCHANGED <<row, txn, gates, aborts>>
    BY <1>3 DEF CommitGate, Unlocked
  <2>2. TypeOK'
    BY <2>1 DEF TypeOK, GateIdle
  <2>3. NeverEarly' /\ gate'.next # "COMPLETE"
    BY <2>1 DEF NeverEarly, AllApplied, GateIdle
  <2>4. \A e \in Datasets : lock' = e => txn'[e] = "marked" /\ ~incomplete(e)'
    BY <2>1, HoldersAssumption DEF HoldersAssumption, incomplete
  <2> QED BY <2>1, <2>2, <2>3, <2>4
<1> QED BY <1>1, <1>2, <1>3

\* The witness invariant holds in every reachable state: what a completion or a
\* repair in flight has seen committed stays committed until it ends.
THEOREM WitnessHolds == Spec => []CompletionWitness
<1>1. Init => CompletionWitness
  BY WitnessInit
<1>2. CompletionWitness /\ [Next]_vars => CompletionWitness'
  <2> SUFFICES ASSUME CompletionWitness, [Next]_vars
               PROVE  CompletionWitness'
    OBVIOUS
  <2>1. CASE Next
    BY <2>1, WitnessIngest, WitnessGate DEF Next
  <2>2. CASE UNCHANGED vars
    BY <2>2 DEF vars, CompletionWitness, TypeOK, NeverEarly, AllApplied, incomplete
  <2> QED BY <2>1, <2>2
<1> QED BY <1>1, <1>2, PTL DEF Spec

\* A COMPLETE snapshot has every INGEST row applied and committed, at the
\* granularity of the SQL statements of complete_ingest, block_source_snapshot
\* and retry_blocked_source_snapshot, whatever aborts.
THEOREM CompletionNeverEarly == Spec => []NeverEarly
<1>1. CompletionWitness => NeverEarly
  BY DEF CompletionWitness
<1> QED BY <1>1, WitnessHolds, PTL

-----------------------------------------------------------------------------
(* The gate.  A completion that has locked the snapshot row found it open, *)
(* and no gate can close it before that completion ends.                   *)

GateExclusion ==
  /\ gate.op # "none" => lock = Gate
  /\ gate.op = "block" => gate.next = "BLOCKED"
  /\ gate.op = "none" => gate.next = "unread"
  /\ \A d \in Datasets : lock = d => snap # "BLOCKED"

\* Every statement keeps the gate and the completions apart.
LEMMA ExclusionStep ==
  ASSUME CompletionWitness, GateExclusion, Next
  PROVE  GateExclusion'
<1> USE HoldersAssumption DEF HoldersAssumption, Gate
<1>1. ASSUME NEW d \in Datasets, ApplyIngest(d)
      PROVE  GateExclusion'
  BY <1>1 DEF ApplyIngest, GateExclusion
<1>2. ASSUME NEW d \in Datasets, complete_snapshot_if_applied(d)
      PROVE  GateExclusion'
  BY <1>2 DEF complete_snapshot_if_applied, qualifies, GateExclusion
<1>3. ASSUME NEW d \in Datasets, CommitIngest(d)
      PROVE  GateExclusion'
  <2>1. lock' = (IF lock = d THEN Nobody ELSE lock) /\ UNCHANGED gate
        /\ snap' = (IF lock = d THEN "COMPLETE" ELSE snap)
    BY <1>3 DEF CommitIngest, Unlocked
  <2> QED BY <2>1 DEF GateExclusion
<1>4. ASSUME NEW d \in Datasets, AbortIngest(d)
      PROVE  GateExclusion'
  BY <1>4 DEF AbortIngest, Unlocked, GateExclusion
<1>5. CASE block_source_snapshot \/ retry_blocked_source_snapshot
  BY <1>5 DEF block_source_snapshot, retry_blocked_source_snapshot, LockSnapshot, GateExclusion
<1>6. CASE RestoredState
  BY <1>6 DEF RestoredState, GateExclusion, CompletionWitness, TypeOK
<1>7. CASE CommitGate
  <2>1. gate.op # "none"
    BY <1>7 DEF CommitGate, GateIdle, GateExclusion
  <2>2. lock = Gate /\ lock' = Nobody /\ gate' = GateIdle
    BY <1>7, <2>1 DEF CommitGate, Unlocked, GateExclusion
  <2> QED BY <2>2 DEF GateIdle, GateExclusion
<1> QED BY <1>1, <1>2, <1>3, <1>4, <1>5, <1>6, <1>7 DEF Next

\* Only a repair's commit takes a snapshot out of BLOCKED.
LEMMA GateStep ==
  ASSUME CompletionWitness, GateExclusion, Next, snap = "BLOCKED", snap' # "BLOCKED"
  PROVE  gate.op = "retry"
<1>1. ASSUME NEW d \in Datasets,
             ApplyIngest(d) \/ complete_snapshot_if_applied(d) \/ CommitIngest(d) \/ AbortIngest(d)
      PROVE  FALSE
  BY <1>1 DEF ApplyIngest, complete_snapshot_if_applied, CommitIngest, AbortIngest, GateExclusion
<1>2. ~(block_source_snapshot \/ retry_blocked_source_snapshot \/ RestoredState)
  BY DEF block_source_snapshot, retry_blocked_source_snapshot, LockSnapshot, RestoredState
<1>3. CommitGate
  BY <1>1, <1>2 DEF Next
<1>4. gate.op \in {"none", "block", "retry"}
  BY DEF CompletionWitness, TypeOK
<1> QED BY <1>3, <1>4 DEF CommitGate, GateExclusion

\* A gate the planner closed is reopened by the operator's repair and by nothing
\* else, statement by statement and for any number of completions in flight
\* (complete_snapshot_if_applied, retry_blocked_source_snapshot).
THEOREM GateStaysClosed == Spec => GateHolds
<1>1. Init => GateExclusion
  BY HoldersAssumption DEF HoldersAssumption, Init, GateExclusion, GateIdle
<1>2. CompletionWitness /\ GateExclusion /\ [Next]_vars => GateExclusion'
  BY ExclusionStep DEF vars, GateExclusion
<1>3. CompletionWitness /\ GateExclusion /\ [Next]_vars
        => [snap = "BLOCKED" /\ snap' # "BLOCKED" => gate.op = "retry"]_vars
  BY GateStep DEF vars
<1> QED BY <1>1, <1>2, <1>3, WitnessHolds, PTL DEF Spec, GateHolds

=============================================================================
