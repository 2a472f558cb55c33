------------------------- MODULE SourcePlanningProofs -------------------------
(***************************************************************************)
(* What planners write, for every number of planners, snapshots, events    *)
(* and repairs and every plan size.                                        *)
(*                                                                         *)
(* A planner acts on what it read some steps ago.  The invariant says what *)
(* of that is still true: a snapshot never changes (HistoryOK), a snapshot *)
(* that has left the live table does not come back, so that a              *)
(* classification made from a snapshot that is live NOW was made from its  *)
(* real manifests (WindowsOK, RejectionOK), and durable rows keep the      *)
(* snapshot they are about.  The final verification of a cycle turns the   *)
(* conditional facts into unconditional ones.                              *)
(*                                                                         *)
(* The parts of the invariant take the state as arguments, so that a part  *)
(* can be carried from one state to the next by a lemma about values.      *)
(***************************************************************************)
EXTENDS SourcePlanning, WindowClassification, FiniteSetTheorems, SequenceTheorems, WellFoundedInduction, TLAPS

AllKinds == {"append", "conflict", "empty", "quiet", "removal", "mixed", "bulk", "stated", "garbled"}

Snapshot ==
  [parent : 0..MaxSnapshots, spec : {1, 2}, kind : AllKinds, seq : 0..MaxSnapshots]

Places ==
  {"idle", "pin", "baseline", "qualify", "targets", "walk", "inspect", "verify", "enqueue", "reject", "gate",
   "exited"}

Pins == [uuid : Nat, spec : 0..2, head : Nat, live : SUBSET Nat]

Cycles ==
  [at : Places, seen : Nat, epoch : Int, pin : Pins, todo : SUBSET Row, windows : Seq(Row),
   rejection : Seq(Row), code : Codes]

-----------------------------------------------------------------------------
(* The facts of a snapshot of the history h.                               *)

FactsIn(h, id)     == Facts(h[id].kind, id, h[id].spec)
CleanIn(h, id)     == \A e \in FactsIn(h, id).entries : e.status # "DELETED" /\ e.content = "DATA" /\ e.spec = 1
TargetsIn(h, id)   == {e.target : e \in {f \in FactsIn(h, id).entries : IsAddedData(f)}}
CanonicalIn(h, id) == h[id].kind # "conflict"
SupportedIn(h, id) ==
  /\ CleanIn(h, id) /\ h[id].spec = 1 /\ FactsIn(h, id).declared # "malformed"
  /\ collect_manifest_rows(FactsIn(h, id).entries) = "none"

\* In format version 1 every descendant is out of order, whatever it holds.
BadIn(h, id) == h[id].seq = 0 \/ ~SupportedIn(h, id)

\* A row or window of the snapshot it names.
Doc(h, w) ==
  /\ w \in Row
  /\ w.snap \in 1..Len(h) /\ w.parent = h[w.snap].parent /\ w.seq = h[w.snap].seq

Fresh(h, w) == Doc(h, w) /\ w.state = "SEALED" /\ w.error = "none"

TrueIn(h, w) == CleanIn(h, w.snap) /\ w.targets = TargetsIn(h, w.snap)

-----------------------------------------------------------------------------
(* The invariant.                                                          *)

\* Snapshots descend from older ones, and are numbered as they come.
HistoryOK(h, format) ==
  /\ h \in Seq(Snapshot) /\ Len(h) \in Ids
  /\ \A i \in 1..Len(h) : h[i].parent < i /\ h[i].seq = IF format = 1 THEN 0 ELSE i

TableOK(h, t) ==
  /\ t \in [uuid : Nat, spec : {1, 2}, head : Nat, live : SUBSET Nat, format : Formats]
  /\ t.live \subseteq 1..Len(h) /\ t.head \in 0..Len(h)

\* What SealedLineage says of row i, of the history and the registered baseline.
SealedRow(h, rs, base, i) ==
  /\ i = 1 => rs[i].kind = "BASELINE" /\ rs[i].snap = base /\ CanonicalIn(h, rs[i].snap)
  /\ i > 1 => TrueIn(h, rs[i]) /\ rs[i].parent = rs[i - 1].snap

RowsOK(h, rs, base) ==
  /\ rs \in Seq(Row)
  /\ \A i \in 1..Len(rs) :
       /\ Doc(h, rs[i])
       /\ rs[i].kind = "REJECTED" => rs[i].state = "BLOCKED"
       /\ rs[i].kind # "REJECTED" => SealedRow(h, rs, base, i)
       /\ i > 1 /\ rs[i].error \in IncrementCodes => ~SupportedIn(h, rs[i].snap)

PinOK(h, c) ==
  /\ c.at \in Places \ {"idle", "pin", "exited"} =>
       c.pin.live \subseteq 1..Len(h) /\ c.pin.head \in 0..Len(h)
  /\ c.at \in {"walk", "baseline", "inspect", "qualify", "targets"} => c.pin.spec = 1
  /\ c.at \in {"walk", "inspect"} => c.seen # 0
  /\ c.at \in {"baseline", "qualify", "targets"} => c.seen = 0
  /\ c.at = "baseline" => c.pin.head # 0
  /\ c.at \in {"pin", "walk", "baseline"} => c.windows = <<>> /\ c.rejection = <<>>
  /\ c.at = "gate" => c.seen # 0 /\ c.code \in GateCodes

\* The candidates come after the checkpoint and after the windows planned so far.
TodoOK(h, rs, c) ==
  c.at = "inspect" =>
    /\ c.todo # {} /\ c.rejection = <<>>
    /\ \A t, u \in c.todo : t.snap = u.snap => t = u
    /\ \A t \in c.todo :
         /\ Fresh(h, t) /\ t.kind = "APPEND"
         /\ t.spec # 1 => h[t.snap].spec # 1
         /\ rs[c.seen].snap < t.snap
         /\ \A n \in 1..Len(c.windows) : c.windows[n].snap < t.snap

\* A window is true to its snapshot if that is still live, and once it was verified.
WindowsOK(h, live, base, c) ==
  /\ \A n \in 1..Len(c.windows) :
       /\ Fresh(h, c.windows[n])
       /\ c.seen # 0 =>
            /\ c.windows[n].kind = "APPEND"
            /\ c.at = "enqueue" \/ c.windows[n].snap \in live => TrueIn(h, c.windows[n])
       /\ c.seen = 0 =>
            /\ c.windows[n].kind = "BASELINE" /\ c.windows[n].snap = base
            /\ c.at \in {"targets", "verify", "enqueue"} => CanonicalIn(h, base)
  /\ c.at \in {"qualify", "targets"} \/ (c.at = "verify" /\ c.seen = 0) => Len(c.windows) = 1
  /\ c.at = "enqueue" => c.windows # <<>>

\* A rejected increment is unacceptable if it is still live, and once it was verified.
RejectionOK(h, live, base, c) ==
  /\ \A n \in 1..Len(c.rejection) :
       /\ Fresh(h, c.rejection[n]) /\ c.rejection[n].kind = "REJECTED"
       /\ c.seen # 0 /\ c.code \in IncrementCodes =>
            (c.at \in {"enqueue", "reject"} \/ c.rejection[n].snap \in live => BadIn(h, c.rejection[n].snap))
       /\ c.seen = 0 => (c.code \in IncrementCodes => c.rejection[n].snap = base)
  /\ c.at = "verify" /\ c.windows = <<>> => c.rejection # <<>>
  /\ c.at = "verify" /\ c.seen = 0 => c.rejection = <<>>
  /\ c.at \in {"qualify", "targets"} => c.rejection = <<>>
  /\ c.at = "reject" => c.rejection # <<>>

CycleOK(h, live, rs, base, c) ==
  /\ c \in Cycles /\ c.seen \in 0..Len(rs)
  /\ PinOK(h, c) /\ TodoOK(h, rs, c)
  /\ WindowsOK(h, live, base, c) /\ RejectionOK(h, live, base, c)

EpochOK(e, c) == c.seen # 0 => c.epoch \in Nat /\ c.epoch <= e

WorldOK ==
  /\ source \in [baseline : Baselines, epoch : Nat]
  /\ spent \in [events : Nat, repairs : Nat]
  /\ HistoryOK(hist, table.format) /\ TableOK(hist, table)
  /\ RowsOK(hist, rows, source.baseline)

PlannersOK ==
  /\ planner \in [Planners -> Cycles]
  /\ \A p \in Planners :
       CycleOK(hist, table.live, rows, source.baseline, planner[p]) /\ EpochOK(source.epoch, planner[p])

\* A plan that a gate has overtaken carries an older epoch.
OvertakenPlans ==
  /\ outdated \subseteq Planners
  /\ \A p \in outdated : planner[p].seen # 0 => planner[p].epoch < source.epoch

PlanningInvariant == WorldOK /\ PlannersOK /\ OvertakenPlans
-----------------------------------------------------------------------------
(* Snapshots and their manifests.                                          *)

\* Every non-empty set of numbers has a least one.
LEMMA LeastId ==
  ASSUME NEW T \in SUBSET Nat, T # {}
  PROVE  \E x \in T : \A y \in T : x <= y
<1>1. \E x \in T : \A y \in T : ~(<<y, x>> \in OpToRel(<, Nat))
  BY NatLessThanWellFounded, WFMin
<1>2. \A x, y \in Nat : y < x => <<y, x>> \in OpToRel(<, Nat)
  BY DEF OpToRel
<1>3. \E R : /\ \E x \in T : \A y \in T : ~(<<y, x>> \in R)
             /\ \A x, y \in Nat : y < x => <<y, x>> \in R
  BY <1>1, <1>2
<1>4. PICK R : /\ \E x \in T : \A y \in T : ~(<<y, x>> \in R)
               /\ \A x, y \in Nat : y < x => <<y, x>> \in R
  BY <1>3
<1>5. PICK x \in T : \A y \in T : ~(<<y, x>> \in R)
  BY <1>4
<1>6. \A y \in T : ~(y < x)
  BY <1>4, <1>5
<1> QED BY <1>6

\* The manifest facts of every kind of commit: data files of the snapshot itself, added or
\* deleted; one that declares new data has some.
LEMMA FactsShape ==
  ASSUME NEW kind \in AllKinds, NEW id, NEW spec, NEW f, f = Facts(kind, id, spec)
  PROVE  /\ f.op = "append"
         /\ f.declared \in DeclaredData
         /\ f.declared = "data" => \E e \in f.entries : IsAddedData(e)
         /\ \A e \in f.entries :
              /\ e.snapshot = id /\ e.content = "DATA" /\ e.target = "a"
              /\ e.status \in {"ADDED", "DELETED"}
<1> DEFINE A == Added(id, spec)
           D == Entry(id, spec, "DELETED", "DATA")
           M == {Added(id, s) : s \in {1, 2}}
           B == {[Added(id, spec) EXCEPT !.hour = h] : h \in 0..MAX_MANIFEST_FACTS_PER_SNAPSHOT}
           E == CASE kind = "empty"   -> {}
                  [] kind = "removal" -> {A, D}
                  [] kind = "mixed"   -> M
                  [] kind = "bulk"    -> B
                  [] OTHER            -> {A}
           d == CASE kind \in {"empty", "quiet", "bulk"} -> "nothing" [] kind = "garbled" -> "malformed" [] OTHER -> "data"
<1>1. f.op = "append" /\ f.declared = d /\ f.entries = E
  BY DEF Facts
<1>2. IsAddedData(A)
  BY DEF IsAddedData, Entry, Added
<1>3. Added(id, 1) \in M /\ IsAddedData(Added(id, 1))
  BY DEF IsAddedData, Entry, Added
<1>4. \A e \in M : e.snapshot = id /\ e.content = "DATA" /\ e.target = "a" /\ e.status = "ADDED"
  BY DEF Entry, Added
<1>5. A.snapshot = id /\ A.content = "DATA" /\ A.target = "a" /\ A.status = "ADDED"
  BY DEF Entry, Added
<1>6. D.snapshot = id /\ D.content = "DATA" /\ D.target = "a" /\ D.status = "DELETED"
  BY DEF Entry
<1>7. \A e \in B : e.snapshot = id /\ e.content = "DATA" /\ e.target = "a" /\ e.status = "ADDED"
  BY DEF Entry, Added
<1>8. [Added(id, spec) EXCEPT !.hour = 0] \in B
  BY FactLimitAssumption
<1>9. \E e \in B : IsAddedData(e)
  BY <1>7, <1>8 DEF IsAddedData
<1>10. d \in DeclaredData /\ (d = "data" <=> kind \notin {"empty", "quiet", "bulk", "garbled"})
  BY DEF DeclaredData
<1>11. \/ E = {A, D} \/ E = M \/ E = B \/ E = {A}
       \/ E = {} /\ kind = "empty"
  OBVIOUS
<1> HIDE DEF A, D, M, B, E, d
<1>12. \A e \in E : /\ e.snapshot = id /\ e.content = "DATA" /\ e.target = "a"
                    /\ e.status \in {"ADDED", "DELETED"}
  BY <1>4, <1>5, <1>6, <1>7, <1>11
<1>13. kind # "empty" => \E e \in E : IsAddedData(e)
  BY <1>2, <1>3, <1>9, <1>11
<1> QED BY <1>1, <1>10, <1>12, <1>13

\* The definitions of the properties are those of the invariant, for the current history.
LEMMA SameFacts ==
  ASSUME NEW id
  PROVE  /\ FactsOf(id) = FactsIn(hist, id)
         /\ Clean(id) <=> CleanIn(hist, id)
         /\ TrueTargets(id) = TargetsIn(hist, id)
         /\ Supported(id) <=> SupportedIn(hist, id)
BY DEF FactsOf, FactsIn, Clean, CleanIn, TrueTargets, TargetsIn, Supported, SupportedIn

\* A baseline without two mutations of one record.
LEMMA SameCanonical ==
  ASSUME NEW id
  PROVE  canonical(id) <=> CanonicalIn(hist, id)
<1>1. CASE hist[id].kind = "conflict"
  <2>1. Mutations(id) = {<<"r", 1>>, <<"r", 2>>}
    BY <1>1 DEF Mutations
  <2>2. <<"r", 1>>[1] = <<"r", 2>>[1] /\ <<"r", 1>> # <<"r", 2>>
    OBVIOUS
  <2> QED BY <1>1, <2>1, <2>2 DEF canonical, CanonicalIn
<1>2. CASE hist[id].kind # "conflict"
  <2>1. Mutations(id) = {<<"r", 1>>}
    BY <1>2 DEF Mutations
  <2> QED BY <1>2, <2>1 DEF canonical, CanonicalIn
<1> QED BY <1>1, <1>2

\* Classification of a snapshot from its real manifests: what is accepted under the
\* registered specification is clean and has the targets it adds rows to, what is
\* rejected is unclean, too large or has a summary without numbers.
LEMMA ClassifiedFromManifests ==
  ASSUME NEW h, NEW id, h[id].kind \in AllKinds, NEW f, f = FactsIn(h, id), NEW class,
         class = plan_incremental_window(id, 1, f.op, f.declared, f.entries, {})
  PROVE  /\ class.code = "none" => CleanIn(h, id) /\ class.targets = TargetsIn(h, id)
         /\ class.code # "none" =>
              ~(CleanIn(h, id) /\ f.declared # "malformed" /\ collect_manifest_rows(f.entries) = "none")
<1>1. /\ f.op = "append"
      /\ f.declared = "data" => \E e \in f.entries : IsAddedData(e)
      /\ \A e \in f.entries :
           /\ e.snapshot = id /\ e.content = "DATA" /\ e.target = "a"
           /\ e.status \in {"ADDED", "DELETED"}
  BY FactsShape DEF FactsIn
<1>2. CASE collect_manifest_rows(f.entries) # "none"
  <2>1. class = Rejected(collect_manifest_rows(f.entries))
    BY <1>2 DEF plan_incremental_window
  <2>2. class.code = collect_manifest_rows(f.entries)
    BY <2>1 DEF Rejected
  <2> QED BY <1>2, <2>2
<1>3. CASE collect_manifest_rows(f.entries) = "none" /\ f.declared = "malformed"
  <2>1. validate_append_entries(id, f.declared, f.entries) = "MANIFEST_SUMMARY_INVALID"
    BY <1>3 DEF validate_append_entries
  <2>2. class = Rejected("MANIFEST_SUMMARY_INVALID")
    BY <1>1, <1>3, <2>1 DEF plan_incremental_window
  <2>3. class.code # "none"
    BY <2>2 DEF Rejected
  <2> QED BY <1>3, <2>3
<1>4. CASE collect_manifest_rows(f.entries) = "none" /\ f.declared # "malformed"
  <2>1. CASE \E e \in f.entries : e.status = "DELETED"
    <3>1. validate_append_entries(id, f.declared, f.entries) = "PHYSICAL_DELETE"
      BY <1>1, <1>4, <2>1 DEF validate_append_entries
    <3>2. class = Rejected("PHYSICAL_DELETE")
      BY <1>1, <1>4, <3>1 DEF plan_incremental_window
    <3>3. class.code # "none"
      BY <3>2 DEF Rejected
    <3> QED BY <2>1, <3>3 DEF CleanIn
  <2>2. CASE ~ \E e \in f.entries : e.status = "DELETED"
    <3>1. validate_append_entries(id, f.declared, f.entries) = "none"
      BY <1>1, <1>4, <2>2 DEF validate_append_entries
    <3>2. \A e \in f.entries : IsAddedData(e)
      BY <1>1, <2>2 DEF IsAddedData
    <3>3. {e \in f.entries : IsAddedData(e)} = f.entries
      BY <3>2
    <3>4. CASE \A e \in f.entries : e.spec = 1
      <4>1. SpecsAgree(1, {e \in f.entries : IsAddedData(e)})
        BY <3>4 DEF SpecsAgree
      <4>2. class = Accepted("APPEND", discover_added_targets(f.entries))
        BY <1>1, <1>4, <3>1, <4>1 DEF plan_incremental_window
      <4>3. class.code = "none" /\ class.targets = discover_added_targets(f.entries)
        BY <4>2 DEF Accepted
      <4>4. CleanIn(h, id)
        BY <1>1, <2>2, <3>4 DEF CleanIn
      <4>5. discover_added_targets(f.entries) = TargetsIn(h, id)
        BY DEF discover_added_targets, TargetsIn
      <4> QED BY <4>3, <4>4, <4>5
    <3>5. CASE ~ \A e \in f.entries : e.spec = 1
      <4>1. ~SpecsAgree(1, {e \in f.entries : IsAddedData(e)})
        BY <3>3, <3>5 DEF SpecsAgree
      <4>2. class = Rejected("PARTITION_SPEC_CHANGED")
        BY <1>1, <1>4, <3>1, <4>1 DEF plan_incremental_window
      <4>3. class.code # "none"
        BY <4>2 DEF Rejected
      <4> QED BY <3>5, <4>3 DEF CleanIn
    <3> QED BY <3>4, <3>5
  <2> QED BY <2>1, <2>2
<1> QED BY <1>2, <1>3, <1>4

-----------------------------------------------------------------------------
(* The walk.                                                               *)

\* C is the least set of retained documents that walks.
LeastWalk(head, live, stop, C) ==
  /\ C \subseteq live
  /\ Walks(head, live, stop, C)
  /\ \A S \in SUBSET live : Walks(head, live, stop, S) => C \subseteq S

\* A walk finds what the generation retains, and is the least set that walks.
LEMMA WalkIsLeast ==
  ASSUME NEW head, NEW live, NEW stop, NEW C, C = iter_snapshot_documents(head, live, stop)
  PROVE  LeastWalk(head, live, stop, C)
<1>1. C \subseteq live /\ \A S \in SUBSET live : Walks(head, live, stop, S) => C \subseteq S
  BY DEF iter_snapshot_documents
<1>2. head \in live => head \in C
  BY DEF iter_snapshot_documents, Walks
<1>3. ASSUME NEW i \in C, i # stop, hist[i].parent \in live
      PROVE  hist[i].parent \in C
  <2> SUFFICES ASSUME NEW S \in SUBSET live, Walks(head, live, stop, S)
               PROVE  hist[i].parent \in S
    BY <1>3 DEF iter_snapshot_documents
  <2>1. i \in S
    BY <1>1
  <2> QED BY <1>3, <2>1 DEF Walks
<1> QED BY <1>1, <1>2, <1>3 DEF Walks, LeastWalk

\* Parents are older, so the walk goes down from the head.
LEMMA WalkGoesDown ==
  ASSUME NEW head \in Nat, NEW live \in SUBSET Nat, NEW stop,
         \A i \in live : hist[i].parent \in Nat /\ hist[i].parent < i,
         NEW C, C = iter_snapshot_documents(head, live, stop)
  PROVE  \A i \in C : i <= head
<1> DEFINE S == {i \in live : i <= head}
<1>1. Walks(head, live, stop, S)
  <2>1. head \in live => head \in S
    OBVIOUS
  <2>2. ASSUME NEW i \in S, hist[i].parent \in live PROVE hist[i].parent \in S
    <3>1. hist[i].parent \in Nat /\ hist[i].parent < i /\ i \in Nat /\ i <= head
      OBVIOUS
    <3>2. hist[i].parent <= head
      BY <3>1
    <3> QED BY <2>2, <3>2
  <2> QED BY <2>1, <2>2 DEF Walks
<1>2. C \subseteq S
  <2>1. LeastWalk(head, live, stop, C)  BY WalkIsLeast
  <2> QED BY <1>1, <2>1 DEF LeastWalk
<1> QED BY <1>2

\* The walk is a chain: nothing it finds lies between a document and its parent.  A walk
\* that finds its stop therefore finds nothing older.
LEMMA WalkEndsAtStop ==
  ASSUME NEW head \in Nat, NEW live \in SUBSET Nat, NEW stop,
         \A i \in live : hist[i].parent \in Nat /\ hist[i].parent < i,
         NEW C, C = iter_snapshot_documents(head, live, stop), stop \in C
  PROVE  \A i \in C : stop <= i
<1>1. /\ C \subseteq live
      /\ Walks(head, live, stop, C)
      /\ \A S \in SUBSET live : Walks(head, live, stop, S) => C \subseteq S
  <2>1. LeastWalk(head, live, stop, C)  BY WalkIsLeast
  <2> QED BY <2>1 DEF LeastWalk
<1>2. \A i \in C : i <= head
  BY WalkGoesDown
<1> DEFINE Chain == {j \in C : \A i \in C : i > j => i # stop /\ hist[i].parent >= j}
<1>3. Walks(head, live, stop, Chain)
  <2>1. head \in live => head \in Chain
    <3> SUFFICES ASSUME head \in live PROVE head \in Chain
      OBVIOUS
    <3>1. head \in C
      BY <1>1 DEF Walks
    <3>2. \A i \in C : ~(i > head)
      BY <1>1, <1>2
    <3> QED BY <3>1, <3>2
  <2>2. ASSUME NEW j \in Chain, j # stop, hist[j].parent \in live
        PROVE  hist[j].parent \in Chain
    <3>1. PICK k : k = hist[j].parent  OBVIOUS
    <3>2. j \in C /\ j \in Nat /\ k \in C /\ k \in Nat /\ k < j
      <4>1. j \in C  OBVIOUS
      <4>2. k \in C  BY <1>1, <2>2, <3>1, <4>1 DEF Walks
      <4> QED BY <1>1, <3>1, <4>1, <4>2
    <3>3. \A i \in C : i > j => i # stop /\ hist[i].parent >= j
      OBVIOUS
    <3> DEFINE T == {i \in C : i <= k \/ i >= j}
    <3>4. Walks(head, live, stop, T)
      <4>1. head \in live => head \in T
        <5> SUFFICES ASSUME head \in live PROVE head \in T
          OBVIOUS
        <5>1. head \in C /\ j <= head
          BY <1>1, <1>2, <3>2 DEF Walks
        <5> QED BY <3>2, <5>1
      <4>2. ASSUME NEW i \in T, i # stop, hist[i].parent \in live PROVE hist[i].parent \in T
        <5>1. PICK m : m = hist[i].parent  OBVIOUS
        <5>2. i \in C /\ (i <= k \/ i >= j)
          OBVIOUS
        <5>3. m \in C /\ i \in Nat /\ m \in Nat /\ m < i
          BY <1>1, <4>2, <5>1, <5>2 DEF Walks
        <5>4. CASE i <= k
          <6>1. m <= k  BY <3>2, <5>3, <5>4
          <6> QED BY <5>1, <5>3, <6>1
        <5>5. CASE i = j
          <6>1. m <= k  BY <3>1, <3>2, <5>1, <5>5
          <6> QED BY <5>1, <5>3, <6>1
        <5>6. CASE i > j
          <6>1. m >= j  BY <3>3, <5>1, <5>2, <5>6
          <6> QED BY <5>1, <5>3, <6>1
        <5> QED BY <3>2, <5>2, <5>3, <5>4, <5>5, <5>6
      <4> HIDE DEF T
      <4> QED BY <4>1, <4>2 DEF Walks
    <3>5. T \in SUBSET live
      BY <1>1
    <3>6. C \subseteq T
      BY <1>1, <3>4, <3>5
    <3>7. ASSUME NEW i \in C, i > k PROVE i # stop /\ hist[i].parent >= k
      <4>1. i \in Nat /\ i >= j
        BY <1>1, <3>2, <3>6, <3>7
      <4>2. CASE i = j
        BY <2>2, <3>1, <3>2, <4>2
      <4>3. CASE i > j
        <5>1. i # stop /\ hist[i].parent >= j
          BY <3>3, <3>7, <4>3
        <5>2. hist[i].parent \in Nat
          BY <1>1, <3>7
        <5> QED BY <3>2, <5>1, <5>2
      <4> QED BY <3>2, <4>1, <4>2, <4>3
    <3>8. k \in Chain
      BY <3>2, <3>7
    <3> QED BY <3>1, <3>8
  <2> HIDE DEF Chain
  <2> QED BY <2>1, <2>2 DEF Walks
<1>4. C \subseteq Chain
  <2>1. Chain \in SUBSET live
    BY <1>1
  <2> QED BY <1>1, <1>3, <2>1
<1> SUFFICES ASSUME NEW i \in C PROVE stop <= i
  OBVIOUS
<1>5. i \in Nat /\ stop \in Nat
  BY <1>1
<1>6. ~(stop > i)
  BY <1>4
<1> QED BY <1>5, <1>6

-----------------------------------------------------------------------------
(* What others do not disturb.                                             *)

\* History h2 has the snapshots of h, and maybe more.
Continues(h, h2) ==
  /\ Len(h) \in Nat /\ Len(h2) \in Nat /\ Len(h) <= Len(h2)
  /\ \A i \in 1..Len(h) : h2[i] = h[i]

\* What left the live table does not come back.
StaysGone(h, live, live2) == \A i \in 1..Len(h) : i \in live2 => i \in live

\* Rows are kept, and stay about the same snapshot.
RowsGrow(rs, rs2) ==
  /\ Len(rs) \in Nat /\ Len(rs2) \in Nat /\ Len(rs) <= Len(rs2)
  /\ \A i \in 1..Len(rs) : rs2[i].snap = rs[i].snap

\* The facts of a committed snapshot never change.
LEMMA FactsStay ==
  ASSUME NEW h, NEW h2, Continues(h, h2), NEW id \in 1..Len(h)
  PROVE  /\ id \in 1..Len(h2) /\ h2[id] = h[id]
         /\ CleanIn(h2, id) <=> CleanIn(h, id)
         /\ TargetsIn(h2, id) = TargetsIn(h, id)
         /\ CanonicalIn(h2, id) <=> CanonicalIn(h, id)
         /\ SupportedIn(h2, id) <=> SupportedIn(h, id)
         /\ BadIn(h2, id) <=> BadIn(h, id)
<1>1. id \in 1..Len(h2) /\ h2[id] = h[id]
  BY DEF Continues
<1>2. FactsIn(h2, id) = FactsIn(h, id)
  BY <1>1 DEF FactsIn
<1>3. CleanIn(h2, id) <=> CleanIn(h, id)
  BY <1>2 DEF CleanIn
<1>4. TargetsIn(h2, id) = TargetsIn(h, id)
  BY <1>2 DEF TargetsIn
<1> QED BY <1>1, <1>2, <1>3, <1>4 DEF CanonicalIn, BadIn, SupportedIn

\* A row stays a row of its snapshot.
LEMMA DocStays ==
  ASSUME NEW h, NEW h2, Continues(h, h2), NEW w, Doc(h, w)
  PROVE  /\ Doc(h2, w) /\ w.snap \in 1..Len(h)
         /\ Fresh(h, w) => Fresh(h2, w)
         /\ TrueIn(h2, w) <=> TrueIn(h, w)
         /\ BadIn(h2, w.snap) <=> BadIn(h, w.snap)
         /\ SupportedIn(h2, w.snap) <=> SupportedIn(h, w.snap)
         /\ CanonicalIn(h2, w.snap) <=> CanonicalIn(h, w.snap)
<1>1. w \in Row /\ w.snap \in 1..Len(h) /\ w.parent = h[w.snap].parent /\ w.seq = h[w.snap].seq
  BY DEF Doc
<1>2. /\ w.snap \in 1..Len(h2) /\ h2[w.snap] = h[w.snap]
      /\ CleanIn(h2, w.snap) <=> CleanIn(h, w.snap)
      /\ TargetsIn(h2, w.snap) = TargetsIn(h, w.snap)
      /\ CanonicalIn(h2, w.snap) <=> CanonicalIn(h, w.snap)
      /\ BadIn(h2, w.snap) <=> BadIn(h, w.snap)
      /\ SupportedIn(h2, w.snap) <=> SupportedIn(h, w.snap)
  BY <1>1, FactsStay
<1>3. Doc(h2, w)
  BY <1>1, <1>2 DEF Doc
<1> QED BY <1>1, <1>2, <1>3 DEF Fresh, TrueIn

\* New snapshots leave the rows right.
LEMMA RowsStay ==
  ASSUME NEW h, NEW h2, Continues(h, h2), NEW rs, NEW base, RowsOK(h, rs, base)
  PROVE  RowsOK(h2, rs, base)
<1>1. rs \in Seq(Row)
  BY DEF RowsOK
<1>2. ASSUME NEW i \in 1..Len(rs)
      PROVE  /\ Doc(h2, rs[i])
             /\ rs[i].kind = "REJECTED" => rs[i].state = "BLOCKED"
             /\ rs[i].kind # "REJECTED" => SealedRow(h2, rs, base, i)
             /\ i > 1 /\ rs[i].error \in IncrementCodes => ~SupportedIn(h2, rs[i].snap)
  <2>1. /\ Doc(h, rs[i])
        /\ rs[i].kind = "REJECTED" => rs[i].state = "BLOCKED"
        /\ rs[i].kind # "REJECTED" => SealedRow(h, rs, base, i)
        /\ i > 1 /\ rs[i].error \in IncrementCodes => ~SupportedIn(h, rs[i].snap)
    BY DEF RowsOK
  <2>2. PICK w : w = rs[i]  OBVIOUS
  <2>3. Doc(h, w)
    BY <2>1, <2>2
  <2>4. /\ Doc(h2, w)
        /\ TrueIn(h2, w) <=> TrueIn(h, w)
        /\ SupportedIn(h2, w.snap) <=> SupportedIn(h, w.snap)
        /\ CanonicalIn(h2, w.snap) <=> CanonicalIn(h, w.snap)
    BY <2>3, DocStays
  <2>5. SealedRow(h, rs, base, i) => SealedRow(h2, rs, base, i)
    BY <2>2, <2>4 DEF SealedRow
  <2> QED BY <2>1, <2>2, <2>4, <2>5
<1> QED BY <1>1, <1>2 DEF RowsOK

\* What a planner holds stays right while others commit, expire, roll back and write.
LEMMA CycleStays ==
  ASSUME NEW h, NEW h2, Continues(h, h2),
         NEW live, NEW live2, StaysGone(h, live, live2),
         NEW rs, NEW rs2, RowsGrow(rs, rs2),
         NEW base, NEW c, CycleOK(h, live, rs, base, c)
  PROVE  CycleOK(h2, live2, rs2, base, c)
<1>1. c \in Cycles /\ c.seen \in 0..Len(rs)
  BY DEF CycleOK
<1>2. c.seen \in 0..Len(rs2)
  BY <1>1 DEF RowsGrow
<1>3. PinOK(h2, c)
  <2>1. PinOK(h, c)
    BY DEF CycleOK
  <2>2. 1..Len(h) \subseteq 1..Len(h2) /\ 0..Len(h) \subseteq 0..Len(h2)
    BY DEF Continues
  <2> QED BY <2>1, <2>2 DEF PinOK
<1>4. TodoOK(h2, rs2, c)
  <2> SUFFICES ASSUME c.at = "inspect" PROVE TodoOK(h2, rs2, c)
    BY DEF TodoOK
  <2>1. /\ c.todo # {} /\ c.rejection = <<>>
        /\ \A t, u \in c.todo : t.snap = u.snap => t = u
        /\ c.seen # 0
    BY DEF CycleOK, TodoOK, PinOK
  <2>2. c.seen \in 1..Len(rs)
    BY <1>1, <2>1 DEF RowsGrow
  <2>3. rs2[c.seen].snap = rs[c.seen].snap
    BY <2>2 DEF RowsGrow
  <2>4. ASSUME NEW t \in c.todo
        PROVE  /\ Fresh(h2, t) /\ t.kind = "APPEND"
               /\ t.spec # 1 => h2[t.snap].spec # 1
               /\ rs2[c.seen].snap < t.snap
               /\ \A n \in 1..Len(c.windows) : c.windows[n].snap < t.snap
    <3>1. /\ Fresh(h, t) /\ t.kind = "APPEND"
          /\ t.spec # 1 => h[t.snap].spec # 1
          /\ rs[c.seen].snap < t.snap
          /\ \A n \in 1..Len(c.windows) : c.windows[n].snap < t.snap
      BY DEF CycleOK, TodoOK
    <3>2. Doc(h, t)
      BY <3>1 DEF Fresh
    <3>3. Fresh(h2, t) /\ t.snap \in 1..Len(h)
      BY <3>1, <3>2, DocStays
    <3>4. h2[t.snap] = h[t.snap]
      BY <3>3, FactsStay
    <3> QED BY <2>3, <3>1, <3>3, <3>4
  <2> QED BY <2>1, <2>4 DEF TodoOK
<1>5. WindowsOK(h2, live2, base, c)
  <2>1. WindowsOK(h, live, base, c)
    BY DEF CycleOK
  <2>2. ASSUME NEW n \in 1..Len(c.windows)
        PROVE  /\ Fresh(h2, c.windows[n])
               /\ c.seen # 0 =>
                    /\ c.windows[n].kind = "APPEND"
                    /\ c.at = "enqueue" \/ c.windows[n].snap \in live2 => TrueIn(h2, c.windows[n])
               /\ c.seen = 0 =>
                    /\ c.windows[n].kind = "BASELINE" /\ c.windows[n].snap = base
                    /\ c.at \in {"targets", "verify", "enqueue"} => CanonicalIn(h2, base)
    <3>1. PICK w : w = c.windows[n]  OBVIOUS
    <3>2. /\ Fresh(h, w)
          /\ c.seen # 0 =>
               /\ w.kind = "APPEND"
               /\ c.at = "enqueue" \/ w.snap \in live => TrueIn(h, w)
          /\ c.seen = 0 =>
               /\ w.kind = "BASELINE" /\ w.snap = base
               /\ c.at \in {"targets", "verify", "enqueue"} => CanonicalIn(h, base)
      BY <2>1, <3>1 DEF WindowsOK
    <3>3. Doc(h, w)
      BY <3>2 DEF Fresh
    <3>4. /\ Fresh(h2, w) /\ w.snap \in 1..Len(h)
          /\ TrueIn(h2, w) <=> TrueIn(h, w)
          /\ CanonicalIn(h2, w.snap) <=> CanonicalIn(h, w.snap)
      BY <3>2, <3>3, DocStays
    <3>5. w.snap \in live2 => w.snap \in live
      BY <3>4 DEF StaysGone
    <3> QED BY <3>1, <3>2, <3>4, <3>5
  <2> QED BY <2>1, <2>2 DEF WindowsOK
<1>6. RejectionOK(h2, live2, base, c)
  <2>1. RejectionOK(h, live, base, c)
    BY DEF CycleOK
  <2>2. ASSUME NEW n \in 1..Len(c.rejection)
        PROVE  /\ Fresh(h2, c.rejection[n]) /\ c.rejection[n].kind = "REJECTED"
               /\ c.seen # 0 /\ c.code \in IncrementCodes =>
                    (c.at \in {"enqueue", "reject"} \/ c.rejection[n].snap \in live2 => BadIn(h2, c.rejection[n].snap))
               /\ c.seen = 0 => (c.code \in IncrementCodes => c.rejection[n].snap = base)
    <3>1. PICK w : w = c.rejection[n]  OBVIOUS
    <3>2. /\ Fresh(h, w) /\ w.kind = "REJECTED"
          /\ c.seen # 0 /\ c.code \in IncrementCodes =>
               (c.at \in {"enqueue", "reject"} \/ w.snap \in live => BadIn(h, w.snap))
          /\ c.seen = 0 => (c.code \in IncrementCodes => w.snap = base)
      BY <2>1, <3>1 DEF RejectionOK
    <3>3. Doc(h, w)
      BY <3>2 DEF Fresh
    <3>4. /\ Fresh(h2, w) /\ w.snap \in 1..Len(h)
          /\ BadIn(h2, w.snap) <=> BadIn(h, w.snap)
      BY <3>2, <3>3, DocStays
    <3>5. w.snap \in live2 => w.snap \in live
      BY <3>4 DEF StaysGone
    <3> QED BY <3>1, <3>2, <3>4, <3>5
  <2> QED BY <2>1, <2>2 DEF RejectionOK
<1> QED BY <1>1, <1>2, <1>3, <1>4, <1>5, <1>6 DEF CycleOK

-----------------------------------------------------------------------------
(* Steps of one planner.                                                   *)

\* Cycle d goes on from cycle c, or ends it.
Follows(c, d) == d.seen # 0 => c.seen # 0 /\ d.epoch = c.epoch

\* A step that changes nothing but planners, and counts an event perhaps.
PlannerAlone == UNCHANGED <<durable, iceberg>> /\ spent' \in [events : Nat, repairs : Nat]

\* Such steps: those without an event and those with one.
LEMMA StepsAlone ==
  ASSUME PlanningInvariant, UNCHANGED <<durable, iceberg>>, UNCHANGED spent \/ Event
  PROVE  PlannerAlone
<1>1. spent \in [events : Nat, repairs : Nat]
  BY DEF PlanningInvariant, WorldOK
<1>2. UNCHANGED spent \/ spent' = [spent EXCEPT !.events = spent.events + 1]
  BY DEF Event
<1>3. spent' \in [events : Nat, repairs : Nat]
  BY <1>1, <1>2
<1> QED BY <1>3 DEF PlannerAlone

\* A step in which planner p alone moves, to a cycle that is right.
LEMMA PlannerMoves ==
  ASSUME PlanningInvariant, NEW p \in Planners, NEW d,
         CycleOK(hist, table.live, rows, source.baseline, d), Follows(planner[p], d),
         planner' = [planner EXCEPT ![p] = d], PlannerAlone
  PROVE  PlanningInvariant'
<1>1. /\ source' = source /\ rows' = rows /\ outdated' = outdated /\ table' = table /\ hist' = hist
      /\ spent' \in [events : Nat, repairs : Nat]
  BY DEF durable, iceberg, PlannerAlone
<1>2. WorldOK /\ PlannersOK /\ OvertakenPlans
  BY DEF PlanningInvariant
<1>3. WorldOK'
  BY <1>1, <1>2 DEF WorldOK
<1>4. planner \in [Planners -> Cycles] /\ d \in Cycles
  BY <1>2 DEF PlannersOK, CycleOK
<1>5. planner' \in [Planners -> Cycles] /\ planner'[p] = d /\ \A q \in Planners : q # p => planner'[q] = planner[q]
  BY <1>4
<1>6. PlannersOK'
  <2>1. EpochOK(source.epoch, d)
    BY <1>2 DEF Follows, PlannersOK, EpochOK
  <2>2. ASSUME NEW q \in Planners
        PROVE  /\ CycleOK(hist', table'.live, rows', source'.baseline, planner'[q])
               /\ EpochOK(source'.epoch, planner'[q])
    <3>1. CASE q = p
      BY <1>1, <1>5, <2>1, <3>1
    <3>2. CASE q # p
      BY <1>1, <1>2, <1>5, <3>2 DEF PlannersOK
    <3> QED BY <3>1, <3>2
  <2> QED BY <1>5, <2>2 DEF PlannersOK
<1>7. OvertakenPlans'
  <2>1. ASSUME NEW q \in outdated', planner'[q].seen # 0 PROVE planner'[q].epoch < source'.epoch
    <3>1. q \in outdated /\ q \in Planners
      BY <1>1, <1>2 DEF OvertakenPlans
    <3>2. CASE q = p
      BY <1>1, <1>2, <1>5, <2>1, <3>1, <3>2 DEF OvertakenPlans, Follows
    <3>3. CASE q # p
      BY <1>1, <1>2, <1>5, <2>1, <3>1, <3>3 DEF OvertakenPlans
    <3> QED BY <3>2, <3>3
  <2> QED BY <1>1, <1>2, <2>1 DEF OvertakenPlans
<1> QED BY <1>3, <1>6, <1>7 DEF PlanningInvariant

\* The state a planner p is in, by name.
LEMMA PlannerState ==
  ASSUME PlanningInvariant, NEW p \in Planners
  PROVE  /\ CycleOK(hist, table.live, rows, source.baseline, planner[p])
         /\ planner[p] \in Cycles
         /\ HistoryOK(hist, table.format) /\ TableOK(hist, table)
         /\ RowsOK(hist, rows, source.baseline)
         /\ source.baseline \in Baselines /\ source.epoch \in Nat
BY DEF PlanningInvariant, PlannersOK, WorldOK

\* A cycle that holds nothing yet, or nothing any more.
LEMMA EmptyCycle ==
  ASSUME NEW h, NEW live, NEW rs, NEW base, NEW d \in Cycles, d.seen \in 0..Len(rs),
         d.at \in {"idle", "pin", "baseline", "walk", "gate", "exited"},
         d.windows = <<>>, d.rejection = <<>>, PinOK(h, d)
  PROVE  CycleOK(h, live, rs, base, d)
<1>1. TodoOK(h, rs, d)
  BY DEF TodoOK
<1>2. WindowsOK(h, live, base, d)
  BY DEF WindowsOK
<1>3. RejectionOK(h, live, base, d)
  BY DEF RejectionOK
<1> QED BY <1>1, <1>2, <1>3 DEF CycleOK

\* The idle planner.
LEMMA IdleIsOK ==
  ASSUME NEW h, NEW live, NEW rs, NEW base, Len(rs) \in Nat
  PROVE  CycleOK(h, live, rs, base, IdlePlanner) /\ IdlePlanner \in Cycles /\ IdlePlanner.seen = 0
<1>1. PICK d : d = IdlePlanner  OBVIOUS
<1>2. BlankPin \in Pins
  BY DEF BlankPin, Pins
<1>3. <<>> \in Seq(Row) /\ {} \in SUBSET Row
  OBVIOUS
<1>4. /\ d.at = "idle" /\ d.seen = 0 /\ d.windows = <<>> /\ d.rejection = <<>>
      /\ d \in Cycles
  <2>1. "idle" \in Places /\ "none" \in Codes /\ NoEpoch \in Int
    BY DEF Places, NoEpoch, Codes
  <2>2. /\ d.at = "idle" /\ d.seen = 0 /\ d.windows = <<>> /\ d.rejection = <<>>
    BY <1>1 DEF IdlePlanner
  <2> QED BY <1>1, <1>2, <1>3, <2>1, <2>2 DEF IdlePlanner, Cycles
<1>5. PinOK(h, d)
  BY <1>4 DEF PinOK
<1>6. d.seen \in 0..Len(rs)
  BY <1>4
<1>7. CycleOK(h, live, rs, base, d)
  BY <1>4, <1>5, <1>6, EmptyCycle
<1> QED BY <1>1, <1>4, <1>7

\* Closing the gate on the checkpoint of a plan.
LEMMA GateIsOK ==
  ASSUME NEW h, NEW live, NEW rs, NEW base, NEW c, CycleOK(h, live, rs, base, c),
         c.at \in {"walk", "verify"}, c.seen # 0, NEW k \in GateCodes,
         NEW d, d = [c EXCEPT !.at = "gate", !.code = k]
  PROVE  CycleOK(h, live, rs, base, d) /\ Follows(c, d)
<1>1. c \in Cycles /\ c.seen \in 0..Len(rs) /\ PinOK(h, c) /\ WindowsOK(h, live, base, c) /\ RejectionOK(h, live, base, c)
  BY DEF CycleOK
<1>2. k \in Codes
  BY DEF Codes
<1>3. /\ d \in Cycles /\ d.at = "gate" /\ d.seen = c.seen /\ d.epoch = c.epoch /\ d.pin = c.pin
      /\ d.windows = c.windows /\ d.rejection = c.rejection /\ d.code = k
  <2>1. "gate" \in Places
    BY DEF Places
  <2> QED BY <1>1, <1>2, <2>1 DEF Cycles
<1>4. PinOK(h, d)
  BY <1>1, <1>3 DEF PinOK, Places
<1>5. TodoOK(h, rs, d)
  BY <1>3 DEF TodoOK
<1>6. WindowsOK(h, live, base, d)
  BY <1>1, <1>3 DEF WindowsOK
<1>7. RejectionOK(h, live, base, d)
  <2>1. k \notin IncrementCodes
    BY DEF GateCodes, IncrementCodes
  <2> QED BY <1>1, <1>3, <2>1 DEF RejectionOK
<1> QED BY <1>1, <1>3, <1>4, <1>5, <1>6, <1>7 DEF CycleOK, Follows

\* Rejecting a table that has no checkpoint yet.
LEMMA RejectIsOK ==
  ASSUME NEW h, NEW live, NEW rs, NEW base, NEW c, CycleOK(h, live, rs, base, c),
         c.at \in {"baseline", "qualify", "targets", "verify"}, c.seen = 0,
         NEW w, Fresh(h, w), NEW k \in Codes, k \in IncrementCodes => w.snap = base,
         NEW d, d = [c EXCEPT !.at = "reject", !.windows = <<>>,
                              !.rejection = <<[w EXCEPT !.kind = "REJECTED"]>>, !.code = k]
  PROVE  CycleOK(h, live, rs, base, d) /\ Follows(c, d)
<1>1. c \in Cycles /\ c.seen \in 0..Len(rs) /\ PinOK(h, c)
  BY DEF CycleOK
<1>2. PICK r : r = [w EXCEPT !.kind = "REJECTED"]  OBVIOUS
<1>3. Fresh(h, r) /\ r.kind = "REJECTED" /\ r.snap = w.snap
  <2>1. w \in Row
    BY DEF Fresh, Doc
  <2>2. /\ r \in Row /\ r.kind = "REJECTED" /\ r.snap = w.snap /\ r.parent = w.parent /\ r.seq = w.seq
        /\ r.state = w.state /\ r.error = w.error
    BY <1>2, <2>1 DEF Row
  <2> QED BY <2>2 DEF Fresh, Doc
<1>4. <<r>> \in Seq(Row) /\ Len(<<r>>) = 1 /\ <<r>>[1] = r /\ <<r>> # <<>>
  BY <1>3 DEF Fresh, Doc
<1>5. /\ d \in Cycles /\ d.at = "reject" /\ d.seen = 0 /\ d.pin = c.pin
      /\ d.windows = <<>> /\ d.rejection = <<r>> /\ d.code = k
  <2>1. "reject" \in Places /\ <<>> \in Seq(Row)
    BY DEF Places
  <2> QED BY <1>1, <1>2, <1>4, <2>1 DEF Cycles
<1>6. PinOK(h, d)
  BY <1>1, <1>5 DEF PinOK, Places
<1>7. TodoOK(h, rs, d)
  BY <1>5 DEF TodoOK
<1>8. WindowsOK(h, live, base, d)
  BY <1>5 DEF WindowsOK
<1>9. RejectionOK(h, live, base, d)
  <2>1. \A n \in 1..Len(d.rejection) : d.rejection[n] = r
    BY <1>4, <1>5
  <2> QED BY <1>3, <1>4, <1>5, <2>1 DEF RejectionOK
<1> QED BY <1>1, <1>5, <1>6, <1>7, <1>8, <1>9 DEF CycleOK, Follows

\* What plan_initial_baseline and the walk read of a snapshot of the table.
LEMMA DocumentIsFresh ==
  ASSUME PlanningInvariant, NEW p \in Planners, planner[p].pin.spec = 1,
         NEW id \in 1..Len(hist), NEW kind \in {"BASELINE", "APPEND", "REJECTED"},
         NEW w, w = snapshot_from_document(p, id, kind)
  PROVE  /\ Fresh(hist, w) /\ w.snap = id /\ w.kind = kind
         /\ w.spec # 1 => hist[id].spec # 1
<1>1. PICK s : s = snapshot_partition_spec_ids(p, id)  OBVIOUS
<1>2. hist \in Seq(Snapshot) /\ Len(hist) \in Ids
  BY PlannerState DEF HistoryOK
<1>3. hist[id] \in Snapshot
  BY <1>2
<1>4. s \in {1, 2} /\ (s # 1 => hist[id].spec # 1)
  BY <1>1, <1>3 DEF snapshot_partition_spec_ids, Snapshot
<1>5. PICK x, y : x = hist[id].parent /\ y = hist[id].seq  OBVIOUS
<1>6. x \in 0..MaxSnapshots /\ y \in 0..MaxSnapshots
  BY <1>3, <1>5 DEF Snapshot
<1>7. w = [snap |-> id, parent |-> x, seq |-> y, spec |-> s, kind |-> kind, targets |-> {},
           state |-> "SEALED", error |-> "none"]
  BY <1>1, <1>5 DEF snapshot_from_document
<1>8. id \in Ids
  BY <1>2, PlanningAssumption DEF Ids
<1>9. "none" \in Codes
  BY DEF Codes
<1>10. w \in Row
  BY <1>4, <1>6, <1>7, <1>8, <1>9 DEF Row
<1>11. /\ w.snap = id /\ w.parent = x /\ w.seq = y /\ w.spec = s /\ w.kind = kind
       /\ w.state = "SEALED" /\ w.error = "none"
  BY <1>7
<1> QED BY <1>4, <1>5, <1>10, <1>11 DEF Fresh, Doc

\* plan reads the durable checkpoint and its epoch.
LEMMA PlanKeepsInvariant ==
  ASSUME PlanningInvariant, NEW p \in Planners, plan(p)
  PROVE  PlanningInvariant'
<1>1. /\ source' = source /\ rows' = rows /\ table' = table /\ hist' = hist
      /\ spent' = spent /\ outdated' = outdated \ {p}
  BY DEF plan, iceberg
<1>2. PICK n, e, d : /\ n = Len(rows) /\ e = (IF rows = <<>> THEN NoEpoch ELSE source.epoch)
                     /\ d = [IdlePlanner EXCEPT !.at = "pin", !.seen = n, !.epoch = e]
  OBVIOUS
<1>3. planner' = [planner EXCEPT ![p] = d]
  BY <1>2 DEF plan, Go, latest_source_snapshot
<1>4. rows \in Seq(Row) /\ n \in Nat /\ (n # 0 => rows # <<>>) /\ source.epoch \in Nat
  BY <1>2, PlannerState DEF RowsOK
<1>5. e \in Int /\ (n # 0 => e = source.epoch)
  BY <1>2, <1>4 DEF NoEpoch
<1>6. IdlePlanner \in Cycles
  BY <1>2, <1>4, IdleIsOK
<1>7. /\ d \in Cycles /\ d.at = "pin" /\ d.seen = n /\ d.epoch = e
      /\ d.windows = <<>> /\ d.rejection = <<>>
  <2>1. "pin" \in Places
    BY DEF Places
  <2>2. IdlePlanner.windows = <<>> /\ IdlePlanner.rejection = <<>>
    BY DEF IdlePlanner
  <2> QED BY <1>2, <1>4, <1>5, <1>6, <2>1, <2>2 DEF Cycles
<1>8. CycleOK(hist, table.live, rows, source.baseline, d)
  <2>1. PinOK(hist, d)
    BY <1>7 DEF PinOK
  <2>2. d.seen \in 0..Len(rows)
    BY <1>2, <1>4, <1>7
  <2> QED BY <1>7, <2>1, <2>2, EmptyCycle
<1>9. EpochOK(source.epoch, d)
  BY <1>4, <1>5, <1>7 DEF EpochOK
<1>10. WorldOK /\ PlannersOK /\ OvertakenPlans
  BY DEF PlanningInvariant
<1>11. WorldOK'
  BY <1>1, <1>10 DEF WorldOK
<1>12. planner' \in [Planners -> Cycles] /\ planner'[p] = d /\ \A q \in Planners : q # p => planner'[q] = planner[q]
  BY <1>3, <1>7, <1>10 DEF PlannersOK
<1>13. PlannersOK'
  <2>1. ASSUME NEW q \in Planners
        PROVE  /\ CycleOK(hist', table'.live, rows', source'.baseline, planner'[q])
               /\ EpochOK(source'.epoch, planner'[q])
    <3>1. CASE q = p
      BY <1>1, <1>8, <1>9, <1>12, <3>1
    <3>2. CASE q # p
      BY <1>1, <1>10, <1>12, <3>2 DEF PlannersOK
    <3> QED BY <3>1, <3>2
  <2> QED BY <1>12, <2>1 DEF PlannersOK
<1>14. OvertakenPlans'
  <2>1. ASSUME NEW q \in outdated', planner'[q].seen # 0 PROVE planner'[q].epoch < source'.epoch
    <3>1. q \in outdated /\ q \in Planners /\ q # p
      BY <1>1, <1>10 DEF OvertakenPlans
    <3> QED BY <1>1, <1>10, <1>12, <2>1, <3>1 DEF OvertakenPlans
  <2> QED BY <1>1, <1>10, <2>1 DEF OvertakenPlans
<1> QED BY <1>11, <1>13, <1>14 DEF PlanningInvariant

\* plan_pinned pins one generation of the table and checks its contract.
LEMMA PinKeepsInvariant ==
  ASSUME PlanningInvariant, NEW p \in Planners, plan_pinned(p)
  PROVE  PlanningInvariant'
<1>1. PlannerAlone /\ planner[p].at = "pin"
  BY StepsAlone DEF plan_pinned, At
<1>2. PICK c, pin, m : /\ c = planner[p] /\ m = [c EXCEPT !.pin = pin]
                       /\ pin = [uuid |-> table.uuid, spec |-> table.spec, head |-> table.head, live |-> table.live]
  OBVIOUS
<1>3. c \in Cycles /\ c.seen \in 0..Len(rows) /\ PinOK(hist, c)
  BY <1>2, PlannerState DEF CycleOK
<1>4. c.windows = <<>> /\ c.rejection = <<>>
  BY <1>1, <1>2, <1>3 DEF PinOK
<1>5. /\ pin \in Pins /\ pin.head = table.head /\ pin.live = table.live /\ pin.spec = table.spec
      /\ pin.live \subseteq 1..Len(hist) /\ pin.head \in 0..Len(hist)
  <2>1. TableOK(hist, table)
    BY PlannerState
  <2> QED BY <1>2, <2>1 DEF TableOK, Pins
<1>6. /\ m \in Cycles /\ m.seen = c.seen /\ m.epoch = c.epoch /\ m.pin = pin
      /\ m.windows = <<>> /\ m.rejection = <<>>
  BY <1>2, <1>3, <1>4, <1>5 DEF Cycles
<1>7. ASSUME NEW at \in {"baseline", "walk", "gate", "exited"}, NEW k \in Codes, NEW d,
             d = [m EXCEPT !.at = at, !.code = k],
             planner' = [planner EXCEPT ![p] = d],
             at \in {"walk", "baseline"} => pin.spec = 1,
             at = "walk" => c.seen # 0, at = "baseline" => c.seen = 0 /\ pin.head # 0,
             at = "gate" => c.seen # 0 /\ k \in GateCodes
      PROVE  PlanningInvariant'
  <2>1. at \in Places
    BY DEF Places
  <2>2. /\ d \in Cycles /\ d.seen = c.seen /\ d.epoch = c.epoch /\ d.pin = pin /\ d.at = at /\ d.code = k
        /\ d.windows = <<>> /\ d.rejection = <<>>
    BY <1>6, <1>7, <2>1 DEF Cycles
  <2>3. PinOK(hist, d)
    BY <1>5, <1>7, <2>2 DEF PinOK
  <2>4. CycleOK(hist, table.live, rows, source.baseline, d)
    BY <1>3, <2>2, <2>3, EmptyCycle
  <2>5. Follows(planner[p], d)
    BY <1>2, <2>2 DEF Follows
  <2> QED BY <1>1, <1>7, <2>4, <2>5, PlannerMoves
<1>8. m.code \in Codes /\ m.code = c.code
  BY <1>2, <1>3, <1>6 DEF Cycles
<1>9. \A at : [m EXCEPT !.at = at] = [m EXCEPT !.at = at, !.code = m.code]
  BY <1>6 DEF Cycles
<1>10. CASE c.seen = 0
  <2>1. PICK at : at = IF pin.uuid = RegisteredUuid /\ pin.head # 0 /\ validate_table_contract(p, pin)
                       THEN "baseline" ELSE "exited"
    OBVIOUS
  <2>2. planner' = [planner EXCEPT ![p] = [m EXCEPT !.at = at]]
    BY <1>2, <1>10, <2>1 DEF plan_pinned, Go
  <2>3. at \in {"baseline", "exited"} /\ (at = "baseline" => pin.head # 0 /\ pin.spec = 1)
    BY <2>1 DEF validate_table_contract
  <2>4. PICK d : d = [m EXCEPT !.at = at, !.code = m.code]  OBVIOUS
  <2>5. planner' = [planner EXCEPT ![p] = d]
    BY <1>9, <2>2, <2>4
  <2> QED BY <1>7, <1>8, <1>10, <2>3, <2>4, <2>5
<1>11. CASE c.seen # 0
  <2>1. CASE ~validate_table_contract(p, pin)
    <3>1. PICK k, d : k = "SOURCE_TABLE_CONTRACT" /\ d = [m EXCEPT !.at = "gate", !.code = k]  OBVIOUS
    <3>2. planner' = [planner EXCEPT ![p] = d]
      BY <1>2, <1>11, <2>1, <3>1 DEF plan_pinned, Go
    <3>3. k \in GateCodes /\ k \in Codes
      BY <3>1 DEF GateCodes, Codes
    <3> QED BY <1>7, <1>11, <3>1, <3>2, <3>3
  <2>2. CASE validate_table_contract(p, pin) /\ pin.head = 0
    <3>1. PICK k, d : k = "SOURCE_LINEAGE_UNTRUSTED" /\ d = [m EXCEPT !.at = "gate", !.code = k]  OBVIOUS
    <3>2. planner' = [planner EXCEPT ![p] = d]
      BY <1>2, <1>11, <2>2, <3>1 DEF plan_pinned, Go
    <3>3. k \in GateCodes /\ k \in Codes
      BY <3>1 DEF GateCodes, Codes
    <3> QED BY <1>7, <1>11, <3>1, <3>2, <3>3
  <2>3. CASE validate_table_contract(p, pin) /\ pin.head # 0
    <3>1. PICK d : d = [m EXCEPT !.at = "walk", !.code = m.code]  OBVIOUS
    <3>2. planner' = [planner EXCEPT ![p] = [m EXCEPT !.at = "walk"]]
      BY <1>2, <1>11, <2>3 DEF plan_pinned, Go
    <3>3. planner' = [planner EXCEPT ![p] = d]
      BY <1>9, <3>1, <3>2
    <3>4. pin.spec = 1
      BY <2>3 DEF validate_table_contract
    <3> QED BY <1>7, <1>8, <1>11, <3>1, <3>3, <3>4
  <2> QED BY <2>1, <2>2, <2>3
<1> QED BY <1>10, <1>11

\* A planner that is not past its checks rejects a document, or ends the process.
LEMMA RejectKeepsInvariant ==
  ASSUME PlanningInvariant, NEW p \in Planners, PlannerAlone,
         planner[p].at \in {"baseline", "qualify", "targets", "verify"}, planner[p].seen = 0,
         NEW w, Fresh(hist, w), NEW k \in Codes, k \in IncrementCodes => w.snap = source.baseline,
         RejectWith(p, w, k)
  PROVE  PlanningInvariant'
<1>1. PICK c : c = planner[p]  OBVIOUS
<1>2. PICK d : d = [c EXCEPT !.at = "reject", !.windows = <<>>,
                             !.rejection = <<[w EXCEPT !.kind = "REJECTED"]>>, !.code = k]
  OBVIOUS
<1>3. planner' = [planner EXCEPT ![p] = d]
  BY <1>1, <1>2 DEF RejectWith, Go
<1>4. CycleOK(hist, table.live, rows, source.baseline, c)
  BY <1>1, PlannerState
<1>5. CycleOK(hist, table.live, rows, source.baseline, d) /\ Follows(c, d)
  BY <1>1, <1>2, <1>4, RejectIsOK
<1> QED BY <1>1, <1>3, <1>5, PlannerMoves

\* The process ends.
LEMMA ExitKeepsInvariant ==
  ASSUME PlanningInvariant, NEW p \in Planners, PlannerAlone,
         planner[p].at = "baseline", Go(p, [planner[p] EXCEPT !.at = "exited"])
  PROVE  PlanningInvariant'
<1>1. PICK c : c = planner[p]  OBVIOUS
<1>2. PICK d : d = [c EXCEPT !.at = "exited"]  OBVIOUS
<1>3. planner' = [planner EXCEPT ![p] = d]
  BY <1>1, <1>2 DEF Go
<1>4. c \in Cycles /\ c.seen \in 0..Len(rows) /\ PinOK(hist, c)
  BY <1>1, PlannerState DEF CycleOK
<1>5. "exited" \in Places
  BY DEF Places
<1>6. /\ d \in Cycles /\ d.at = "exited" /\ d.seen = c.seen /\ d.epoch = c.epoch
      /\ d.windows = <<>> /\ d.rejection = <<>>
  BY <1>1, <1>2, <1>4, <1>5 DEF Cycles, PinOK
<1>7. PinOK(hist, d)
  BY <1>6 DEF PinOK
<1>8. CycleOK(hist, table.live, rows, source.baseline, d)
  BY <1>4, <1>6, <1>7, EmptyCycle
<1>9. Follows(planner[p], d)
  BY <1>1, <1>6 DEF Follows
<1> QED BY <1>3, <1>8, <1>9, PlannerMoves

\* The cycle ends.
LEMMA EndKeepsInvariant ==
  ASSUME PlanningInvariant, NEW p \in Planners, PlannerAlone, EndCycle(p)
  PROVE  PlanningInvariant'
<1>1. PICK d : d = IdlePlanner  OBVIOUS
<1>2. planner' = [planner EXCEPT ![p] = d]
  BY <1>1 DEF EndCycle, Go
<1>3. Len(rows) \in Nat
  BY PlannerState DEF RowsOK
<1>4. CycleOK(hist, table.live, rows, source.baseline, d) /\ d.seen = 0
  BY <1>1, <1>3, IdleIsOK
<1>5. Follows(planner[p], d)
  BY <1>4 DEF Follows
<1> QED BY <1>2, <1>4, <1>5, PlannerMoves

\* The gate is to be closed on the checkpoint.
LEMMA GateKeepsInvariant ==
  ASSUME PlanningInvariant, NEW p \in Planners, PlannerAlone,
         planner[p].at \in {"walk", "verify"}, planner[p].seen # 0, GateWith(p, "SOURCE_LINEAGE_UNTRUSTED")
  PROVE  PlanningInvariant'
<1>1. PICK c, k : c = planner[p] /\ k = "SOURCE_LINEAGE_UNTRUSTED"  OBVIOUS
<1>2. PICK d : d = [c EXCEPT !.at = "gate", !.code = k]  OBVIOUS
<1>3. planner' = [planner EXCEPT ![p] = d]
  BY <1>1, <1>2 DEF GateWith, Go
<1>4. CycleOK(hist, table.live, rows, source.baseline, c)
  BY <1>1, PlannerState
<1>5. k \in GateCodes
  BY <1>1 DEF GateCodes
<1>6. CycleOK(hist, table.live, rows, source.baseline, d) /\ Follows(c, d)
  BY <1>1, <1>2, <1>4, <1>5, GateIsOK
<1> QED BY <1>1, <1>3, <1>6, PlannerMoves

\* plan_initial_baseline: the registered baseline, or the reason it cannot be used.
LEMMA BaselineKeepsInvariant ==
  ASSUME PlanningInvariant, NEW p \in Planners, plan_initial_baseline(p)
  PROVE  PlanningInvariant'
<1>1. PlannerAlone /\ planner[p].at = "baseline"
  BY StepsAlone DEF plan_initial_baseline, At
<1>2. PICK c : c = planner[p]  OBVIOUS
<1>3. CycleOK(hist, table.live, rows, source.baseline, c)
  BY <1>2, PlannerState
<1>4. c \in Cycles /\ c.seen \in 0..Len(rows) /\ PinOK(hist, c)
  BY <1>3 DEF CycleOK
<1>5. /\ c.at = "baseline" /\ c.seen = 0 /\ c.pin.spec = 1
      /\ c.pin.head \in 1..Len(hist) /\ c.pin.live \subseteq 1..Len(hist)
      /\ c.windows = <<>> /\ c.rejection = <<>>
  <2>1. Len(hist) \in Nat
    BY PlannerState DEF HistoryOK
  <2> QED BY <1>1, <1>2, <1>4, <2>1 DEF PinOK, Places
<1>6. PICK wanted : wanted = source.baseline  OBVIOUS
<1>7. PICK ancestry : ancestry = iter_snapshot_documents(c.pin.head, c.pin.live, IF wanted = 0 THEN c.pin.head ELSE wanted)
  OBVIOUS
<1>8. PICK head, first : /\ head = snapshot_from_document(p, c.pin.head, "REJECTED")
                         /\ first = snapshot_from_document(p, wanted, "BASELINE")
  OBVIOUS
<1>9. Fresh(hist, head)
  <2>1. PICK id : id = c.pin.head  OBVIOUS
  <2> QED BY <1>2, <1>5, <1>8, <2>1, DocumentIsFresh
<1>10. wanted \in ancestry => Fresh(hist, first) /\ first.snap = wanted /\ first.kind = "BASELINE"
  <2>1. ancestry \subseteq 1..Len(hist)
    <3>1. ancestry \subseteq c.pin.live
      BY <1>7 DEF iter_snapshot_documents
    <3> QED BY <1>5, <3>1
  <2> QED BY <1>2, <1>5, <1>8, <2>1, DocumentIsFresh
<1>11. \/ Go(p, [planner[p] EXCEPT !.at = "exited"])
       \/ RejectWith(p, head, "BASELINE_NOT_CONFIGURED")
       \/ RejectWith(p, head, "BASELINE_NOT_RETAINED")
       \/ wanted \in ancestry /\ RejectWith(p, first, "BASELINE_IDENTITY_MISMATCH")
       \/ wanted \in ancestry /\ Go(p, [planner[p] EXCEPT !.at = "qualify", !.windows = <<first>>])
  BY <1>2, <1>6, <1>7, <1>8 DEF plan_initial_baseline
<1>12. /\ BaselineCodes \subseteq Codes /\ BaselineCodes \cap IncrementCodes = {}
       /\ "BASELINE_NOT_CONFIGURED" \in BaselineCodes /\ "BASELINE_NOT_RETAINED" \in BaselineCodes
       /\ "BASELINE_IDENTITY_MISMATCH" \in BaselineCodes
  BY DEF BaselineCodes, Codes, IncrementCodes
<1>13. ASSUME NEW w, Fresh(hist, w), NEW k \in BaselineCodes, RejectWith(p, w, k)
       PROVE  PlanningInvariant'
  <2>1. k \in Codes /\ k \notin IncrementCodes
    BY <1>12
  <2> QED BY <1>1, <1>2, <1>5, <1>13, <2>1, RejectKeepsInvariant
<1>14. CASE Go(p, [planner[p] EXCEPT !.at = "exited"])
  BY <1>1, <1>14, ExitKeepsInvariant
<1>15. CASE RejectWith(p, head, "BASELINE_NOT_CONFIGURED")
  BY <1>9, <1>12, <1>13, <1>15
<1>16. CASE RejectWith(p, head, "BASELINE_NOT_RETAINED")
  BY <1>9, <1>12, <1>13, <1>16
<1>17. CASE wanted \in ancestry /\ RejectWith(p, first, "BASELINE_IDENTITY_MISMATCH")
  BY <1>10, <1>12, <1>13, <1>17
<1>18. CASE wanted \in ancestry /\ Go(p, [planner[p] EXCEPT !.at = "qualify", !.windows = <<first>>])
  <2>1. PICK d : d = [c EXCEPT !.at = "qualify", !.windows = <<first>>]  OBVIOUS
  <2>2. planner' = [planner EXCEPT ![p] = d]
    BY <1>2, <1>18, <2>1 DEF Go
  <2>3. <<first>> \in Seq(Row) /\ Len(<<first>>) = 1 /\ <<first>>[1] = first /\ "qualify" \in Places
    BY <1>10, <1>18 DEF Fresh, Doc, Places
  <2>4. /\ d \in Cycles /\ d.at = "qualify" /\ d.seen = 0 /\ d.pin = c.pin
        /\ d.windows = <<first>> /\ d.rejection = <<>>
    BY <1>4, <1>5, <2>1, <2>3 DEF Cycles
  <2>5. PinOK(hist, d)
    BY <1>4, <1>5, <2>4 DEF PinOK, Places
  <2>6. WindowsOK(hist, table.live, source.baseline, d)
    <3>1. \A n \in 1..Len(d.windows) : d.windows[n] = first
      BY <2>3, <2>4
    <3>2. Len(d.windows) = 1
      BY <2>3, <2>4
    <3> QED BY <1>6, <1>10, <1>18, <2>4, <3>1, <3>2 DEF WindowsOK
  <2>7. RejectionOK(hist, table.live, source.baseline, d)
    BY <2>4 DEF RejectionOK
  <2>8. TodoOK(hist, rows, d)
    BY <2>4 DEF TodoOK
  <2>9. d.seen \in 0..Len(rows)
    BY <1>4, <1>5, <2>4
  <2>10. CycleOK(hist, table.live, rows, source.baseline, d)
    BY <2>4, <2>5, <2>6, <2>7, <2>8, <2>9 DEF CycleOK
  <2>11. Follows(planner[p], d)
    BY <2>4 DEF Follows
  <2> QED BY <1>1, <2>2, <2>10, <2>11, PlannerMoves
<1> QED BY <1>11, <1>14, <1>15, <1>16, <1>17, <1>18

\* Live files of a baseline route to the target its commits write.
LEMMA BaselineHasTargets ==
  ASSUME PlanningInvariant, NEW id, NEW E, E = baseline_entries(id), NEW T, T = discover_baseline_targets(E)
  PROVE  T \subseteq {"a"} /\ \A e \in E : e.target = "a"
<1>1. HistoryOK(hist, table.format)
  BY DEF PlanningInvariant, WorldOK
<1>2. ASSUME NEW a \in DOMAIN hist, NEW f \in FactsOf(a).entries
      PROVE  [f EXCEPT !.status = "EXISTING"].target = "a"
  <2>1. hist[a].kind \in AllKinds
    <3>1. hist \in Seq(Snapshot)
      BY <1>1 DEF HistoryOK
    <3>2. hist[a] \in Snapshot
      BY <1>2, <3>1
    <3> QED BY <3>2 DEF Snapshot
  <2>2. PICK k, s : k = hist[a].kind /\ s = hist[a].spec  OBVIOUS
  <2>3. f \in Facts(k, a, s).entries /\ k \in AllKinds
    BY <1>2, <2>1, <2>2 DEF FactsOf
  <2>4. PICK F : F = Facts(k, a, s)  OBVIOUS
  <2>5. f \in F.entries
    BY <2>3, <2>4
  <2>6. PICK u, v, h : f = [snapshot |-> a, spec |-> u, status |-> v, content |-> "DATA", target |-> "a", hour |-> h]
    <3>1. ASSUME NEW g, \E u, v, h : g = [Entry(a, u, v, "DATA") EXCEPT !.hour = h]
          PROVE  \E u, v, h : g = [snapshot |-> a, spec |-> u, status |-> v, content |-> "DATA", target |-> "a", hour |-> h]
      BY <3>1 DEF Entry
    <3>2. \/ \E u, v : f = Entry(a, u, v, "DATA")
          \/ \E u, v, h : f = [Entry(a, u, v, "DATA") EXCEPT !.hour = h]
      BY <2>3 DEF AllKinds, Facts, Added
    <3> QED BY <3>1, <3>2 DEF Entry
  <2> QED BY <2>6
<1>3. Ancestors(id) \subseteq DOMAIN hist
  BY DEF Ancestors, iter_snapshot_documents
<1>4. ASSUME NEW e \in baseline_entries(id) PROVE e.target = "a"
  <2>1. PICK f \in UNION {{g \in FactsOf(a).entries : IsAddedData(g)} : a \in Ancestors(id)} :
               e = [f EXCEPT !.status = "EXISTING"]
    BY <1>4 DEF baseline_entries
  <2>2. PICK a \in Ancestors(id) : f \in FactsOf(a).entries
    BY <2>1
  <2> QED BY <1>2, <1>3, <2>1, <2>2
<1> QED BY <1>4 DEF discover_baseline_targets

\* qualify: the rows of the baseline are read from the live table.
LEMMA QualifyKeepsInvariant ==
  ASSUME PlanningInvariant, NEW p \in Planners, qualify(p)
  PROVE  PlanningInvariant'
<1>1. PlannerAlone /\ planner[p].at = "qualify"
  BY StepsAlone DEF qualify, At
<1>2. PICK c : c = planner[p]  OBVIOUS
<1>3. CycleOK(hist, table.live, rows, source.baseline, c)
  BY <1>2, PlannerState
<1>4. /\ c \in Cycles /\ c.seen \in 0..Len(rows) /\ PinOK(hist, c) /\ WindowsOK(hist, table.live, source.baseline, c)
      /\ RejectionOK(hist, table.live, source.baseline, c)
  BY <1>3 DEF CycleOK
<1>5. c.at = "qualify" /\ c.seen = 0 /\ c.rejection = <<>> /\ Len(c.windows) = 1
  BY <1>1, <1>2, <1>4 DEF PinOK, WindowsOK, RejectionOK
<1>6. PICK w : w = c.windows[1]  OBVIOUS
<1>7. Fresh(hist, w) /\ w.kind = "BASELINE" /\ w.snap = source.baseline
  BY <1>4, <1>5, <1>6 DEF WindowsOK
<1>8. \/ RejectWith(p, w, "BASELINE_NOT_RETAINED")
      \/ RejectWith(p, w, "BASELINE_NOT_CANONICAL")
      \/ /\ canonical(w.snap)
         /\ planner' = [planner EXCEPT ![p] = [c EXCEPT !.at = "targets"]]
  BY <1>2, <1>6 DEF qualify, Go
<1>9. {"BASELINE_NOT_RETAINED", "BASELINE_NOT_CANONICAL"} \subseteq Codes
  BY DEF BaselineCodes, Codes
<1>10. ASSUME NEW k \in Codes, RejectWith(p, w, k)
       PROVE  PlanningInvariant'
  BY <1>1, <1>2, <1>5, <1>7, <1>10, RejectKeepsInvariant
<1>11. CASE RejectWith(p, w, "BASELINE_NOT_RETAINED")
  BY <1>9, <1>10, <1>11
<1>12. CASE RejectWith(p, w, "BASELINE_NOT_CANONICAL")
  BY <1>9, <1>10, <1>12
<1>13. CASE /\ canonical(w.snap)
            /\ planner' = [planner EXCEPT ![p] = [c EXCEPT !.at = "targets"]]
  <2>1. PICK d : d = [c EXCEPT !.at = "targets"]  OBVIOUS
  <2>2. planner' = [planner EXCEPT ![p] = d]
    BY <1>13, <2>1
  <2>3. /\ d \in Cycles /\ d.at = "targets" /\ d.seen = c.seen /\ d.pin = c.pin
        /\ d.windows = c.windows /\ d.rejection = c.rejection /\ d.code = c.code
    <3>1. "targets" \in Places
      BY DEF Places
    <3> QED BY <1>4, <2>1, <3>1 DEF Cycles
  <2>4. PinOK(hist, d)
    BY <1>4, <1>5, <2>3 DEF PinOK, Places
  <2>5. WindowsOK(hist, table.live, source.baseline, d)
    <3>1. CanonicalIn(hist, source.baseline)
      BY <1>7, <1>13, SameCanonical
    <3> QED BY <1>4, <1>5, <2>3, <3>1 DEF WindowsOK
  <2>6. RejectionOK(hist, table.live, source.baseline, d)
    BY <1>4, <1>5, <2>3 DEF RejectionOK
  <2>7. TodoOK(hist, rows, d)
    BY <2>3 DEF TodoOK
  <2>8. CycleOK(hist, table.live, rows, source.baseline, d)
    BY <1>4, <2>3, <2>4, <2>5, <2>6, <2>7 DEF CycleOK
  <2>9. Follows(planner[p], d)
    BY <1>5, <2>3 DEF Follows
  <2> QED BY <1>1, <2>2, <2>8, <2>9, PlannerMoves
<1> QED BY <1>8, <1>11, <1>12, <1>13

\* The target files of the baseline are read from the live table once more.
LEMMA TargetsKeepInvariant ==
  ASSUME PlanningInvariant, NEW p \in Planners, BaselineTargets(p)
  PROVE  PlanningInvariant'
<1>1. PlannerAlone /\ planner[p].at = "targets"
  BY StepsAlone DEF BaselineTargets, At
<1>2. PICK c : c = planner[p]  OBVIOUS
<1>3. CycleOK(hist, table.live, rows, source.baseline, c)
  BY <1>2, PlannerState
<1>4. c \in Cycles /\ c.seen \in 0..Len(rows) /\ PinOK(hist, c) /\ WindowsOK(hist, table.live, source.baseline, c)
  BY <1>3 DEF CycleOK
<1>5. c.at = "targets" /\ c.seen = 0 /\ c.rejection = <<>> /\ Len(c.windows) = 1
  BY <1>1, <1>2, <1>3, <1>4 DEF PinOK, WindowsOK, RejectionOK, CycleOK
<1>6. PICK w : w = c.windows[1]  OBVIOUS
<1>7. /\ Fresh(hist, w) /\ w.kind = "BASELINE" /\ w.snap = source.baseline
      /\ CanonicalIn(hist, source.baseline)
  BY <1>4, <1>5, <1>6 DEF WindowsOK
<1>8. PICK E, u, T : /\ E = baseline_entries(w.snap) /\ u = collect_manifest_rows(E)
                     /\ T = discover_baseline_targets(E)
  OBVIOUS
<1>9. \/ RejectWith(p, w, "SOURCE_SNAPSHOT_NOT_READABLE")
      \/ RejectWith(p, w, u)
      \/ RejectWith(p, w, "PARTITION_SPEC_CHANGED")
      \/ planner' = [planner EXCEPT ![p] = [c EXCEPT !.at = "verify", !.windows[1].targets = T]]
  BY <1>2, <1>6, <1>8 DEF BaselineTargets, Go
<1>10. {"SOURCE_SNAPSHOT_NOT_READABLE", "PARTITION_SPEC_CHANGED", u} \subseteq Codes
  <2>1. \A e \in E : e.target = "a"
    BY <1>8, BaselineHasTargets
  <2>2. u \in {"none", "SOURCE_MANIFEST_FACT_LIMIT"}
    BY <1>8, <2>1 DEF collect_manifest_rows, manifest_from_row
  <2> QED BY <2>2 DEF Codes, IncrementCodes, ReadFailures
<1>11. ASSUME NEW k \in Codes, RejectWith(p, w, k)
       PROVE  PlanningInvariant'
  BY <1>1, <1>2, <1>5, <1>7, <1>11, RejectKeepsInvariant
<1>12. CASE RejectWith(p, w, "SOURCE_SNAPSHOT_NOT_READABLE")
  BY <1>10, <1>11, <1>12
<1>13. CASE RejectWith(p, w, u)
  BY <1>10, <1>11, <1>13
<1>14. CASE RejectWith(p, w, "PARTITION_SPEC_CHANGED")
  BY <1>10, <1>11, <1>14
<1>15. CASE planner' = [planner EXCEPT ![p] = [c EXCEPT !.at = "verify", !.windows[1].targets = T]]
  <2>1. PICK d : d = [c EXCEPT !.at = "verify", !.windows[1].targets = T]  OBVIOUS
  <2>2. planner' = [planner EXCEPT ![p] = d]
    BY <1>15, <2>1
  <2>3. PICK v, W : v = [w EXCEPT !.targets = T] /\ W = [c.windows EXCEPT ![1] = v]  OBVIOUS
  <2>4. T \in SUBSET {"a"}
    BY <1>8, BaselineHasTargets
  <2>5. Fresh(hist, v) /\ v.kind = "BASELINE" /\ v.snap = source.baseline
    <3>1. w \in Row
      BY <1>7 DEF Fresh, Doc
    <3>2. /\ v \in Row /\ v.kind = w.kind /\ v.snap = w.snap /\ v.parent = w.parent /\ v.seq = w.seq
          /\ v.state = w.state /\ v.error = w.error
      BY <2>3, <2>4, <3>1 DEF Row
    <3> QED BY <1>7, <3>2 DEF Fresh, Doc
  <2>6. W \in Seq(Row) /\ Len(W) = 1 /\ W[1] = v
    <3>1. c.windows \in Seq(Row) /\ v \in Row
      BY <1>4, <2>5 DEF Cycles, Fresh, Doc
    <3> QED BY <1>5, <2>3, <3>1
  <2>7. d = [c EXCEPT !.at = "verify", !.windows = W]
    BY <1>4, <1>6, <2>1, <2>3 DEF Cycles
  <2>8. /\ d \in Cycles /\ d.at = "verify" /\ d.seen = 0 /\ d.pin = c.pin
        /\ d.windows = W /\ d.rejection = <<>>
    <3>1. "verify" \in Places
      BY DEF Places
    <3> QED BY <1>4, <1>5, <2>6, <2>7, <3>1 DEF Cycles
  <2>9. PinOK(hist, d)
    BY <1>4, <1>5, <2>8 DEF PinOK, Places
  <2>10. WindowsOK(hist, table.live, source.baseline, d)
    <3>1. \A n \in 1..Len(d.windows) : d.windows[n] = v
      <4>1. \A n \in 1..1 : n = 1  OBVIOUS
      <4>2. \A n \in 1..Len(W) : W[n] = v
        BY <2>6, <4>1
      <4> QED BY <2>8, <4>2
    <3>2. Len(d.windows) = 1
      BY <2>6, <2>8
    <3> QED BY <1>7, <2>5, <2>8, <3>1, <3>2 DEF WindowsOK
  <2>11. RejectionOK(hist, table.live, source.baseline, d)
    <3>1. W # <<>>
      <4>1. Len(<<>>) = 0  OBVIOUS
      <4> QED BY <2>6, <4>1
    <3> QED BY <2>8, <3>1 DEF RejectionOK
  <2>12. TodoOK(hist, rows, d)
    BY <2>8 DEF TodoOK
  <2>13. d.seen \in 0..Len(rows)
    BY <1>4, <1>5, <2>8
  <2>14. CycleOK(hist, table.live, rows, source.baseline, d)
    BY <2>8, <2>9, <2>10, <2>11, <2>12, <2>13 DEF CycleOK
  <2>15. Follows(planner[p], d)
    BY <2>8 DEF Follows
  <2> QED BY <1>1, <2>2, <2>14, <2>15, PlannerMoves
<1> QED BY <1>9, <1>12, <1>13, <1>14, <1>15

-----------------------------------------------------------------------------
(* Increments.                                                             *)

\* The checkpoint of a plan is a row of the history.
LEMMA CheckpointRow ==
  ASSUME PlanningInvariant, NEW p \in Planners, planner[p].seen # 0, NEW r, r = rows[planner[p].seen]
  PROVE  /\ planner[p].seen \in 1..Len(rows) /\ Doc(hist, r)
         /\ r.snap \in Nat
<1>1. RowsOK(hist, rows, source.baseline) /\ planner[p].seen \in 0..Len(rows)
  BY PlannerState DEF CycleOK
<1>2. Len(rows) \in Nat
  BY <1>1 DEF RowsOK
<1>3. planner[p].seen \in 1..Len(rows)
  BY <1>1, <1>2
<1>4. Doc(hist, r)
  BY <1>1, <1>3 DEF RowsOK
<1>5. r.snap \in 1..Len(hist)
  BY <1>4 DEF Doc
<1> QED BY <1>3, <1>4, <1>5

\* The candidates a trusted walk finds descend from the checkpoint.
LEMMA CandidatesFollow ==
  ASSUME PlanningInvariant, NEW p \in Planners, planner[p].at = "walk",
         NEW found, found = bounded_incremental_candidates(p), found.trusted,
         NEW stop, stop = rows[planner[p].seen].snap
  PROVE  /\ found.ids \subseteq 1..Len(hist)
         /\ \A id \in found.ids : stop < id
<1>1. PICK pin : pin = planner[p].pin  OBVIOUS
<1>2. PICK C : C = iter_snapshot_documents(pin.head, pin.live, stop)  OBVIOUS
<1>3. /\ found.trusted => stop \in C
      /\ found.ids = Oldest(C \ {stop}, MaxPlan + 1)
  BY <1>1, <1>2 DEF bounded_incremental_candidates
<1>4. stop \in C /\ found.ids \subseteq C \ {stop}
  BY <1>3 DEF Oldest
<1>5. PinOK(hist, planner[p]) /\ HistoryOK(hist, table.format)
  BY PlannerState DEF CycleOK
<1>6. pin.live \subseteq 1..Len(hist) /\ pin.head \in 0..Len(hist)
  BY <1>1, <1>5 DEF PinOK, Places
<1>7. \A i \in 1..Len(hist) : hist[i].parent \in Nat /\ hist[i].parent < i
  <2>1. hist \in Seq(Snapshot) /\ \A i \in 1..Len(hist) : hist[i].parent < i
    BY <1>5 DEF HistoryOK
  <2>2. \A i \in 1..Len(hist) : hist[i] \in Snapshot
    BY <2>1
  <2> QED BY <2>1, <2>2, PlanningAssumption DEF Snapshot
<1>8. C \subseteq pin.live
  BY <1>2 DEF iter_snapshot_documents
<1>9. \A i \in C : stop <= i
  <2>1. PICK head, live : head = pin.head /\ live = pin.live  OBVIOUS
  <2>2. head \in Nat /\ live \in SUBSET Nat /\ \A i \in live : hist[i].parent \in Nat /\ hist[i].parent < i
    BY <1>6, <1>7, <2>1
  <2>3. C = iter_snapshot_documents(head, live, stop)
    BY <1>2, <2>1
  <2> QED BY <1>4, <2>2, <2>3, WalkEndsAtStop
<1>10. C \subseteq 1..Len(hist)
  BY <1>6, <1>8
<1>11. \A i \in C : i \in Nat
  BY <1>10
<1>12. \A i \in C \ {stop} : stop < i
  BY <1>4, <1>9, <1>11
<1> QED BY <1>4, <1>10, <1>12

\* The walk of an increment.
LEMMA WalkKeepsInvariant ==
  ASSUME PlanningInvariant, NEW p \in Planners, WalkIncrement(p)
  PROVE  PlanningInvariant'
<1>1. PlannerAlone /\ planner[p].at = "walk"
  BY StepsAlone DEF WalkIncrement, At
<1>2. PICK c : c = planner[p]  OBVIOUS
<1>3. CycleOK(hist, table.live, rows, source.baseline, c)
  BY <1>2, PlannerState
<1>4. c \in Cycles /\ c.seen \in 0..Len(rows) /\ PinOK(hist, c)
  BY <1>3 DEF CycleOK
<1>5. c.at = "walk" /\ c.seen # 0 /\ c.pin.spec = 1 /\ c.windows = <<>> /\ c.rejection = <<>>
  BY <1>1, <1>2, <1>4 DEF PinOK
<1>6. PICK found : found = bounded_incremental_candidates(p)  OBVIOUS
<1>7. PICK todo : todo = {snapshot_from_document(p, id, "APPEND") : id \in found.ids}  OBVIOUS
<1>8. \/ GateWith(p, "SOURCE_LINEAGE_UNTRUSTED")
      \/ EndCycle(p)
      \/ /\ found.trusted /\ found.ids # {}
         /\ planner' = [planner EXCEPT ![p] = [c EXCEPT !.at = "inspect", !.todo = todo]]
  BY <1>2, <1>6, <1>7 DEF WalkIncrement, Go
<1>9. CASE GateWith(p, "SOURCE_LINEAGE_UNTRUSTED")
  BY <1>1, <1>2, <1>5, <1>9, GateKeepsInvariant
<1>10. CASE EndCycle(p)
  BY <1>1, <1>10, EndKeepsInvariant
<1>11. CASE /\ found.trusted /\ found.ids # {}
            /\ planner' = [planner EXCEPT ![p] = [c EXCEPT !.at = "inspect", !.todo = todo]]
  <2>1. PICK d : d = [c EXCEPT !.at = "inspect", !.todo = todo]  OBVIOUS
  <2>2. planner' = [planner EXCEPT ![p] = d]
    BY <1>11, <2>1
  <2>3. PICK stop : stop = rows[c.seen].snap  OBVIOUS
  <2>4. found.ids \subseteq 1..Len(hist) /\ \A id \in found.ids : stop < id
    BY <1>1, <1>2, <1>6, <1>11, <2>3, CandidatesFollow
  <2>5. ASSUME NEW id \in found.ids, NEW t, t = snapshot_from_document(p, id, "APPEND")
        PROVE  /\ Fresh(hist, t) /\ t.snap = id /\ t.kind = "APPEND"
               /\ t.spec # 1 => hist[id].spec # 1
    <3>1. id \in 1..Len(hist)
      BY <2>4
    <3> QED BY <1>2, <1>5, <2>5, <3>1, DocumentIsFresh
  <2>6. ASSUME NEW t \in todo
        PROVE  /\ Fresh(hist, t) /\ t.kind = "APPEND" /\ t = snapshot_from_document(p, t.snap, "APPEND")
               /\ t.spec # 1 => hist[t.snap].spec # 1
               /\ stop < t.snap
    <3>1. PICK id \in found.ids : t = snapshot_from_document(p, id, "APPEND")
      BY <1>7
    <3>2. /\ Fresh(hist, t) /\ t.snap = id /\ t.kind = "APPEND"
          /\ t.spec # 1 => hist[id].spec # 1
      BY <2>5, <3>1
    <3> QED BY <2>4, <3>1, <3>2
  <2>7. todo \in SUBSET Row /\ todo # {}
    BY <1>7, <1>11, <2>6 DEF Fresh, Doc
  <2>8. \A t, u \in todo : t.snap = u.snap => t = u
    BY <2>6
  <2>9. /\ d \in Cycles /\ d.at = "inspect" /\ d.seen = c.seen /\ d.epoch = c.epoch /\ d.pin = c.pin
        /\ d.todo = todo /\ d.windows = <<>> /\ d.rejection = <<>>
    <3>1. "inspect" \in Places
      BY DEF Places
    <3> QED BY <1>4, <1>5, <2>1, <2>7, <3>1 DEF Cycles
  <2>10. PinOK(hist, d)
    BY <1>4, <1>5, <2>9 DEF PinOK, Places
  <2>11. TodoOK(hist, rows, d)
    <3>1. Len(<<>>) = 0  OBVIOUS
    <3>2. \A n \in 1..Len(d.windows) : FALSE
      BY <2>9, <3>1
    <3> QED BY <2>3, <2>6, <2>7, <2>8, <2>9, <3>2 DEF TodoOK
  <2>12. WindowsOK(hist, table.live, source.baseline, d)
    BY <2>9 DEF WindowsOK
  <2>13. RejectionOK(hist, table.live, source.baseline, d)
    BY <2>9 DEF RejectionOK
  <2>14. CycleOK(hist, table.live, rows, source.baseline, d)
    BY <1>4, <2>9, <2>10, <2>11, <2>12, <2>13 DEF CycleOK
  <2>15. Follows(planner[p], d)
    BY <1>2, <2>9 DEF Follows
  <2> QED BY <1>1, <2>2, <2>14, <2>15, PlannerMoves
<1> QED BY <1>8, <1>9, <1>10, <1>11

\* What classification can answer about a snapshot whose manifests may be gone.
LEMMA ClassShape ==
  ASSUME NEW kind \in AllKinds, NEW id, NEW s, NEW spec, NEW f, f = Facts(kind, id, s),
         NEW entries, entries \in {f.entries, {}}, NEW class,
         class = plan_incremental_window(id, spec, f.op, f.declared, entries, {})
  PROVE  class.code \in Codes /\ class.targets \subseteq {"a"}
<1>1. /\ f.op = "append"
      /\ \A e \in f.entries : e.target = "a"
  BY FactsShape
<1>2. \A e \in entries : e.target = "a"
  BY <1>1
<1>3. PICK u : u = collect_manifest_rows(entries)  OBVIOUS
<1>3a. u \in {"none", "SOURCE_MANIFEST_FACT_LIMIT"}
  BY <1>2, <1>3 DEF collect_manifest_rows, manifest_from_row
<1>4. PICK append : append = validate_append_entries(id, f.declared, entries)  OBVIOUS
<1>5. append \in Codes
  BY <1>4 DEF validate_append_entries, Codes, IncrementCodes
<1>6. "PARTITION_SPEC_CHANGED" \in Codes /\ "none" \in Codes /\ u \in Codes
  BY <1>3a DEF Codes, IncrementCodes
<1>7. discover_added_targets(entries) \subseteq {"a"}
  BY <1>2 DEF discover_added_targets
<1>8. \/ class = Rejected(u)
      \/ class = Rejected(append)
      \/ class = Rejected("PARTITION_SPEC_CHANGED")
      \/ class = Accepted("APPEND", discover_added_targets(entries))
  BY <1>1, <1>3, <1>4 DEF plan_incremental_window
<1> QED BY <1>5, <1>6, <1>7, <1>8 DEF Rejected, Accepted

\* The candidate w comes before the others.
IsNext(S, w) == w \in S /\ \A v \in S : v # w => w.snap < v.snap

\* A verdict that is right if the snapshot is live: the targets of what is accepted, or
\* the code of what is rejected for what it is.
Verdict(h, live, w, code, T) ==
  /\ code \in Codes /\ T \subseteq {"a"}
  /\ code = "none" /\ w.snap \in live => CleanIn(h, w.snap) /\ T = TargetsIn(h, w.snap)
  /\ code \in IncrementCodes /\ w.snap \in live => BadIn(h, w.snap)

\* The loop takes the oldest candidate left.
LEMMA CandidateChosen ==
  ASSUME PlanningInvariant, NEW p \in Planners, planner[p].at = "inspect", NEW w, w = NextCandidate(p)
  PROVE  IsNext(planner[p].todo, w)
<1>1. PICK T : T = planner[p].todo  OBVIOUS
<1>2. T # {} /\ (\A t, u \in T : t.snap = u.snap => t = u) /\ T \subseteq Row
  BY <1>1, PlannerState DEF CycleOK, TodoOK, Cycles
<1>3. \A t \in T : t.snap \in Nat
  <2>1. Ids \subseteq Nat
    BY PlanningAssumption DEF Ids
  <2> QED BY <1>2, <2>1 DEF Row
<1>4. PICK N : N = {t.snap : t \in T}  OBVIOUS
<1>5. N \in SUBSET Nat /\ N # {}
  BY <1>2, <1>3, <1>4
<1>6. PICK x \in N : \A y \in N : x <= y
  BY <1>5, LeastId
<1>7. \E t \in T : \A v \in T : t.snap <= v.snap
  BY <1>4, <1>6
<1>8. w = CHOOSE t \in T : \A v \in T : t.snap <= v.snap
  BY <1>1 DEF NextCandidate
<1>9. w \in T /\ \A v \in T : w.snap <= v.snap
  BY <1>7, <1>8
<1>10. \A v \in T : v # w => w.snap < v.snap
  BY <1>2, <1>3, <1>9
<1> QED BY <1>1, <1>9, <1>10 DEF IsNext

\* Sequence numbers rise along the candidates, except in format version 1.
LEMMA SequenceRises ==
  ASSUME PlanningInvariant, NEW p \in Planners, planner[p].at = "inspect", table.format # 1,
         NEW w \in planner[p].todo
  PROVE  ~(w.seq <= PreviousSequence(p))
<1>1. PICK c : c = planner[p]  OBVIOUS
<1>2. CycleOK(hist, table.live, rows, source.baseline, c)
  BY <1>1, PlannerState
<1>3. c.seen # 0 /\ c.windows \in Seq(Row)
  BY <1>1, <1>2 DEF CycleOK, PinOK, Cycles
<1>4. /\ Fresh(hist, w) /\ rows[c.seen].snap < w.snap
      /\ \A n \in 1..Len(c.windows) : c.windows[n].snap < w.snap
  BY <1>1, <1>2 DEF CycleOK, TodoOK
<1>5. ASSUME NEW r, Doc(hist, r) PROVE r.seq = r.snap /\ r.snap \in Nat
  <2>1. HistoryOK(hist, table.format)
    BY PlannerState
  <2> QED BY <1>5, <2>1 DEF Doc, HistoryOK
<1>6. w.seq = w.snap /\ w.snap \in Nat
  BY <1>4, <1>5 DEF Fresh
<1>7. CASE c.windows = <<>>
  <2>1. PICK r : r = rows[c.seen]  OBVIOUS
  <2>2. Doc(hist, r)
    BY <1>1, <1>3, <2>1, CheckpointRow
  <2>3. r.seq = r.snap /\ r.snap \in Nat
    BY <1>5, <2>2
  <2>4. PreviousSequence(p) = r.seq
    BY <1>1, <1>7, <2>1 DEF PreviousSequence
  <2> QED BY <1>4, <1>6, <2>1, <2>3, <2>4
<1>8. CASE c.windows # <<>>
  <2>1. PICK n : n = Len(c.windows)  OBVIOUS
  <2>2. n \in 1..Len(c.windows)
    BY <1>3, <1>8, <2>1
  <2>3. PICK r : r = c.windows[n]  OBVIOUS
  <2>4. Doc(hist, r)
    BY <1>2, <2>2, <2>3 DEF CycleOK, WindowsOK, Fresh
  <2>5. r.seq = r.snap /\ r.snap \in Nat
    BY <1>5, <2>4
  <2>6. PreviousSequence(p) = r.seq
    BY <1>1, <1>8, <2>1, <2>3 DEF PreviousSequence
  <2>7. r.snap < w.snap
    BY <1>4, <2>2, <2>3
  <2> QED BY <1>6, <2>5, <2>6, <2>7
<1> QED BY <1>7, <1>8

\* The verdict on a candidate: right if the candidate was live when it was read.
LEMMA CandidateJudged ==
  ASSUME PlanningInvariant, NEW p \in Planners, planner[p].at = "inspect",
         NEW w \in planner[p].todo, NEW f, f = FactsOf(w.snap),
         NEW error, error = incremental_snapshot_error(p, w), NEW class,
         class = plan_incremental_window(w.snap, w.spec, f.op, f.declared, manifest_entries(w.snap), {}),
         NEW code, code = (IF error # "none" THEN error ELSE class.code), NEW T, T = class.targets
  PROVE  Verdict(hist, table.live, w, code, T)
<1>1. PICK c : c = planner[p]  OBVIOUS
<1>2. CycleOK(hist, table.live, rows, source.baseline, c)
  BY <1>1, PlannerState
<1>3. c.pin.spec = 1 /\ Fresh(hist, w) /\ (w.spec # 1 => hist[w.snap].spec # 1)
  BY <1>1, <1>2 DEF CycleOK, PinOK, TodoOK
<1>4. PICK id, k, s, E : /\ id = w.snap /\ k = hist[id].kind /\ s = hist[id].spec
                         /\ E = manifest_entries(id)
  OBVIOUS
<1>5. id \in 1..Len(hist) /\ hist \in Seq(Snapshot)
  BY <1>3, <1>4, PlannerState DEF Fresh, Doc, HistoryOK
<1>6. k \in AllKinds
  <2>1. hist[id] \in Snapshot
    BY <1>5
  <2> QED BY <1>4, <2>1 DEF Snapshot
<1>7. f = Facts(k, id, s) /\ f = FactsIn(hist, id)
  BY <1>4 DEF FactsOf, FactsIn
<1>8. E \in {f.entries, {}} /\ (id \in table.live => E = f.entries)
  BY <1>4 DEF manifest_entries
<1>9. class.code \in Codes /\ class.targets \subseteq {"a"}
  <2>1. PICK z : z = w.spec  OBVIOUS
  <2>2. class = plan_incremental_window(id, z, f.op, f.declared, E, {})
    BY <1>4, <2>1
  <2> QED BY <1>6, <1>7, <1>8, <2>2, ClassShape
<1>10. /\ error \in {"none", "SOURCE_SNAPSHOT_IDENTITY", "SOURCE_SEQUENCE_ORDER"}
       /\ error = "none" => w.spec = 1
       /\ error = "SOURCE_SNAPSHOT_IDENTITY" => w.spec # 1
       /\ error = "SOURCE_SEQUENCE_ORDER" => w.seq <= PreviousSequence(p)
  BY <1>1, <1>3 DEF incremental_snapshot_error, validate_snapshot_identity
<1>11. code \in Codes
  BY <1>9, <1>10 DEF Codes, IncrementCodes
<1>12. error = "SOURCE_SNAPSHOT_IDENTITY" => BadIn(hist, id)
  BY <1>3, <1>4, <1>10 DEF BadIn, SupportedIn
<1>13. error = "SOURCE_SEQUENCE_ORDER" => BadIn(hist, id)
  <2> SUFFICES ASSUME error = "SOURCE_SEQUENCE_ORDER" PROVE hist[id].seq = 0
    BY DEF BadIn
  <2>1. table.format = 1
    BY <1>10, SequenceRises
  <2> QED BY <1>5, <2>1, PlannerState DEF HistoryOK
<1>14. error = "none" /\ id \in table.live =>
         /\ class.code = "none" => CleanIn(hist, id) /\ class.targets = TargetsIn(hist, id)
         /\ class.code # "none" => BadIn(hist, id)
  <2> SUFFICES ASSUME error = "none", id \in table.live
               PROVE  /\ class.code = "none" => CleanIn(hist, id) /\ class.targets = TargetsIn(hist, id)
                      /\ class.code # "none" => BadIn(hist, id)
    OBVIOUS
  <2>1. class = plan_incremental_window(id, 1, f.op, f.declared, f.entries, {})
    BY <1>4, <1>8, <1>10
  <2>2. hist[id].kind \in AllKinds
    BY <1>4, <1>6
  <2>3. /\ class.code = "none" => CleanIn(hist, id) /\ class.targets = TargetsIn(hist, id)
        /\ class.code # "none" =>
             ~(CleanIn(hist, id) /\ f.declared # "malformed" /\ collect_manifest_rows(f.entries) = "none")
    BY <1>7, <2>1, <2>2, ClassifiedFromManifests
  <2> QED BY <1>7, <2>3 DEF BadIn, SupportedIn
<1>15. "none" \notin IncrementCodes
  BY DEF IncrementCodes
<1> QED BY <1>4, <1>9, <1>10, <1>11, <1>12, <1>13, <1>14, <1>15 DEF Verdict

\* A candidate is accepted: it becomes the next window.
LEMMA AcceptIsOK ==
  ASSUME NEW h, NEW live, NEW rs, NEW base, NEW c, CycleOK(h, live, rs, base, c), c.at = "inspect",
         NEW w, IsNext(c.todo, w), NEW T, Verdict(h, live, w, "none", T),
         NEW rest, rest = c.todo \ {w}, NEW at, at = (IF rest = {} THEN "verify" ELSE "inspect"),
         NEW d, d = [c EXCEPT !.todo = rest, !.windows = Append(c.windows, [w EXCEPT !.targets = T]), !.at = at]
  PROVE  CycleOK(h, live, rs, base, d) /\ Follows(c, d)
<1>0. /\ w \in c.todo /\ (\A v \in c.todo : v # w => w.snap < v.snap) /\ T \in SUBSET {"a"}
      /\ w.snap \in live => CleanIn(h, w.snap) /\ T = TargetsIn(h, w.snap)
  BY DEF IsNext, Verdict
<1>1. /\ c \in Cycles /\ c.seen \in 0..Len(rs) /\ PinOK(h, c) /\ TodoOK(h, rs, c)
      /\ WindowsOK(h, live, base, c)
  BY DEF CycleOK
<1>2. c.seen # 0 /\ c.rejection = <<>> /\ c.windows \in Seq(Row) /\ c.todo \subseteq Row
  BY <1>1 DEF PinOK, TodoOK, Cycles
<1>3. PICK u, n, W : u = [w EXCEPT !.targets = T] /\ n = Len(c.windows) /\ W = Append(c.windows, u)  OBVIOUS
<1>4. Fresh(h, w) /\ w.kind = "APPEND"
  BY <1>0, <1>1 DEF TodoOK
<1>5. /\ Fresh(h, u) /\ u.kind = "APPEND" /\ u.snap = w.snap /\ u \in Row
      /\ u.snap \in live => TrueIn(h, u)
  <2>1. w \in Row
    BY <1>4 DEF Fresh, Doc
  <2>2. /\ u \in Row /\ u.kind = w.kind /\ u.snap = w.snap /\ u.parent = w.parent /\ u.seq = w.seq
        /\ u.state = w.state /\ u.error = w.error /\ u.targets = T
    BY <1>0, <1>3, <2>1 DEF Row
  <2>3. Fresh(h, u)
    BY <1>4, <2>2 DEF Fresh, Doc
  <2> QED BY <1>0, <1>4, <2>2, <2>3 DEF TrueIn
<1>6. /\ n \in Nat /\ W \in Seq(Row) /\ Len(W) = n + 1 /\ W[n + 1] = u
      /\ \A i \in 1..n : W[i] = c.windows[i]
  BY <1>2, <1>3, <1>5
<1>7. \A i \in 1..Len(W) : i = n + 1 \/ i \in 1..n
  BY <1>6
<1>8. W # <<>>
  <2>1. Len(<<>>) = 0  OBVIOUS
  <2> QED BY <1>6, <2>1
<1>9. /\ d \in Cycles /\ d.at = at /\ d.seen = c.seen /\ d.epoch = c.epoch /\ d.pin = c.pin
      /\ d.todo = rest /\ d.windows = W /\ d.rejection = <<>>
  <2>1. at \in Places /\ rest \in SUBSET Row
    BY <1>2 DEF Places
  <2>2. d = [c EXCEPT !.todo = rest, !.windows = W, !.at = at]
    BY <1>3
  <2> QED BY <1>1, <1>2, <1>6, <2>1, <2>2 DEF Cycles
<1>10. PinOK(h, d)
  BY <1>1, <1>2, <1>9 DEF PinOK, Places
<1>11. TodoOK(h, rs, d)
  <2> SUFFICES ASSUME at = "inspect" PROVE TodoOK(h, rs, d)
    BY <1>9 DEF TodoOK
  <2>1. rest # {} /\ rest \subseteq c.todo /\ \A v \in rest : w.snap < v.snap
    BY <1>0
  <2>2. \A t, v \in rest : t.snap = v.snap => t = v
    BY <1>1, <2>1 DEF TodoOK
  <2>3. ASSUME NEW t \in rest
        PROVE  /\ Fresh(h, t) /\ t.kind = "APPEND"
               /\ t.spec # 1 => h[t.snap].spec # 1
               /\ rs[c.seen].snap < t.snap
               /\ \A i \in 1..Len(W) : W[i].snap < t.snap
    <3>1. /\ Fresh(h, t) /\ t.kind = "APPEND"
          /\ t.spec # 1 => h[t.snap].spec # 1
          /\ rs[c.seen].snap < t.snap
          /\ \A i \in 1..n : c.windows[i].snap < t.snap
      BY <1>1, <1>3, <2>1 DEF TodoOK
    <3>2. ASSUME NEW i \in 1..Len(W) PROVE W[i].snap < t.snap
      <4>1. CASE i = n + 1
        BY <1>5, <1>6, <2>1, <4>1
      <4>2. CASE i \in 1..n
        BY <1>6, <3>1, <4>2
      <4> QED BY <1>7, <4>1, <4>2
    <3> QED BY <3>1, <3>2
  <2> QED BY <1>9, <2>1, <2>2, <2>3 DEF TodoOK
<1>12. WindowsOK(h, live, base, d)
  <2>1. ASSUME NEW i \in 1..Len(W)
        PROVE  /\ Fresh(h, W[i]) /\ W[i].kind = "APPEND"
               /\ W[i].snap \in live => TrueIn(h, W[i])
    <3>1. CASE i = n + 1
      BY <1>5, <1>6, <3>1
    <3>2. CASE i \in 1..n
      BY <1>1, <1>2, <1>3, <1>6, <3>2 DEF WindowsOK
    <3> QED BY <1>7, <3>1, <3>2
  <2>2. at \notin {"enqueue", "qualify", "targets"}
    OBVIOUS
  <2> QED BY <1>2, <1>9, <2>1, <2>2 DEF WindowsOK
<1>13. RejectionOK(h, live, base, d)
  <2>1. at # "reject" /\ at # "qualify"
    OBVIOUS
  <2> QED BY <1>2, <1>8, <1>9, <2>1 DEF RejectionOK
<1> QED BY <1>1, <1>2, <1>9, <1>10, <1>11, <1>12, <1>13 DEF CycleOK, Follows

\* A candidate is rejected: nothing after it is looked at.
LEMMA RejectCandidateIsOK ==
  ASSUME NEW h, NEW live, NEW rs, NEW base, NEW c, CycleOK(h, live, rs, base, c), c.at = "inspect",
         NEW w, IsNext(c.todo, w), NEW k, k # "none", NEW T, Verdict(h, live, w, k, T),
         NEW d, d = [c EXCEPT !.todo = {}, !.rejection = <<[w EXCEPT !.kind = "REJECTED"]>>,
                              !.code = k, !.at = "verify"]
  PROVE  CycleOK(h, live, rs, base, d) /\ Follows(c, d)
<1>0. w \in c.todo /\ k \in Codes /\ (k \in IncrementCodes /\ w.snap \in live => BadIn(h, w.snap))
  BY DEF IsNext, Verdict
<1>1. /\ c \in Cycles /\ c.seen \in 0..Len(rs) /\ PinOK(h, c) /\ TodoOK(h, rs, c)
      /\ WindowsOK(h, live, base, c)
  BY DEF CycleOK
<1>2. c.seen # 0 /\ Fresh(h, w)
  BY <1>0, <1>1 DEF PinOK, TodoOK
<1>3. PICK r : r = [w EXCEPT !.kind = "REJECTED"]  OBVIOUS
<1>4. Fresh(h, r) /\ r.kind = "REJECTED" /\ r.snap = w.snap /\ r \in Row
  <2>1. w \in Row
    BY <1>2 DEF Fresh, Doc
  <2>2. /\ r \in Row /\ r.kind = "REJECTED" /\ r.snap = w.snap /\ r.parent = w.parent /\ r.seq = w.seq
        /\ r.state = w.state /\ r.error = w.error
    BY <1>3, <2>1 DEF Row
  <2> QED BY <1>2, <2>2 DEF Fresh, Doc
<1>5. <<r>> \in Seq(Row) /\ Len(<<r>>) = 1 /\ <<r>>[1] = r /\ <<r>> # <<>>
  BY <1>4
<1>6. /\ d \in Cycles /\ d.at = "verify" /\ d.seen = c.seen /\ d.epoch = c.epoch /\ d.pin = c.pin
      /\ d.windows = c.windows /\ d.rejection = <<r>> /\ d.code = k
  <2>1. "verify" \in Places /\ {} \in SUBSET Row
    BY DEF Places
  <2> QED BY <1>0, <1>1, <1>3, <1>5, <2>1 DEF Cycles
<1>7. PinOK(h, d)
  BY <1>1, <1>2, <1>6 DEF PinOK, Places
<1>8. TodoOK(h, rs, d)
  BY <1>6 DEF TodoOK
<1>9. WindowsOK(h, live, base, d)
  BY <1>1, <1>2, <1>6 DEF WindowsOK
<1>10. RejectionOK(h, live, base, d)
  <2>1. \A i \in 1..Len(d.rejection) : d.rejection[i] = r
    <3>1. \A i \in 1..1 : i = 1  OBVIOUS
    <3>2. \A i \in 1..Len(<<r>>) : <<r>>[i] = r
      BY <1>5, <3>1
    <3> QED BY <1>6, <3>2
  <2> QED BY <1>0, <1>2, <1>4, <1>5, <1>6, <2>1 DEF RejectionOK
<1> QED BY <1>1, <1>2, <1>6, <1>7, <1>8, <1>9, <1>10 DEF CycleOK, Follows

\* One turn of the loop of plan_next_increment.
LEMMA IncrementKeepsInvariant ==
  ASSUME PlanningInvariant, NEW p \in Planners, plan_next_increment(p)
  PROVE  PlanningInvariant'
<1>1. PlannerAlone /\ planner[p].at = "inspect"
  BY StepsAlone DEF plan_next_increment, At
<1>2. PICK c, w : c = planner[p] /\ w = NextCandidate(p)  OBVIOUS
<1>3. CycleOK(hist, table.live, rows, source.baseline, c)
  BY <1>2, PlannerState
<1>4. IsNext(c.todo, w)
  BY <1>1, <1>2, CandidateChosen
<1>5. PICK f, error : f = FactsOf(w.snap) /\ error = incremental_snapshot_error(p, w)  OBVIOUS
<1>6. PICK class :
        class = plan_incremental_window(w.snap, w.spec, f.op, f.declared, manifest_entries(w.snap), {})
  OBVIOUS
<1>7. PICK code, T : code = (IF error # "none" THEN error ELSE class.code) /\ T = class.targets  OBVIOUS
<1>8. Verdict(hist, table.live, w, code, T)
  <2>1. w \in planner[p].todo
    BY <1>2, <1>4 DEF IsNext
  <2> QED BY <1>1, <1>5, <1>6, <1>7, <2>1, CandidateJudged
<1>9. PICK rest, at : rest = c.todo \ {w} /\ at = (IF rest = {} THEN "verify" ELSE "inspect")  OBVIOUS
<1>10. \/ /\ code = "none"
          /\ planner' = [planner EXCEPT ![p] =
               [c EXCEPT !.todo = rest, !.windows = Append(c.windows, [w EXCEPT !.targets = T]), !.at = at]]
       \/ /\ code # "none"
          /\ planner' = [planner EXCEPT ![p] =
               [c EXCEPT !.todo = {}, !.rejection = <<[w EXCEPT !.kind = "REJECTED"]>>, !.code = code,
                         !.at = "verify"]]
  BY <1>2, <1>5, <1>6, <1>7, <1>9 DEF plan_next_increment, RejectCandidate, Go
<1>11. CASE /\ code = "none"
            /\ planner' = [planner EXCEPT ![p] =
                 [c EXCEPT !.todo = rest, !.windows = Append(c.windows, [w EXCEPT !.targets = T]), !.at = at]]
  <2>1. PICK d : d = [c EXCEPT !.todo = rest, !.windows = Append(c.windows, [w EXCEPT !.targets = T]), !.at = at]
    OBVIOUS
  <2>2. CycleOK(hist, table.live, rows, source.baseline, d) /\ Follows(c, d)
    <3>1. Verdict(hist, table.live, w, "none", T) /\ c.at = "inspect"
      BY <1>1, <1>2, <1>8, <1>11
    <3>2. PICK live, rs, h, base : live = table.live /\ rs = rows /\ h = hist /\ base = source.baseline
      OBVIOUS
    <3>3. CycleOK(h, live, rs, base, c) /\ Verdict(h, live, w, "none", T)
      BY <1>3, <3>1, <3>2
    <3>4. CycleOK(h, live, rs, base, d) /\ Follows(c, d)
      BY <1>4, <1>9, <2>1, <3>1, <3>3, AcceptIsOK
    <3> QED BY <3>2, <3>4
  <2>3. planner' = [planner EXCEPT ![p] = d]
    BY <1>11, <2>1
  <2> QED BY <1>1, <1>2, <2>2, <2>3, PlannerMoves
<1>12. CASE /\ code # "none"
            /\ planner' = [planner EXCEPT ![p] =
                 [c EXCEPT !.todo = {}, !.rejection = <<[w EXCEPT !.kind = "REJECTED"]>>, !.code = code,
                           !.at = "verify"]]
  <2>1. PICK d : d = [c EXCEPT !.todo = {}, !.rejection = <<[w EXCEPT !.kind = "REJECTED"]>>, !.code = code,
                               !.at = "verify"]
    OBVIOUS
  <2>2. CycleOK(hist, table.live, rows, source.baseline, d) /\ Follows(c, d)
    BY <1>1, <1>2, <1>3, <1>4, <1>8, <1>12, <2>1, RejectCandidateIsOK
  <2>3. planner' = [planner EXCEPT ![p] = d]
    BY <1>12, <2>1
  <2> QED BY <1>1, <1>2, <2>2, <2>3, PlannerMoves
<1> QED BY <1>10, <1>11, <1>12

-----------------------------------------------------------------------------
(* Verification.                                                           *)

\* The prefix of a sequence.
LEMMA PrefixShape ==
  ASSUME NEW S, NEW s \in Seq(S), NEW n \in Nat \ {0}, NEW t, t = FirstOf(s, n)
  PROVE  /\ t \in Seq(S) /\ Len(t) \in Nat /\ Len(t) <= Len(s)
         /\ s # <<>> => t # <<>>
         /\ Len(s) <= 1 => t = s
         /\ \A i \in 1..Len(t) : i \in 1..Len(s) /\ t[i] = s[i]
<1>1. PICK m : m = IF Len(s) < n THEN Len(s) ELSE n  OBVIOUS
<1>2. Len(s) \in Nat /\ m \in Nat /\ m <= Len(s) /\ (s # <<>> => m >= 1)
  BY <1>1
<1>3. t = SubSeq(s, 1, m)
  BY <1>1 DEF FirstOf
<1>4. t \in Seq(S) /\ Len(t) = m /\ \A i \in 1..m : t[i] = s[i]
  BY <1>2, <1>3
<1>5. s # <<>> => t # <<>>
  <2>1. Len(<<>>) = 0  OBVIOUS
  <2> QED BY <1>2, <1>4, <2>1
<1>6. Len(s) <= 1 => t = s
  <2> SUFFICES ASSUME Len(s) <= 1 PROVE t = s
    OBVIOUS
  <2>1. m = Len(s)
    BY <1>1, <1>2
  <2> QED BY <1>2, <1>4, <2>1
<1> QED BY <1>2, <1>4, <1>5, <1>6

\* Verification succeeds: whatever was planned is still live, so that it was read from its
\* real manifests.
LEMMA VerifiedIsOK ==
  ASSUME NEW h, NEW live, NEW rs, NEW base, NEW c, CycleOK(h, live, rs, base, c), c.at = "verify",
         \A n \in DOMAIN c.windows : c.windows[n].snap \in live,
         \A n \in DOMAIN c.rejection : c.rejection[n].snap \in live,
         NEW W, W = FirstOf(c.windows, MaxPlan),
         NEW R, R = (IF Len(c.windows) <= MaxPlan THEN c.rejection ELSE <<>>),
         NEW at, at = (IF c.windows = <<>> THEN "reject" ELSE "enqueue"),
         NEW d, d = [c EXCEPT !.windows = W, !.rejection = R, !.at = at]
  PROVE  CycleOK(h, live, rs, base, d) /\ Follows(c, d)
<1>1. /\ c \in Cycles /\ c.seen \in 0..Len(rs) /\ PinOK(h, c)
      /\ WindowsOK(h, live, base, c) /\ RejectionOK(h, live, base, c)
  BY DEF CycleOK
<1>2. c.windows \in Seq(Row) /\ c.rejection \in Seq(Row) /\ c.seen \in Nat
  BY <1>1 DEF Cycles
<1>3. MaxPlan \in Nat \ {0}
  BY PlanningAssumption
<1>4. /\ W \in Seq(Row) /\ (c.windows # <<>> => W # <<>>)
      /\ \A i \in 1..Len(W) : i \in 1..Len(c.windows) /\ W[i] = c.windows[i]
  BY <1>2, <1>3, PrefixShape
<1>5. R \in Seq(Row) /\ (R = c.rejection \/ R = <<>>) /\ (c.windows = <<>> => R = c.rejection)
  BY <1>2, <1>3
<1>6. /\ d \in Cycles /\ d.at = at /\ d.seen = c.seen /\ d.epoch = c.epoch /\ d.pin = c.pin
      /\ d.windows = W /\ d.rejection = R /\ d.code = c.code
  <2>1. at \in Places
    BY DEF Places
  <2> QED BY <1>1, <1>4, <1>5, <2>1 DEF Cycles
<1>7. PinOK(h, d)
  BY <1>1, <1>6 DEF PinOK, Places
<1>8. TodoOK(h, rs, d)
  BY <1>6 DEF TodoOK
<1>9. WindowsOK(h, live, base, d)
  <2>1. ASSUME NEW i \in 1..Len(W)
        PROVE  /\ Fresh(h, W[i])
               /\ c.seen # 0 => W[i].kind = "APPEND" /\ TrueIn(h, W[i])
               /\ c.seen = 0 => W[i].kind = "BASELINE" /\ W[i].snap = base /\ CanonicalIn(h, base)
    <3>1. i \in 1..Len(c.windows) /\ W[i] = c.windows[i]
      BY <1>4
    <3>2. c.windows[i].snap \in live
      BY <1>2, <3>1
    <3> QED BY <1>1, <3>1, <3>2 DEF WindowsOK
  <2>2. at = "enqueue" => W # <<>>
    BY <1>4
  <2> QED BY <1>6, <2>1, <2>2 DEF WindowsOK
<1>10. RejectionOK(h, live, base, d)
  <2>1. ASSUME NEW i \in 1..Len(R)
        PROVE  /\ Fresh(h, R[i]) /\ R[i].kind = "REJECTED"
               /\ c.seen # 0 /\ c.code \in IncrementCodes => BadIn(h, R[i].snap)
               /\ c.seen = 0 => (c.code \in IncrementCodes => R[i].snap = base)
    <3>1. R = c.rejection
      <4>1. Len(<<>>) = 0  OBVIOUS
      <4>2. R = <<>> => FALSE
        BY <4>1
      <4> QED BY <1>5, <4>2
    <3>2. i \in 1..Len(c.rejection) /\ i \in DOMAIN c.rejection
      BY <1>2, <3>1
    <3> QED BY <1>1, <3>1, <3>2 DEF RejectionOK
  <2>2. at = "reject" => R # <<>>
    BY <1>1, <1>5 DEF RejectionOK
  <2> QED BY <1>6, <2>1, <2>2 DEF RejectionOK
<1> QED BY <1>1, <1>6, <1>7, <1>8, <1>9, <1>10 DEF CycleOK, Follows

\* verify_planning_snapshots.
LEMMA VerifyKeepsInvariant ==
  ASSUME PlanningInvariant, NEW p \in Planners, verify_planning_snapshots(p)
  PROVE  PlanningInvariant'
<1>1. PlannerAlone /\ planner[p].at = "verify"
  BY StepsAlone DEF verify_planning_snapshots, At
<1>2. PICK c : c = planner[p]  OBVIOUS
<1>3. CycleOK(hist, table.live, rows, source.baseline, c)
  BY <1>2, PlannerState
<1>4. c \in Cycles /\ WindowsOK(hist, table.live, source.baseline, c) /\ c.at = "verify"
  BY <1>1, <1>2, <1>3 DEF CycleOK
<1>5. PICK W, R, at : /\ W = FirstOf(c.windows, MaxPlan)
                      /\ R = (IF Len(c.windows) <= MaxPlan THEN c.rejection ELSE <<>>)
                      /\ at = (IF c.windows = <<>> THEN "reject" ELSE "enqueue")
  OBVIOUS
<1>6. \/ /\ Planned(p) \subseteq iter_snapshot_documents(table.head, table.live, FirstPlanned(p))
         /\ planner' = [planner EXCEPT ![p] = [c EXCEPT !.windows = W, !.rejection = R, !.at = at]]
      \/ c.seen = 0 /\ RejectWith(p, c.windows[1], "BASELINE_IDENTITY_MISMATCH")
      \/ c.seen # 0 /\ GateWith(p, "SOURCE_LINEAGE_UNTRUSTED")
  BY <1>2, <1>5 DEF verify_planning_snapshots, Unverified, Go
<1>7. CASE /\ Planned(p) \subseteq iter_snapshot_documents(table.head, table.live, FirstPlanned(p))
           /\ planner' = [planner EXCEPT ![p] = [c EXCEPT !.windows = W, !.rejection = R, !.at = at]]
  <2>1. Planned(p) \subseteq table.live
    BY <1>7 DEF iter_snapshot_documents
  <2>2. /\ \A n \in DOMAIN c.windows : c.windows[n].snap \in table.live
        /\ \A n \in DOMAIN c.rejection : c.rejection[n].snap \in table.live
    BY <1>2, <2>1 DEF Planned
  <2>3. PICK d : d = [c EXCEPT !.windows = W, !.rejection = R, !.at = at]  OBVIOUS
  <2>4. PICK live, rs, h, base : live = table.live /\ rs = rows /\ h = hist /\ base = source.baseline
    OBVIOUS
  <2>5. /\ CycleOK(h, live, rs, base, c)
        /\ \A n \in DOMAIN c.windows : c.windows[n].snap \in live
        /\ \A n \in DOMAIN c.rejection : c.rejection[n].snap \in live
    BY <1>3, <2>2, <2>4
  <2>6. CycleOK(h, live, rs, base, d) /\ Follows(c, d)
    BY <1>4, <1>5, <2>3, <2>5, VerifiedIsOK
  <2>7. CycleOK(hist, table.live, rows, source.baseline, d) /\ Follows(c, d)
    BY <2>4, <2>6
  <2>8. planner' = [planner EXCEPT ![p] = d]
    BY <1>7, <2>3
  <2> QED BY <1>1, <1>2, <2>7, <2>8, PlannerMoves
<1>8. CASE c.seen = 0 /\ RejectWith(p, c.windows[1], "BASELINE_IDENTITY_MISMATCH")
  <2>1. PICK w, k : w = c.windows[1] /\ k = "BASELINE_IDENTITY_MISMATCH"  OBVIOUS
  <2>2. Fresh(hist, w)
    BY <1>4, <1>8, <2>1 DEF WindowsOK
  <2>3. k \in Codes /\ k \notin IncrementCodes
    BY <2>1 DEF Codes, BaselineCodes, IncrementCodes
  <2> QED BY <1>1, <1>2, <1>8, <2>1, <2>2, <2>3, RejectKeepsInvariant
<1>9. CASE c.seen # 0 /\ GateWith(p, "SOURCE_LINEAGE_UNTRUSTED")
  BY <1>1, <1>2, <1>9, GateKeepsInvariant
<1> QED BY <1>6, <1>7, <1>8, <1>9

-----------------------------------------------------------------------------
(* Transactions.                                                           *)

\* The planners go from P to Q, each in a cycle that is right, going on with or ending the
\* one it was in.
PlannersFollow(h, live, rs, base, P, Q) ==
  /\ Q \in [Planners -> Cycles]
  /\ \A q \in Planners : Follows(P[q], Q[q]) /\ CycleOK(h, live, rs, base, Q[q])

\* The epoch stays, or moves on and overtakes every plan.
EpochMoves(s, s2, o, o2) ==
  /\ s2 \in [baseline : Baselines, epoch : Nat] /\ s2.baseline = s.baseline
  /\ \/ s2.epoch = s.epoch /\ o2 = o
     \/ s2.epoch = s.epoch + 1 /\ o2 = Planners

\* A step of the world under the planners.
LEMMA WorldMoves ==
  ASSUME PlanningInvariant,
         HistoryOK(hist', table'.format), TableOK(hist', table'), spent' \in [events : Nat, repairs : Nat],
         RowsOK(hist', rows', source.baseline), Continues(hist, hist'),
         StaysGone(hist, table.live, table'.live), RowsGrow(rows, rows'),
         EpochMoves(source, source', outdated, outdated'),
         PlannersFollow(hist, table.live, rows, source.baseline, planner, planner')
  PROVE  PlanningInvariant'
<1>1. WorldOK /\ PlannersOK /\ OvertakenPlans
  BY DEF PlanningInvariant
<1>2. /\ source' \in [baseline : Baselines, epoch : Nat] /\ source'.baseline = source.baseline
      /\ \/ source'.epoch = source.epoch /\ outdated' = outdated
         \/ source'.epoch = source.epoch + 1 /\ outdated' = Planners
  BY DEF EpochMoves
<1>3. WorldOK'
  BY <1>2 DEF WorldOK
<1>4. PICK e, e2 : e = source.epoch /\ e2 = source'.epoch  OBVIOUS
<1>5. e \in Nat /\ e2 \in Nat /\ e <= e2
  <2>1. source.epoch \in Nat
    BY <1>1 DEF WorldOK
  <2> QED BY <1>2, <1>4, <2>1
<1>6. /\ planner' \in [Planners -> Cycles]
      /\ \A q \in Planners : /\ Follows(planner[q], planner'[q])
                             /\ CycleOK(hist, table.live, rows, source.baseline, planner'[q])
  BY DEF PlannersFollow
<1>7. ASSUME NEW q \in Planners, planner'[q].seen # 0
      PROVE  /\ planner[q].seen # 0 /\ planner'[q].epoch = planner[q].epoch
             /\ planner[q].epoch \in Nat /\ planner[q].epoch <= e
  <2>1. planner[q].seen # 0 /\ planner'[q].epoch = planner[q].epoch
    BY <1>6, <1>7 DEF Follows
  <2>2. EpochOK(e, planner[q])
    BY <1>1, <1>4 DEF PlannersOK
  <2> QED BY <2>1, <2>2 DEF EpochOK
<1>8. PlannersOK'
  <2>1. ASSUME NEW q \in Planners
        PROVE  /\ CycleOK(hist', table'.live, rows', source'.baseline, planner'[q])
               /\ EpochOK(source'.epoch, planner'[q])
    <3>1. PICK h, h2, live, live2, rs, rs2, base, c :
               /\ h = hist /\ h2 = hist' /\ live = table.live /\ live2 = table'.live
               /\ rs = rows /\ rs2 = rows' /\ base = source.baseline /\ c = planner'[q]
      OBVIOUS
    <3>2. /\ Continues(h, h2) /\ StaysGone(h, live, live2) /\ RowsGrow(rs, rs2)
          /\ CycleOK(h, live, rs, base, c)
      BY <1>6, <3>1
    <3>3. CycleOK(h2, live2, rs2, base, c)
      BY <3>2, CycleStays
    <3>4. CycleOK(hist', table'.live, rows', source'.baseline, planner'[q])
      BY <1>2, <3>1, <3>3
    <3>5. EpochOK(source'.epoch, planner'[q])
      <4> SUFFICES ASSUME planner'[q].seen # 0
                   PROVE  planner'[q].epoch \in Nat /\ planner'[q].epoch <= e2
        BY <1>4 DEF EpochOK
      <4>1. PICK x : x = planner[q].epoch  OBVIOUS
      <4>2. planner'[q].epoch = x /\ x \in Nat /\ x <= e
        BY <1>7, <4>1
      <4> QED BY <1>5, <4>2
    <3> QED BY <3>4, <3>5
  <2> QED BY <1>6, <2>1 DEF PlannersOK
<1>9. OvertakenPlans'
  <2>1. outdated \subseteq Planners
    BY <1>1 DEF OvertakenPlans
  <2>2. outdated' \subseteq Planners
    BY <1>2, <2>1
  <2>3. ASSUME NEW q \in outdated', planner'[q].seen # 0 PROVE planner'[q].epoch < source'.epoch
    <3>1. q \in Planners
      BY <2>2
    <3>2. PICK x : x = planner[q].epoch  OBVIOUS
    <3>3. planner[q].seen # 0 /\ planner'[q].epoch = x /\ x \in Nat /\ x <= e
      BY <1>7, <2>3, <3>1, <3>2
    <3>4. CASE source'.epoch = source.epoch /\ outdated' = outdated
      <4>1. x < e
        BY <1>1, <1>4, <2>3, <3>2, <3>3, <3>4 DEF OvertakenPlans
      <4> QED BY <1>4, <3>3, <3>4, <4>1
    <3>5. CASE source'.epoch = source.epoch + 1
      BY <1>4, <1>5, <3>3, <3>5
    <3> QED BY <1>2, <3>4, <3>5
  <2> QED BY <2>2, <2>3 DEF OvertakenPlans
<1> QED BY <1>3, <1>8, <1>9 DEF PlanningInvariant

\* The row w is what may come after the rows rs.
Extends(h, rs, base, w) ==
  /\ Doc(h, w)
  /\ w.kind = "REJECTED" => w.state = "BLOCKED"
  /\ w.kind # "REJECTED" /\ Len(rs) = 0 => w.kind = "BASELINE" /\ w.snap = base /\ CanonicalIn(h, w.snap)
  /\ w.kind # "REJECTED" /\ Len(rs) > 0 => TrueIn(h, w) /\ w.parent = rs[Len(rs)].snap
  /\ Len(rs) > 0 /\ w.error \in IncrementCodes => ~SupportedIn(h, w.snap)

\* A row is appended to the lineage.
LEMMA RowAppended ==
  ASSUME NEW h, NEW rs, NEW base, RowsOK(h, rs, base), NEW w, Extends(h, rs, base, w),
         NEW rs2, rs2 = Append(rs, w)
  PROVE  RowsOK(h, rs2, base) /\ RowsGrow(rs, rs2)
<1>0. PICK n : n = Len(rs)  OBVIOUS
<1>1. /\ Doc(h, w)
      /\ w.kind = "REJECTED" => w.state = "BLOCKED"
      /\ w.kind # "REJECTED" /\ n = 0 => w.kind = "BASELINE" /\ w.snap = base /\ CanonicalIn(h, w.snap)
      /\ w.kind # "REJECTED" /\ n > 0 => TrueIn(h, w) /\ w.parent = rs[n].snap
      /\ n > 0 /\ w.error \in IncrementCodes => ~SupportedIn(h, w.snap)
  BY <1>0 DEF Extends
<1>2. rs \in Seq(Row) /\ w \in Row /\ n \in Nat
  BY <1>0, <1>1 DEF RowsOK, Doc
<1>3. /\ rs2 \in Seq(Row) /\ Len(rs2) = n + 1 /\ rs2[n + 1] = w
      /\ \A i \in 1..n : rs2[i] = rs[i]
  BY <1>0, <1>2
<1>4. RowsGrow(rs, rs2)
  BY <1>0, <1>2, <1>3 DEF RowsGrow
<1>5. ASSUME NEW i \in 1..Len(rs2)
      PROVE  /\ Doc(h, rs2[i])
             /\ rs2[i].kind = "REJECTED" => rs2[i].state = "BLOCKED"
             /\ rs2[i].kind # "REJECTED" => SealedRow(h, rs2, base, i)
             /\ i > 1 /\ rs2[i].error \in IncrementCodes => ~SupportedIn(h, rs2[i].snap)
  <2>1. CASE i \in 1..n
    <3>1. rs2[i] = rs[i] /\ (i > 1 => rs2[i - 1] = rs[i - 1])
      BY <1>2, <1>3, <2>1
    <3>2. /\ Doc(h, rs[i])
          /\ rs[i].kind = "REJECTED" => rs[i].state = "BLOCKED"
          /\ rs[i].kind # "REJECTED" => SealedRow(h, rs, base, i)
          /\ i > 1 /\ rs[i].error \in IncrementCodes => ~SupportedIn(h, rs[i].snap)
      BY <1>0, <2>1 DEF RowsOK
    <3>3. SealedRow(h, rs, base, i) => SealedRow(h, rs2, base, i)
      BY <3>1 DEF SealedRow
    <3> QED BY <3>1, <3>2, <3>3
  <2>2. CASE i = n + 1
    <3>1. rs2[i] = w /\ (n > 0 => rs2[i - 1] = rs[n]) /\ (i > 1 <=> n > 0) /\ (i = 1 <=> n = 0)
      BY <1>2, <1>3, <2>2
    <3>2. w.kind # "REJECTED" => SealedRow(h, rs2, base, i)
      BY <1>1, <3>1 DEF SealedRow
    <3> QED BY <1>1, <3>1, <3>2
  <2> QED BY <1>2, <1>3, <2>1, <2>2
<1> QED BY <1>3, <1>4, <1>5 DEF RowsOK

\* The gate of an accepted row is closed or opened.
LEMMA RowGated ==
  ASSUME NEW h, NEW rs, NEW base, RowsOK(h, rs, base), NEW s \in 1..Len(rs), rs[s].kind # "REJECTED",
         NEW st \in {"SEALED", "BLOCKED"}, NEW er \in Codes \ IncrementCodes,
         NEW rs2, rs2 = [rs EXCEPT ![s] = [rs[s] EXCEPT !.state = st, !.error = er]]
  PROVE  RowsOK(h, rs2, base) /\ RowsGrow(rs, rs2)
<1>1. rs \in Seq(Row) /\ rs[s] \in Row
  BY DEF RowsOK
<1>2. PICK r, u : r = rs[s] /\ u = [r EXCEPT !.state = st, !.error = er]  OBVIOUS
<1>3. /\ u \in Row /\ u.error = er /\ u.snap = r.snap /\ u.parent = r.parent /\ u.seq = r.seq
      /\ u.kind = r.kind /\ u.targets = r.targets
  BY <1>1, <1>2 DEF Row
<1>4. /\ rs2 \in Seq(Row) /\ Len(rs2) = Len(rs) /\ rs2[s] = u
      /\ \A i \in 1..Len(rs) : i # s => rs2[i] = rs[i]
  <2>1. rs2 = [rs EXCEPT ![s] = u]
    BY <1>2
  <2>2. PICK n : n = Len(rs)  OBVIOUS
  <2>3. n \in Nat /\ DOMAIN rs = 1..n /\ s \in 1..n
    BY <1>1, <2>2
  <2>4. rs2 \in Seq(Row)
    BY <1>1, <1>3, <2>1
  <2>5. Len(rs2) = n
    BY <1>1, <2>1, <2>2, <2>3
  <2> QED BY <1>1, <2>1, <2>2, <2>3, <2>4, <2>5
<1>5. ASSUME NEW i \in 1..Len(rs) PROVE rs2[i].snap = rs[i].snap
  <2>1. CASE i = s
    BY <1>2, <1>3, <1>4, <2>1
  <2>2. CASE i # s
    BY <1>4, <2>2
  <2> QED BY <2>1, <2>2
<1>6. RowsGrow(rs, rs2)
  BY <1>1, <1>4, <1>5 DEF RowsGrow
<1>7. ASSUME NEW i \in 1..Len(rs)
      PROVE  /\ Doc(h, rs2[i])
             /\ rs2[i].kind = "REJECTED" => rs2[i].state = "BLOCKED"
             /\ rs2[i].kind # "REJECTED" => SealedRow(h, rs2, base, i)
             /\ i > 1 /\ rs2[i].error \in IncrementCodes => ~SupportedIn(h, rs2[i].snap)
  <2>1. /\ Doc(h, rs[i])
        /\ rs[i].kind = "REJECTED" => rs[i].state = "BLOCKED"
        /\ rs[i].kind # "REJECTED" => SealedRow(h, rs, base, i)
        /\ i > 1 /\ rs[i].error \in IncrementCodes => ~SupportedIn(h, rs[i].snap)
    BY DEF RowsOK
  <2>2. i > 1 => rs2[i - 1].snap = rs[i - 1].snap
    BY <1>1, <1>5
  <2>3. CASE i = s
    <3>1. Doc(h, u)
      BY <1>2, <1>3, <2>1, <2>3 DEF Doc
    <3>2. SealedRow(h, rs, base, i) => SealedRow(h, rs2, base, i)
      BY <1>2, <1>3, <1>4, <2>2, <2>3 DEF SealedRow, TrueIn
    <3> QED BY <1>2, <1>3, <1>4, <2>1, <2>3, <3>1, <3>2
  <2>4. CASE i # s
    <3>1. rs2[i] = rs[i]
      BY <1>4, <2>4
    <3>2. SealedRow(h, rs, base, i) => SealedRow(h, rs2, base, i)
      BY <2>2, <3>1 DEF SealedRow
    <3> QED BY <2>1, <3>1, <3>2
  <2> QED BY <2>3, <2>4
<1> QED BY <1>4, <1>6, <1>7 DEF RowsOK

\* One planner moves, or none does.
LEMMA OneFollows ==
  ASSUME PlanningInvariant, NEW p \in Planners, NEW d,
         CycleOK(hist, table.live, rows, source.baseline, d), Follows(planner[p], d),
         planner' = [planner EXCEPT ![p] = d]
  PROVE  PlannersFollow(hist, table.live, rows, source.baseline, planner, planner')
<1>1. /\ planner \in [Planners -> Cycles] /\ d \in Cycles
      /\ \A q \in Planners : CycleOK(hist, table.live, rows, source.baseline, planner[q])
  BY DEF PlanningInvariant, PlannersOK, CycleOK
<1>2. planner' \in [Planners -> Cycles] /\ planner'[p] = d /\ \A q \in Planners : q # p => planner'[q] = planner[q]
  BY <1>1
<1>3. \A q \in Planners : Follows(planner[q], planner[q])
  BY DEF Follows
<1>4. ASSUME NEW q \in Planners
      PROVE  /\ Follows(planner[q], planner'[q])
             /\ CycleOK(hist, table.live, rows, source.baseline, planner'[q])
  <2>1. CASE q = p
    BY <1>2, <2>1
  <2>2. CASE q # p
    BY <1>1, <1>2, <1>3, <2>2
  <2> QED BY <2>1, <2>2
<1> QED BY <1>2, <1>4 DEF PlannersFollow

\* Nothing moves.
LEMMA NoneMoves ==
  ASSUME PlanningInvariant
  PROVE  /\ PlannersFollow(hist, table.live, rows, source.baseline, planner, planner)
         /\ EpochMoves(source, source, outdated, outdated)
         /\ Continues(hist, hist) /\ StaysGone(hist, table.live, table.live) /\ RowsGrow(rows, rows)
         /\ HistoryOK(hist, table.format) /\ TableOK(hist, table) /\ RowsOK(hist, rows, source.baseline)
         /\ spent \in [events : Nat, repairs : Nat] /\ source \in [baseline : Baselines, epoch : Nat]
<1>1. /\ planner \in [Planners -> Cycles]
      /\ \A q \in Planners : CycleOK(hist, table.live, rows, source.baseline, planner[q])
  BY DEF PlanningInvariant, PlannersOK
<1>2. \A q \in Planners : Follows(planner[q], planner[q])
  BY DEF Follows
<1>3. PlannersFollow(hist, table.live, rows, source.baseline, planner, planner)
  BY <1>1, <1>2 DEF PlannersFollow
<1>4. /\ HistoryOK(hist, table.format) /\ TableOK(hist, table) /\ RowsOK(hist, rows, source.baseline)
      /\ spent \in [events : Nat, repairs : Nat] /\ source \in [baseline : Baselines, epoch : Nat]
  BY DEF PlanningInvariant, WorldOK
<1>5. Continues(hist, hist)
  BY <1>4 DEF HistoryOK, Continues
<1>6. RowsGrow(rows, rows)
  BY <1>4 DEF RowsOK, RowsGrow
<1> QED BY <1>3, <1>4, <1>5, <1>6 DEF EpochMoves, StaysGone

\* A gate closes or opens: the epoch moves on.
LEMMA EpochTurns ==
  ASSUME PlanningInvariant, NewEpoch, Overtake
  PROVE  EpochMoves(source, source', outdated, outdated')
<1>1. source \in [baseline : Baselines, epoch : Nat]
  BY DEF PlanningInvariant, WorldOK
<1>2. source' = [source EXCEPT !.epoch = source.epoch + 1]
  BY DEF NewEpoch
<1>3. source' \in [baseline : Baselines, epoch : Nat] /\ source'.baseline = source.baseline /\ source'.epoch = source.epoch + 1
  BY <1>1, <1>2
<1> QED BY <1>3 DEF EpochMoves, Overtake

\* After a window is written the planner goes on with the rest of the plan.
LEMMA AfterWindowIsOK ==
  ASSUME PlanningInvariant, NEW p \in Planners, planner[p].at = "enqueue", AfterWindow(p)
  PROVE  PlannersFollow(hist, table.live, rows, source.baseline, planner, planner')
<1>1. PICK c, rest : c = planner[p] /\ rest = Tail(c.windows)  OBVIOUS
<1>2. CycleOK(hist, table.live, rows, source.baseline, c)
  BY <1>1, PlannerState
<1>3. /\ c \in Cycles /\ c.seen \in 0..Len(rows) /\ PinOK(hist, c) /\ c.at = "enqueue"
      /\ WindowsOK(hist, table.live, source.baseline, c) /\ RejectionOK(hist, table.live, source.baseline, c)
  BY <1>1, <1>2 DEF CycleOK
<1>4. c.windows \in Seq(Row) /\ c.windows # <<>> /\ c.rejection \in Seq(Row)
  BY <1>3 DEF Cycles, WindowsOK
<1>5. PICK n : n = Len(c.windows)  OBVIOUS
<1>6. /\ n \in Nat /\ n >= 1 /\ rest \in Seq(Row) /\ Len(rest) = n - 1
      /\ \A i \in 1..n - 1 : rest[i] = c.windows[i + 1]
  BY <1>1, <1>4, <1>5
<1>7. ASSUME NEW at \in {"enqueue", "reject"}, NEW d, d = [c EXCEPT !.windows = rest, !.at = at],
             at = "enqueue" => rest # <<>>, at = "reject" => rest = <<>> /\ c.rejection # <<>>
      PROVE  CycleOK(hist, table.live, rows, source.baseline, d) /\ Follows(c, d)
  <2>1. /\ d \in Cycles /\ d.at = at /\ d.seen = c.seen /\ d.epoch = c.epoch /\ d.pin = c.pin
        /\ d.windows = rest /\ d.rejection = c.rejection /\ d.code = c.code
    <3>1. at \in Places
      BY <1>7 DEF Places
    <3> QED BY <1>3, <1>6, <1>7, <3>1 DEF Cycles
  <2>2. PinOK(hist, d)
    BY <1>3, <1>7, <2>1 DEF PinOK, Places
  <2>3. TodoOK(hist, rows, d)
    BY <1>7, <2>1 DEF TodoOK
  <2>4. WindowsOK(hist, table.live, source.baseline, d)
    <3>1. ASSUME NEW i \in 1..Len(rest)
          PROVE  /\ Fresh(hist, rest[i])
                 /\ c.seen # 0 => rest[i].kind = "APPEND" /\ TrueIn(hist, rest[i])
                 /\ c.seen = 0 => /\ rest[i].kind = "BASELINE" /\ rest[i].snap = source.baseline
                                  /\ CanonicalIn(hist, source.baseline)
      <4>1. PICK j : j = i + 1  OBVIOUS
      <4>2. j \in 1..Len(c.windows) /\ rest[i] = c.windows[j]
        BY <1>5, <1>6, <4>1
      <4> QED BY <1>3, <4>2 DEF WindowsOK
    <3> QED BY <1>7, <2>1, <3>1 DEF WindowsOK
  <2>5. RejectionOK(hist, table.live, source.baseline, d)
    BY <1>3, <1>7, <2>1 DEF RejectionOK
  <2> QED BY <1>3, <2>1, <2>2, <2>3, <2>4, <2>5 DEF CycleOK, Follows
<1>8. \E d : /\ planner' = [planner EXCEPT ![p] = d]
             /\ CycleOK(hist, table.live, rows, source.baseline, d) /\ Follows(c, d)
  <2>1. CASE rest # <<>>
    <3>1. PICK d : d = [c EXCEPT !.windows = rest, !.at = "enqueue"]  OBVIOUS
    <3>2. [c EXCEPT !.windows = rest] = d
      BY <1>3, <3>1 DEF Cycles
    <3>3. planner' = [planner EXCEPT ![p] = d]
      BY <1>1, <2>1, <3>2 DEF AfterWindow, Go
    <3>4. CycleOK(hist, table.live, rows, source.baseline, d) /\ Follows(c, d)
      BY <1>7, <2>1, <3>1
    <3> QED BY <3>3, <3>4
  <2>2. CASE rest = <<>> /\ c.rejection # <<>>
    <3>1. PICK d : d = [c EXCEPT !.windows = rest, !.at = "reject"]  OBVIOUS
    <3>2. planner' = [planner EXCEPT ![p] = d]
      BY <1>1, <2>2, <3>1 DEF AfterWindow, Go
    <3>3. CycleOK(hist, table.live, rows, source.baseline, d) /\ Follows(c, d)
      BY <1>7, <2>2, <3>1
    <3> QED BY <3>2, <3>3
  <2>3. CASE rest = <<>> /\ c.rejection = <<>>
    <3>1. PICK d : d = IdlePlanner  OBVIOUS
    <3>2. planner' = [planner EXCEPT ![p] = d]
      BY <1>1, <2>3, <3>1 DEF AfterWindow, EndCycle, Go
    <3>3. Len(rows) \in Nat
      BY PlannerState DEF RowsOK
    <3>4. CycleOK(hist, table.live, rows, source.baseline, d) /\ d.seen = 0
      BY <3>1, <3>3, IdleIsOK
    <3>5. Follows(c, d)
      BY <3>4 DEF Follows
    <3> QED BY <3>2, <3>4, <3>5
  <2> QED BY <2>1, <2>2, <2>3
<1> QED BY <1>1, <1>8, OneFollows

\* The cycle of p ends.
LEMMA EndFollows ==
  ASSUME PlanningInvariant, NEW p \in Planners, EndCycle(p)
  PROVE  PlannersFollow(hist, table.live, rows, source.baseline, planner, planner')
<1>1. PICK d : d = IdlePlanner  OBVIOUS
<1>2. planner' = [planner EXCEPT ![p] = d]
  BY <1>1 DEF EndCycle, Go
<1>3. Len(rows) \in Nat
  BY PlannerState DEF RowsOK
<1>4. CycleOK(hist, table.live, rows, source.baseline, d) /\ d.seen = 0
  BY <1>1, <1>3, IdleIsOK
<1>5. Follows(planner[p], d)
  BY <1>4 DEF Follows
<1> QED BY <1>2, <1>4, <1>5, OneFollows

\* A transaction of a planner that writes rows and leaves the epoch, or turns it.
LEMMA TransactionKeepsInvariant ==
  ASSUME PlanningInvariant, UNCHANGED iceberg, spent' \in [events : Nat, repairs : Nat],
         RowsOK(hist, rows', source.baseline), RowsGrow(rows, rows'),
         EpochMoves(source, source', outdated, outdated'),
         PlannersFollow(hist, table.live, rows, source.baseline, planner, planner')
  PROVE  PlanningInvariant'
<1>1. table' = table /\ hist' = hist
  BY DEF iceberg
<1>2. /\ Continues(hist, hist) /\ StaysGone(hist, table.live, table.live)
      /\ HistoryOK(hist, table.format) /\ TableOK(hist, table)
  BY NoneMoves
<1>3. /\ Continues(hist, hist') /\ StaysGone(hist, table.live, table'.live)
      /\ HistoryOK(hist', table'.format) /\ TableOK(hist', table') /\ RowsOK(hist', rows', source.baseline)
  BY <1>1, <1>2
<1> QED BY <1>3, WorldMoves

\* enqueue_source_snapshot: a verified window joins the lineage, or the cycle ends.
LEMMA EnqueueKeepsInvariant ==
  ASSUME PlanningInvariant, NEW p \in Planners, enqueue_source_snapshot(p)
  PROVE  PlanningInvariant'
<1>1. /\ source' = source /\ outdated' = outdated /\ UNCHANGED iceberg /\ spent' = spent
      /\ planner[p].at = "enqueue"
  BY DEF enqueue_source_snapshot, At
<1>2. PICK c, w : c = planner[p] /\ w = Head(c.windows)  OBVIOUS
<1>3. CycleOK(hist, table.live, rows, source.baseline, c)
  BY <1>2, PlannerState
<1>4. /\ c \in Cycles /\ c.at = "enqueue" /\ WindowsOK(hist, table.live, source.baseline, c)
  BY <1>1, <1>2, <1>3 DEF CycleOK
<1>5. /\ EpochMoves(source, source', outdated, outdated') /\ spent' \in [events : Nat, repairs : Nat]
      /\ RowsOK(hist, rows, source.baseline) /\ RowsGrow(rows, rows)
  BY <1>1, NoneMoves
<1>6. \/ Admits(p, w) /\ insert_or_validate_snapshot(w) /\ AfterWindow(p)
      \/ EndCycle(p) /\ rows' = rows
  BY <1>2 DEF enqueue_source_snapshot
<1>7. CASE EndCycle(p) /\ rows' = rows
  <2>1. PlannersFollow(hist, table.live, rows, source.baseline, planner, planner')
    BY <1>7, EndFollows
  <2> QED BY <1>1, <1>5, <1>7, <2>1, TransactionKeepsInvariant
<1>8. CASE Admits(p, w) /\ insert_or_validate_snapshot(w) /\ AfterWindow(p)
  <2>1. PlannersFollow(hist, table.live, rows, source.baseline, planner, planner')
    BY <1>1, <1>8, AfterWindowIsOK
  <2>2. CASE rows' = rows
    BY <1>1, <1>5, <2>1, <2>2, TransactionKeepsInvariant
  <2>3. CASE ~Known(w.snap) /\ rows' = Append(rows, w)
    <3>1. 1 \in 1..Len(c.windows) /\ w = c.windows[1]
      <4>1. c.windows \in Seq(Row) /\ c.windows # <<>>
        BY <1>4 DEF Cycles, WindowsOK
      <4> QED BY <1>2, <4>1
    <3>2. /\ Fresh(hist, w)
          /\ c.seen # 0 => w.kind = "APPEND" /\ TrueIn(hist, w)
          /\ c.seen = 0 => w.kind = "BASELINE" /\ w.snap = source.baseline /\ CanonicalIn(hist, source.baseline)
      BY <1>4, <3>1 DEF WindowsOK
    <3>3. Doc(hist, w) /\ w.error = "none"
      BY <3>2 DEF Fresh
    <3>4. w.kind # "REJECTED" /\ w.error \notin IncrementCodes
      BY <3>2, <3>3 DEF IncrementCodes
    <3>5. PICK n, rs2 : n = Len(rows) /\ rs2 = Append(rows, w)  OBVIOUS
    <3>6. rows \in Seq(Row)
      BY <1>5 DEF RowsOK
    <3>7. /\ n = 0 => w.kind = "BASELINE"
          /\ n > 0 => w.kind # "BASELINE" /\ w.parent = rows[n].snap
      <4>1. assert_new_snapshot_extends_latest(w)
        BY <1>8 DEF Admits
      <4>2. n \in Nat /\ (n = 0 <=> rows = <<>>)
        BY <3>5, <3>6
      <4> QED BY <2>3, <3>4, <3>5, <4>1, <4>2 DEF assert_new_snapshot_extends_latest, latest_source_snapshot
    <3>8. n = 0 => w.kind = "BASELINE" /\ w.snap = source.baseline /\ CanonicalIn(hist, w.snap)
      BY <3>2, <3>7
    <3>9. n > 0 => TrueIn(hist, w) /\ w.parent = rows[n].snap
      BY <3>2, <3>7
    <3>10. RowsOK(hist, rs2, source.baseline) /\ RowsGrow(rows, rs2)
      <4>1. Extends(hist, rows, source.baseline, w)
        BY <3>3, <3>4, <3>5, <3>8, <3>9 DEF Extends
      <4> QED BY <1>5, <3>5, <4>1, RowAppended
    <3> QED BY <1>1, <1>5, <2>1, <2>3, <3>5, <3>10, TransactionKeepsInvariant
  <2> QED BY <1>8, <2>2, <2>3 DEF insert_or_validate_snapshot
<1> QED BY <1>6, <1>7, <1>8

\* A rejection that comes without a checkpoint after others have written rows names the
\* registered baseline or finds the source gated.
LEMMA LateBaselineRejection ==
  ASSUME PlanningInvariant, rows # <<>>, assert_source_gate_allows_snapshot(source.baseline)
  PROVE  Known(source.baseline)
<1>1. RowsOK(hist, rows, source.baseline)
  BY NoneMoves
<1>2. 1 \in 1..Len(rows) /\ 1 \in DOMAIN rows
  BY <1>1 DEF RowsOK
<1>3. /\ rows[1].kind = "REJECTED" => rows[1].state = "BLOCKED"
      /\ rows[1].kind # "REJECTED" => rows[1].snap = source.baseline
  BY <1>1, <1>2 DEF RowsOK, SealedRow
<1>4. CASE rows[1].kind = "REJECTED"
  BY <1>2, <1>3, <1>4 DEF assert_source_gate_allows_snapshot, source_blocked
<1>5. CASE rows[1].kind # "REJECTED"
  BY <1>2, <1>3, <1>5 DEF Known
<1> QED BY <1>4, <1>5

\* enqueue_blocked_source_snapshot: the rejection is recorded and gates the source.
LEMMA RejectionKeepsInvariant ==
  ASSUME PlanningInvariant, NEW p \in Planners, enqueue_blocked_source_snapshot(p)
  PROVE  PlanningInvariant'
<1>1. UNCHANGED iceberg /\ spent' = spent /\ planner[p].at = "reject" /\ EndCycle(p)
  BY DEF enqueue_blocked_source_snapshot, At
<1>2. PICK c, r, w : /\ c = planner[p] /\ r = c.rejection[1]
                     /\ w = [r EXCEPT !.state = "BLOCKED", !.error = c.code]
  OBVIOUS
<1>3. CycleOK(hist, table.live, rows, source.baseline, c)
  BY <1>2, PlannerState
<1>4. /\ c \in Cycles /\ c.at = "reject" /\ RejectionOK(hist, table.live, source.baseline, c)
      /\ c.seen \in 0..Len(rows)
  BY <1>1, <1>2, <1>3 DEF CycleOK
<1>5. PlannersFollow(hist, table.live, rows, source.baseline, planner, planner')
  BY <1>1, EndFollows
<1>6. /\ EpochMoves(source, source, outdated, outdated) /\ spent' \in [events : Nat, repairs : Nat]
      /\ RowsOK(hist, rows, source.baseline) /\ RowsGrow(rows, rows)
  BY <1>1, NoneMoves
<1>7. \/ Admits(p, w) /\ ~Known(w.snap) /\ insert_or_validate_snapshot(w) /\ NewEpoch /\ Overtake
      \/ UNCHANGED durable
  BY <1>2 DEF enqueue_blocked_source_snapshot
<1>8. CASE UNCHANGED durable
  <2>1. source' = source /\ rows' = rows /\ outdated' = outdated
    BY <1>8 DEF durable
  <2>2. EpochMoves(source, source', outdated, outdated')
    BY <1>6, <2>1
  <2> QED BY <1>1, <1>5, <1>6, <2>1, <2>2, TransactionKeepsInvariant
<1>9. CASE Admits(p, w) /\ ~Known(w.snap) /\ insert_or_validate_snapshot(w) /\ NewEpoch /\ Overtake
  <2>1. EpochMoves(source, source', outdated, outdated')
    BY <1>9, EpochTurns
  <2>2. rows' = Append(rows, w)
    BY <1>9 DEF insert_or_validate_snapshot
  <2>3. 1 \in 1..Len(c.rejection)
    <3>1. c.rejection \in Seq(Row) /\ c.rejection # <<>>
      BY <1>4 DEF Cycles, RejectionOK
    <3> QED BY <3>1
  <2>4. /\ Fresh(hist, r) /\ r.kind = "REJECTED"
        /\ c.seen # 0 /\ c.code \in IncrementCodes => BadIn(hist, r.snap)
        /\ c.seen = 0 => (c.code \in IncrementCodes => r.snap = source.baseline)
    BY <1>2, <1>4, <2>3 DEF RejectionOK
  <2>5. /\ w \in Row /\ w.snap = r.snap /\ w.parent = r.parent /\ w.seq = r.seq /\ w.kind = "REJECTED"
        /\ w.state = "BLOCKED" /\ w.error = c.code
    <3>1. r \in Row /\ c.code \in Codes
      BY <1>4, <2>4 DEF Fresh, Doc, Cycles
    <3> QED BY <1>2, <2>4, <3>1 DEF Row
  <2>6. Doc(hist, w)
    BY <2>4, <2>5 DEF Fresh, Doc
  <2>7. PICK n, rs2 : n = Len(rows) /\ rs2 = Append(rows, w)  OBVIOUS
  <2>8. n > 0 /\ w.error \in IncrementCodes => ~SupportedIn(hist, w.snap)
    <3> SUFFICES ASSUME n > 0, c.code \in IncrementCodes PROVE ~SupportedIn(hist, w.snap)
      BY <2>5
    <3>1. rows # <<>>
      <4>1. Len(<<>>) = 0  OBVIOUS
      <4> QED BY <2>7, <4>1
    <3>2. CASE c.seen = 0
      <4>1. w.snap = source.baseline
        BY <2>4, <2>5, <3>2
      <4>2. assert_source_gate_allows_snapshot(w.snap)
        BY <1>9 DEF Admits
      <4>3. Known(source.baseline)
        BY <3>1, <4>1, <4>2, LateBaselineRejection
      <4> QED BY <1>9, <4>1, <4>3
    <3>3. CASE c.seen # 0
      <4>1. w.seq > rows[n].seq
        <5>1. assert_new_snapshot_extends_latest(w)
          BY <1>9 DEF Admits
        <5> QED BY <1>9, <2>7, <3>1, <5>1 DEF assert_new_snapshot_extends_latest, latest_source_snapshot
      <4>2. rows[n].seq \in Nat
        <5>1. rows \in Seq(Row) /\ n \in 1..Len(rows)
          BY <1>6, <2>7, <3>1 DEF RowsOK
        <5>2. rows[n] \in Row
          BY <5>1
        <5> QED BY <5>2, PlanningAssumption DEF Row
      <4>3. w.seq = hist[w.snap].seq /\ w.seq \in Nat
        BY <2>5, <2>6, PlanningAssumption DEF Doc, Row
      <4>4. hist[w.snap].seq # 0
        BY <4>1, <4>2, <4>3
      <4> QED BY <2>4, <2>5, <3>3, <4>4 DEF BadIn
    <3> QED BY <3>2, <3>3
  <2>9. RowsOK(hist, rs2, source.baseline) /\ RowsGrow(rows, rs2)
    <3>1. Extends(hist, rows, source.baseline, w)
      BY <2>5, <2>6, <2>7, <2>8 DEF Extends
    <3> QED BY <1>6, <2>7, <3>1, RowAppended
  <2> QED BY <1>1, <1>5, <1>6, <2>1, <2>2, <2>7, <2>9, TransactionKeepsInvariant
<1> QED BY <1>7, <1>8, <1>9

\* block_source_snapshot closes the gate of the checkpoint.
LEMMA BlockKeepsInvariant ==
  ASSUME PlanningInvariant, NEW p \in Planners, block_source_snapshot(p)
  PROVE  PlanningInvariant'
<1>1. UNCHANGED iceberg /\ spent' = spent /\ planner[p].at = "gate" /\ EndCycle(p)
  BY DEF block_source_snapshot, At
<1>2. PICK c, s : c = planner[p] /\ s = c.seen  OBVIOUS
<1>3. c \in Cycles /\ PinOK(hist, c) /\ c.at = "gate"
  BY <1>1, <1>2, PlannerState DEF CycleOK
<1>4. c.seen # 0 /\ c.code \in GateCodes
  BY <1>3 DEF PinOK
<1>5. s \in 1..Len(rows)
  BY <1>2, <1>4, CheckpointRow
<1>6. PlannersFollow(hist, table.live, rows, source.baseline, planner, planner')
  BY <1>1, EndFollows
<1>7. /\ EpochMoves(source, source, outdated, outdated) /\ spent' \in [events : Nat, repairs : Nat]
      /\ RowsOK(hist, rows, source.baseline) /\ RowsGrow(rows, rows)
  BY <1>1, NoneMoves
<1>8. \/ UNCHANGED durable
      \/ /\ rows[s].state # "BLOCKED" /\ NewEpoch /\ Overtake
         /\ rows' = [rows EXCEPT ![s].state = "BLOCKED", ![s].error = c.code]
  BY <1>2 DEF block_source_snapshot
<1>9. CASE UNCHANGED durable
  <2>1. source' = source /\ rows' = rows /\ outdated' = outdated
    BY <1>9 DEF durable
  <2>2. EpochMoves(source, source', outdated, outdated')
    BY <1>7, <2>1
  <2> QED BY <1>1, <1>6, <1>7, <2>1, <2>2, TransactionKeepsInvariant
<1>10. CASE /\ rows[s].state # "BLOCKED" /\ NewEpoch /\ Overtake
            /\ rows' = [rows EXCEPT ![s].state = "BLOCKED", ![s].error = c.code]
  <2>1. EpochMoves(source, source', outdated, outdated')
    BY <1>10, EpochTurns
  <2>2. PICK st, er, rs2 : /\ st = "BLOCKED" /\ er = c.code
                           /\ rs2 = [rows EXCEPT ![s] = [rows[s] EXCEPT !.state = st, !.error = er]]
    OBVIOUS
  <2>3. rows' = rs2
    <3>1. rows \in Seq(Row) /\ rows[s] \in Row
      BY <1>5, <1>7 DEF RowsOK
    <3> QED BY <1>5, <1>10, <2>2, <3>1 DEF Row
  <2>4. rows[s].kind # "REJECTED"
    BY <1>5, <1>7, <1>10 DEF RowsOK
  <2>5. st \in {"SEALED", "BLOCKED"} /\ er \in Codes \ IncrementCodes
    <3>1. GateCodes \subseteq Codes \ IncrementCodes
      BY DEF GateCodes, Codes, IncrementCodes
    <3> QED BY <1>4, <2>2, <3>1
  <2>6. RowsOK(hist, rs2, source.baseline) /\ RowsGrow(rows, rs2)
    BY <1>5, <1>7, <2>2, <2>4, <2>5, RowGated
  <2> QED BY <1>1, <1>6, <1>7, <2>1, <2>3, <2>6, TransactionKeepsInvariant
<1> QED BY <1>8, <1>9, <1>10

\* retry_blocked_source_snapshot opens the gate of an accepted row.
LEMMA RetryKeepsInvariant ==
  ASSUME PlanningInvariant, NEW s \in DOMAIN rows, retry_blocked_source_snapshot(s)
  PROVE  PlanningInvariant'
<1>1. /\ UNCHANGED iceberg /\ planner' = planner /\ NewEpoch /\ Overtake /\ rows[s].kind # "REJECTED"
      /\ rows' = [rows EXCEPT ![s].state = "SEALED", ![s].error = "none"]
      /\ spent' = [spent EXCEPT !.repairs = spent.repairs + 1]
  BY DEF retry_blocked_source_snapshot
<1>2. /\ RowsOK(hist, rows, source.baseline) /\ spent \in [events : Nat, repairs : Nat]
      /\ PlannersFollow(hist, table.live, rows, source.baseline, planner, planner)
  BY NoneMoves
<1>3. rows \in Seq(Row) /\ s \in 1..Len(rows) /\ rows[s] \in Row
  BY <1>2 DEF RowsOK
<1>4. spent' \in [events : Nat, repairs : Nat]
  BY <1>1, <1>2
<1>5. EpochMoves(source, source', outdated, outdated')
  BY <1>1, EpochTurns
<1>6. PICK st, er, rs2 : /\ st = "SEALED" /\ er = "none"
                         /\ rs2 = [rows EXCEPT ![s] = [rows[s] EXCEPT !.state = st, !.error = er]]
  OBVIOUS
<1>7. rows' = rs2
  BY <1>1, <1>3, <1>6 DEF Row
<1>8. st \in {"SEALED", "BLOCKED"} /\ er \in Codes \ IncrementCodes
  BY <1>6 DEF Codes, IncrementCodes
<1>9. RowsOK(hist, rs2, source.baseline) /\ RowsGrow(rows, rs2)
  BY <1>1, <1>2, <1>3, <1>6, <1>8, RowGated
<1>10. PlannersFollow(hist, table.live, rows, source.baseline, planner, planner')
  BY <1>1, <1>2
<1> QED BY <1>1, <1>4, <1>5, <1>7, <1>9, <1>10, TransactionKeepsInvariant

\* Spark refuses a read of the table: what the plan was about to read is rejected or gated.
LEMMA ReadFailKeepsInvariant ==
  ASSUME PlanningInvariant, NEW p \in Planners, ReadFails(p)
  PROVE  PlanningInvariant'
<1>1. PlannerAlone
  BY StepsAlone DEF ReadFails
<1>2. PICK c : c = planner[p]  OBVIOUS
<1>3. CycleOK(hist, table.live, rows, source.baseline, c)
  BY <1>2, PlannerState
<1>4. c \in Cycles /\ PinOK(hist, c) /\ WindowsOK(hist, table.live, source.baseline, c)
  BY <1>3 DEF CycleOK
<1>5. /\ ReadFailures \subseteq Codes /\ ReadFailures \cap IncrementCodes = {} /\ "none" \notin ReadFailures
      /\ "BASELINE_NOT_RETAINED" \in Codes /\ "BASELINE_IDENTITY_MISMATCH" \in Codes
  BY DEF ReadFailures, Codes, IncrementCodes, BaselineCodes
<1>6. ASSUME c.at \in {"qualify", "targets", "verify"}, c.seen = 0, NEW k \in Codes, RejectWith(p, c.windows[1], k)
      PROVE  PlanningInvariant'
  <2>1. PICK w : w = c.windows[1]  OBVIOUS
  <2>2. Fresh(hist, w) /\ w.snap = source.baseline
    BY <1>4, <1>6, <2>1 DEF WindowsOK
  <2> QED BY <1>1, <1>2, <1>6, <2>1, <2>2, RejectKeepsInvariant
<1>7. CASE At(p, "baseline") /\ Go(p, [planner[p] EXCEPT !.at = "exited"])
  BY <1>1, <1>7, ExitKeepsInvariant DEF At
<1>8. CASE At(p, "qualify") /\ RejectWith(p, planner[p].windows[1], "BASELINE_NOT_RETAINED")
  <2>1. c.at = "qualify" /\ c.seen = 0
    BY <1>2, <1>4, <1>8 DEF At, PinOK
  <2> QED BY <1>2, <1>5, <1>6, <1>8, <2>1
<1>9. CASE At(p, "targets") /\ \E code \in ReadFailures : RejectWith(p, planner[p].windows[1], code)
  <2>1. c.at = "targets" /\ c.seen = 0
    BY <1>2, <1>4, <1>9 DEF At, PinOK
  <2> QED BY <1>2, <1>5, <1>6, <1>9, <2>1
<1>10. CASE At(p, "walk") /\ GateWith(p, "SOURCE_LINEAGE_UNTRUSTED")
  <2>1. c.at = "walk" /\ c.seen # 0
    BY <1>2, <1>4, <1>10 DEF At, PinOK
  <2> QED BY <1>1, <1>2, <1>10, <2>1, GateKeepsInvariant
<1>11. ASSUME At(p, "inspect"), NEW code \in ReadFailures, RejectCandidate(p, code)
       PROVE  PlanningInvariant'
  <2>1. PICK w : w = NextCandidate(p)  OBVIOUS
  <2>2. c.at = "inspect" /\ IsNext(c.todo, w)
    BY <1>2, <1>11, <2>1, CandidateChosen DEF At
  <2>3. PICK d : d = [c EXCEPT !.todo = {}, !.rejection = <<[w EXCEPT !.kind = "REJECTED"]>>,
                               !.code = code, !.at = "verify"]
    OBVIOUS
  <2>4. planner' = [planner EXCEPT ![p] = d]
    BY <1>2, <1>11, <2>1, <2>3 DEF RejectCandidate, Go
  <2>5. code # "none" /\ Verdict(hist, table.live, w, code, {})
    BY <1>5 DEF Verdict
  <2>6. CycleOK(hist, table.live, rows, source.baseline, d) /\ Follows(c, d)
    BY <1>3, <2>2, <2>3, <2>5, RejectCandidateIsOK
  <2> QED BY <1>1, <1>2, <2>4, <2>6, PlannerMoves
<1>12. CASE At(p, "verify") /\ Unverified(p)
  <2>1. CASE c.seen = 0
    BY <1>2, <1>5, <1>6, <1>12, <2>1 DEF Unverified, At
  <2>2. CASE c.seen # 0
    BY <1>1, <1>2, <1>12, <2>2, GateKeepsInvariant DEF Unverified, At
  <2> QED BY <2>1, <2>2
<1> QED BY <1>7, <1>8, <1>9, <1>10, <1>11, <1>12 DEF ReadFails

\* A cycle dies.
LEMMA FailKeepsInvariant ==
  ASSUME PlanningInvariant, NEW p \in Planners, CycleFails(p)
  PROVE  PlanningInvariant'
<1>1. /\ UNCHANGED iceberg /\ UNCHANGED durable /\ EndCycle(p)
      /\ spent' = [spent EXCEPT !.events = spent.events + 1]
  BY DEF CycleFails, Event
<1>2. source' = source /\ rows' = rows /\ outdated' = outdated
  BY <1>1 DEF durable
<1>3. /\ RowsOK(hist, rows, source.baseline) /\ spent \in [events : Nat, repairs : Nat]
      /\ RowsGrow(rows, rows) /\ EpochMoves(source, source, outdated, outdated)
  BY NoneMoves
<1>4. spent' \in [events : Nat, repairs : Nat]
  BY <1>1, <1>3
<1>5. PlannersFollow(hist, table.live, rows, source.baseline, planner, planner')
  BY <1>1, EndFollows
<1>6. EpochMoves(source, source', outdated, outdated') /\ RowsOK(hist, rows', source.baseline) /\ RowsGrow(rows, rows')
  BY <1>2, <1>3
<1> QED BY <1>1, <1>4, <1>5, <1>6, TransactionKeepsInvariant

-----------------------------------------------------------------------------
(* The table.                                                              *)

\* The table changes under the planners.
LEMMA TableKeepsInvariant ==
  ASSUME PlanningInvariant, UNCHANGED durable, planner' = planner,
         spent' \in [events : Nat, repairs : Nat],
         HistoryOK(hist', table'.format), TableOK(hist', table'),
         Continues(hist, hist'), StaysGone(hist, table.live, table'.live)
  PROVE  PlanningInvariant'
<1>1. source' = source /\ rows' = rows /\ outdated' = outdated
  BY DEF durable
<1>2. /\ RowsOK(hist, rows, source.baseline) /\ RowsGrow(rows, rows)
      /\ EpochMoves(source, source, outdated, outdated)
      /\ PlannersFollow(hist, table.live, rows, source.baseline, planner, planner)
  BY NoneMoves
<1>3. RowsOK(hist', rows, source.baseline)
  <2>1. PICK h, h2, rs, base : h = hist /\ h2 = hist' /\ rs = rows /\ base = source.baseline  OBVIOUS
  <2>2. Continues(h, h2) /\ RowsOK(h, rs, base)
    BY <1>2, <2>1
  <2>3. RowsOK(h2, rs, base)
    BY <2>2, RowsStay
  <2> QED BY <2>1, <2>3
<1>4. /\ RowsOK(hist', rows', source.baseline) /\ RowsGrow(rows, rows')
      /\ EpochMoves(source, source', outdated, outdated')
      /\ PlannersFollow(hist, table.live, rows, source.baseline, planner, planner')
  BY <1>1, <1>2, <1>3
<1> QED BY <1>4, WorldMoves

\* A writer commits.
LEMMA CommitKeepsInvariant ==
  ASSUME PlanningInvariant, Commits
  PROVE  PlanningInvariant'
<1>1. UNCHANGED durable /\ planner' = planner /\ spent' = spent /\ Len(hist) < MaxSnapshots
  BY DEF Commits
<1>2. PICK kind \in Kinds : hist' = Append(hist, NewSnapshot(table.head, table.spec, kind, table.format))
  BY DEF Commits
<1>3. HistoryOK(hist, table.format) /\ TableOK(hist, table) /\ spent' \in [events : Nat, repairs : Nat]
  BY <1>1, NoneMoves
<1>4. PICK n, u, f : n = Len(hist) /\ u = NewSnapshot(table.head, table.spec, kind, table.format) /\ f = table.format
  OBVIOUS
<1>5. /\ hist \in Seq(Snapshot) /\ n \in Nat /\ n \in Ids
      /\ \A i \in 1..n : hist[i].parent < i /\ hist[i].seq = IF f = 1 THEN 0 ELSE i
  BY <1>3, <1>4 DEF HistoryOK
<1>6. /\ table \in [uuid : Nat, spec : {1, 2}, head : Nat, live : SUBSET Nat, format : Formats]
      /\ table.live \subseteq 1..n /\ table.head \in 0..n
  BY <1>3, <1>4 DEF TableOK
<1>7. /\ u \in Snapshot /\ u.parent = table.head /\ u.seq = IF f = 1 THEN 0 ELSE n + 1
  <2>1. kind \in AllKinds
    BY PlanningAssumption DEF AllKinds
  <2>2. PICK x, y, z : x = table.head /\ y = table.spec /\ z = IF f = 1 THEN 0 ELSE n + 1  OBVIOUS
  <2>3. x \in 0..MaxSnapshots /\ y \in {1, 2} /\ z \in 0..MaxSnapshots
    BY <1>1, <1>4, <1>5, <1>6, <2>2, PlanningAssumption
  <2>4. u = [parent |-> x, spec |-> y, kind |-> kind, seq |-> z]
    BY <1>4, <2>2 DEF NewSnapshot
  <2> QED BY <2>1, <2>2, <2>3, <2>4 DEF Snapshot
<1>8. /\ hist' \in Seq(Snapshot) /\ Len(hist') = n + 1 /\ hist'[n + 1] = u
      /\ \A i \in 1..n : hist'[i] = hist[i]
  BY <1>2, <1>4, <1>5, <1>7
<1>9. table' = [table EXCEPT !.head = n + 1, !.live = table.live \cup {n + 1}]
  <2>1. table' = [table EXCEPT !.head = Len(hist'), !.live = table.live \cup {Len(hist')}]
    BY DEF Commits
  <2> QED BY <1>8, <2>1
<1>10. /\ table' \in [uuid : Nat, spec : {1, 2}, head : Nat, live : SUBSET Nat, format : Formats]
       /\ table'.head = n + 1 /\ table'.live = table.live \cup {n + 1} /\ table'.format = f
  <2>1. PICK m, M : m = n + 1 /\ M = table.live \cup {n + 1}  OBVIOUS
  <2>2. m \in Nat /\ M \in SUBSET Nat
    BY <1>5, <1>6, <2>1
  <2>3. table' = [table EXCEPT !.head = m, !.live = M]
    BY <1>9, <2>1
  <2> QED BY <1>4, <1>6, <2>1, <2>2, <2>3
<1>11. HistoryOK(hist', table'.format)
  <2>1. Len(hist') \in Ids
    BY <1>1, <1>4, <1>5, <1>8, PlanningAssumption DEF Ids
  <2>2. ASSUME NEW i \in 1..n + 1 PROVE hist'[i].parent < i /\ hist'[i].seq = IF f = 1 THEN 0 ELSE i
    <3>1. CASE i = n + 1
      BY <1>5, <1>6, <1>7, <1>8, <3>1
    <3>2. CASE i \in 1..n
      BY <1>5, <1>8, <3>2
    <3> QED BY <1>5, <3>1, <3>2
  <2> QED BY <1>8, <1>10, <2>1, <2>2 DEF HistoryOK
<1>12. TableOK(hist', table')
  <2>1. table.live \cup {n + 1} \subseteq 1..n + 1 /\ n + 1 \in 0..n + 1
    BY <1>5, <1>6
  <2> QED BY <1>8, <1>10, <2>1 DEF TableOK
<1>13. Continues(hist, hist')
  BY <1>4, <1>5, <1>8 DEF Continues
<1>14. StaysGone(hist, table.live, table'.live)
  <2>1. n + 1 \notin 1..n
    BY <1>5
  <2> QED BY <1>4, <1>10, <2>1 DEF StaysGone
<1> QED BY <1>1, <1>3, <1>11, <1>12, <1>13, <1>14, TableKeepsInvariant

\* Rollback, expiry, another specification, another table.
LEMMA EventKeepsInvariant ==
  ASSUME PlanningInvariant, CatalogEvent
  PROVE  PlanningInvariant'
<1>1. /\ UNCHANGED durable /\ planner' = planner /\ hist' = hist
      /\ spent' = [spent EXCEPT !.events = spent.events + 1]
  BY DEF CatalogEvent, Event
<1>2. /\ HistoryOK(hist, table.format) /\ TableOK(hist, table) /\ spent \in [events : Nat, repairs : Nat]
      /\ Continues(hist, hist)
  BY NoneMoves
<1>3. spent' \in [events : Nat, repairs : Nat]
  BY <1>1, <1>2
<1>4. PICK n, L : n = Len(hist) /\ L = table.live  OBVIOUS
<1>5. /\ table \in [uuid : Nat, spec : {1, 2}, head : Nat, live : SUBSET Nat, format : Formats]
      /\ L \subseteq 1..n /\ table.head \in 0..n /\ n \in Nat
  BY <1>2, <1>4 DEF TableOK, HistoryOK
<1>6. /\ table' \in [uuid : Nat, spec : {1, 2}, head : Nat, live : SUBSET Nat, format : Formats]
      /\ table'.format = table.format /\ table'.live \subseteq L /\ table'.head \in 0..n
  <2>1. \/ \E id \in L \ {table.head}, cleaned \in BOOLEAN :
             table' = [table EXCEPT !.head = id, !.live = IF cleaned THEN L \cap Ancestors(id) ELSE L]
        \/ \E id \in L \ {table.head} : table' = [table EXCEPT !.live = L \ {id}]
        \/ table' = [table EXCEPT !.spec = 3 - table.spec]
        \/ table' = [table EXCEPT !.uuid = table.uuid + 1, !.head = 0, !.live = {}]
    BY <1>4 DEF CatalogEvent
  <2>2. ASSUME NEW id \in L \ {table.head}, NEW M, M \subseteq L,
               table' = [table EXCEPT !.head = id, !.live = M]
        PROVE  /\ table' \in [uuid : Nat, spec : {1, 2}, head : Nat, live : SUBSET Nat, format : Formats]
               /\ table'.format = table.format /\ table'.live \subseteq L /\ table'.head \in 0..n
    <3>1. id \in Nat /\ id \in 0..n /\ M \in SUBSET Nat
      BY <1>5, <2>2
    <3> QED BY <1>5, <2>2, <3>1
  <2>3. ASSUME NEW id \in L \ {table.head}, NEW cleaned \in BOOLEAN,
               table' = [table EXCEPT !.head = id, !.live = IF cleaned THEN L \cap Ancestors(id) ELSE L]
        PROVE  /\ table' \in [uuid : Nat, spec : {1, 2}, head : Nat, live : SUBSET Nat, format : Formats]
               /\ table'.format = table.format /\ table'.live \subseteq L /\ table'.head \in 0..n
    <3>1. PICK M : M = IF cleaned THEN L \cap Ancestors(id) ELSE L  OBVIOUS
    <3>2. M \subseteq L
      BY <3>1
    <3>3. table' = [table EXCEPT !.head = id, !.live = M]
      BY <2>3, <3>1
    <3> QED BY <2>2, <3>2, <3>3
  <2>4. CASE \E id \in L \ {table.head} : table' = [table EXCEPT !.live = L \ {id}]
    BY <1>4, <1>5, <2>4
  <2>5. CASE table' = [table EXCEPT !.spec = 3 - table.spec]
    <3>1. PICK x : x = 3 - table.spec  OBVIOUS
    <3>2. x \in {1, 2}
      <4>1. table.spec = 1 \/ table.spec = 2
        BY <1>5
      <4> QED BY <3>1, <4>1
    <3>3. table' = [table EXCEPT !.spec = x]
      BY <2>5, <3>1
    <3> QED BY <1>4, <1>5, <3>2, <3>3
  <2>6. CASE table' = [table EXCEPT !.uuid = table.uuid + 1, !.head = 0, !.live = {}]
    <3>1. PICK x : x = table.uuid + 1  OBVIOUS
    <3>2. x \in Nat /\ 0 \in 0..n /\ {} \in SUBSET Nat
      BY <1>5, <3>1
    <3>3. table' = [table EXCEPT !.uuid = x, !.head = 0, !.live = {}]
      BY <2>6, <3>1
    <3> QED BY <1>5, <3>2, <3>3
  <2> QED BY <2>1, <2>3, <2>4, <2>5, <2>6
<1>7. HistoryOK(hist', table'.format) /\ Continues(hist, hist')
  BY <1>1, <1>2, <1>6
<1>8. TableOK(hist', table')
  BY <1>1, <1>4, <1>5, <1>6 DEF TableOK
<1>9. StaysGone(hist, table.live, table'.live)
  BY <1>4, <1>6 DEF StaysGone
<1> QED BY <1>1, <1>3, <1>7, <1>8, <1>9, TableKeepsInvariant

-----------------------------------------------------------------------------
(* Theorems.                                                               *)

\* A table with its first snapshot and nothing planned satisfies the invariant.
LEMMA InitPlanning == Init => PlanningInvariant
<1> SUFFICES ASSUME Init PROVE PlanningInvariant
  OBVIOUS
<1>1. PICK b \in Baselines : source = [baseline |-> b, epoch |-> 0]
  BY DEF Init
<1>2. PICK kind \in RootKinds, format \in Formats :
        /\ hist = <<[parent |-> 0, spec |-> 1, kind |-> kind, seq |-> IF format = 1 THEN 0 ELSE 1]>>
        /\ table = [uuid |-> RegisteredUuid, spec |-> 1, head |-> 1, live |-> {1}, format |-> format]
  BY DEF Init
<1>3. rows = <<>> /\ planner = [p \in Planners |-> IdlePlanner] /\ outdated = {} /\ spent = [events |-> 0, repairs |-> 0]
  BY DEF Init
<1>4. PICK z, u : /\ z = (IF format = 1 THEN 0 ELSE 1)
                  /\ u = [parent |-> 0, spec |-> 1, kind |-> kind, seq |-> z]
  OBVIOUS
<1>5. u \in Snapshot /\ u.parent = 0 /\ u.seq = IF format = 1 THEN 0 ELSE 1
  <2>1. kind \in AllKinds
    BY PlanningAssumption DEF AllKinds
  <2>2. 0 \in 0..MaxSnapshots /\ z \in 0..MaxSnapshots
    BY <1>4, PlanningAssumption
  <2> QED BY <1>4, <2>1, <2>2 DEF Snapshot
<1>6. hist = <<u>>
  BY <1>2, <1>4
<1>7. hist \in Seq(Snapshot) /\ Len(hist) = 1 /\ hist[1] = u
  BY <1>5, <1>6
<1>8. table.format = format /\ table.live = {1} /\ table.head = 1
  BY <1>2
<1>9. HistoryOK(hist, table.format)
  <2>1. 1 \in Ids
    BY PlanningAssumption DEF Ids
  <2>2. \A i \in 1..1 : i = 1
    OBVIOUS
  <2> QED BY <1>5, <1>7, <1>8, <2>1, <2>2 DEF HistoryOK
<1>10. TableOK(hist, table)
  <2>1. table \in [uuid : Nat, spec : {1, 2}, head : Nat, live : SUBSET Nat, format : Formats]
    BY <1>2 DEF RegisteredUuid
  <2> QED BY <1>7, <1>8, <2>1 DEF TableOK
<1>11. RowsOK(hist, rows, source.baseline) /\ Len(rows) \in Nat
  BY <1>3 DEF RowsOK
<1>12. WorldOK
  BY <1>1, <1>3, <1>9, <1>10, <1>11 DEF WorldOK
<1>13. PlannersOK
  <2>1. /\ CycleOK(hist, table.live, rows, source.baseline, IdlePlanner)
        /\ IdlePlanner \in Cycles /\ IdlePlanner.seen = 0
    BY <1>11, IdleIsOK
  <2>2. EpochOK(source.epoch, IdlePlanner)
    BY <2>1 DEF EpochOK
  <2> QED BY <1>3, <2>1, <2>2 DEF PlannersOK
<1>14. OvertakenPlans
  BY <1>3 DEF OvertakenPlans
<1> QED BY <1>12, <1>13, <1>14 DEF PlanningInvariant

\* Every step of a planner, of the table and of the operator preserves the invariant.
LEMMA NextPlanning == PlanningInvariant /\ [Next]_vars => PlanningInvariant'
<1> SUFFICES ASSUME PlanningInvariant, [Next]_vars PROVE PlanningInvariant'
  OBVIOUS
<1>1. ASSUME NEW p \in Planners, PlannerStep(p) PROVE PlanningInvariant'
  BY <1>1, PlanKeepsInvariant, PinKeepsInvariant, BaselineKeepsInvariant, QualifyKeepsInvariant,
     TargetsKeepInvariant, WalkKeepsInvariant, IncrementKeepsInvariant, VerifyKeepsInvariant, EnqueueKeepsInvariant,
     RejectionKeepsInvariant, BlockKeepsInvariant DEF PlannerStep
<1>2. ASSUME NEW p \in Planners, ReadFails(p) \/ CycleFails(p) PROVE PlanningInvariant'
  BY <1>2, ReadFailKeepsInvariant, FailKeepsInvariant
<1>3. CASE Commits
  BY <1>3, CommitKeepsInvariant
<1>4. CASE CatalogEvent
  BY <1>4, EventKeepsInvariant
<1>5. ASSUME NEW s \in DOMAIN rows, retry_blocked_source_snapshot(s) PROVE PlanningInvariant'
  BY <1>5, RetryKeepsInvariant
<1>6. CASE UNCHANGED vars
  BY <1>6 DEF vars, PlanningInvariant, WorldOK, PlannersOK, OvertakenPlans
<1> QED BY <1>1, <1>2, <1>3, <1>4, <1>5, <1>6 DEF Next

\* What a planner holds is true of the history, and of the live table as far as it is still
\* there, whatever planners, writers and operators do in between.
THEOREM PlanningSafety == Spec => []PlanningInvariant
<1>1. Init => PlanningInvariant
  BY InitPlanning
<1>2. PlanningInvariant /\ [Next]_vars => PlanningInvariant'
  BY NextPlanning
<1> QED BY <1>1, <1>2, PTL DEF Spec

\* Rows, table and planners keep their shape.
THEOREM PlanningTypes == Spec => []TypeOK
<1>1. PlanningInvariant => TypeOK
  <2> SUFFICES ASSUME PlanningInvariant PROVE TypeOK
    OBVIOUS
  <2>1. /\ source \in [baseline : Baselines, epoch : Nat] /\ HistoryOK(hist, table.format)
        /\ TableOK(hist, table) /\ RowsOK(hist, rows, source.baseline)
    BY NoneMoves
  <2>2. \A i \in DOMAIN rows : rows[i] \in Row
    BY <2>1 DEF RowsOK
  <2>3. \A p \in Planners : planner[p].seen \in 0..Len(rows)
    BY PlannerState DEF CycleOK
  <2> QED BY <2>1, <2>2, <2>3 DEF TypeOK, HistoryOK, TableOK
<1> QED BY <1>1, PlanningSafety, PTL

\* The accepted rows are the unbroken, clean lineage from the registered baseline, with the
\* targets their snapshots really write (plan_next_increment, enqueue_source_snapshot).
THEOREM SealedLineageHolds == Spec => []SealedLineage
<1>1. PlanningInvariant => SealedLineage
  <2> SUFFICES ASSUME PlanningInvariant, NEW i \in DOMAIN rows, rows[i].kind # "REJECTED"
               PROVE  /\ i = 1 => rows[i].kind = "BASELINE" /\ rows[i].snap = source.baseline /\ canonical(rows[i].snap)
                      /\ i > 1 => Clean(rows[i].snap) /\ rows[i].targets = TrueTargets(rows[i].snap)
                      /\ i > 1 => rows[i].parent = rows[i - 1].snap /\ hist[rows[i].snap].parent = rows[i - 1].snap
    BY DEF SealedLineage
  <2>1. RowsOK(hist, rows, source.baseline)
    BY NoneMoves
  <2>2. i \in 1..Len(rows)
    BY <2>1 DEF RowsOK
  <2>3. Doc(hist, rows[i]) /\ SealedRow(hist, rows, source.baseline, i)
    BY <2>1, <2>2 DEF RowsOK
  <2>4. PICK r : r = rows[i]  OBVIOUS
  <2>5. PICK id : id = r.snap  OBVIOUS
  <2>6. /\ Clean(id) <=> CleanIn(hist, id)
        /\ TrueTargets(id) = TargetsIn(hist, id)
        /\ canonical(id) <=> CanonicalIn(hist, id)
    BY SameFacts, SameCanonical
  <2>7. /\ i = 1 => r.kind = "BASELINE" /\ id = source.baseline /\ CanonicalIn(hist, id)
        /\ i > 1 => CleanIn(hist, id) /\ r.targets = TargetsIn(hist, id) /\ r.parent = rows[i - 1].snap
        /\ hist[id].parent = r.parent
    BY <2>3, <2>4, <2>5 DEF SealedRow, TrueIn, Doc
  <2> QED BY <2>4, <2>5, <2>6, <2>7
<1> QED BY <1>1, PlanningSafety, PTL

\* A descendant that a plan from a checkpoint rejected, and not because it could not be read,
\* is unacceptable for good (verify_planning_snapshots).  In format version 1, where every sequence number is 0, no
\* descendant is recorded at all: assert_new_snapshot_extends_latest refuses it.
THEOREM RejectedIncrementIsRealHolds == Spec => []RejectedIncrementIsReal
<1>1. PlanningInvariant => RejectedIncrementIsReal
  <2> SUFFICES ASSUME PlanningInvariant, NEW i \in 2..Len(rows), rows[i].error \in IncrementCodes
               PROVE  ~Supported(rows[i].snap)
    BY DEF RejectedIncrementIsReal
  <2>1. RowsOK(hist, rows, source.baseline)
    BY NoneMoves
  <2>2. i \in 1..Len(rows) /\ i > 1
    BY <2>1 DEF RowsOK
  <2>3. PICK id : id = rows[i].snap  OBVIOUS
  <2>4. ~SupportedIn(hist, id)
    BY <2>1, <2>2, <2>3 DEF RowsOK
  <2>5. Supported(id) <=> SupportedIn(hist, id)
    BY SameFacts
  <2> QED BY <2>3, <2>4, <2>5
<1> QED BY <1>1, PlanningSafety, PTL

\* A plan made from a checkpoint before a gate was closed or reopened writes nothing new
\* afterwards: the epoch it carries is older (stale_plan, gate_checkpoint).
THEOREM OvertakenPlansHolds == Spec => OvertakenPlansWriteNothing
<1>1. PlanningInvariant /\ [Next]_vars => [\A p \in outdated : planner[p].seen # 0 => ~Writes(p)]_vars
  <2> SUFFICES ASSUME PlanningInvariant, Next, NEW p \in outdated, planner[p].seen # 0, Writes(p)
               PROVE  FALSE
    OBVIOUS
  <2>1. /\ p \in Planners /\ planner[p].epoch < source.epoch /\ planner[p].epoch \in Nat /\ source.epoch \in Nat
    <3>1. p \in Planners /\ planner[p].epoch < source.epoch
      BY DEF PlanningInvariant, OvertakenPlans
    <3>2. EpochOK(source.epoch, planner[p]) /\ source.epoch \in Nat
      BY <3>1 DEF PlanningInvariant, PlannersOK, WorldOK
    <3> QED BY <3>1, <3>2 DEF EpochOK
  <2>2. planner[p].epoch # NoEpoch /\ planner[p].epoch # source.epoch
    BY <2>1 DEF NoEpoch
  <2>3. rows' # rows /\ planner'[p] # planner[p]
    BY DEF Writes
  <2>4. planner \in [Planners -> Cycles]
    BY DEF PlanningInvariant, PlannersOK
  <2>5. ASSUME NEW q \in Planners, NEW d, planner' = [planner EXCEPT ![q] = d] PROVE q = p
    BY <2>1, <2>3, <2>4, <2>5
  <2>6. ASSUME NEW q \in Planners, PlannerStep(q) \/ ReadFails(q) \/ CycleFails(q)
        PROVE  /\ q = p
               /\ enqueue_source_snapshot(q) \/ enqueue_blocked_source_snapshot(q) \/ block_source_snapshot(q)
    <3>1. \/ rows' = rows
          \/ enqueue_source_snapshot(q) \/ enqueue_blocked_source_snapshot(q) \/ block_source_snapshot(q)
      BY <2>6 DEF PlannerStep, ReadFails, CycleFails, plan, plan_pinned, plan_initial_baseline, qualify,
                  BaselineTargets, WalkIncrement, plan_next_increment, verify_planning_snapshots, durable
    <3>2. CASE enqueue_source_snapshot(q)
      <4>1. \E d : planner' = [planner EXCEPT ![q] = d]
        BY <3>2 DEF enqueue_source_snapshot, AfterWindow, EndCycle, Go
      <4> QED BY <2>5, <3>2, <4>1
    <3>3. CASE enqueue_blocked_source_snapshot(q) \/ block_source_snapshot(q)
      <4>1. \E d : planner' = [planner EXCEPT ![q] = d]
        BY <3>3 DEF enqueue_blocked_source_snapshot, block_source_snapshot, EndCycle, Go
      <4> QED BY <2>5, <3>3, <4>1
    <3> QED BY <2>3, <3>1, <3>2, <3>3
  <2>7. enqueue_source_snapshot(p) => FALSE
    <3> SUFFICES ASSUME enqueue_source_snapshot(p) PROVE FALSE
      OBVIOUS
    <3>1. PICK w : w = Head(planner[p].windows)  OBVIOUS
    <3>2. Admits(p, w) /\ insert_or_validate_snapshot(w)
      BY <2>3, <3>1 DEF enqueue_source_snapshot
    <3>3. Known(w.snap)
      BY <2>2, <3>2 DEF Admits, stale_plan
    <3> QED BY <2>3, <3>2, <3>3 DEF insert_or_validate_snapshot
  <2>8. enqueue_blocked_source_snapshot(p) => FALSE
    <3> SUFFICES ASSUME enqueue_blocked_source_snapshot(p) PROVE FALSE
      OBVIOUS
    <3>1. PICK w : w = [planner[p].rejection[1] EXCEPT !.state = "BLOCKED", !.error = planner[p].code]  OBVIOUS
    <3>2. Admits(p, w) /\ ~Known(w.snap)
      BY <2>3, <3>1 DEF enqueue_blocked_source_snapshot, durable
    <3> QED BY <2>2, <3>2 DEF Admits, stale_plan
  <2>9. block_source_snapshot(p) => FALSE
    <3> SUFFICES ASSUME block_source_snapshot(p) PROVE FALSE
      OBVIOUS
    <3>1. ~gate_refused(p) /\ rows[planner[p].seen].state # "BLOCKED"
      BY <2>3 DEF block_source_snapshot, durable
    <3> QED BY <2>2, <3>1 DEF gate_refused
  <2>10. ASSUME NEW s \in DOMAIN rows, retry_blocked_source_snapshot(s) PROVE FALSE
    BY <2>3, <2>10 DEF retry_blocked_source_snapshot
  <2>11. Commits \/ CatalogEvent => FALSE
    BY <2>3 DEF Commits, CatalogEvent, durable
  <2> QED BY <2>6, <2>7, <2>8, <2>9, <2>10, <2>11 DEF Next
<1> QED BY <1>1, PlanningSafety, PTL DEF Spec, OvertakenPlansWriteNothing

-----------------------------------------------------------------------------
(* The classification of one snapshot, whatever its manifests say.         *)

\* What the classification of typed evidence says, accepted or not.
LEMMA VerdictOnEvidence ==
  ASSUME NEW s \in Inspected, NEW v,
         v = plan_incremental_window(s.id, s.spec, s.op, s.declared, s.entries, s.trust)
  PROVE  /\ v.ok =>
              /\ v.kind = "APPEND" => /\ RemovedRows(s) = {}
                                      /\ v.targets = {e.target : e \in AddedRows(s)}
                                      /\ s.declared = "data" => v.targets # {}
              /\ v.kind = "TRUSTED_MAINTENANCE" => v.targets = {} /\ s.trust # {}
              /\ v.targets \subseteq Targets
         /\ CleanAppend(s) => v.ok
<1> DEFINE unreadable == collect_manifest_rows(s.entries)
           append == validate_append_entries(s.id, s.declared, s.entries)
           rewrite == validate_trusted_rewrite(s.entries, s.trust)
           agree == SpecsAgree(s.spec, {e \in s.entries : IsAddedData(e)})
<1>1. /\ s.op \in {"append", "replace", "delete", "other"} /\ s.declared \in DeclaredData
      /\ \A e \in s.entries : e.target \in Targets \cup {"NULL", "BAD"} /\ e.status \in ManifestStatus
  BY InspectedAreEvidence DEF ManifestEntry
<1>2. \/ unreadable # "none" /\ v = Rejected(unreadable)
      \/ unreadable = "none" /\ s.op = "append" /\ append # "none" /\ v = Rejected(append)
      \/ unreadable = "none" /\ s.op = "append" /\ append = "none" /\ ~agree
           /\ v = Rejected("PARTITION_SPEC_CHANGED")
      \/ unreadable = "none" /\ s.op = "append" /\ append = "none" /\ agree
           /\ v = Accepted("APPEND", discover_added_targets(s.entries))
      \/ s.op = "replace" /\ rewrite # "none" /\ v = Rejected(rewrite)
      \/ s.op = "replace" /\ rewrite = "none" /\ v = Accepted("TRUSTED_MAINTENANCE", {})
      \/ s.op \in {"delete", "other"} /\ v \in {Rejected("PHYSICAL_DELETE"), Rejected("UNKNOWN_OPERATION")}
  BY <1>1 DEF plan_incremental_window
<1>3. \A code : Rejected(code).ok = FALSE
  BY DEF Rejected
<1>4. \A kind, targets : /\ Accepted(kind, targets).ok = TRUE /\ Accepted(kind, targets).kind = kind
                         /\ Accepted(kind, targets).targets = targets
  BY DEF Accepted
<1>5. unreadable = "none" => \A e \in s.entries : e.target \in Targets
  BY <1>1 DEF collect_manifest_rows, manifest_from_row
<1>6. append = "none" => /\ s.declared = "data" => \E e \in s.entries : IsAddedData(e)
                         /\ \A e \in s.entries : e.snapshot = s.id \/ e.status = "EXISTING"
                         /\ \A e \in s.entries : e.status # "DELETED"
                         /\ \A e \in s.entries : e.status = "ADDED" => e.content = "DATA"
  BY <1>1 DEF validate_append_entries
<1>7. rewrite = "none" => s.trust # {}
  BY DEF validate_trusted_rewrite
<1>8. CleanAppend(s) => unreadable = "none" /\ append = "none" /\ agree /\ s.op = "append"
  <2> SUFFICES ASSUME CleanAppend(s) PROVE unreadable = "none" /\ append = "none" /\ agree
    BY DEF CleanAppend
  <2>1. \A e \in s.entries : e.target # "NULL" /\ e.target # "BAD"
    BY TargetsAreKeys DEF CleanAppend
  <2>2. unreadable = "none"
    <3>1. manifest_from_row(s.entries) = "none"
      BY <2>1 DEF manifest_from_row
    <3>2. Cardinality(s.entries) \in Nat
      BY InspectedAreEvidence, FS_CardinalityType
    <3>3. ~(Cardinality(s.entries) > MAX_MANIFEST_FACTS_PER_SNAPSHOT)
      BY <3>2, FactLimitAssumption DEF CleanAppend
    <3> QED BY <3>1, <3>3 DEF collect_manifest_rows
  <2>3. \A e \in s.entries : e.status = "ADDED" => e.snapshot = s.id /\ IsAddedData(e) /\ e.spec = s.spec
    BY DEF CleanAppend, AddedRows, IsAddedData
  <2>4. \A e \in s.entries : e.status \in {"ADDED", "EXISTING"}
    BY <1>1 DEF CleanAppend, ManifestStatus
  <2>5. s.declared # "malformed" /\ (s.declared = "data" => \E e \in s.entries : IsAddedData(e))
    BY DEF CleanAppend, AddedRows, IsAddedData
  <2>6. append = "none"
    BY <2>3, <2>4, <2>5 DEF validate_append_entries, IsAddedData
  <2>7. agree
    BY <2>3 DEF SpecsAgree, IsAddedData
  <2> QED BY <2>2, <2>6, <2>7
<1>9. append = "none" => /\ RemovedRows(s) = {}
                         /\ {e \in s.entries : IsAddedData(e)} = AddedRows(s)
  BY <1>1, <1>6 DEF RemovedRows, AddedRows, IsAddedData
<1>10. discover_added_targets(s.entries) = {e.target : e \in {f \in s.entries : IsAddedData(f)}}
  BY DEF discover_added_targets
<1> HIDE DEF unreadable, append, rewrite, agree
<1>11. CASE v.ok = FALSE
  <2>1. ~CleanAppend(s)
    BY <1>2, <1>4, <1>8, <1>11
  <2> QED BY <1>11, <2>1
<1>12. CASE /\ unreadable = "none" /\ s.op = "append" /\ append = "none" /\ agree
            /\ v = Accepted("APPEND", discover_added_targets(s.entries))
  <2>1. v.ok /\ v.kind = "APPEND" /\ v.targets = {e.target : e \in AddedRows(s)}
    BY <1>4, <1>9, <1>10, <1>12
  <2>2. s.declared = "data" => AddedRows(s) # {}
    BY <1>6, <1>9, <1>12
  <2>3. AddedRows(s) \subseteq s.entries
    BY DEF AddedRows
  <2>4. v.targets \subseteq Targets
    BY <1>5, <1>12, <2>1, <2>3
  <2>5. s.declared = "data" => v.targets # {}
    BY <2>1, <2>2
  <2> QED BY <1>9, <1>12, <2>1, <2>4, <2>5
<1>13. CASE s.op = "replace" /\ rewrite = "none" /\ v = Accepted("TRUSTED_MAINTENANCE", {})
  <2>1. v.ok /\ v.kind = "TRUSTED_MAINTENANCE" /\ v.targets = {}
    BY <1>4, <1>13
  <2> QED BY <1>7, <1>13, <2>1
<1> QED BY <1>2, <1>3, <1>11, <1>12, <1>13

\* For every set of targets, snapshots, specifications and evidence: whatever is accepted
\* as a window only adds rows, to exactly the targets it names, or is a rewrite somebody
\* vouched for (classify_snapshot).
THEOREM AcceptedWindowsHold == WindowSpec => []AcceptedWindowsOnlyAdd
<1>1. WindowInit => AcceptedWindowsOnlyAdd
  BY DEF WindowInit, AcceptedWindowsOnlyAdd
<1>2. AcceptedWindowsOnlyAdd /\ [WindowNext]_classified => AcceptedWindowsOnlyAdd'
  <2> SUFFICES ASSUME AcceptedWindowsOnlyAdd, [WindowNext]_classified PROVE AcceptedWindowsOnlyAdd'
    OBVIOUS
  <2>1. ASSUME NEW s \in Inspected, ClassifySnapshot(s) PROVE AcceptedWindowsOnlyAdd'
    <3> DEFINE v == plan_incremental_window(s.id, s.spec, s.op, s.declared, s.entries, s.trust)
    <3>1. classified' = {[of |-> s, as |-> v]}
      BY <2>1 DEF ClassifySnapshot
    <3> HIDE DEF v
    <3>2. \A c \in classified' : c.of = s /\ c.as = v
      BY <3>1
    <3> QED BY <3>2, VerdictOnEvidence DEF AcceptedWindowsOnlyAdd, v
  <2>2. CASE UNCHANGED classified
    BY <2>2 DEF AcceptedWindowsOnlyAdd
  <2> QED BY <2>1, <2>2 DEF WindowNext
<1> QED BY <1>1, <1>2, PTL DEF WindowSpec

\* For every set of targets, snapshots, specifications, evidence and fact limit: no clean
\* append within the limit is refused (validate_append_entries, collect_manifest_rows), so no
\* source is gated without a reason.
THEOREM CleanAppendsHold == WindowSpec => []CleanAppendsAccepted
<1>1. WindowInit => CleanAppendsAccepted
  BY DEF WindowInit, CleanAppendsAccepted
<1>2. CleanAppendsAccepted /\ [WindowNext]_classified => CleanAppendsAccepted'
  <2> SUFFICES ASSUME CleanAppendsAccepted, [WindowNext]_classified PROVE CleanAppendsAccepted'
    OBVIOUS
  <2>1. ASSUME NEW s \in Inspected, ClassifySnapshot(s) PROVE CleanAppendsAccepted'
    <3> DEFINE v == plan_incremental_window(s.id, s.spec, s.op, s.declared, s.entries, s.trust)
    <3>1. classified' = {[of |-> s, as |-> v]}
      BY <2>1 DEF ClassifySnapshot
    <3> HIDE DEF v
    <3>2. \A c \in classified' : c.of = s /\ c.as = v
      BY <3>1
    <3>3. CleanAppend(s) => v.ok
      BY VerdictOnEvidence DEF v
    <3> QED BY <3>2, <3>3 DEF CleanAppendsAccepted
  <2>2. CASE UNCHANGED classified
    BY <2>2 DEF CleanAppendsAccepted
  <2> QED BY <2>1, <2>2 DEF WindowNext
<1> QED BY <1>1, <1>2, PTL DEF WindowSpec

===============================================================================
