----------------------------- MODULE ReplayMerge -----------------------------
(***************************************************************************)
(* Applying a source window to a Lance table row by row                    *)
(* (etl/replay_sink.py, etl/mutation.py, the ingest runner of              *)
(* reconciler/workers.py).  An attempt normalizes the rows of its window,  *)
(* writes them in chunks, partition by partition, and sets the completion  *)
(* marker.  Attempts that lost their lease keep writing while the next one *)
(* repeats the window or applies a later one; Spark repeats tasks.  The    *)
(* maintenance of a publication (maintenance/job.py) deletes expired rows  *)
(* of the same table, also when the publication has lost its lease.        *)
(*                                                                         *)
(* A window's rows are a set: equal rows collapse.  The digest of an event *)
(* is the event.  Windows carry their source sequence as their number.     *)
(* Two merges that overlap are ordered by Lance's commit, so that a key    *)
(* has one row (load_key_states' duplicate check never finds another).     *)
(***************************************************************************)
EXTENDS Integers, SequencesExt

CONSTANTS
  Keys,             \* record ids, as numbers so that a partition can be sorted by them
  PartitionOf,      \* repartition by record_id
  SourceRows,       \* what a window may hold: sets of [key, op, ts, vector]
  Dimension,        \* the length of the vector field
  RowBytes,         \* size of a row, by key
  MaxChunkRows,     \* min(merge_rows_per_chunk, write_rows_per_fragment)
  MaxChunkBytes,    \* merge_batch_bytes
  extra_seconds,    \* how much longer than a live row a tombstone is retained
  Cutoffs,          \* now - record_retention_seconds, in the retention passes there are
  MaxWindows,       \* bound on windows
  MaxAttemptsMade   \* bound on attempts

ASSUME ReplayAssumption ==
  /\ Keys \subseteq Nat /\ Dimension \in Nat
  /\ \A rows \in SourceRows : IsFiniteSet(rows) /\ \A row \in rows : row.key \in Keys /\ row.ts \in Nat
  /\ extra_seconds \in Nat /\ Cutoffs \subseteq Nat
  /\ MaxChunkRows \in Nat \ {0} /\ MaxChunkBytes \in Nat \ {0} /\ RowBytes \in [Keys -> Nat]
  /\ MaxWindows \in Nat /\ MaxAttemptsMade \in Nat

Unset == 0   \* no window, no sequence, no vector

VARIABLES
  window,    \* the rows of each window, once it is there
  applied,   \* last window whose ingest completed in the database
  stored,    \* the table: per key its source sequence, digest, event time and payload
  cutoff,    \* the latest cutoff of a retention pass
  marker,    \* completion marker of the table: window and digest
  attempt    \* attempts so far: window, stage, and per partition how far its task is

replayVars == <<window, applied, stored, cutoff, marker, attempt>>

TaskPartitions == {PartitionOf[k] : k \in Keys}
AbsentRow == [seq |-> Unset, digest |-> Unset, ts |-> 0, vector |-> Unset, deleted |-> FALSE]

\* A terminal row as the table holds it.
StoredRow(w, row) ==
  [seq |-> w, digest |-> row.digest, ts |-> row.ts, vector |-> row.vector, deleted |-> row.deleted]

ReplayInit ==
  /\ window = <<>>
  /\ applied = 0
  /\ stored = [k \in Keys |-> AbsentRow]
  /\ cutoff = 0
  /\ marker = [window |-> Unset, digest |-> Unset]
  /\ attempt = <<>>

-----------------------------------------------------------------------------
(* Normalization.                                                          *)

UPSERT_OPERATIONS == {"insert", "update", "upsert", "i", "u"}
DELETE_OPERATIONS == {"delete", "d"}

normalize_operation(op) == IF op \in DELETE_OPERATIONS THEN "delete" ELSE "upsert"

\* A row outside the profile blocks the window.
source_profile_checks(row) ==
  /\ row.op \in UPSERT_OPERATIONS \union DELETE_OPERATIONS
  /\ normalize_operation(row.op) = "upsert" => row.vector # Unset
  /\ row.vector \in {Unset, Dimension}

canonical_event_digest(row) == <<row.key, normalize_operation(row.op), row.ts, row.vector>>

\* A tombstone's payload is cleared, its digest and its event time are not.
normalize_terminal(row) ==
  LET deleted == normalize_operation(row.op) = "delete" IN
  [key |-> row.key, digest |-> canonical_event_digest(row), ts |-> row.ts, deleted |-> deleted,
   vector |-> IF deleted THEN Unset ELSE row.vector]

\* The rows of a window, or none if two of a key differ.
collapse_snapshot_mutations(rows) == {normalize_terminal(row) : row \in rows}

SameSnapshotConflict(rows) ==
  \E a, b \in collapse_snapshot_mutations(rows) : a.key = b.key /\ a.digest # b.digest

Blocks(rows) == (\E row \in rows : ~source_profile_checks(row)) \/ SameSnapshotConflict(rows)

terminal_source_digest(rows) == {row.digest : row \in collapse_snapshot_mutations(rows)}

-----------------------------------------------------------------------------
(* Chunks.                                                                 *)

PartitionRows(rows, p) == {row \in collapse_snapshot_mutations(rows) : PartitionOf[row.key] = p}

\* A partition is sorted by key: the place of a row in it, and a slice of it.
Place(rows, row) == Cardinality({r \in rows : r.key < row.key})

Slice(rows, offset, length) == {row \in rows : Place(rows, row) \in offset..(offset + length - 1)}

Bytes(rows) == MapThenSumSet(LAMBDA row : RowBytes[row.key], rows)

\* The lengths tried for the slice at an offset, from n rows down while it is too large.
Tried(rows, offset, n, S) ==
  /\ n \in S
  /\ \A m \in S :
       LET bytes == Bytes(Slice(rows, offset, m))
           scaled == Max({1, (m * MaxChunkBytes) \div bytes}) IN
       bytes > MaxChunkBytes /\ m > 1 => Min({m - 1, scaled}) \in S

\* The length of the chunk at an offset: the last one tried, those being the least set that
\* is closed in this way.
replay_table_chunks(rows, offset) ==
  LET n == Min({MaxChunkRows, Cardinality(rows) - offset}) IN
  Min({m \in 1..n : \A S \in SUBSET (1..n) : Tried(rows, offset, n, S) => m \in S})

\* A task goes through its partition slice by slice, each read, merged and verified.
\* Whether retention took rows of the slice while it waited to be verified is history.
NewTask == [offset |-> 0, step |-> "read", robbed |-> FALSE]

-----------------------------------------------------------------------------
(* An attempt.                                                             *)

Arrive ==
  /\ Len(window) < MaxWindows
  /\ \E rows \in SourceRows : window' = Append(window, rows)
  /\ UNCHANGED <<applied, stored, cutoff, marker, attempt>>

completion_is_desired(w) == marker.window >= w

\* A CompletionConflict: the window is marked with other rows.
completion_conflict(w) == marker.window = w /\ marker.digest # terminal_source_digest(window[w])

\* A claim of the lane's next window; a blocked one stays the next.  A marker at or past
\* the window proves it applied (applied_completion_marker).
BeginAttempt ==
  LET w == applied + 1 IN
  /\ w <= Len(window) /\ Len(attempt) < MaxAttemptsMade
  /\ ~Blocks(window[w])
  /\ attempt' = Append(attempt,
       [window |-> w,
        stage |-> CASE completion_conflict(w) -> "conflict"
                    [] completion_is_desired(w) /\ ~completion_conflict(w) -> "marked"
                    [] OTHER -> "write",
        task |-> [p \in TaskPartitions |-> NewTask]])
  /\ UNCHANGED <<window, applied, stored, cutoff, marker>>

TaskRows(a, p) == PartitionRows(window[attempt[a].window], p)

TaskEnded(a, p) == attempt[a].task[p].offset = Cardinality(TaskRows(a, p))

NextOffset(a, p) ==
  attempt[a].task[p].offset + replay_table_chunks(TaskRows(a, p), attempt[a].task[p].offset)

Chunk(a, p) ==
  LET offset == attempt[a].task[p].offset IN
  Slice(TaskRows(a, p), offset, replay_table_chunks(TaskRows(a, p), offset))

Task(a, p, step) ==
  attempt[a].stage = "write" /\ ~TaskEnded(a, p) /\ attempt[a].task[p].step = step

Fails(a) == attempt' = [attempt EXCEPT ![a].stage = "conflict"]
StepTo(a, p, step) ==
  attempt' = [attempt EXCEPT ![a].task[p] = [@ EXCEPT !.step = step, !.robbed = FALSE]]

detect_same_sequence_conflicts(a, p) ==
  \E row \in Chunk(a, p) : stored[row.key].seq = attempt[a].window /\ stored[row.key].digest # row.digest

requires_replay_merge(a, p) == \E row \in Chunk(a, p) : stored[row.key].seq < attempt[a].window

\* merge_attempt up to its merge: reopen and preflight.
Preflight(a, p) ==
  /\ Task(a, p, "read")
  /\ IF detect_same_sequence_conflicts(a, p) THEN Fails(a)
     ELSE StepTo(a, p, IF requires_replay_merge(a, p) THEN "merge" ELSE "verify")
  /\ UNCHANGED <<window, applied, stored, cutoff, marker>>

\* Mutant: a matched row is always updated.
update_always(w, k) == stored[k].seq >= 0

replay_update_condition(w, k) == stored[k].seq < w

\* merge_insert commits against the latest version; a lost race reopens and reads again.
Merge(a, p) ==
  LET w == attempt[a].window
      row(k) == CHOOSE r \in Chunk(a, p) : r.key = k IN
  /\ Task(a, p, "merge")
  /\ \/ /\ stored' = [k \in Keys |->
               IF (\E r \in Chunk(a, p) : r.key = k) /\ replay_update_condition(w, k)
               THEN StoredRow(w, row(k))
               ELSE stored[k]]
        /\ StepTo(a, p, "verify")
     \/ UNCHANGED stored /\ StepTo(a, p, "read")
  /\ UNCHANGED <<window, applied, cutoff, marker>>

\* Mutant: a row superseded meanwhile counts as lost.
verify_exact(a, p) ==
  \A row \in Chunk(a, p) : stored[row.key].seq = attempt[a].window /\ stored[row.key].digest = row.digest

verify_reconciled_states(a, p) ==
  \A row \in Chunk(a, p) :
    \/ stored[row.key].seq > attempt[a].window
    \/ stored[row.key].seq = attempt[a].window /\ stored[row.key].digest = row.digest

Verify(a, p) ==
  /\ Task(a, p, "verify")
  /\ IF verify_reconciled_states(a, p)
     THEN attempt' = [attempt EXCEPT ![a].task[p] = [NewTask EXCEPT !.offset = NextOffset(a, p)]]
     ELSE Fails(a)
  /\ UNCHANGED <<window, applied, stored, cutoff, marker>>

\* Spark runs a failed task again from its first chunk.
TaskRetry(a, p) ==
  /\ attempt[a].stage = "write" /\ attempt[a].task[p] # NewTask
  /\ attempt' = [attempt EXCEPT ![a].task[p] = NewTask]
  /\ UNCHANGED <<window, applied, stored, cutoff, marker>>

\* Once every task has ended; a marker at or past the window is left alone.
finalize_marker(a) ==
  LET w == attempt[a].window IN
  /\ attempt[a].stage = "write" /\ \A p \in TaskPartitions : TaskEnded(a, p)
  /\ marker' = IF completion_is_desired(w) THEN marker
               ELSE [window |-> w, digest |-> terminal_source_digest(window[w])]
  /\ attempt' = [attempt EXCEPT ![a].stage = IF completion_conflict(w) THEN "conflict" ELSE "marked"]
  /\ UNCHANGED <<window, applied, stored, cutoff>>

\* complete_ingest, fenced: only the first result of a window counts.
CompleteIngest(a) ==
  /\ attempt[a].stage = "marked"
  /\ applied' = IF attempt[a].window = applied + 1 THEN applied + 1 ELSE applied
  /\ attempt' = [attempt EXCEPT ![a].stage = "ended"]
  /\ UNCHANGED <<window, stored, cutoff, marker>>

\* Live rows and tombstones expire on separate clocks.
retention_predicate(row, c) == row.ts + (IF row.deleted THEN extra_seconds ELSE 0) < c

\* The retention delete of the maintenance before a publication, of a completed ingest.
run_retention ==
  \E c \in Cutoffs :
    LET expired == {k \in Keys : stored[k].seq # Unset /\ retention_predicate(stored[k], c)}
        robs(a, p) == Task(a, p, "verify") /\ \E row \in Chunk(a, p) : row.key \in expired IN
    /\ applied > 0
    /\ stored' = [k \in Keys |-> IF k \in expired THEN AbsentRow ELSE stored[k]]
    /\ cutoff' = Max({cutoff, c})
    /\ attempt' = [a \in DOMAIN attempt |-> [attempt[a] EXCEPT !.task =
         [p \in TaskPartitions |-> IF robs(a, p) THEN [attempt[a].task[p] EXCEPT !.robbed = TRUE]
                                                ELSE attempt[a].task[p]]]]
    /\ UNCHANGED <<window, applied, marker>>

ReplayNext ==
  \/ Arrive \/ BeginAttempt \/ run_retention
  \/ \E a \in DOMAIN attempt :
       \/ finalize_marker(a) \/ CompleteIngest(a)
       \/ \E p \in TaskPartitions : Preflight(a, p) \/ Merge(a, p) \/ Verify(a, p) \/ TaskRetry(a, p)

ReplaySpec == ReplayInit /\ [][ReplayNext]_replayVars

-----------------------------------------------------------------------------

\* What the terminal state of a key is after window w: its last mutation up to w.
LastWindow(k, w) == Max({Unset} \union {v \in 1..w : \E row \in window[v] : row.key = k})

Terminal(k, w) ==
  StoredRow(w, CHOOSE r \in collapse_snapshot_mutations(window[w]) : r.key = k)

\* A mutation of the key at this window or a later one is past its retention.
Expired(k, w) ==
  \E v \in 1..Len(window) : \E row \in collapse_snapshot_mutations(window[v]) :
    v >= w /\ row.key = k /\ row.ts + (IF row.deleted THEN extra_seconds ELSE 0) < cutoff

\* The event times of a key do not run back (what retention_predicate relies on).
EventsInOrder(k) ==
  \A v, w \in 1..Len(window) :
    \A a \in collapse_snapshot_mutations(window[v]), b \in collapse_snapshot_mutations(window[w]) :
      v <= w /\ a.key = k /\ b.key = k => a.ts <= b.ts

\* The marker's promise: a table marked with a window holds, for every key, the key's
\* last mutation up to that window or a later one, and nothing else ever, whatever
\* attempts of earlier windows still write, except where that mutation, or a later one of
\* the key, was past its retention and was deleted.  An older mutation that a late attempt
\* then puts back is past its retention too: retention takes it again.
MarkedTableIsComplete ==
  \A k \in Keys :
    LET seq == stored[k].seq
        last == LastWindow(k, marker.window) IN
    /\ seq >= last \/ Expired(k, last)
    /\ stored[k] = IF seq = Unset THEN AbsentRow ELSE Terminal(k, seq)
    /\ seq # Unset /\ seq < last /\ EventsInOrder(k) => stored[k].deleted \/ stored[k].ts < cutoff

\* Replays are harmless: no attempt, however late or repeated, ends in a ReplayConflict
\* or a CompletionConflict, unless retention took rows it had written between their merge
\* and their verification.
NoFalseConflict ==
  \A a \in DOMAIN attempt :
    attempt[a].stage = "conflict" => \E p \in TaskPartitions : attempt[a].task[p].robbed

=============================================================================
