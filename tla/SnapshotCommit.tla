---------------------------- MODULE SnapshotCommit ----------------------------
(***************************************************************************)
(* The transactions that decide whether a source snapshot is COMPLETE, at  *)
(* the granularity of their SQL statements.  The engine is created with    *)
(* PostgreSQL's default READ COMMITTED isolation                           *)
(* (build_control_plane_engine): every statement sees what is committed    *)
(* when it starts and its own transaction's writes, an UPDATE waits only   *)
(* for the lock of a row that satisfies its WHERE clause.  The foreign key *)
(* of datasets.last_applied_source_snapshot_seq makes a completion hold a  *)
(* KEY SHARE lock of the snapshot row, which excludes the gate's FOR       *)
(* UPDATE and neither another completion nor its UPDATE of the state.      *)
(*                                                                         *)
(* The INGEST rows of one sealed snapshot are RUNNING, each in the hands   *)
(* of a reconciler that completes it; the planner closes the source gate   *)
(* and an operator reopens it.  DatasetLanes takes these transactions as   *)
(* atomic; this module is about what lies between their statements.        *)
(***************************************************************************)
EXTENDS Naturals

CONSTANTS
  Datasets,   \* datasets with an INGEST row in the snapshot
  MaxGates,   \* bound: gate transactions
  MaxAborts,  \* bound: completions that lose their connection
  Nobody      \* no holder of a row lock

Gate == "gate"

ASSUME HoldersAssumption ==
  /\ Datasets # {} /\ Gate \notin Datasets /\ Nobody \notin Datasets \cup {Gate}
  /\ MaxGates \in Nat /\ MaxAborts \in Nat

VARIABLES
  row,     \* committed state of the INGEST row of every dataset
  snap,    \* committed state of the snapshot
  txn,     \* complete_ingest of every dataset: last statement executed
  lock,    \* transaction that writes the snapshot row
  gate,    \* gate transaction: its kind and the state it writes
  gates,   \* gate transactions so far
  aborts   \* aborted completions so far

vars == <<row, snap, txn, lock, gate, gates, aborts>>

GateIdle == [op |-> "none", next |-> "unread"]

-----------------------------------------------------------------------------
(* complete_ingest                                                         *)

\* lock_work_and_state up to enqueue_publish_work: the row is SUCCEEDED for this
\* transaction only, and the foreign key shares the lock of the snapshot row.
ApplyIngest(d) ==
  /\ txn[d] = "idle" /\ row[d] = "RUNNING" /\ lock # Gate
  /\ txn' = [txn EXCEPT ![d] = "applied"]
  /\ UNCHANGED <<row, snap, lock, gate, gates, aborts>>

\* Mutant: the EXISTS subquery is lost.
incomplete_never(d) == FALSE

\* What the statement of transaction d finds incomplete: rows of the other
\* datasets whose success is not committed.
incomplete(d) == \E e \in Datasets \ {d} : row[e] # "SUCCEEDED"

\* Mutant: the WHERE clause no longer excludes BLOCKED.
qualifies_when_blocked(d) == ~incomplete(d)

\* The statement of complete_snapshot_if_applied selects the snapshot.
qualifies(d) == snap # "BLOCKED" /\ ~incomplete(d)

\* A row that does not satisfy the WHERE clause is neither updated nor waited for.
complete_snapshot_if_applied(d) ==
  /\ txn[d] = "applied"
  /\ IF qualifies(d) THEN lock = Nobody /\ lock' = d ELSE UNCHANGED lock
  /\ txn' = [txn EXCEPT ![d] = "marked"]
  /\ UNCHANGED <<row, snap, gate, gates, aborts>>

Unlocked(t) == lock' = IF lock = t THEN Nobody ELSE lock

CommitIngest(d) ==
  /\ txn[d] = "marked"
  /\ row' = [row EXCEPT ![d] = "SUCCEEDED"]
  /\ snap' = IF lock = d THEN "COMPLETE" ELSE snap
  /\ txn' = [txn EXCEPT ![d] = "idle"]
  /\ Unlocked(d)
  /\ UNCHANGED <<gate, gates, aborts>>

\* The connection is lost before the commit: everything rolls back, and a later
\* claim completes the row again.
AbortIngest(d) ==
  /\ txn[d] # "idle" /\ aborts < MaxAborts
  /\ aborts' = aborts + 1
  /\ txn' = [txn EXCEPT ![d] = "idle"]
  /\ Unlocked(d)
  /\ UNCHANGED <<row, snap, gate, gates>>

-----------------------------------------------------------------------------
(* The gate.  lock_source_for_planning admits one gate transaction at a    *)
(* time; its FOR UPDATE waits for every completion in flight.              *)

LockSnapshot(op, next) ==
  /\ gate = GateIdle /\ gates < MaxGates
  /\ \A d \in Datasets : txn[d] = "idle"
  /\ gates' = gates + 1
  /\ lock' = Gate
  /\ gate' = [op |-> op, next |-> next]
  /\ UNCHANGED <<row, snap, txn, aborts>>

block_source_snapshot == LockSnapshot("block", "BLOCKED")

retry_blocked_source_snapshot == snap = "BLOCKED" /\ LockSnapshot("retry", "unread")

\* Mutant: the repair takes the snapshot for complete.
RestoredStateBlind ==
  /\ gate.op = "retry" /\ gate.next = "unread"
  /\ gate' = [gate EXCEPT !.next = "COMPLETE"]
  /\ UNCHANGED <<row, snap, txn, lock, gates, aborts>>

\* The EXISTS query of the repair, a statement of its own.
RestoredState ==
  /\ gate.op = "retry" /\ gate.next = "unread"
  /\ gate' = [gate EXCEPT !.next = IF \E d \in Datasets : row[d] # "SUCCEEDED"
                                   THEN "SEALED" ELSE "COMPLETE"]
  /\ UNCHANGED <<row, snap, txn, lock, gates, aborts>>

CommitGate ==
  /\ gate # GateIdle /\ gate.next # "unread"
  /\ snap' = gate.next
  /\ gate' = GateIdle
  /\ Unlocked(Gate)
  /\ UNCHANGED <<row, txn, gates, aborts>>

-----------------------------------------------------------------------------

Init ==
  /\ row = [d \in Datasets |-> "RUNNING"]
  /\ snap = "SEALED"
  /\ txn = [d \in Datasets |-> "idle"]
  /\ lock = Nobody
  /\ gate = GateIdle
  /\ gates = 0 /\ aborts = 0

Next ==
  \/ \E d \in Datasets :
       \/ ApplyIngest(d) \/ complete_snapshot_if_applied(d)
       \/ CommitIngest(d) \/ AbortIngest(d)
  \/ block_source_snapshot \/ retry_blocked_source_snapshot \/ RestoredState \/ CommitGate

Spec == Init /\ [][Next]_vars

-----------------------------------------------------------------------------
(* Properties.                                                             *)

AllApplied == \A d \in Datasets : row[d] = "SUCCEEDED"

\* The tables, the open transactions and the lock have the shape above.
TypeOK ==
  /\ row \in [Datasets -> {"RUNNING", "SUCCEEDED"}]
  /\ snap \in {"SEALED", "COMPLETE", "BLOCKED"}
  /\ txn \in [Datasets -> {"idle", "applied", "marked"}]
  /\ lock \in Datasets \cup {Gate, Nobody}
  /\ gate \in [op : {"none", "block", "retry"}, next : {"unread", "SEALED", "COMPLETE", "BLOCKED"}]
  /\ gates \in 0..MaxGates /\ aborts \in 0..MaxAborts

\* No interleaving of completions, aborts and gates completes a snapshot early
\* (complete_snapshot_if_applied, retry_blocked_source_snapshot): a COMPLETE
\* snapshot has every INGEST row applied and committed.
NeverEarly == snap = "COMPLETE" => AllApplied

\* A gate the planner closed is reopened by the operator's repair and by nothing
\* else: a completion that was under way cannot overwrite it.
GateHolds == [][snap = "BLOCKED" /\ snap' # "BLOCKED" => gate.op = "retry"]_vars

\* What NeverEarly rests on: a completion that holds the snapshot row saw every
\* other INGEST row committed, and so did a repair about to write COMPLETE.
CompletionWitness ==
  /\ TypeOK
  /\ NeverEarly
  /\ \A d \in Datasets : txn[d] # "idle" => row[d] = "RUNNING"
  /\ \A d \in Datasets : lock = d => txn[d] = "marked" /\ ~incomplete(d)
  /\ gate.next = "COMPLETE" => AllApplied

\* "Mark a snapshot complete once every INGEST row succeeded"
\* (complete_snapshot_if_applied): with no transaction open, a snapshot whose
\* INGEST rows have all succeeded is not left SEALED.
CompletedOnceApplied ==
  /\ AllApplied /\ gate = GateIdle /\ (\A d \in Datasets : txn[d] = "idle")
  => snap # "SEALED"

=============================================================================
