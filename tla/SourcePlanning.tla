---------------------------- MODULE SourcePlanning ----------------------------
(***************************************************************************)
(* Planners that turn Iceberg snapshots into durable source windows        *)
(* (reconciler/iceberg.py, reconciler/planning.py, source/) and the        *)
(* repository transactions that seal, reject, gate and reopen them         *)
(* (state/repository.py).                                                  *)
(*                                                                         *)
(* A planner reads the durable checkpoint, pins one metadata generation,   *)
(* walks and classifies the descendants of the checkpoint, verifies the    *)
(* live table and only then writes, one transaction per window.  The table *)
(* changes under it: commits, rollbacks, expiry, specification changes and *)
(* replacement.  Other planners and the operator write in between, fenced  *)
(* by the planning epoch.                                                  *)
(*                                                                         *)
(* A durable row is SEALED from its insertion on; SEALED stands here for   *)
(* COMPLETE too, which DatasetLanes and SnapshotCommit tell apart.         *)
(***************************************************************************)
EXTENDS Integers, Sequences, SourceManifests

CONSTANTS
  Planners,      \* reconciler processes
  Kinds,         \* kinds of commits writers make, see Facts
  RootKinds,     \* kinds of the first commit
  Formats,       \* table format versions: in version 1 every sequence number is 0
  Baselines,     \* canonical_baseline_snapshot_id of the registration, or 0
  MaxSnapshots,  \* bound: snapshots ever committed
  MaxPlan,       \* settings.max_snapshots_per_plan
  MaxEvents,     \* bound: changes of the table other than commits, failed cycles and reads
  MaxRepairs     \* bound: gates an operator reopens

ASSUME PlanningAssumption ==
  /\ Kinds \cup RootKinds \subseteq
       {"append", "conflict", "empty", "quiet", "removal", "mixed", "bulk", "stated", "garbled"}
  /\ Baselines \subseteq 0..MaxSnapshots
  /\ MaxSnapshots \in Nat \ {0} /\ MaxPlan \in Nat \ {0}
  /\ MaxEvents \in Nat /\ MaxRepairs \in Nat

VARIABLES
  source,   \* iceberg_sources: registered baseline and planning epoch
  rows,     \* source_snapshots in iceberg_sequence_number order
  table,    \* live Iceberg metadata: uuid, spec, head and retained snapshots
  hist,     \* immutable facts of every snapshot ever committed
  planner,  \* the cycle of every planner
  outdated, \* planners whose observation a gate has since overtaken
  spent     \* bounds used: events, repairs

vars    == <<source, rows, table, hist, planner, outdated, spent>>
durable == <<source, rows, outdated>>
iceberg == <<table, hist>>

Ids == 1..MaxSnapshots

-----------------------------------------------------------------------------
(* Iceberg, as the planner sees it.                                        *)

Entry(id, spec, status, content) ==
  [snapshot |-> id, spec |-> spec, status |-> status, content |-> content, target |-> "a", hour |-> 0]

Added(id, spec) == Entry(id, spec, "ADDED", "DATA")

\* The commits writers make.  An append declares what it adds, or not; it may replay a
\* record with another content, remove a file, use two specifications, state its
\* specification in its summary or have a summary without numbers.  "bulk" spreads over
\* more hours than a plan collects, and like "quiet" it does not declare its files.
Facts(kind, id, spec) ==
  [op       |-> "append",
   declared |-> CASE kind \in {"empty", "quiet", "bulk"} -> "nothing" [] kind = "garbled" -> "malformed" [] OTHER -> "data",
   stated   |-> kind = "stated",
   entries  |->
     CASE kind = "empty"   -> {}
       [] kind = "removal" -> {Added(id, spec), Entry(id, spec, "DELETED", "DATA")}
       [] kind = "mixed"   -> {Added(id, s) : s \in {1, 2}}
       [] kind = "bulk"    -> {[Added(id, spec) EXCEPT !.hour = h] : h \in 0..MAX_MANIFEST_FACTS_PER_SNAPSHOT}
       [] OTHER            -> {Added(id, spec)}]

FactsOf(id) == Facts(hist[id].kind, id, hist[id].spec)

\* Mutations of the rows of a snapshot, as record id and digest.
Mutations(id) == IF hist[id].kind = "conflict" THEN {<<"r", 1>>, <<"r", 2>>} ELSE {<<"r", 1>>}

NewSnapshot(parent, spec, kind, format) ==
  [parent |-> parent, spec |-> spec, kind |-> kind,
   seq |-> IF format = 1 THEN 0 ELSE Len(hist) + 1]

\* S holds the head, and the parent of each of its members but the stop, as far as the
\* generation retains them.
Walks(head, live, stop, S) ==
  /\ head \in live => head \in S
  /\ \A i \in S : i # stop /\ hist[i].parent \in live => hist[i].parent \in S

\* Documents from a head back to a stop: the least such set.
iter_snapshot_documents(head, live, stop) ==
  {i \in live : \A S \in SUBSET live : Walks(head, live, stop, S) => i \in S}

Ancestors(id) == iter_snapshot_documents(id, DOMAIN hist, 1)

Commits ==
  /\ Len(hist) < MaxSnapshots
  /\ \E kind \in Kinds :
       hist' = Append(hist, NewSnapshot(table.head, table.spec, kind, table.format))
  /\ table' = [table EXCEPT !.head = Len(hist'), !.live = @ \cup {Len(hist')}]
  /\ UNCHANGED <<durable, planner, spent>>

Event == spent.events < MaxEvents /\ spent' = [spent EXCEPT !.events = @ + 1]

\* Rollback, with or without expiry of what it abandons; expiry of a snapshot; change
\* of the partition specification; a table dropped and created again by its name.
CatalogEvent ==
  /\ Event
  /\ \/ \E id \in table.live \ {table.head}, cleaned \in BOOLEAN :
          table' = [table EXCEPT !.head = id, !.live = IF cleaned THEN @ \cap Ancestors(id) ELSE @]
     \/ \E id \in table.live \ {table.head} : table' = [table EXCEPT !.live = @ \ {id}]
     \/ table' = [table EXCEPT !.spec = 3 - @]
     \/ table' = [table EXCEPT !.uuid = @ + 1, !.head = 0, !.live = {}]
  /\ UNCHANGED <<durable, hist, planner>>

-----------------------------------------------------------------------------
(* Durable state.                                                          *)

RegisteredUuid == 1
NoEpoch == -1

latest_source_snapshot == Len(rows)
source_blocked == \E i \in DOMAIN rows : rows[i].state = "BLOCKED"
Known(id)      == \E i \in DOMAIN rows : rows[i].snap = id

NewEpoch == source' = [source EXCEPT !.epoch = @ + 1]

\* Mutant: plans are not fenced.
never_stale(p, id) == FALSE

\* The epoch the planner observed is gone and the snapshot is not known yet.
stale_plan(p, id) ==
  /\ ~Known(id)
  /\ planner[p].epoch # NoEpoch
  /\ planner[p].epoch # source.epoch

assert_source_gate_allows_snapshot(id) == ~source_blocked \/ Known(id)

assert_new_snapshot_extends_latest(r) ==
  \/ Known(r.snap)
  \/ rows = <<>> /\ r.kind \in {"BASELINE", "REJECTED"}
  \/ /\ rows # <<>>
     /\ LET last == rows[latest_source_snapshot] IN
        /\ r.kind # "BASELINE"
        /\ r.kind # "REJECTED" => r.spec = last.spec
        /\ r.parent = last.snap /\ r.seq > last.seq

\* insert_or_validate_snapshot: a replay must carry the metadata, the targets and
\* the error of the row it finds.
replay_matches(r) ==
  \A i \in DOMAIN rows : rows[i].snap = r.snap =>
    /\ rows[i] = [r EXCEPT !.state = rows[i].state, !.error = rows[i].error]
    /\ r.kind = "REJECTED" => rows[i] = r

Admits(p, r) ==
  /\ ~stale_plan(p, r.snap)
  /\ assert_source_gate_allows_snapshot(r.snap)
  /\ assert_new_snapshot_extends_latest(r)
  /\ replay_matches(r)

insert_or_validate_snapshot(r) == rows' = IF Known(r.snap) THEN rows ELSE Append(rows, r)

-----------------------------------------------------------------------------
(* One planning cycle.                                                     *)

BlankPin == [uuid |-> 0, spec |-> 0, head |-> 0, live |-> {}]

IdlePlanner ==
  [at |-> "idle", seen |-> 0, epoch |-> NoEpoch, pin |-> BlankPin,
   todo |-> {}, windows |-> <<>>, rejection |-> <<>>, code |-> "none"]

Go(p, next)    == planner' = [planner EXCEPT ![p] = next]
At(p, at)      == planner[p].at = at
EndCycle(p)    == Go(p, IdlePlanner)
GateWith(p, c) == Go(p, [planner[p] EXCEPT !.at = "gate", !.code = c])

RejectWith(p, w, c) ==
  Go(p, [planner[p] EXCEPT !.at = "reject", !.windows = <<>>, !.rejection = <<[w EXCEPT !.kind = "REJECTED"]>>,
                           !.code = c])

\* plan: a blocked source is left alone.
plan(p) ==
  /\ At(p, "idle") /\ ~source_blocked
  /\ Go(p, [IdlePlanner EXCEPT !.at = "pin", !.seen = latest_source_snapshot,
                               !.epoch = IF rows = <<>> THEN NoEpoch ELSE source.epoch])
  /\ outdated' = outdated \ {p}
  /\ UNCHANGED <<source, rows, iceberg, spent>>

\* The required partition fields are those of specification 1.
validate_table_contract(p, pin) ==
  /\ pin.spec = 1
  /\ planner[p].seen # 0 => /\ pin.uuid = RegisteredUuid
                            /\ pin.spec = rows[planner[p].seen].spec

\* begin_planning and plan_pinned.  Without a checkpoint a table that breaks the
\* contract, or has no snapshot, ends the process.
plan_pinned(p) ==
  LET pin == [uuid |-> table.uuid, spec |-> table.spec, head |-> table.head, live |-> table.live]
      pinned == [planner[p] EXCEPT !.pin = pin] IN
  /\ At(p, "pin")
  /\ IF planner[p].seen = 0
     THEN Go(p, [pinned EXCEPT !.at = IF /\ pin.uuid = RegisteredUuid /\ pin.head # 0
                                         /\ validate_table_contract(p, pin)
                                      THEN "baseline" ELSE "exited"])
     ELSE Go(p, IF ~validate_table_contract(p, pin)
                THEN [pinned EXCEPT !.at = "gate", !.code = "SOURCE_TABLE_CONTRACT"]
                ELSE IF pin.head = 0 THEN [pinned EXCEPT !.at = "gate", !.code = "SOURCE_LINEAGE_UNTRUSTED"]
                ELSE [pinned EXCEPT !.at = "walk"])
  /\ UNCHANGED <<durable, iceberg, spent>>

\* Mutant: a snapshot without manifests gets specification 0.
spec_zero_by_default(p, id) ==
  IF FactsOf(id).stated \/ (id \in table.live /\ FactsOf(id).entries # {}) THEN hist[id].spec ELSE 0

\* The specification of a snapshot is the one its summary states, else that of the live
\* manifests it added; one that added none, or is gone, gets the active one.
snapshot_partition_spec_ids(p, id) ==
  IF FactsOf(id).stated \/ (id \in table.live /\ FactsOf(id).entries # {}) THEN hist[id].spec ELSE planner[p].pin.spec

MixedSpecs(id) ==
  ~FactsOf(id).stated /\ id \in table.live /\ Cardinality({e.spec : e \in FactsOf(id).entries}) > 1

snapshot_from_document(p, id, kind) ==
  [snap |-> id, parent |-> hist[id].parent, seq |-> hist[id].seq,
   spec |-> snapshot_partition_spec_ids(p, id), kind |-> kind, targets |-> {},
   state |-> "SEALED", error |-> "none"]

validate_snapshot_identity(p, w) == w.spec = planner[p].pin.spec

\* The first n of a set of snapshots in lineage order, in which they were committed.
Oldest(S, n) == {i \in S : Cardinality({j \in S : j < i}) < n}

FirstOf(s, n) == SubSeq(s, 1, IF Len(s) < n THEN Len(s) ELSE n)

bounded_incremental_candidates(p) ==
  LET pin == planner[p].pin
      checkpoint == rows[planner[p].seen]
      ancestry == iter_snapshot_documents(pin.head, pin.live, checkpoint.snap)
      ids == Oldest(ancestry \ {checkpoint.snap}, MaxPlan + 1) IN
  [trusted |-> /\ checkpoint.snap \in ancestry
               /\ validate_snapshot_identity(p, snapshot_from_document(p, checkpoint.snap, "APPEND"))
               /\ snapshot_partition_spec_ids(p, checkpoint.snap) = checkpoint.spec
               /\ hist[checkpoint.snap].seq = checkpoint.seq
               /\ \A id \in ids \cup {checkpoint.snap} : ~MixedSpecs(id),
   ids     |-> ids]

\* plan_next_increment up to its loop.
WalkIncrement(p) ==
  LET found == bounded_incremental_candidates(p) IN
  /\ At(p, "walk")
  /\ IF ~found.trusted THEN GateWith(p, "SOURCE_LINEAGE_UNTRUSTED")
     ELSE IF found.ids = {} THEN EndCycle(p)
     ELSE Go(p, [planner[p] EXCEPT !.at = "inspect",
                   !.todo = {snapshot_from_document(p, id, "APPEND") : id \in found.ids}])
  /\ UNCHANGED <<durable, iceberg, spent>>

\* manifest_entries reads the live metadata: an expired snapshot shows none.
manifest_entries(id) == IF id \in table.live THEN FactsOf(id).entries ELSE {}

PreviousSequence(p) ==
  IF planner[p].windows = <<>> THEN rows[planner[p].seen].seq
  ELSE planner[p].windows[Len(planner[p].windows)].seq

IncrementCodes ==
  {"SOURCE_SNAPSHOT_IDENTITY", "SOURCE_SEQUENCE_ORDER", "PARTITION_SPEC_CHANGED", "PHYSICAL_DELETE",
   "MANIFEST_EVIDENCE_MISSING", "MANIFEST_SNAPSHOT_MISMATCH", "DELETE_FILE", "UNKNOWN_OPERATION",
   "MANIFEST_SUMMARY_INVALID", "SOURCE_MANIFEST_FACT_LIMIT"}

incremental_snapshot_error(p, w) ==
  IF ~validate_snapshot_identity(p, w) THEN "SOURCE_SNAPSHOT_IDENTITY"
  ELSE IF w.seq <= PreviousSequence(p) THEN "SOURCE_SEQUENCE_ORDER" ELSE "none"

\* The next candidate in lineage order.
NextCandidate(p) == CHOOSE w \in planner[p].todo : \A v \in planner[p].todo : w.snap <= v.snap

\* The first rejection ends the loop; what was accepted before it is kept.
RejectCandidate(p, code) ==
  Go(p, [planner[p] EXCEPT !.todo = {}, !.rejection = <<[NextCandidate(p) EXCEPT !.kind = "REJECTED"]>>,
                           !.code = code, !.at = "verify"])

\* One turn of the loop of plan_next_increment.
plan_next_increment(p) ==
  LET w == NextCandidate(p)
      facts == FactsOf(w.snap)
      error == incremental_snapshot_error(p, w)
      class == plan_incremental_window(w.snap, w.spec, facts.op, facts.declared, manifest_entries(w.snap), {})
      code == IF error # "none" THEN error ELSE class.code
      rest == planner[p].todo \ {w} IN
  /\ At(p, "inspect")
  /\ IF code = "none"
     THEN Go(p, [planner[p] EXCEPT !.todo = rest, !.windows = Append(@, [w EXCEPT !.targets = class.targets]),
                                   !.at = IF rest = {} THEN "verify" ELSE "inspect"])
     ELSE RejectCandidate(p, code)
  /\ UNCHANGED <<durable, iceberg, spent>>

\* plan_initial_baseline: ancestry from the pin.
plan_initial_baseline(p) ==
  LET pin == planner[p].pin
      wanted == source.baseline
      ancestry == iter_snapshot_documents(pin.head, pin.live, IF wanted = 0 THEN pin.head ELSE wanted)
      head == snapshot_from_document(p, pin.head, "REJECTED")
      first == snapshot_from_document(p, wanted, "BASELINE") IN
  /\ At(p, "baseline")
  /\ IF \E id \in {pin.head} \cup Oldest(ancestry, 1) : MixedSpecs(id)
     THEN Go(p, [planner[p] EXCEPT !.at = "exited"])
     ELSE IF wanted = 0 THEN RejectWith(p, head, "BASELINE_NOT_CONFIGURED")
     ELSE IF wanted \notin ancestry THEN RejectWith(p, head, "BASELINE_NOT_RETAINED")
     ELSE IF ~validate_snapshot_identity(p, first) THEN RejectWith(p, first, "BASELINE_IDENTITY_MISMATCH")
     ELSE Go(p, [planner[p] EXCEPT !.at = "qualify", !.windows = <<first>>])
  /\ UNCHANGED <<durable, iceberg, spent>>

\* validate_contract and the digest aggregation: no record has two mutations.
canonical(id) == \A m, n \in Mutations(id) : m[1] = n[1] => m = n

\* Data files live at the baseline: those it and its ancestors added.
baseline_entries(id) ==
  {[e EXCEPT !.status = "EXISTING"] : e \in UNION {{f \in FactsOf(a).entries : IsAddedData(f)} : a \in Ancestors(id)}}

\* BaselineQualifier.qualify, a scan of the live table.
qualify(p) ==
  LET w == planner[p].windows[1] IN
  /\ At(p, "qualify")
  /\ IF w.snap \notin table.live THEN RejectWith(p, w, "BASELINE_NOT_RETAINED")
     ELSE IF ~canonical(w.snap) THEN RejectWith(p, w, "BASELINE_NOT_CANONICAL")
     ELSE Go(p, [planner[p] EXCEPT !.at = "targets"])
  /\ UNCHANGED <<durable, iceberg, spent>>

\* The rest of plan_initial_baseline: its files are another read of the live table.
BaselineTargets(p) ==
  LET w == planner[p].windows[1]
      entries == baseline_entries(w.snap)
      unreadable == collect_manifest_rows(entries) IN
  /\ At(p, "targets")
  /\ IF w.snap \notin table.live THEN RejectWith(p, w, "SOURCE_SNAPSHOT_NOT_READABLE")
     ELSE IF unreadable # "none" THEN RejectWith(p, w, unreadable)
     ELSE IF ~SpecsAgree(w.spec, entries) THEN RejectWith(p, w, "PARTITION_SPEC_CHANGED")
     ELSE Go(p, [planner[p] EXCEPT !.at = "verify", !.windows[1].targets = discover_baseline_targets(entries)])
  /\ UNCHANGED <<durable, iceberg, spent>>

\* Mutant: a rejection is not verified.
PlannedWithoutRejection(p) ==
  (IF planner[p].seen = 0 THEN {} ELSE {rows[planner[p].seen].snap})
    \cup {planner[p].windows[n].snap : n \in DOMAIN planner[p].windows}

\* Mutant: the windows are not looked up again.
PlannedWithoutWindows(p) ==
  (IF planner[p].seen = 0 THEN {} ELSE {rows[planner[p].seen].snap})
    \cup {planner[p].rejection[n].snap : n \in DOMAIN planner[p].rejection}

\* What has to be retained still: checkpoint, windows and rejection.
Planned(p) ==
  (IF planner[p].seen = 0 THEN {} ELSE {rows[planner[p].seen].snap})
    \cup {planner[p].windows[n].snap : n \in DOMAIN planner[p].windows}
    \cup {planner[p].rejection[n].snap : n \in DOMAIN planner[p].rejection}

\* The first of them: the checkpoint, or the baseline.
FirstPlanned(p) ==
  IF planner[p].seen = 0 THEN planner[p].windows[1].snap ELSE rows[planner[p].seen].snap

\* A baseline that cannot be verified is rejected, a checkpoint gated.
Unverified(p) ==
  IF planner[p].seen = 0 THEN RejectWith(p, planner[p].windows[1], "BASELINE_IDENTITY_MISMATCH")
  ELSE GateWith(p, "SOURCE_LINEAGE_UNTRUSTED")

\* The live table is read again after every other read of the cycle.
verify_planning_snapshots(p) ==
  LET trusted == /\ table.uuid = planner[p].pin.uuid /\ table.head # 0
                 /\ Planned(p) \subseteq iter_snapshot_documents(table.head, table.live, FirstPlanned(p)) IN
  /\ At(p, "verify")
  /\ IF trusted
     THEN Go(p, [planner[p] EXCEPT !.windows = FirstOf(@, MaxPlan),
                   !.rejection = IF Len(planner[p].windows) <= MaxPlan THEN @ ELSE <<>>,
                   !.at = IF planner[p].windows = <<>> THEN "reject" ELSE "enqueue"])
     ELSE Unverified(p)
  /\ UNCHANGED <<durable, iceberg, spent>>

-----------------------------------------------------------------------------
(* Transactions.  A failed one ends the cycle and changes nothing.         *)

AfterWindow(p) ==
  LET rest == Tail(planner[p].windows) IN
  IF rest # <<>> THEN Go(p, [planner[p] EXCEPT !.windows = rest])
  ELSE IF planner[p].rejection # <<>> THEN Go(p, [planner[p] EXCEPT !.windows = rest, !.at = "reject"])
  ELSE EndCycle(p)

\* A gate closed or reopened overtakes every plan made before.
Overtake == outdated' = Planners

enqueue_source_snapshot(p) ==
  LET w == Head(planner[p].windows) IN
  /\ At(p, "enqueue")
  /\ IF Admits(p, w) THEN insert_or_validate_snapshot(w) /\ AfterWindow(p)
                     ELSE EndCycle(p) /\ UNCHANGED rows
  /\ UNCHANGED <<source, outdated, iceberg, spent>>

\* Mutant: a rejection is left for the next cycle.
reject_is_deferred(p) == At(p, "reject") /\ EndCycle(p) /\ UNCHANGED <<durable, iceberg, spent>>

\* The first insertion of a rejection gates the source for good.
enqueue_blocked_source_snapshot(p) ==
  LET w == [planner[p].rejection[1] EXCEPT !.state = "BLOCKED", !.error = planner[p].code] IN
  /\ At(p, "reject")
  /\ IF Admits(p, w) /\ ~Known(w.snap)
     THEN insert_or_validate_snapshot(w) /\ NewEpoch /\ Overtake
     ELSE UNCHANGED durable
  /\ EndCycle(p)
  /\ UNCHANGED <<iceberg, spent>>

\* gate_checkpoint: neither a stale plan nor other evidence may close the gate.
gate_refused(p) ==
  LET row == rows[planner[p].seen] IN
  \/ source.epoch # planner[p].epoch /\ ~(row.state = "BLOCKED" /\ row.error = planner[p].code)
  \/ row.state = "BLOCKED" /\ row.error # planner[p].code

block_source_snapshot(p) ==
  LET s == planner[p].seen IN
  /\ At(p, "gate")
  /\ IF gate_refused(p) \/ rows[s].state = "BLOCKED" THEN UNCHANGED durable
     ELSE /\ rows' = [rows EXCEPT ![s].state = "BLOCKED", ![s].error = planner[p].code]
          /\ NewEpoch /\ Overtake
  /\ EndCycle(p)
  /\ UNCHANGED <<iceberg, spent>>

\* The operator reopens an accepted checkpoint; a rejection stays.
retry_blocked_source_snapshot(s) ==
  /\ spent.repairs < MaxRepairs /\ spent' = [spent EXCEPT !.repairs = @ + 1]
  /\ rows[s].state = "BLOCKED" /\ rows[s].kind # "REJECTED"
  /\ rows' = [rows EXCEPT ![s].state = "SEALED", ![s].error = "none"]
  /\ NewEpoch /\ Overtake
  /\ UNCHANGED <<iceberg, planner>>

\* manifest_entries: a read that fails or finds rows it cannot decode.
ReadFailures == {"SOURCE_SNAPSHOT_NOT_READABLE", "SOURCE_MANIFEST_CONTRACT"}

\* Spark refuses a read of the table.  What the planner was about to learn is then held
\* against the snapshot or its lineage, durably.
ReadFails(p) ==
  /\ Event
  /\ \/ At(p, "baseline") /\ Go(p, [planner[p] EXCEPT !.at = "exited"])
     \/ At(p, "qualify") /\ RejectWith(p, planner[p].windows[1], "BASELINE_NOT_RETAINED")
     \/ At(p, "targets") /\ \E code \in ReadFailures : RejectWith(p, planner[p].windows[1], code)
     \/ At(p, "walk") /\ GateWith(p, "SOURCE_LINEAGE_UNTRUSTED")
     \/ /\ At(p, "inspect") /\ incremental_snapshot_error(p, NextCandidate(p)) = "none"
        /\ \E code \in ReadFailures : RejectCandidate(p, code)
     \/ At(p, "verify") /\ Unverified(p)
  /\ UNCHANGED <<durable, iceberg>>

\* The process dies, or an error it does not handle ends the cycle.
CycleFails(p) ==
  /\ planner[p].at \notin {"idle", "exited"}
  /\ Event
  /\ EndCycle(p)
  /\ UNCHANGED <<durable, iceberg>>

-----------------------------------------------------------------------------

\* A table with its first snapshot.
Init ==
  /\ \E b \in Baselines : source = [baseline |-> b, epoch |-> 0]
  /\ rows = <<>>
  /\ \E kind \in RootKinds, format \in Formats :
       /\ hist = <<[parent |-> 0, spec |-> 1, kind |-> kind, seq |-> IF format = 1 THEN 0 ELSE 1]>>
       /\ table = [uuid |-> RegisteredUuid, spec |-> 1, head |-> 1, live |-> {1}, format |-> format]
  /\ planner = [p \in Planners |-> IdlePlanner]
  /\ outdated = {}
  /\ spent = [events |-> 0, repairs |-> 0]

PlannerStep(p) ==
  \/ plan(p) \/ plan_pinned(p)
  \/ plan_initial_baseline(p) \/ qualify(p) \/ BaselineTargets(p)
  \/ WalkIncrement(p) \/ plan_next_increment(p)
  \/ verify_planning_snapshots(p)
  \/ enqueue_source_snapshot(p) \/ enqueue_blocked_source_snapshot(p) \/ block_source_snapshot(p)

Next ==
  \/ \E p \in Planners : PlannerStep(p) \/ ReadFails(p) \/ CycleFails(p)
  \/ Commits \/ CatalogEvent
  \/ \E s \in DOMAIN rows : retry_blocked_source_snapshot(s)

Spec == Init /\ [][Next]_vars

\* run_loop starts a cycle for ever and a cycle that does not fail goes on.
FairSpec == Spec /\ \A p \in Planners : WF_vars(PlannerStep(p))

-----------------------------------------------------------------------------
(* Properties.                                                             *)

GateCodes     == {"SOURCE_TABLE_CONTRACT", "SOURCE_LINEAGE_UNTRUSTED"}
BaselineCodes ==
  {"BASELINE_NOT_CONFIGURED", "BASELINE_NOT_RETAINED", "BASELINE_IDENTITY_MISMATCH", "BASELINE_NOT_CANONICAL"}

Codes == {"none"} \cup GateCodes \cup BaselineCodes \cup IncrementCodes \cup ReadFailures

Row ==
  [snap : Ids, parent : 0..MaxSnapshots, seq : 0..MaxSnapshots, spec : {1, 2},
   kind : {"BASELINE", "APPEND", "REJECTED"}, targets : SUBSET {"a"},
   state : {"SEALED", "BLOCKED"}, error : Codes]

\* Durable rows, the table and the planners have the shape above.
TypeOK ==
  /\ source.baseline \in Baselines /\ source.epoch \in Nat
  /\ \A i \in DOMAIN rows : rows[i] \in Row
  /\ Len(hist) \in Ids
  /\ table.live \subseteq 1..Len(hist) /\ table.head \in 0..Len(hist)
  /\ \A p \in Planners : planner[p].seen \in 0..Len(rows)

TrueTargets(id) == {e.target : e \in {f \in FactsOf(id).entries : IsAddedData(f)}}

Clean(id) ==
  \A e \in FactsOf(id).entries : e.status # "DELETED" /\ e.content = "DATA" /\ e.spec = 1

\* What ingestion replays (plan_next_increment, enqueue_source_snapshot): the
\* accepted rows are the unbroken lineage from the baseline to the durable head,
\* every one of them clean and with exactly the targets it adds rows to, whatever
\* was expired, rolled back or replaced while it was planned.
SealedLineage ==
  \A i \in DOMAIN rows : rows[i].kind # "REJECTED" =>
    /\ i = 1 => rows[i].kind = "BASELINE" /\ rows[i].snap = source.baseline /\ canonical(rows[i].snap)
    /\ i > 1 => Clean(rows[i].snap) /\ rows[i].targets = TrueTargets(rows[i].snap)
    /\ i > 1 => rows[i].parent = rows[i - 1].snap /\ hist[rows[i].snap].parent = rows[i - 1].snap

\* Nothing classification looks for is wrong with the snapshot.
Supported(id) ==
  /\ Clean(id) /\ hist[id].spec = 1 /\ FactsOf(id).declared # "malformed"
  /\ collect_manifest_rows(FactsOf(id).entries) = "none"

\* Rejected evidence can never be retried, so it must not be an artefact of a race
\* with expiry (verify_planning_snapshots): a descendant that a plan from a checkpoint
\* rejected for what it is, and not because it could not be read, is unacceptable
\* for good.
RejectedIncrementIsReal ==
  \A i \in 2..Len(rows) : rows[i].error \in IncrementCodes => ~Supported(rows[i].snap)

Writes(p) == rows' # rows /\ planner'[p] # planner[p]

\* The planning epoch (StaleSourcePlanError): a plan made from a checkpoint before a
\* gate was closed or reopened neither seals, rejects nor gates anything new afterwards.
OvertakenPlansWriteNothing == [][\A p \in outdated : planner[p].seen # 0 => ~Writes(p)]_vars

CaughtUp == rows # <<>> /\ rows[Len(rows)].snap = table.head /\ table.uuid = RegisteredUuid

\* Planning has reached the head of the table or has left the reason it cannot.
Converged == CaughtUp \/ source_blocked \/ \E p \in Planners : At(p, "exited")

\* On a table with sequence numbers planning keeps reaching the head or leaves the reason
\* it cannot in the gate (DurableSourcePlanProvider.plan, enqueue_blocked_source_snapshot).
PlanningConverges == table.format = 2 => []<>Converged

\* "Build a bounded accepted prefix or durably record the next rejection"
\* (DurableSourcePlanProvider.plan), whatever the table's format.
RejectionsAreRecorded == []<>Converged

=============================================================================
