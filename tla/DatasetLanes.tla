---------------------------- MODULE DatasetLanes ----------------------------
(***************************************************************************)
(* The dataset-work lanes of the PostgreSQL control plane                  *)
(* (state/repository.py) together with the workers that execute claims     *)
(* (reconciler/service.py, reconciler/workers.py).                         *)
(*                                                                         *)
(* Every dataset owns a lane of INGEST, PUBLISH and REBUILD work rows.     *)
(* Workers claim rows under a lease and a fence, run Lance work outside    *)
(* any transaction, and submit the result through a fenced transition.     *)
(* Operators repair blocked rows, request rebuilds and assign revisions;   *)
(* the planner seals source snapshots and gates the source.                *)
(*                                                                         *)
(* One action is one repository transaction, one Lance commit or read, or  *)
(* one fault.  Time is abstracted: a lease is live until LeaseExpires, and *)
(* renew_lease is the absence of that step; a row in RETRY_WAIT is always  *)
(* due, since not claiming it yet is the same as its backoff not having    *)
(* elapsed.  A Lance version is abstracted to the last source snapshot its *)
(* rows contain.                                                           *)
(***************************************************************************)
EXTENDS Naturals, Sequences, FiniteSets

CONSTANTS
  Datasets,         \* routed datasets of the one registered source
  Revisions,        \* ACTIVE specification revisions an operator may assign
  DefaultRevision,  \* the active revision of the source's default spec
  Requests,         \* request ids of operator rebuilds
  MaxSeq,           \* bound: source snapshots the planner seals
  ClaimLimit,       \* claim_batch_size
  MaxAttempts,      \* settings.max_attempts
  MaxFaults,        \* bound: lease expiries, worker crashes and failures
  MaxRepairs,       \* bound: operator actions and source gates
  None              \* SQL NULL

ASSUME ConstantsAssumption ==
  /\ DefaultRevision \in Revisions
  /\ Requests \cap Revisions = {}
  /\ None \notin Revisions \cup Requests
  /\ MaxSeq \in Nat /\ ClaimLimit \in Nat /\ MaxAttempts \in Nat
  /\ MaxFaults \in Nat /\ MaxRepairs \in Nat

VARIABLES
  snap,     \* source_snapshots: sequence -> [state, kind]
  ds,       \* datasets: dataset -> mutable row
  work,     \* dataset_work: work id -> row ("ABSENT" when not inserted)
  pubs,     \* dataset_publications: work id -> row or None
  claims,   \* claims held by workers, current or superseded
  lance,    \* versions of every dataset URI: last snapshot contained in each
  marker,   \* completion marker (last applied window) of every URI
  pin,      \* candidate pin (tagged version) of every work id, 0 if none
  faults,   \* faults so far
  repairs   \* operator actions so far

vars   == <<snap, ds, work, pubs, claims, lance, marker, pin, faults, repairs>>
tables == <<snap, ds, work, pubs>>
store  == <<lance, marker, pin>>
bounds == <<faults, repairs>>

-----------------------------------------------------------------------------
(* Identities.  Work, publication and URI identities are derived, never    *)
(* random: a replayed call names the same row.                             *)

Seqs == 1..MaxSeq

deterministic_ingest_work_id(d, s)  == [kind |-> "INGEST",  ds |-> d, key |-> s]
deterministic_publish_work_id(d, s) == [kind |-> "PUBLISH", ds |-> d, key |-> s]
deterministic_rebuild_work_id(d, q) == [kind |-> "REBUILD", ds |-> d, key |-> q]

RebuildKeys == Requests \cup Revisions

WorkIds ==
       [kind : {"INGEST", "PUBLISH"}, ds : Datasets, key : Seqs]
  \cup [kind : {"REBUILD"}, ds : Datasets, key : RebuildKeys]

\* NULL is not a row.
ASSUME NullAssumption == None \notin WorkIds

ingest_uri(d)  == [ds |-> d, key |-> None]
rebuild_uri(w) == [ds |-> w.ds, key |-> w.key]

Uris == [ds : Datasets, key : RebuildKeys \cup {None}]

-----------------------------------------------------------------------------
(* Rows.                                                                   *)

WorkState == {"ABSENT", "PENDING", "RUNNING", "RETRY_WAIT", "SUCCEEDED", "BLOCKED"}
Waiting   == {"PENDING", "RETRY_WAIT"}
Open      == Waiting \cup {"RUNNING"}

\* PHASE_ORDER: INGEST 0, COMPACT 1, INDEX 2, VALIDATE 3, PREWARM 4, PUBLISH 5.
Phases  == 0..5
COMPACT == 1
PREWARM == 4
PUBLISH == 5

Pointer(row) == [uri |-> row.uri, ver |-> row.ver, pub |-> row.pub]

AbsentWork ==
  [state |-> "ABSENT", seq |-> 0, rev |-> None, phase |-> 0,
   token |-> 0, lapsed |-> FALSE, attempt |-> 0,
   exp |-> [uri |-> None, ver |-> 0, pub |-> None],
   cand |-> [uri |-> None, ver |-> 0]]

AbsentDataset(d) ==
  [desired |-> None, materialized |-> None, applied |-> 0,
   uri |-> ingest_uri(d), ver |-> 0, pub |-> None, fence |-> 0]

Known(d) == ds[d].desired # None

NewWork(kindPhase, s, r, exp, cand) ==
  [AbsentWork EXCEPT !.state = "PENDING", !.seq = s, !.rev = r,
                     !.phase = kindPhase, !.exp = exp, !.cand = cand]

\* Every transition out of RUNNING clears lease_token and lease_expires_at.
Released(row, state) == [row EXCEPT !.state = state, !.token = 0, !.lapsed = FALSE]

-----------------------------------------------------------------------------
(* Predicates of the repository.  W is the dataset_work table as the       *)
(* transaction sees it.                                                    *)

frozen_expectations_match_dataset(W, w) == W[w].exp = Pointer(ds[w.ds])

source_blocked == \E s \in Seqs : snap[s].state = "BLOCKED"

source_snapshot_allows_work(w) == w.kind # "INGEST" \/ ~source_blocked

KindRank(w) == IF w.kind = "INGEST" THEN 0 ELSE 1

Precedes(W, e, w) ==
  \/ W[e].seq < W[w].seq
  \/ W[e].seq = W[w].seq /\ KindRank(e) < KindRank(w)

\* Mutant: a blocked row no longer holds back its successors.
lane_order_skips_blocked(W, w) ==
  ~ \E e \in WorkIds :
      /\ e.ds = w.ds /\ e # w
      /\ W[e].state \in Open
      /\ e.kind = "INGEST" \/ frozen_expectations_match_dataset(W, e)
      /\ Precedes(W, e, w)

\* Mutant: no stale exclusion.
lane_order_counts_stale(W, w) ==
  ~ \E e \in WorkIds :
      /\ e.ds = w.ds /\ e # w
      /\ W[e].state \notin {"ABSENT", "SUCCEEDED"}
      /\ Precedes(W, e, w)

\* No earlier row of the lane is unfinished, stale non-INGEST rows excepted.
lane_order_predicate(W, w) ==
  ~ \E e \in WorkIds :
      /\ e.ds = w.ds /\ e # w
      /\ W[e].state \notin {"ABSENT", "SUCCEEDED"}
      /\ e.kind = "INGEST" \/ frozen_expectations_match_dataset(W, e)
      /\ Precedes(W, e, w)

expected_state_predicate(W, w) ==
  w.kind = "INGEST" \/ frozen_expectations_match_dataset(W, w)

Claimable(W, w) ==
  /\ W[w].state \in Waiting
  /\ source_snapshot_allows_work(w)
  /\ lane_order_predicate(W, w)
  /\ expected_state_predicate(W, w)

has_open_publication(d) ==
  \E w \in WorkIds : w.kind = "PUBLISH" /\ w.ds = d /\ work[w].state \in Open

\* Mutant: the row is running, no matter for whom.
lease_is_live(c) ==
  /\ work[c.work].state = "RUNNING"
  /\ ~work[c.work].lapsed

\* state, token, expiry and fence: the quad that admits a worker's transition
lease_is_current(c) ==
  /\ work[c.work].state = "RUNNING"
  /\ work[c.work].token = c.token
  /\ ~work[c.work].lapsed
  /\ ds[c.work.ds].fence = c.token

assert_expectations_match(w) == frozen_expectations_match_dataset(work, w)

IncompleteIngest(W, s) ==
  \E d \in Datasets :
    W[deterministic_ingest_work_id(d, s)].state \notin {"ABSENT", "SUCCEEDED"}

-----------------------------------------------------------------------------
(* Claiming.                                                               *)

release_expired_leases ==
  [w \in WorkIds |->
     IF work[w].state = "RUNNING" /\ work[w].lapsed
     THEN Released(work[w], "RETRY_WAIT") ELSE work[w]]

sweep_stale_work(W) ==
  [w \in WorkIds |->
     IF /\ w.kind # "INGEST"
        /\ W[w].state \in Waiting
        /\ ~frozen_expectations_match_dataset(W, w)
     THEN Released(W[w], "BLOCKED") ELSE W[w]]

\* The claimed row: RUNNING under the next fence, INGEST re-frozen.
claim_locked_row(W, w) ==
  [W[w] EXCEPT !.state = "RUNNING", !.token = ds[w.ds].fence + 1, !.lapsed = FALSE,
               !.attempt = @ + 1,
               !.exp = IF w.kind = "INGEST" THEN Pointer(ds[w.ds]) ELSE @]

\* The WorkClaim a worker holds, with the worker's progress: the stage of its
\* Lance work, the phase checkpointed so far and the version it reports.
Stages == {"claimed", "running", "writing", "written", "building", "built", "pinned", "done"}

WorkClaim(W, w) ==
  [work |-> w, token |-> ds[w.ds].fence + 1, attempt |-> W[w].attempt + 1,
   uri |-> ds[w.ds].uri, ver |-> ds[w.ds].ver,
   stage |-> "claimed", at |-> W[w].phase, out |-> 0]

\* uq_dataset_work_running_dataset: a batch that would give a dataset a second
\* RUNNING row violates the index and the whole transaction rolls back.
RunningIndexAdmits(W, S) ==
  \A w \in S : ~ \E e \in WorkIds : e.ds = w.ds /\ W[e].state = "RUNNING"

\* SKIP LOCKED may hide any due row another transaction holds, so the batch S
\* is any dataset-disjoint set of claimable rows within the limit.
claim_due_work ==
  LET swept == sweep_stale_work(release_expired_leases) IN
  \E S \in SUBSET {w \in WorkIds : Claimable(swept, w)} :
    /\ Cardinality(S) <= ClaimLimit
    /\ \A v, w \in S : v.ds = w.ds => v = w
    /\ RunningIndexAdmits(swept, S)
    /\ S # {} \/ swept # work
    /\ work' = [w \in WorkIds |-> IF w \in S THEN claim_locked_row(swept, w) ELSE swept[w]]
    /\ ds' = [d \in Datasets |-> IF \E w \in S : w.ds = d
                                THEN [ds[d] EXCEPT !.fence = @ + 1] ELSE ds[d]]
    /\ claims' = claims \cup {WorkClaim(swept, w) : w \in S}
    /\ UNCHANGED <<snap, pubs, store, bounds>>

-----------------------------------------------------------------------------
(* Execution outside any transaction.  Superseded workers keep running:    *)
(* nothing here looks at the lease after the context was loaded.           *)

Hold(c, held) == claims' = (claims \ {c}) \cup {held}
Drop(c)       == claims' = claims \ {c}

Latest(u)    == Len(lance[u])
Contents(u)  == IF lance[u] = <<>> THEN 0 ELSE lance[u][Latest(u)]
Commit(u, x) == lance' = [lance EXCEPT ![u] = Append(@, x)]

\* FencedWorkExecutor.execute: a claim whose lease is gone before the context
\* is loaded becomes a STALE_CLAIM retry, which its own fence rejects.
execute(c) ==
  /\ c.stage = "claimed"
  /\ IF lease_is_current(c) THEN Hold(c, [c EXCEPT !.stage = "running"]) ELSE Drop(c)
  /\ UNCHANGED <<tables, store, bounds>>

\* A window whose completion marker is durable is not written again.
applied_completion_marker(c) ==
  /\ c.stage = "running" /\ c.work.kind = "INGEST"
  /\ Hold(c, IF marker[c.uri] >= c.work.key
             THEN [c EXCEPT !.stage = "done", !.out = Latest(c.uri)]
             ELSE [c EXCEPT !.stage = "writing"])
  /\ UNCHANGED <<tables, store, bounds>>

\* replay_safe_merge: rows of an older window never overwrite newer ones, and
\* a window already contained commits nothing.
write_terminal(c) ==
  /\ c.stage = "writing" /\ c.work.kind = "INGEST"
  /\ IF Contents(c.uri) < c.work.key THEN Commit(c.uri, c.work.key) ELSE UNCHANGED lance
  /\ Hold(c, [c EXCEPT !.stage = "written"])
  /\ UNCHANGED <<tables, marker, pin, bounds>>

finalize_completion_marker(c) ==
  LET u == c.uri IN
  /\ c.stage = "written" /\ c.work.kind = "INGEST"
  /\ IF marker[u] >= c.work.key
     THEN Hold(c, [c EXCEPT !.stage = "done", !.out = Latest(u)]) /\ UNCHANGED <<lance, marker>>
     ELSE /\ Commit(u, Contents(u))
          /\ marker' = [marker EXCEPT ![u] = c.work.key]
          /\ Hold(c, [c EXCEPT !.stage = "done", !.out = Latest(u) + 1])
  /\ UNCHANGED <<tables, pin, bounds>>

CandidateUri(c) == IF c.work.kind = "REBUILD" THEN rebuild_uri(c.work) ELSE c.uri

\* An earlier attempt of the same work may have pinned its candidate.
candidate_pin_version(c) ==
  /\ c.stage = "running" /\ c.work.kind # "INGEST"
  /\ Hold(c, IF pin[c.work] # 0 THEN [c EXCEPT !.stage = "pinned", !.out = pin[c.work]]
                                ELSE [c EXCEPT !.stage = "building"])
  /\ UNCHANGED <<tables, store, bounds>>

\* Mutant: a rebuild reads the latest version of the ingest URI.
CandidateContentsLatest(c) ==
  LET present == Contents(CandidateUri(c)) IN
  IF c.work.kind = "REBUILD" /\ Contents(c.uri) > present THEN Contents(c.uri) ELSE present

\* A REBUILD merges the exact version its claim names into its candidate, never
\* over newer rows; a PUBLISH compacts and indexes the latest version in place.
CandidateContents(c) ==
  LET present == Contents(CandidateUri(c)) IN
  IF c.work.kind = "REBUILD" /\ lance[c.uri][c.ver] > present THEN lance[c.uri][c.ver] ELSE present

\* canonical_rebuild, MaintenanceJob, run_indexing and candidate_version.  They
\* commit unless a former attempt left nothing to do.
build_candidate(c) ==
  LET u == CandidateUri(c) IN
  /\ c.stage = "building"
  /\ c.work.kind = "REBUILD" => c.ver \in DOMAIN lance[c.uri]
  /\ \/ /\ Commit(u, CandidateContents(c))
        /\ Hold(c, [c EXCEPT !.stage = "built", !.out = Latest(u) + 1])
     \/ /\ Latest(u) > 0
        /\ Hold(c, [c EXCEPT !.stage = "built", !.out = Latest(u)])
        /\ UNCHANGED lance
  /\ UNCHANGED <<tables, marker, pin, bounds>>

\* Counts, index coverage, manifest and replica prewarm of the pinned version.
qualify_candidate(c) ==
  /\ c.stage = "pinned"
  /\ Hold(c, [c EXCEPT !.stage = "done"])
  /\ UNCHANGED <<tables, store, bounds>>

-----------------------------------------------------------------------------
(* Reconciliation of results: ResultReconciler and BoundedDispatcher.      *)

\* A fenced transition of the claim's own row; a stale claim changes nothing.
FencedRelease(c, state) ==
  /\ work' = IF lease_is_current(c)
             THEN [work EXCEPT ![c.work] = Released(@, state)] ELSE work
  /\ Drop(c)
  /\ UNCHANGED <<snap, ds, pubs, store, repairs>>

\* Everything before the result is reconciled may fail, a lost heartbeat included.
Failing(c) ==
  /\ c.stage = "done" => c.work.kind = "INGEST"
  /\ faults < MaxFaults /\ faults' = faults + 1

retry_work(c) ==
  Failing(c) /\ FencedRelease(c, IF c.attempt >= MaxAttempts THEN "BLOCKED" ELSE "RETRY_WAIT")

block_work(c) == c.stage # "claimed" /\ Failing(c) /\ FencedRelease(c, "BLOCKED")

\* Mutant: the last pin wins.
pin_candidate_overwrites(c) ==
  /\ c.stage = "built"
  /\ pin' = [pin EXCEPT ![c.work] = c.out]
  /\ Hold(c, [c EXCEPT !.stage = "pinned"])
  /\ UNCHANGED <<tables, lance, marker, bounds>>

\* The first pin of a work item wins; a later attempt that built a different
\* version reports IMMUTABLE_CANDIDATE_PIN_CONFLICT.
pin_candidate(c) ==
  /\ c.stage = "built"
  /\ IF pin[c.work] \in {0, c.out}
     THEN /\ pin' = [pin EXCEPT ![c.work] = c.out]
          /\ Hold(c, [c EXCEPT !.stage = "pinned"])
          /\ UNCHANGED <<tables, lance, marker, bounds>>
     ELSE FencedRelease(c, "BLOCKED") /\ UNCHANGED faults

\* A StateTransitionError makes the dispatcher block the claim, best effort.
block_diverged_claim(c) == FencedRelease(c, "BLOCKED") /\ UNCHANGED faults

\* complete_ingest and publish_dataset answer False, or accept a replay that is
\* already durable: the database is untouched and the dispatcher moves on.
StaleResult(c) == Drop(c) /\ UNCHANGED <<tables, store, bounds>>

enqueue_publish_work(W, w, ver) ==
  LET p == deterministic_publish_work_id(w.ds, work[w].seq)
      u == work[w].exp.uri IN
  IF W[p].state # "ABSENT" THEN W
  ELSE [W EXCEPT ![p] = NewWork(COMPACT, work[w].seq, work[w].rev,
                                [uri |-> u, ver |-> ver, pub |-> ds[w.ds].pub],
                                [uri |-> u, ver |-> ver])]

\* Mutant: blocked INGEST rows no longer count.
complete_snapshot_ignores_blocked(W, s) ==
  IF /\ snap[s].state # "BLOCKED"
     /\ \A d \in Datasets : W[deterministic_ingest_work_id(d, s)].state \notin Open
  THEN [snap EXCEPT ![s].state = "COMPLETE"] ELSE snap

complete_snapshot_if_applied(W, s) ==
  IF snap[s].state # "BLOCKED" /\ ~IncompleteIngest(W, s)
  THEN [snap EXCEPT ![s].state = "COMPLETE"] ELSE snap

ApplyIngest(c) ==
  LET w == c.work
      row == work[w]
      done == [work EXCEPT ![w] = [Released(@, "SUCCEEDED") EXCEPT
                                     !.cand = [uri |-> row.exp.uri, ver |-> c.out]]] IN
  /\ ds' = [ds EXCEPT ![w.ds] = [@ EXCEPT !.materialized = row.rev, !.applied = row.seq,
                                          !.uri = row.exp.uri, !.ver = c.out]]
  /\ work' = enqueue_publish_work(done, w, c.out)
  /\ snap' = complete_snapshot_if_applied(work', row.seq)
  /\ Drop(c)
  /\ UNCHANGED <<pubs, store, bounds>>

complete_ingest(c) ==
  /\ c.stage = "done" /\ c.work.kind = "INGEST"
  /\ IF ~lease_is_current(c) THEN StaleResult(c)
     ELSE IF assert_expectations_match(c.work) /\ ~has_open_publication(c.work.ds)
          THEN ApplyIngest(c)
          ELSE block_diverged_claim(c)

\* Mutant: the checkpoints do not stop before the PUBLISH phase.
advance_phase_unbounded(c) ==
  /\ c.stage = "done" /\ c.work.kind # "INGEST"
  /\ lease_is_current(c)
  /\ work' = [work EXCEPT ![c.work] =
                [@ EXCEPT !.phase = c.at + 1, !.cand = [uri |-> CandidateUri(c), ver |-> c.out]]]
  /\ Hold(c, [c EXCEPT !.at = @ + 1])
  /\ UNCHANGED <<snap, ds, pubs, store, bounds>>

\* advance_publish_phases checkpoints the phases one transaction at a time.
advance_phase(c) ==
  /\ c.stage = "done" /\ c.work.kind # "INGEST" /\ c.at < PREWARM
  /\ IF lease_is_current(c) /\ work[c.work].phase <= c.at + 1
     THEN /\ work' = [work EXCEPT ![c.work] =
                        [@ EXCEPT !.phase = c.at + 1, !.cand = [uri |-> CandidateUri(c), ver |-> c.out]]]
          /\ Hold(c, [c EXCEPT !.at = @ + 1])
          /\ UNCHANGED <<snap, ds, pubs, store, bounds>>
     ELSE StaleResult(c)

validate_live_publication(c) ==
  /\ assert_expectations_match(c.work)
  /\ work[c.work].cand = [uri |-> CandidateUri(c), ver |-> c.out]

\* Mutant: the former publication is left ACTIVE.
RetireNothing(former) == pubs

Retire(former) ==
  [p \in WorkIds |-> IF p = former THEN [pubs[p] EXCEPT !.retired = TRUE] ELSE pubs[p]]

SwapServingPointer(c) ==
  LET w == c.work
      u == CandidateUri(c)
      former == ds[w.ds].pub
      fresh == [seq |-> work[w].seq, rev |-> work[w].rev, uri |-> u, ver |-> c.out, retired |-> FALSE] IN
  /\ pubs' = [Retire(former) EXCEPT ![w] = fresh]
  /\ ds' = [ds EXCEPT ![w.ds] =
              IF w.kind = "REBUILD"
              THEN [@ EXCEPT !.pub = w, !.uri = u, !.ver = c.out, !.materialized = work[w].rev]
              ELSE [@ EXCEPT !.pub = w]]
  /\ work' = [work EXCEPT ![w] = [Released(@, "SUCCEEDED") EXCEPT
                                     !.phase = PUBLISH, !.cand = [uri |-> u, ver |-> c.out]]]
  /\ Drop(c)
  /\ UNCHANGED <<snap, store, bounds>>

publish_dataset(c) ==
  /\ c.stage = "done" /\ c.work.kind # "INGEST" /\ c.at >= PREWARM
  /\ IF pubs[c.work] # None \/ ~lease_is_current(c) THEN StaleResult(c)
     ELSE IF validate_live_publication(c) THEN SwapServingPointer(c)
          ELSE block_diverged_claim(c)

-----------------------------------------------------------------------------
(* The planner: sealing snapshots and gating the source.                   *)

\* Mutant: any new sequence is accepted.
ExtendsAnything(s) == snap[s].state = "ABSENT"

\* The sequence that extends the durable head, assert_new_snapshot_extends_latest.
ExtendsLatest(s) ==
  /\ snap[s].state = "ABSENT"
  /\ \A t \in 1..(s - 1) : snap[t].state # "ABSENT"

\* insert_or_validate_dataset: a newly discovered route takes the source default.
Discovered(D) ==
  [d \in Datasets |-> IF d \in D /\ ~Known(d)
                      THEN [ds[d] EXCEPT !.desired = DefaultRevision] ELSE ds[d]]

\* insert_ingest_work: the desired revision is frozen for the life of the row.
insert_ingest_work(D, s) ==
  [w \in WorkIds |->
     IF w.kind = "INGEST" /\ w.ds \in D /\ w.key = s
     THEN NewWork(0, s, Discovered(D)[w.ds].desired, Pointer(ds[w.ds]), AbsentWork.cand)
     ELSE work[w]]

enqueue_source_snapshot(s, D) ==
  /\ ExtendsLatest(s) /\ ~source_blocked
  /\ snap' = [snap EXCEPT ![s] = [state |-> IF D = {} THEN "COMPLETE" ELSE "SEALED", rejected |-> FALSE]]
  /\ ds' = Discovered(D)
  /\ work' = insert_ingest_work(D, s)
  /\ UNCHANGED <<pubs, claims, store, bounds>>

Repairing == repairs < MaxRepairs /\ repairs' = repairs + 1

\* A rejected snapshot gates the source for good: its evidence is immutable.
enqueue_blocked_source_snapshot(s) ==
  /\ Repairing
  /\ ExtendsLatest(s) /\ ~source_blocked
  /\ snap' = [snap EXCEPT ![s] = [state |-> "BLOCKED", rejected |-> TRUE]]
  /\ UNCHANGED <<ds, work, pubs, claims, store, faults>>

\* A lineage failure closes the source at s; running INGEST keeps its lease.
block_source_snapshot(s) ==
  /\ Repairing
  /\ snap[s].state # "ABSENT"
  /\ snap' = [snap EXCEPT ![s].state = "BLOCKED"]
  /\ work' = [w \in WorkIds |->
                IF w.kind = "INGEST" /\ work[w].seq >= s /\ work[w].state \in Waiting
                THEN Released(work[w], "BLOCKED") ELSE work[w]]
  /\ UNCHANGED <<ds, pubs, claims, store, faults>>

retry_blocked_source_snapshot(s) ==
  /\ Repairing
  /\ snap[s].state = "BLOCKED" /\ ~snap[s].rejected
  /\ snap' = [snap EXCEPT ![s].state = IF IncompleteIngest(work, s) THEN "SEALED" ELSE "COMPLETE"]
  /\ UNCHANGED <<ds, work, pubs, claims, store, faults>>

-----------------------------------------------------------------------------
(* Operators.                                                              *)

\* uq_dataset_work_open_publish refuses to reopen a second PUBLISH.
retry_blocked_work(w) ==
  /\ Repairing
  /\ work[w].state = "BLOCKED"
  /\ source_snapshot_allows_work(w)
  /\ w.kind = "PUBLISH" => ~has_open_publication(w.ds)
  /\ work' = [work EXCEPT ![w] = Released(@, "PENDING")]
  /\ UNCHANGED <<snap, ds, pubs, claims, store, faults>>

Materialized(d) == Known(d) /\ ds[d].applied # 0 /\ ds[d].ver # 0

NewRebuild(w, r) ==
  NewWork(COMPACT, ds[w.ds].applied, r, Pointer(ds[w.ds]), [uri |-> rebuild_uri(w), ver |-> 0])

\* Replaying a request id finds its row and changes nothing.
enqueue_rebuild(d, q) ==
  LET w == deterministic_rebuild_work_id(d, q) IN
  /\ Repairing
  /\ Materialized(d) /\ ~has_open_publication(d)
  /\ work[w].state = "ABSENT"
  /\ work' = [work EXCEPT ![w] = NewRebuild(w, ds[d].desired)]
  /\ UNCHANGED <<snap, ds, pubs, claims, store, faults>>

\* Convergence is deferred behind an open publication.  A rebuild row of an
\* earlier assignment with other frozen inputs makes the transaction raise,
\* which rolls the desired pointer back too: no step.
assign_dataset_spec_revision(d, r) ==
  LET w == deterministic_rebuild_work_id(d, r)
      converges == ds[d].materialized # r /\ Materialized(d) /\ ~has_open_publication(d) IN
  /\ Repairing
  /\ Known(d)
  /\ ds' = [ds EXCEPT ![d].desired = r]
  /\ IF converges /\ work[w].state = "ABSENT"
     THEN work' = [work EXCEPT ![w] = NewRebuild(w, r)]
     ELSE /\ converges => work[w].seq = ds[d].applied /\ assert_expectations_match(w)
          /\ UNCHANGED work
  /\ UNCHANGED <<snap, pubs, claims, store, faults>>

-----------------------------------------------------------------------------
(* Faults.                                                                 *)

Abandoned(w) == ~ \E c \in claims : c.work = w /\ c.token = work[w].token

\* A lease lapses when nobody renews it: the worker is gone, or its heartbeat
\* is late (a fault).
LeaseExpires(w) ==
  /\ work[w].state = "RUNNING" /\ ~work[w].lapsed
  /\ IF Abandoned(w) THEN UNCHANGED faults ELSE faults < MaxFaults /\ faults' = faults + 1
  /\ work' = [work EXCEPT ![w].lapsed = TRUE]
  /\ UNCHANGED <<snap, ds, pubs, claims, store, repairs>>

\* The worker process dies, or an unexpected reconciliation error abandons the claim.
WorkerCrash(c) ==
  /\ faults < MaxFaults /\ faults' = faults + 1
  /\ Drop(c)
  /\ UNCHANGED <<tables, store, repairs>>

-----------------------------------------------------------------------------
(* Specification.                                                          *)

Init ==
  /\ snap = [s \in Seqs |-> [state |-> "ABSENT", rejected |-> FALSE]]
  /\ ds = [d \in Datasets |-> AbsentDataset(d)]
  /\ work = [w \in WorkIds |-> AbsentWork]
  /\ pubs = [w \in WorkIds |-> None]
  /\ claims = {}
  /\ lance = [u \in Uris |-> <<>>]
  /\ marker = [u \in Uris |-> 0]
  /\ pin = [w \in WorkIds |-> 0]
  /\ faults = 0 /\ repairs = 0

RunStep(c) ==
  \/ execute(c)
  \/ applied_completion_marker(c) \/ write_terminal(c) \/ finalize_completion_marker(c)
  \/ candidate_pin_version(c) \/ build_candidate(c) \/ pin_candidate(c) \/ qualify_candidate(c)

ReconcileStep(c) == complete_ingest(c) \/ advance_phase(c) \/ publish_dataset(c)

FaultStep ==
  \/ \E c \in claims : retry_work(c) \/ block_work(c) \/ WorkerCrash(c)
  \/ \E w \in WorkIds : LeaseExpires(w)

PlanStep ==
  \E s \in Seqs :
    \/ \E D \in SUBSET Datasets : enqueue_source_snapshot(s, D)
    \/ enqueue_blocked_source_snapshot(s)
    \/ block_source_snapshot(s)
    \/ retry_blocked_source_snapshot(s)

OperatorStep ==
  \/ \E w \in WorkIds : retry_blocked_work(w)
  \/ \E d \in Datasets, q \in Requests : enqueue_rebuild(d, q)
  \/ \E d \in Datasets, r \in Revisions : assign_dataset_spec_revision(d, r)

Next ==
  \/ claim_due_work
  \/ \E c \in claims : RunStep(c) \/ ReconcileStep(c)
  \/ FaultStep
  \/ PlanStep
  \/ OperatorStep

Spec == Init /\ [][Next]_vars

\* The reconciler loop claims and drains for ever, a worker that has not died
\* keeps running, and time passes for a lease nobody renews.
Fairness ==
  /\ WF_vars(claim_due_work)
  /\ WF_vars(\E c \in claims : RunStep(c) \/ ReconcileStep(c))
  /\ WF_vars(\E w \in WorkIds : Abandoned(w) /\ LeaseExpires(w))

FairSpec == Spec /\ Fairness

-----------------------------------------------------------------------------
(* Types.                                                                  *)

Revision    == Revisions \cup {None}
Publication == WorkIds \cup {None}

SnapshotRow == [state : {"ABSENT", "SEALED", "COMPLETE", "BLOCKED"}, rejected : BOOLEAN]

DatasetRow ==
  [desired : Revision, materialized : Revision, applied : 0..MaxSeq,
   uri : Uris, ver : Nat, pub : Publication, fence : Nat]

WorkRow ==
  [state : WorkState, seq : 0..MaxSeq, rev : Revision, phase : Phases,
   token : Nat, lapsed : BOOLEAN, attempt : Nat,
   exp : [uri : Uris \cup {None}, ver : Nat, pub : Publication],
   cand : [uri : Uris \cup {None}, ver : Nat]]

PublicationRow ==
  [seq : 0..MaxSeq, rev : Revision, uri : Uris, ver : Nat, retired : BOOLEAN]

Claim ==
  [work : WorkIds, token : Nat, attempt : Nat, uri : Uris, ver : Nat,
   stage : Stages, at : Phases, out : Nat]

\* NULL is neither a number nor a publication.
ASSUME NullColumns == None \notin Nat /\ None \notin PublicationRow

\* Every table, claim and Lance dataset has the shape the code gives it.
TypeOK ==
  /\ snap \in [Seqs -> SnapshotRow]
  /\ ds \in [Datasets -> DatasetRow]
  /\ work \in [WorkIds -> WorkRow]
  /\ pubs \in [WorkIds -> PublicationRow \cup {None}]
  /\ claims \subseteq Claim
  /\ lance \in [Uris -> Seq(0..MaxSeq)]
  /\ marker \in [Uris -> 0..MaxSeq]
  /\ pin \in [WorkIds -> Nat]
  /\ faults \in 0..MaxFaults /\ repairs \in 0..MaxRepairs

-----------------------------------------------------------------------------
(* Safety.                                                                 *)

\* Fencing (claim_locked_row, lease_is_current): of all the workers that ever
\* claimed work of a dataset, at most one can still change its rows.
AtMostOneOwner ==
  \A c, e \in claims :
    c.work.ds = e.work.ds /\ lease_is_current(c) /\ lease_is_current(e) => c = e

\* Source order (lane_order_predicate, complete_ingest): the applied snapshot
\* of a dataset covers exactly the INGEST rows that succeeded, with no gap.
AppliedPrefix ==
  \A d \in Datasets, s \in Seqs :
    LET row == work[deterministic_ingest_work_id(d, s)] IN
    row.state # "ABSENT" => (row.state = "SUCCEEDED" <=> s <= ds[d].applied)

\* A snapshot reads COMPLETE exactly when all its INGEST rows succeeded, however
\* completions, gates and gate repairs interleave (complete_snapshot_if_applied,
\* retry_blocked_source_snapshot).
SnapshotCompletion ==
  \A s \in Seqs :
    snap[s].state \in {"SEALED", "COMPLETE"} =>
      (snap[s].state = "COMPLETE" <=> ~IncompleteIngest(work, s))

VersionHolds(u, v, s) == v \in DOMAIN lance[u] /\ lance[u][v] = s

\* The version a publication names holds exactly the source snapshots up to its
\* sequence, and the ingest pointer those up to the applied one, whatever
\* superseded workers committed to the same URIs meanwhile.
ServesExactly ==
  /\ \A w \in WorkIds :
       pubs[w] # None => VersionHolds(pubs[w].uri, pubs[w].ver, pubs[w].seq)
  /\ \A d \in Datasets :
       ds[d].applied # 0 => VersionHolds(ds[d].uri, ds[d].ver, ds[d].applied)

\* A publication serves the version its work item pinned, so no cleanup that
\* honours pins can remove it (pin_candidate, candidate_pin_version).
PublishedIsPinned ==
  \A w \in WorkIds : pubs[w] # None => pin[w] = pubs[w].ver

-----------------------------------------------------------------------------
(* What Iceberg expiration must preserve.  The replay horizon only ever     *)
(* keeps more; it is taken to have elapsed.                                 *)

\* Oldest snapshot named by a closed gate or by any unfinished row, None if there is none.
select_retention_floor ==
  LET candidates == {s \in Seqs : \/ snap[s].state = "BLOCKED"
                                 \/ \E w \in WorkIds : work[w].state \notin {"ABSENT", "SUCCEEDED"}
                                                      /\ work[w].seq = s} IN
  IF candidates = {} THEN None ELSE CHOOSE s \in candidates : \A t \in candidates : s <= t

parent_snapshot(s) == IF s = 1 THEN None ELSE s - 1

\* Mutant: the floor itself is the oldest snapshot kept.
retain_without_parent(floor) == floor

\* retain_snapshot_id: the parent of the floor, or the floor if it has none.
retention_decision(floor) ==
  IF floor = None \/ parent_snapshot(floor) = None THEN floor ELSE parent_snapshot(floor)

Expirable(s) ==
  LET retained == retention_decision(select_retention_floor) IN retained = None \/ s < retained

\* What the scan of a window reads: a baseline its snapshot, an increment the range
\* that starts at its parent.
ScanRange(s) == {s, parent_snapshot(s)} \ {None}

\* A window one of whose snapshots the retention decision has ever let go, or whose
\* INGEST rows have all succeeded, is never ingested again: no repair, gate, rebuild
\* or late result asks for source data that may be gone.
ExpiredSourceIsNeverNeeded ==
  [][\A s \in Seqs :
       LET spent == IncompleteIngest(work, s) => \E t \in ScanRange(s) : Expirable(t) IN
       snap[s].state # "ABSENT" /\ spent => ~IncompleteIngest(work', s)]_vars

-----------------------------------------------------------------------------
(* The inductive invariant behind AtMostOneOwner and AppliedPrefix.        *)

\* Rows that exist name a URI; the active publication exists.
RowsWellFormed ==
  /\ \A w \in WorkIds : work[w].state # "ABSENT" => work[w].exp.uri \in Uris
  /\ \A d \in Datasets : ds[d].pub # None => pubs[ds[d].pub] \in PublicationRow

\* No claim is ahead of its dataset's fence, and no two share one.
Fenced ==
  /\ \A c \in claims : c.token <= ds[c.work.ds].fence
  /\ \A c, e \in claims : c.work.ds = e.work.ds /\ c.token = e.token => c = e

\* Snapshots are sealed in order, INGEST rows and applied snapshots belong to
\* sealed ones, and everything before a running INGEST has succeeded.
SourceOrder ==
  /\ \A s \in Seqs : snap[s].state # "ABSENT" => \A t \in 1..(s - 1) : snap[t].state # "ABSENT"
  /\ \A w \in WorkIds : w.kind = "INGEST" /\ work[w].state # "ABSENT" =>
       work[w].seq = w.key /\ snap[w.key].state # "ABSENT"
  /\ \A d \in Datasets : ds[d].applied # 0 => snap[ds[d].applied].state # "ABSENT"
  /\ \A v, w \in WorkIds :
       v.kind = "INGEST" /\ w.kind = "INGEST" /\ v.ds = w.ds /\ v.key < w.key
         /\ work[w].state = "RUNNING" => work[v].state \in {"ABSENT", "SUCCEEDED"}

\* The invariant the proofs carry: types, fences, source order and AppliedPrefix
\* are preserved together by every transaction.
LaneInvariant == TypeOK /\ RowsWellFormed /\ Fenced /\ SourceOrder /\ AppliedPrefix

-----------------------------------------------------------------------------
(* Liveness.                                                               *)

ServedSeq(d) == IF ds[d].pub = None THEN 0 ELSE pubs[ds[d].pub].seq

Drained(d) ==
  /\ \A w \in WorkIds : w.ds = d => work[w].state \notin Open
  /\ ServedSeq(d) = ds[d].applied

\* What an operator is expected to repair: a closed gate, or a blocked row that
\* still gates the lane.
NeedsRepair(d) ==
  \/ source_blocked
  \/ \E w \in WorkIds : /\ w.ds = d /\ work[w].state = "BLOCKED"
                         /\ expected_state_predicate(work, w)

\* No lane wedges: every dataset keeps coming back to a state where all its work
\* is done and the applied snapshot is served, or an operator can see why not.
LanesDrain == \A d \in Datasets : []<>(Drained(d) \/ NeedsRepair(d))

=============================================================================
