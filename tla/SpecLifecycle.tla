---------------------------- MODULE SpecLifecycle ----------------------------
(***************************************************************************)
(* Revisions of dataset specifications (state/repository.py): operators'   *)
(* transactions that draft, activate and assign revisions, statement by    *)
(* statement with the row locks PostgreSQL grants under READ COMMITTED.    *)
(* A transaction's writes are made at its commit, its locks end with it.   *)
(***************************************************************************)
EXTENDS Integers, FiniteSets, Sequences

CONSTANTS
  Sessions,       \* operator connections
  SpecOf,         \* the specification of each revision; revisions are 1..n, numbered by revision_number
  SeedRevision,   \* the ACTIVE revision migration 0001 inserts
  Free,           \* no session
  MaxPointer      \* bound on the versions the lane of the dataset writes

SpecRevisions == DOMAIN SpecOf

ASSUME LifecycleAssumption ==
  /\ SpecRevisions = 1..Len(SpecOf) /\ SeedRevision \in SpecRevisions
  /\ Free \notin Sessions /\ MaxPointer \in Nat

VARIABLES
  revision,   \* dataset_spec_revisions.state
  exclusive,  \* FOR UPDATE on a revision's row
  shared,     \* FOR SHARE on a revision's row
  lane,       \* the dataset's row (desired and materialized revision, version), its lock, and
              \* the revision of its open publication, or none
  rebuilds,    \* the REBUILD work of each revision: frozen version, or none
  source,     \* iceberg_sources: the default specification, or none
  session     \* where each transaction is

lifecycleVars == <<revision, exclusive, shared, lane, rebuilds, source, session>>

Idle == [pc |-> "idle", r |-> SeedRevision, todo |-> {}]
NoRow == 0

LifecycleInit ==
  /\ revision = [r \in SpecRevisions |-> IF r = SeedRevision THEN "ACTIVE" ELSE "ABSENT"]
  /\ exclusive = [r \in SpecRevisions |-> Free]
  /\ shared = [r \in SpecRevisions |-> {}]
  /\ \E open \in {NoRow, SeedRevision} :
       lane = [desired |-> SeedRevision, materialized |-> SeedRevision, version |-> 1, open |-> open,
               lock |-> Free]
  /\ rebuilds = [r \in SpecRevisions |-> [frozen |-> NoRow, done |-> FALSE]]
  /\ source = NoRow
  /\ session = [s \in Sessions |-> Idle]

At(s, pc) == session[s].pc = pc
Goto(s, pc) == session' = [session EXCEPT ![s].pc = pc]

Begin(s, r, pc) == session' = [session EXCEPT ![s] = [pc |-> pc, r |-> r, todo |-> {}]]

\* A transaction ends: its locks are released.
Release(s) ==
  /\ exclusive' = [r \in SpecRevisions |-> IF exclusive[r] = s THEN Free ELSE exclusive[r]]
  /\ shared' = [r \in SpecRevisions |-> shared[r] \ {s}]
  /\ session' = [session EXCEPT ![s] = Idle]

Rollback(s) ==
  /\ Release(s)
  /\ lane' = IF lane.lock = s THEN [lane EXCEPT !.lock = Free] ELSE lane
  /\ UNCHANGED <<revision, rebuilds, source>>

FreeForUpdate(s, r) == exclusive[r] \in {Free, s} /\ shared[r] \subseteq {s}

-----------------------------------------------------------------------------

\* One transaction; an identity that exists already must carry the same content.
create_draft_spec_revision(r) ==
  /\ revision[r] = "ABSENT"
  /\ revision' = [revision EXCEPT ![r] = "DRAFT"]
  /\ UNCHANGED <<exclusive, shared, lane, rebuilds, source, session>>

HasActive(spec) == \E r \in SpecRevisions : SpecOf[r] = spec /\ revision[r] = "ACTIVE"

\* Registration and the default of a source read the ACTIVE revision without locking it.
ensure_source_registration ==
  /\ source = NoRow /\ HasActive(SpecOf[SeedRevision])
  /\ source' = SpecOf[SeedRevision]
  /\ UNCHANGED <<revision, exclusive, shared, lane, rebuilds, session>>

set_source_default_spec(spec) ==
  /\ source # NoRow /\ HasActive(spec)
  /\ source' = spec
  /\ UNCHANGED <<revision, exclusive, shared, lane, rebuilds, session>>

\* activate_spec_revision: the candidate's row is locked and must be a draft.
LockCandidate(s, r) ==
  /\ At(s, "idle") /\ revision[r] # "ABSENT"
  /\ FreeForUpdate(s, r)
  /\ revision[r] = "DRAFT"
  /\ exclusive' = [exclusive EXCEPT ![r] = s]
  /\ Begin(s, r, "select")
  /\ UNCHANGED <<revision, shared, lane, rebuilds, source>>

\* Mutant: only the candidate's own row is locked.
only_candidate(r) == {}

\* The rows of the specification.
SpecRows(r) == {i \in SpecRevisions : SpecOf[i] = SpecOf[r] /\ revision[i] # "ABSENT"}

SelectSiblings(s) ==
  /\ At(s, "select")
  /\ session' = [session EXCEPT ![s].pc = "lock", ![s].todo = SpecRows(session[s].r)]
  /\ UNCHANGED <<revision, exclusive, shared, lane, rebuilds, source>>

\* They are locked in the order of revision_number.
LockSibling(s) ==
  /\ At(s, "lock")
  /\ \E next \in session[s].todo :
       /\ \A i \in session[s].todo : next <= i
       /\ FreeForUpdate(s, next)
       /\ exclusive' = [exclusive EXCEPT ![next] = s]
       /\ session' = [session EXCEPT ![s].todo = @ \ {next}]
  /\ UNCHANGED <<revision, shared, lane, rebuilds, source>>

\* The ACTIVE revisions the first UPDATE finds are retired, the draft is activated.
RetireActive(s) ==
  /\ At(s, "lock") /\ session[s].todo = {}
  /\ session' = [session EXCEPT ![s].pc = "swap",
                                ![s].todo = {i \in SpecRows(session[s].r) : revision[i] = "ACTIVE"}]
  /\ UNCHANGED <<revision, exclusive, shared, lane, rebuilds, source>>

activate_spec_revision(s) ==
  /\ At(s, "swap")
  /\ revision' = [r \in SpecRevisions |->
                    CASE r = session[s].r       -> "ACTIVE"
                      [] r \in session[s].todo -> "RETIRED"
                      [] OTHER                  -> revision[r]]
  /\ Release(s)
  /\ UNCHANGED <<lane, rebuilds, source>>

-----------------------------------------------------------------------------

\* assign_dataset_spec_revision: the dataset's row first, then the revision's.
LockDataset(s, r) ==
  /\ At(s, "idle") /\ lane.lock = Free /\ revision[r] # "ABSENT"
  /\ lane' = [lane EXCEPT !.lock = s]
  /\ Begin(s, r, "share")
  /\ UNCHANGED <<revision, exclusive, shared, rebuilds, source>>

\* Mutant: the revision is read without a lock.
read_revision(s, r) == exclusive[r] = exclusive[r] /\ UNCHANGED shared

LockShared(s, r) == exclusive[r] \in {Free, s} /\ shared' = [shared EXCEPT ![r] = @ \union {s}]

ShareRevision(s) ==
  /\ At(s, "share")
  /\ revision[session[s].r] = "ACTIVE"
  /\ LockShared(s, session[s].r)
  /\ Goto(s, "assign")
  /\ UNCHANGED <<revision, exclusive, lane, rebuilds, source>>

RefuseInactive(s) ==
  /\ At(s, "share") /\ exclusive[session[s].r] = Free
  /\ revision[session[s].r] # "ACTIVE"
  /\ Rollback(s)

\* The UPDATE of the dataset: its trigger locks and checks the revision once more.
UpdateDesired(s) ==
  /\ At(s, "assign")
  /\ IF revision[session[s].r] = "ACTIVE"
     THEN /\ LockShared(s, session[s].r) /\ Goto(s, "commit")
          /\ UNCHANGED <<revision, exclusive, lane, rebuilds, source>>
     ELSE Rollback(s)

\* The rebuild of a revision is one row for ever: assigned again, it must have been
\* frozen at the lane's present version, or the whole assignment is rolled back.  Behind
\* an open publication no rebuild is enqueued, since it could not match again.
assign_dataset_spec_revision(s) ==
  LET r == session[s].r
      converges == lane.materialized # r /\ lane.open = NoRow
      refused == converges /\ rebuilds[r].frozen \notin {NoRow, lane.version} IN
  /\ At(s, "commit")
  /\ IF refused THEN Rollback(s)
     ELSE /\ lane' = [lane EXCEPT !.desired = r, !.lock = Free]
          /\ rebuilds' = IF converges /\ rebuilds[r].frozen = NoRow
                        THEN [rebuilds EXCEPT ![r] = [frozen |-> lane.version, done |-> FALSE]] ELSE rebuilds
          /\ Release(s)
          /\ UNCHANGED <<revision, source>>

\* The lane goes on under its own lock: an ingest opens the publication of its revision,
\* which moves the pointer or is blocked, or a rebuild ends whose frozen version is still
\* the lane's.
LaneAdvances ==
  /\ lane.lock = Free
  /\ \/ /\ lane.open = NoRow /\ lane.version < MaxPointer
        /\ \E r \in {lane.desired, lane.materialized} :
             lane' = [lane EXCEPT !.version = @ + 1, !.open = r]
        /\ UNCHANGED rebuilds
     \/ /\ lane.open # NoRow /\ lane.version < MaxPointer
        /\ lane' = [lane EXCEPT !.version = @ + 1, !.materialized = lane.open, !.open = NoRow]
        /\ UNCHANGED rebuilds
     \/ /\ lane.open # NoRow
        /\ lane' = [lane EXCEPT !.open = NoRow]
        /\ UNCHANGED rebuilds
     \/ \E r \in SpecRevisions :
          /\ rebuilds[r].frozen = lane.version /\ ~rebuilds[r].done /\ lane.version < MaxPointer
          /\ lane' = [lane EXCEPT !.version = @ + 1, !.materialized = r]
          /\ rebuilds' = [rebuilds EXCEPT ![r].done = TRUE]
  /\ UNCHANGED <<revision, exclusive, shared, source, session>>

-----------------------------------------------------------------------------

\* A connection is lost, or PostgreSQL aborts one of two activations whose drafts wait
\* for each other's row.
TransactionAborts(s) == ~At(s, "idle") /\ Rollback(s)

SessionStep(s) ==
  \/ SelectSiblings(s) \/ LockSibling(s) \/ RetireActive(s) \/ activate_spec_revision(s)
  \/ ShareRevision(s) \/ RefuseInactive(s) \/ UpdateDesired(s) \/ assign_dataset_spec_revision(s) \/ TransactionAborts(s)
  \/ \E r \in SpecRevisions : LockCandidate(s, r) \/ LockDataset(s, r)

LifecycleNext ==
  \/ \E s \in Sessions : SessionStep(s)
  \/ \E r \in SpecRevisions : create_draft_spec_revision(r)
  \/ ensure_source_registration
  \/ \E r \in SpecRevisions : set_source_default_spec(SpecOf[r])
  \/ LaneAdvances

LifecycleSpec == LifecycleInit /\ [][LifecycleNext]_lifecycleVars

-----------------------------------------------------------------------------

\* The specification a source defaults to has exactly one ACTIVE revision whenever
\* planning resolves it (active_spec_revision_id), however activations of its drafts
\* overlap, and without the unique index on ACTIVE ever having to refuse one.
OneActiveRevision ==
  source # NoRow => Cardinality({r \in SpecRevisions : SpecOf[r] = source /\ revision[r] = "ACTIVE"}) = 1

\* A dataset is only ever pointed at a revision that is ACTIVE at that moment
\* (assign_dataset_spec_revision), although the check and the commit are apart and
\* activations of a successor run in between.
AssignedWhileActive ==
  [][lane'.desired # lane.desired => revision[lane'.desired] = "ACTIVE"]_lifecycleVars

=============================================================================
