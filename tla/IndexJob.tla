------------------------------- MODULE IndexJob -------------------------------
(***************************************************************************)
(* One index of one dataset through an indexing run (indexing/runner.py,   *)
(* indexing/handlers.py): plan at a pinned version, build one segment per  *)
(* shard, reduce, commit, and plan again when a concurrent rewrite made    *)
(* the build stale.  A vector index without reusable artifacts is trained  *)
(* from scratch, a full-text index is maintained in place or rebuilt.      *)
(***************************************************************************)
EXTENDS IndexSegments

CONSTANTS
    MaxStaleReplans,        \* max_stale_replans, 3 in the code
    MaxIndexDeltas,         \* max_index_deltas
    FragmentsPerTask,       \* fragments_per_index_task
    FtsMaxUnindexed,        \* fts_max_unindexed_fragments
    VectorMinRows,          \* vector_min_rows
    RetrainGrowthFactor,    \* retrain_growth_factor
    IndexKinds

ASSUME IndexAssumption ==
    /\ MaxStaleReplans \in Nat \ {0}
    /\ MaxIndexDeltas \in Nat \ {0}
    /\ FragmentsPerTask \in Nat \ {0}
    /\ IndexKinds \subseteq {"vector", "btree", "fts"}

VARIABLES
    kind,       \* what the index is
    indexer,    \* the phase this run is in and what it carries
    trained,    \* models trained so far
    torn        \* ghost: the last training left an older configuration or sidecar

indexVars == <<kind, indexer, trained, torn>>

NoPin == [version |-> 0, frags |-> {}, index |-> {}, cfg |-> NoConfig]

IndexIdle ==
    [pc |-> "idle", rebuild |-> FALSE, reusable |-> TRUE, round |-> 0, pin |-> NoPin, targets |-> {}, mode |-> "none",
     segments |-> {}, built |-> 0, stale |-> FALSE, rows |-> 0, result |-> "none"]

IndexInit ==
    /\ kind \in IndexKinds
    /\ indexer = IndexIdle
    /\ trained = 0
    /\ torn = FALSE

IndexTurn(pc) == indexer.pc = pc

(* config_reusable says whether this run's dimension, metric and num_bits  *)
(* are those the stored configuration was trained with.                    *)
StartIndexing(rebuild, config_reusable) ==
    /\ indexer.pc \in {"idle", "done"}
    /\ config_reusable \/ (kind = "vector" /\ ~ rebuild)
    /\ indexer' = [IndexIdle EXCEPT !.pc = "plan", !.rebuild = rebuild, !.reusable = config_reusable]
    /\ UNCHANGED <<tableVars, kind, trained, torn>>

EndRun(result) ==
    indexer' = [IndexIdle EXCEPT !.pc = "done", !.result = result,
                                 !.pin = [NoPin EXCEPT !.frags = indexer.pin.frags]]

(***************************************************************************)
(* The plan.                                                               *)
(***************************************************************************)
growth_exceeds_retrain_factor(t) ==
    count_rows(t) > RetrainGrowthFactor * t.cfg.rows_at_train

vector_index_needs_retrain(t) == t.cfg = NoConfig \/ growth_exceeds_retrain_factor(t)

needs_bootstrap(t) == vector_index_needs_retrain(t) \/ ~ indexer.reusable

below_row_floor(t) == kind = "vector" /\ count_rows(t) < VectorMinRows

Unindexed(t) == DOMAIN t.frags \ Covered(t)

index_needs_work(t) ==
    IF t.index = {} THEN ~ below_row_floor(t)
    ELSE \/ Unindexed(t) # {}
         \/ Cardinality(t.index) > MaxIndexDeltas
         \/ kind = "vector" /\ vector_index_needs_retrain(t)

target_fragments(t) == IF indexer.rebuild THEN DOMAIN t.frags ELSE Unindexed(t)

maintainable(t) ==
    /\ ~ indexer.rebuild
    /\ Covered(t) # {}
    /\ Cardinality(Unindexed(t)) <= FtsMaxUnindexed

(* How plan_dataset_indexes will bring the index up to date.               *)
PlanMode(t) ==
    CASE kind = "fts" /\ maintainable(t) -> "maintain"
      [] kind = "fts" /\ ~ maintainable(t) -> "rebuild"
      [] kind = "vector" /\ (indexer.rebuild \/ t.index = {} \/ needs_bootstrap(t)) -> "bootstrap"
      [] OTHER -> "segments"

PlannedFragments(t) ==
    IF PlanMode(t) = "rebuild" THEN DOMAIN t.frags ELSE target_fragments(t)

(* A dataset is skipped when none of its indexes needs work, and below the *)
(* row floor; this one is planned as well when another one needs work.     *)
IndexPlan ==
    /\ IndexTurn("plan")
    /\ \/ /\ ~ indexer.rebuild /\ ~ index_needs_work(table)
          /\ EndRun("skipped")
       \/ /\ below_row_floor(table)
          /\ EndRun("skipped")
       \/ /\ ~ below_row_floor(table)
          /\ LET mode == PlanMode(table)
                 targets == PlannedFragments(table)
             IN  indexer' = [indexer EXCEPT
                    !.pc = CASE mode = "maintain" -> "maintain"
                             [] mode = "bootstrap" -> "create_index"
                             [] mode \in {"segments", "rebuild"} /\ targets = {} -> "bound_deltas"
                             [] OTHER -> "build",
                    !.mode = mode, !.targets = targets,
                    !.result = IF targets = {} /\ mode \in {"segments", "rebuild"} THEN "built" ELSE @,
                    !.pin = [version |-> table.version, frags |-> DOMAIN table.frags,
                             index |-> table.index, cfg |-> table.cfg]]
       \/ EndRun("error")
    /\ UNCHANGED <<tableVars, kind, trained, torn>>

(***************************************************************************)
(* Build and reduce.                                                       *)
(***************************************************************************)
shard_count(n) == Max({1, (n + FragmentsPerTask - 1) \div FragmentsPerTask})

(* prepare: the artifacts come from the pinned version and the sidecar.    *)
PinnedModel ==
    IF kind = "vector"
    THEN [c |-> resolve_centroids(indexer.pin), q |-> indexer.pin.cfg.model]
    ELSE [c |-> 0, q |-> 0]

(* One failed shard makes the aggregate an error whatever the others       *)
(* built; a full-text shard counts its fragments instead of a segment.     *)
BuildShards ==
    /\ IndexTurn("build")
    /\ \/ /\ indexer.mode = "segments"
          /\ indexer' = [indexer EXCEPT !.pc = "prepare",
                !.segments = {Segment(shard, PinnedModel.c, PinnedModel.q) : shard \in
                                split_evenly(indexer.targets, shard_count(Cardinality(indexer.targets)))}]
          /\ IF kind = "vector" THEN BackfillSidecar(indexer.pin) ELSE UNCHANGED sidecar
       \/ /\ indexer.mode = "rebuild"
          /\ indexer' = [indexer EXCEPT !.pc = "publish", !.built = Cardinality(indexer.targets)]
          /\ UNCHANGED sidecar
       \/ /\ EndRun("error")
          /\ UNCHANGED sidecar
    /\ UNCHANGED <<table, kept, writes, kind, trained, torn>>

(***************************************************************************)
(* Commit.  A stale build ends the round and the dataset is planned again. *)
(***************************************************************************)
StaleRound ==
    IF indexer.round + 1 < MaxStaleReplans
    THEN indexer' = [indexer EXCEPT !.pc = "plan", !.round = @ + 1, !.segments = {}, !.built = 0,
                                    !.stale = FALSE]
    ELSE EndRun("error")

(* Mutant: a commit that dropped stale segments counts as complete.        *)
dropped_unnoticed(fresh) == FALSE

(* commit_one_index: fewer segments were committed than built.             *)
dropped_stale(fresh) == fresh # indexer.segments

(* commit_segments drops the stale segments and merges what is left, once. *)
PrepareSegments ==
    /\ IndexTurn("prepare")
    /\ \/ LET fresh == fresh_segments(table, indexer.segments)
          IN  IF fresh = {} THEN StaleRound
              ELSE indexer' = [indexer EXCEPT !.pc = "commit",
                       !.stale = dropped_stale(fresh),
                       !.segments = IF kind = "vector" THEN merge_segments(fresh) ELSE fresh]
       \/ EndRun("error")
    /\ UNCHANGED <<tableVars, kind, trained, torn>>

(* A failure that no rewrite caused ends the index's run in an error.      *)
CommitSegments ==
    /\ IndexTurn("commit")
    /\ \/ IF segments_live(table, indexer.segments) /\ ~ would_orphan(table, indexer.segments)
          THEN /\ table' = WithSegments(table, indexer.segments)
               /\ IF indexer.stale THEN StaleRound
                  ELSE indexer' = [indexer EXCEPT !.pc = "bound_deltas", !.segments = {}, !.result = "built"]
          ELSE StaleRound /\ UNCHANGED table
       \/ EndRun("error") /\ UNCHANGED table
    /\ UNCHANGED <<kept, sidecar, writes, kind, trained, torn>>

(* commit_fts_index: the rebuilt index replaces every segment of its name, *)
(* and is refused when a fragment it covers is gone.                       *)
PublishFts ==
    /\ IndexTurn("publish")
    /\ \/ IF indexer.pin.frags \subseteq DOMAIN table.frags
          THEN /\ table' = [table EXCEPT !.version = @ + 1,
                                         !.index = {Segment(indexer.pin.frags, 0, 0)}]
               /\ EndRun("built")
          ELSE StaleRound /\ UNCHANGED table
       \/ EndRun("error") /\ UNCHANGED table
    /\ UNCHANGED <<kept, sidecar, writes, kind, trained, torn>>

(* maintain_index_locally: Lance's optimize extends the index over the     *)
(* latest fragments, then the deltas are bounded.                          *)
MaintainFts ==
    /\ IndexTurn("maintain")
    /\ \/ /\ table' = IF Unindexed(table) = {} THEN table
                      ELSE WithSegments(table, {Segment(Unindexed(table), 0, 0)})
          /\ indexer' = [indexer EXCEPT !.pc = "bound_deltas", !.result = "built"]
       \/ EndRun("error") /\ UNCHANGED table
    /\ UNCHANGED <<kept, sidecar, writes, kind, trained, torn>>

(***************************************************************************)
(* bootstrap_vector_index: train and commit on the latest version, store   *)
(* the configuration, then the sidecar, best effort.                       *)
(***************************************************************************)
CreateIndex ==
    /\ IndexTurn("create_index")
    /\ \/ /\ count_rows(table) > 0
          /\ trained' = trained + 1
          /\ table' = [table EXCEPT !.version = @ + 1,
                                    !.index = {Segment(DOMAIN table.frags, trained', trained')}]
          /\ indexer' = [indexer EXCEPT !.pc = "write_config", !.rows = count_rows(table)]
          /\ torn' = FALSE
       \/ EndRun("error") /\ UNCHANGED <<table, trained, torn>>
    /\ UNCHANGED <<kept, sidecar, writes, kind>>

WriteVectorConfig ==
    /\ IndexTurn("write_config")
    /\ \/ /\ table' = [table EXCEPT !.version = @ + 1,
                                    !.cfg = [rows_at_train |-> indexer.rows, model |-> trained]]
          /\ indexer' = [indexer EXCEPT !.pc = "persist_centroids"]
          /\ UNCHANGED torn
       \/ /\ EndRun("error")
          /\ torn' = (table.cfg # NoConfig)
          /\ UNCHANGED table
    /\ UNCHANGED <<kept, sidecar, writes, kind, trained>>

(* persist_bootstrap_centroids swallows a failed write, which leaves the   *)
(* sidecar of an earlier training at the same row count in place.          *)
PersistCentroids ==
    /\ IndexTurn("persist_centroids")
    /\ \/ sidecar' = [sidecar EXCEPT ![indexer.rows] = trained] /\ UNCHANGED torn
       \/ UNCHANGED sidecar /\ torn' = (sidecar[indexer.rows] # 0)
    /\ indexer' = [indexer EXCEPT !.pc = "bound_deltas", !.result = "built"]
    /\ UNCHANGED <<table, kept, writes, kind, trained>>

(* merge_index_deltas, whose failure is left to the next run.              *)
BoundDeltas ==
    /\ IndexTurn("bound_deltas")
    /\ \/ /\ Cardinality(table.index) > MaxIndexDeltas
          /\ LET one == CHOOSE s \in table.index : TRUE
             IN  table' = [table EXCEPT !.version = @ + 1, !.index = {Segment(Covered(table), one.c, one.q)}]
       \/ UNCHANGED table
    /\ EndRun(indexer.result)
    /\ UNCHANGED <<kept, sidecar, writes, kind, trained, torn>>

(* build_and_commit_fleet.                                                 *)
BuildAndCommit == BuildShards \/ PrepareSegments \/ CommitSegments \/ PublishFts

(* bootstrap_vector_index.                                                 *)
Bootstrap == CreateIndex \/ WriteVectorConfig \/ PersistCentroids

(* run_round.                                                              *)
IndexStep == IndexPlan \/ MaintainFts \/ Bootstrap \/ BuildAndCommit \/ BoundDeltas

================================================================================
