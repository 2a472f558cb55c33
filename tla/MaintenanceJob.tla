---------------------------- MODULE MaintenanceJob ----------------------------
(***************************************************************************)
(* One dataset's part of a maintenance run (maintenance/job.py and         *)
(* maintenance/cluster.py): the optional clustered rewrite, then the       *)
(* plan-execute-commit rounds of normal compaction for a dataset the       *)
(* rewrite passed over.  Each action is one Spark phase; the writers of    *)
(* LanceTable commit between phases.  An exception in a phase is isolated  *)
(* to the dataset and ends its run with an error result.                   *)
(***************************************************************************)
EXTENDS IndexSegments

CONSTANTS
    ReplanBudget,           \* REPLAN_BUDGET, 3 in the code
    CLUSTER_READ_SHARDS     \* 64 in the code

ASSUME ReplanAssumption == ReplanBudget \in Nat \ {0} /\ CLUSTER_READ_SHARDS \in Nat \ {0}

VARIABLES
    maint,      \* the phase this run is in and what it carries
    expired,    \* ghost: number of rows this run's retention deleted
    dropped     \* ghost: the fragments of the segments the last rebuild dropped

maintGhosts == <<expired, dropped>>
maintVars == <<maint, maintGhosts>>

NoPlan == [version |-> 0, frags |-> <<>>, groups |-> {}, c |-> 0, q |-> 0]

MaintIdle ==
    [pc |-> "idle", cluster |-> FALSE, retention |-> "off", round |-> 0, plan |-> NoPlan,
     deleted |-> 0, misconfigured |-> FALSE, segments |-> {}, stamp |-> NoStamp,
     result |-> "none"]

MaintInit == maint = MaintIdle /\ expired = 0 /\ dropped = {}

MaintTurn(pc) == maint.pc = pc

(* MaintenanceJob.run: retention is off, on, or names a column the dataset *)
(* does not have.                                                          *)
StartMaintenance(cluster, retention) ==
    /\ maint.pc \in {"idle", "done"}
    /\ maint' = [MaintIdle EXCEPT !.pc = IF cluster THEN "cluster_plan" ELSE "plan",
                                  !.cluster = cluster, !.retention = retention]
    /\ expired' = 0
    /\ UNCHANGED <<tableVars, dropped>>

Finish(result, deleted) ==
    maint' = [MaintIdle EXCEPT !.pc = "done", !.deleted = deleted, !.result = result]

(* run_retention_on_open_dataset deletes from the latest version.          *)
RetentionRows(t) == IF maint.retention = "on" THEN LiveRows(t) \cap ExpiredRows ELSE {}

AfterRetention(t) == IF RetentionRows(t) = {} THEN t ELSE WithoutRows(t, RetentionRows(t))

DeletedBy(t) == Cardinality(LiveRows(table) \ LiveRows(t))

Retained(t) ==
    /\ table' = t
    /\ kept' = kept \ (LiveRows(table) \ LiveRows(t))
    /\ expired' = expired + DeletedBy(t)
    /\ UNCHANGED <<writes, dropped>>

(***************************************************************************)
(* The clustered rewrite.                                                  *)
(***************************************************************************)
cluster_generation_skip(t) == t.stamp = Fingerprint(t)

cluster_guard(t) == t.index # {} /\ t.cfg # NoConfig /\ count_rows(t) > 0

(* How the shuffle cuts a dataset into fragments is ClusterShuffle's       *)
(* subject; here it is any partition of the rows into at most two.         *)
Rewrites(rows) == {{a, rows \ a} \ {{}} : a \in SUBSET rows}

(* plan_cluster_rewrite: a dataset that is clustered already only gets its *)
(* retention, and is planned again when that deleted something; the others *)
(* pass the guards first and get their retention after.  An error result   *)
(* of this phase carries no count of the rows retention deleted.           *)
ClusterPlan ==
    /\ MaintTurn("cluster_plan")
    /\ LET current == cluster_generation_skip(table)
           first == IF current THEN AfterRetention(table) ELSE table
           second == AfterRetention(first)
           missing == maint.retention = "missing"
       IN  \/ /\ Finish("error", 0)
              /\ UNCHANGED <<tableVars, maintGhosts>>
           \/ /\ ~ missing
              /\ cluster_generation_skip(first)
              /\ Retained(first)
              /\ Finish("skipped", DeletedBy(first)) \/ Finish("error", 0)
              /\ UNCHANGED sidecar
           \/ /\ ~ (missing /\ current)
              /\ ~ cluster_generation_skip(first) /\ ~ cluster_guard(first)
              /\ Retained(first)
              /\ maint' = [maint EXCEPT !.pc = "plan", !.deleted = DeletedBy(first)]
              /\ UNCHANGED sidecar
           \/ /\ ~ missing
              /\ ~ cluster_generation_skip(first) /\ cluster_guard(first)
              /\ Retained(second)
              /\ IF count_rows(second) = 0
                 THEN /\ maint' = [maint EXCEPT !.pc = "plan", !.deleted = DeletedBy(second)]
                      /\ UNCHANGED sidecar
                 ELSE \/ /\ BackfillSidecar(second)
                         /\ \E groups \in Rewrites(LiveRows(second)) :
                              maint' = [maint EXCEPT
                                !.pc = "cluster_rewrite", !.deleted = DeletedBy(second),
                                !.plan = [version |-> second.version, frags |-> second.frags,
                                          groups |-> groups, c |-> resolve_centroids(second),
                                          q |-> second.cfg.model]]
                      \/ Finish("error", 0) /\ UNCHANGED sidecar

(* histogram and rewrite read the planned version; validate_rewrite        *)
(* refuses a row total other than the plan's.                              *)
ClusterRewrite ==
    /\ MaintTurn("cluster_rewrite")
    /\ \/ maint' = [maint EXCEPT !.pc = "cluster_commit"]
       \/ Finish("error", 0)
    /\ UNCHANGED <<tableVars, maintGhosts>>

(* Mutant: the overwrite commits on whatever version is latest.            *)
planned_version_ignored == TRUE

planned_version_current == table.version = maint.plan.version

(* commit_cluster_data: the overwrite commits only on the planned version  *)
(* and is never rebased.  Its fingerprint may be unreadable afterwards.    *)
ClusterCommit ==
    /\ MaintTurn("cluster_commit")
    /\ \/ /\ planned_version_current
          /\ table' = Overwritten(table, maint.plan.groups)
          /\ \E stamp \in {NoStamp, Fingerprint(table')} :
                maint' = [maint EXCEPT !.pc = "cluster_build", !.stamp = stamp]
          /\ UNCHANGED <<kept, sidecar, writes>>
       \/ /\ Finish("error", 0)
          /\ UNCHANGED tableVars
    /\ UNCHANGED maintGhosts

(* plan_rebuild_inventory pins the latest version and one segment is built *)
(* over each of its shards with the planned centroids and quantizer.       *)
ClusterBuild ==
    /\ MaintTurn("cluster_build")
    /\ \/ maint' = [maint EXCEPT !.pc = "cluster_prepare",
                      !.segments = {Segment(shard, maint.plan.c, maint.plan.q) :
                                      shard \in split_evenly(DOMAIN table.frags, CLUSTER_READ_SHARDS)}]
       \/ Finish("error", maint.deleted)
    /\ UNCHANGED <<tableVars, maintGhosts>>

(* finalise_cluster_dataset: commit_segments drops the segments whose      *)
(* fragments changed, commits nothing when all did, and reports no error;  *)
(* its count is not compared with the number of segments built.            *)
ClusterPrepare ==
    /\ MaintTurn("cluster_prepare")
    /\ \/ LET fresh == fresh_segments(table, maint.segments)
          IN  /\ maint' = [maint EXCEPT !.pc = IF fresh = {} THEN "cluster_verify" ELSE "cluster_index",
                                     !.segments = merge_segments(fresh)]
              /\ dropped' = UNION {s.over : s \in maint.segments \ fresh}
       \/ Finish("error", maint.deleted) /\ UNCHANGED dropped
    /\ UNCHANGED <<tableVars, expired>>

ClusterIndex ==
    /\ MaintTurn("cluster_index")
    /\ \/ /\ segments_live(table, maint.segments) /\ ~ would_orphan(table, maint.segments)
          /\ table' = WithSegments(table, maint.segments)
          /\ maint' = [maint EXCEPT !.pc = "cluster_verify", !.segments = {}]
       \/ Finish("error", maint.deleted) /\ UNCHANGED table
    /\ UNCHANGED <<kept, sidecar, writes, maintGhosts>>

(* Mutant: the stamp takes the generation it finds.                        *)
stamp_unverified == TRUE

stamp_expected == Fingerprint(table) = maint.stamp

(* stamp_cluster_generation verifies the fingerprint, then commits it; a   *)
(* commit in between does not conflict with the configuration update.      *)
ClusterVerify ==
    /\ MaintTurn("cluster_verify")
    /\ \/ /\ maint.stamp # NoStamp /\ stamp_expected
          /\ maint' = [maint EXCEPT !.pc = "cluster_stamp", !.stamp = Fingerprint(table)]
       \/ Finish("error", maint.deleted)
    /\ UNCHANGED <<tableVars, maintGhosts>>

(* The commit is tried again from the verification on, and its retries may *)
(* run out; once it is in, cleanup_dataset may still fail, and an error    *)
(* from there carries no count.                                            *)
ClusterStamp ==
    /\ MaintTurn("cluster_stamp")
    /\ \/ /\ table' = [table EXCEPT !.version = @ + 1, !.stamp = maint.stamp]
          /\ Finish("clustered", maint.deleted) \/ Finish("error", 0)
       \/ /\ maint' = [maint EXCEPT !.pc = "cluster_verify"] \/ Finish("error", maint.deleted)
          /\ UNCHANGED table
    /\ UNCHANGED <<kept, sidecar, writes, maintGhosts>>

(***************************************************************************)
(* The compaction rounds.                                                  *)
(***************************************************************************)
compaction_skip(t) ==
    Cardinality(DOMAIN t.frags) <= 1 /\ \A f \in DOMAIN t.frags : ~ t.frags[f].holes

(* The status of a result that carries the round's base: a column missing  *)
(* for retention stays in it as an error.                                  *)
WithBase(status, misconfigured) == IF misconfigured THEN "error" ELSE status

(* Mutant: the rows the clustered rewrite's retention deleted are lost.    *)
last_deleted(t) == DeletedBy(t)

combined_deleted(t) == maint.deleted + DeletedBy(t)

(* plan_one_dataset: retention in the first round only, the skip check,    *)
(* then Lance's plan, which may have nothing to rewrite.  The dataset may  *)
(* not open, and the plan or the cleanup may fail after the retention.     *)
RoundPlan ==
    /\ MaintTurn("plan")
    /\ LET first == maint.round = 0
           t == IF first THEN AfterRetention(table) ELSE table
           bad == maint.misconfigured \/ (first /\ maint.retention = "missing")
           total == combined_deleted(t)
       IN  \/ /\ Retained(t)
              /\ \/ /\ compaction_skip(t)
                    /\ Finish(WithBase("skipped", bad), total)
                 \/ /\ ~ compaction_skip(t)
                    /\ Finish(WithBase("idle", bad), total)
                 \/ /\ ~ compaction_skip(t)
                    /\ maint' = [maint EXCEPT !.pc = "execute", !.misconfigured = bad,
                                              !.deleted = total,
                                              !.plan = [NoPlan EXCEPT !.version = t.version,
                                                                      !.frags = t.frags]]
                 \/ Finish("error", maint.deleted)
           \/ /\ Finish("error", maint.deleted)
              /\ UNCHANGED <<table, kept, writes, maintGhosts>>
    /\ UNCHANGED sidecar

RoundExecute ==
    /\ MaintTurn("execute")
    /\ \/ maint' = [maint EXCEPT !.pc = "commit"]
       \/ Finish("error", maint.deleted)
    /\ UNCHANGED <<tableVars, maintGhosts>>

(* Lance's conflict check for Rewrite: a rewritten fragment has changed.   *)
rewrite_conflicts ==
    ~ \A f \in DOMAIN maint.plan.frags :
        f \in DOMAIN table.frags /\ table.frags[f] = maint.plan.frags[f]

(* commit_one_dataset: a conflict sends the dataset into the next round,   *)
(* and past the last one it is skipped as hot; the cleanup at the end may  *)
(* fail.                                                                   *)
RoundCommit ==
    /\ MaintTurn("commit")
    /\ \/ /\ ~ rewrite_conflicts
          /\ table' = Compacted(table, DOMAIN maint.plan.frags)
          /\ \/ Finish(WithBase("compacted", maint.misconfigured), maint.deleted)
             \/ Finish("error", maint.deleted)
       \/ /\ rewrite_conflicts
          /\ IF maint.round + 1 < ReplanBudget
             THEN maint' = [maint EXCEPT !.pc = "plan", !.round = @ + 1, !.plan = NoPlan]
             ELSE \/ Finish(WithBase("hot", maint.misconfigured), maint.deleted)
                  \/ Finish("error", maint.deleted)
          /\ UNCHANGED table
       \/ /\ Finish("error", maint.deleted)
          /\ UNCHANGED table
    /\ UNCHANGED <<kept, sidecar, writes, maintGhosts>>

(* ClusterRunState.rebuild_indexes over the datasets that committed.       *)
ClusterRebuild == ClusterBuild \/ ClusterPrepare \/ ClusterIndex \/ ClusterVerify \/ ClusterStamp

(* run_cluster_rewrites: plan, shuffle and overwrite, then the rebuild.    *)
ClusterStep == ClusterPlan \/ ClusterRewrite \/ ClusterCommit \/ ClusterRebuild

(* run_round.                                                              *)
RoundStep == RoundPlan \/ RoundExecute \/ RoundCommit

MaintStep == ClusterStep \/ RoundStep

===============================================================================
