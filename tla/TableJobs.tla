------------------------------ MODULE TableJobs ------------------------------
(***************************************************************************)
(* Maintenance and indexing runs one after another over one dataset, as    *)
(* the publication worker calls them, with writers committing between any  *)
(* two of their phases.                                                    *)
(***************************************************************************)
EXTENDS MaintenanceJob, IndexJob

CONSTANT MaxRuns        \* bound: job runs in one behaviour

VARIABLE runs

jobVars == <<tableVars, maintVars, indexVars, runs>>

JobsInit == TableInit /\ MaintInit /\ IndexInit /\ runs = 0

JobsIdle == maint.pc \in {"idle", "done"} /\ indexer.pc \in {"idle", "done"}

(* A run is a process of its own: what the last one reported is gone.      *)
StartRun ==
    /\ JobsIdle
    /\ runs < MaxRuns
    /\ runs' = runs + 1
    /\ \/ /\ \E cluster \in BOOLEAN, retention \in {"off", "on", "missing"} :
                StartMaintenance(cluster, retention)
          /\ indexer' = IndexIdle
          /\ UNCHANGED <<kind, trained, torn>>
       \/ /\ \E rebuild, reusable \in BOOLEAN : StartIndexing(rebuild, reusable)
          /\ maint' = MaintIdle /\ expired' = 0 /\ UNCHANGED dropped

JobsNext ==
    \/ StartRun
    \/ MaintStep /\ UNCHANGED <<indexVars, runs>>
    \/ IndexStep /\ UNCHANGED <<maintVars, runs>>
    \/ TableWriters /\ UNCHANGED <<maintVars, indexVars, runs>>

-------------------------------------------------------------------------------

(* Rewrites, overwrites and compactions neither lose a row that a writer   *)
(* committed meanwhile nor bring back one that was deleted: the table      *)
(* holds exactly the rows written and not deleted since                    *)
(* (commit_cluster_data refuses to overwrite concurrent writes).           *)
JobsKeepRows == LiveRows(table) = kept

(* A dataset whose stored fingerprint matches, which is all a later run    *)
(* looks at before it skips the rewrite, holds only clustered fragments,   *)
(* whatever was committed, failed or tried again since the overwrite; and  *)
(* its index covers each of them but those whose segment the rebuild       *)
(* dropped as stale (StampMeansIndexed is the claim without them).         *)
StampIsTruthful ==
    table.stamp = Fingerprint(table) =>
        /\ \A f \in DOMAIN table.frags : table.frags[f].clustered
        /\ DOMAIN table.frags \subseteq Covered(table) \cup dropped

(* A run that ends without an error reports exactly the rows its retention *)
(* deleted, through the hand-over from the clustered rewrite and through   *)
(* the re-plan rounds; an error may under-report, never over-report.       *)
ReportedDeletes ==
    maint.pc = "done" =>
        IF maint.result = "error" THEN maint.deleted <= expired
        ELSE maint.deleted = expired

(* Every segment of a vector index has the same centroids and quantizer,   *)
(* through retraining, incremental builds and clustered rebuilds, unless   *)
(* the last training committed its index and then failed to replace an     *)
(* older configuration or an older sidecar of the same row count; the next *)
(* training that stores both repairs it (SidecarIsCurrent is the claim     *)
(* that the second cannot happen).                                         *)
OneModel ==
    ~ torn => \A a, b \in table.index : a.c = b.c /\ a.q = b.q

(* An indexing run that reports success covered every fragment of the      *)
(* version it planned that is still live.                                  *)
BuiltMeansCovered ==
    (indexer.pc = "done" /\ indexer.result = "built") =>
        (indexer.pin.frags \cap DOMAIN table.frags) \subseteq Covered(table)

(* maintenance/README.md: "A rebuild failure therefore cannot leave an     *)
(* unindexed generation marked current."                                   *)
StampMeansIndexed ==
    table.stamp = Fingerprint(table) => DOMAIN table.frags \subseteq Covered(table)

(* centroid_sidecar_uri: "a stale sidecar can never be mistaken for a      *)
(* current one".  Between two runs the sidecar found for the stored        *)
(* configuration, if any, is that of its training.                         *)
SidecarIsCurrent ==
    JobsIdle /\ table.cfg # NoConfig => sidecar[table.cfg.rows_at_train] \in {0, table.cfg.model}

JobsSpec == JobsInit /\ [][JobsNext]_jobVars
===============================================================================
