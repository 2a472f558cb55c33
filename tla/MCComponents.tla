---------------------------- MODULE MCComponents ----------------------------
(***************************************************************************)
(* The components that share no state, side by side.  A behaviour is one   *)
(* of one component: the first step chooses which, the others stay as they *)
(* were initially.                                                         *)
(***************************************************************************)
EXTENDS TableJobs, PublicationRetention, SpecLifecycle, SpecValidation, ReplayMerge, LineageWalk,
        WindowClassification, ClusterShuffle, SnapshotCommit

VARIABLE part    \* the component of this behaviour, "none" at first

-----------------------------------------------------------------------------
(* Values of the constants.                                                *)

MCRetainedCount == <<1, 2, 1>>
MCGrace         == <<2, 1, 1>>

MCSpecOf == <<1, 1, 1, 2>>

MCPartitionOf == [k \in Keys |-> k % 2]
MCRowBytes    == [k \in Keys |-> k]

Upserted(k) == [key |-> k, op |-> "upsert", ts |-> k, vector |-> Dimension]
Deleted(k)  == [key |-> k, op |-> "d", ts |-> k, vector |-> Unset]

MCSourceRows ==
  { {Upserted(1), Upserted(2)}, {Deleted(1), Upserted(3)}, {Deleted(1), Upserted(1)},
    {[Upserted(1) EXCEPT !.vector = Dimension - 1]} }

MCFieldEdits ==
  [ordinal : {-1, 4}] \union [name : {"record_id", "1st"}] \union [role : {"VECTOR", "LINEAGE"}]
    \union [kind : {"DIRECT", "DERIVED"}] \union [column : {"ts"}]
    \union [key : {Null, "text"}] \union [type : {VectorOf(64)}]
    \union [flags : {<<FALSE, TRUE>>, <<TRUE, FALSE>>}] \union [dim : {Null, 64}]

VectorEdits ==
  {[default_vector_options EXCEPT !.retrain_growth_factor = d] :
     d \in {[units |-> 400000, float |-> FALSE], FloatDecimal(100000), FloatDecimal(100001), FloatDecimal(100004),
            FloatDecimal(999999990), FloatDecimal(1000000000)}}
  \union {[default_vector_options EXCEPT !.num_partitions = n] : n \in {15, 32768, 32769}}
  \union {[default_vector_options EXCEPT !.maximum_partitions = n] : n \in {INTEGER_MAX, INTEGER_MAX + 1}}
  \union {[default_vector_options EXCEPT !.num_bits = n] : n \in {0, 9}}

MCIndexEdits ==
  [ordinal : {-1, 2}] \union [name : {"ts_idx", "1st"}] \union [field : {1, 42}]
    \union [type : {"IVF_RQ", "BTREE", "INVERTED"}] \union [vector : {Null} \union VectorEdits]
    \union [fts : {Null} \union {[base_tokenizer |-> t, max_unindexed_fragments |-> 0] : t \in {" ", "raw"}}]

MCRevisionEdits ==
  [threshold : {[units |-> n, float |-> b] : n \in {0, 7, 100000, 100001}, b \in BOOLEAN}]
    \union [cleanup_older_than : {Null, 21599, 21600}] \union [max_stale_replans : {-1, 0}]
    \union [required : {[fragments_per_index_task |-> n, artifact_retention |-> BIGINT_MAX] : n \in {0, 1}}]
    \union [optional : {[retain_versions |-> n, record_retention |-> INTEGER_MAX + 1] :
                          n \in {Null, 0, INTEGER_MAX, INTEGER_MAX + 1}}]

\* Snapshot 2 of specification 1, with at most two manifest facts, its parent's among
\* them, or with three facts of its own, one more than are collected.
MCEntries == {e \in ManifestEntry(SnapshotIds, SpecIds, Targets, {1}) : e.snapshot = 1 => e.spec = 1}
MCOwn     == {e \in ManifestEntry({2}, {1}, Targets, Hours) : e.target \in Targets}

MCInspected ==
  {i \in [id : {2}, spec : {1}, op : {"append", "replace", "delete", "other"}, declared : DeclaredData,
          entries : {{}} \union {{e, f} : e \in MCEntries, f \in MCEntries} \union kSubset(3, MCOwn),
          trust : {{}} \union {{t} : t \in MaintenanceTrust}] :
     (i.trust # {} => i.op = "replace") /\ (i.declared # "data" => i.op = "append")}

\* Two shards, the first of two full batches, the second of at most a row of the first
\* or of the null partition.  The rows of a
\* batch stand in the order of their partitions: those of different partitions do not
\* affect each other's turns.
SortedBatches == {x \in Pids \X Pids : x[1] <= x[2]}
LastShards    == {<<>>} \union {<<<<p>>>> : p \in {0, Partitions}}
\* The first shard holds fragments 0 and 2, the second fragment 1.
MCShardSignature == <<4, 1>>

MCTables      == {<<<<a, b>>, c>> : a \in SortedBatches, b \in SortedBatches, c \in LastShards}

-----------------------------------------------------------------------------

ComponentsInit ==
  /\ JobsInit /\ RetentionInit /\ LifecycleInit /\ DraftInit /\ ReplayInit /\ WalkInit /\ WindowInit /\ ShuffleInit
  /\ Init
  /\ part = "none"

\* The index kind matters to the table jobs only, an open publication to the assignments.
Chosen(p) ==
  /\ part \in {"none", p} /\ part' = p
  /\ p # "jobs" => kind = "fts"
  /\ p # "lifecycle" => lane.open = NoRow
  /\ IF p = "jobs"      THEN TRUE ELSE UNCHANGED jobVars
  /\ IF p = "retention" THEN TRUE ELSE UNCHANGED retentionVars
  /\ IF p = "lifecycle" THEN TRUE ELSE UNCHANGED lifecycleVars
  /\ IF p = "drafts"    THEN TRUE ELSE UNCHANGED drafting
  /\ IF p = "replay"    THEN TRUE ELSE UNCHANGED replayVars
  /\ IF p = "walk"      THEN TRUE ELSE UNCHANGED walkVars
  /\ IF p = "manifests" THEN TRUE ELSE UNCHANGED classified
  /\ IF p = "shuffle"   THEN TRUE ELSE UNCHANGED shuffleVars
  /\ IF p = "completion" THEN TRUE ELSE UNCHANGED vars

ComponentsNext ==
  \/ Chosen("jobs")      /\ JobsNext
  \/ Chosen("retention") /\ RetentionNext
  \/ Chosen("lifecycle") /\ LifecycleNext
  \/ Chosen("drafts")    /\ DraftNext
  \/ Chosen("replay")    /\ ReplayNext
  \/ Chosen("walk")      /\ WalkNext
  \/ Chosen("manifests") /\ WindowNext
  \/ Chosen("shuffle")   /\ ShuffleNext
  \/ Chosen("completion") /\ Next

ComponentsSpec ==
  ComponentsInit
    /\ [][ComponentsNext]_<<jobVars, retentionVars, lifecycleVars, drafting, replayVars, walkVars, classified,
                          shuffleVars, vars, part>>

=============================================================================
