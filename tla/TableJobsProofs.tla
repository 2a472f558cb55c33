--------------------------- MODULE TableJobsProofs ---------------------------
(***************************************************************************)
(* What maintenance and indexing runs promise about a dataset, for every   *)
(* number of rows, writers' commits, runs, shards and replans.             *)
(*                                                                         *)
(* Every property about fragments rests on three facts of a Lance commit   *)
(* (Follows): an id that is gone does not come back, a fragment keeps its  *)
(* content's order, and one that was covered stays covered while it lives. *)
(* A fact about the fragments of an older version, as a plan, a pin or a   *)
(* stamp records them, therefore holds of those still live.                *)
(*                                                                         *)
(* The second half is the routing of rows in a clustered rewrite, for      *)
(* every table, cap and number of failing tasks: each row that a task has  *)
(* read is in exactly one of its slices, buffers and chunks, and the turns *)
(* of an oversized partition's rows spread them evenly over its salts.     *)
(***************************************************************************)
EXTENDS TableJobs, ClusterShuffle, FiniteSetTheorems, SequenceTheorems, WellFoundedInduction, TLAPS

Fragments == [live : SUBSET Rows, holes : BOOLEAN, clustered : BOOLEAN]
Segments  == [over : SUBSET Nat, c : Nat, q : Nat]
Stamps    == [ids : SUBSET Nat, rows : Int]
Configs   == [rows_at_train : Nat, model : Nat]
FragmentMaps == UNION {[ids -> Fragments] : ids \in SUBSET Nat}

LanceTables ==
    [version : Nat, frags : FragmentMaps, nextId : Nat, index : SUBSET Segments,
     stamp : Stamps, cfg : Configs]

GoodTable(t) == t \in LanceTables /\ \A f \in DOMAIN t.frags : f < t.nextId

Follows(t, u) ==
    /\ t.nextId <= u.nextId
    /\ \A f \in DOMAIN u.frags : f < t.nextId =>
          /\ f \in DOMAIN t.frags
          /\ u.frags[f].clustered = t.frags[f].clustered
          /\ f \in Covered(t) => f \in Covered(u)

\* A commit that trains nothing: no model is in the index that was not.
SameModels(t, u) ==
    /\ u.cfg = t.cfg
    /\ \A s \in u.index : \E r \in t.index : s.c = r.c /\ s.q = r.q

Rewritten(t, u) ==
    /\ GoodTable(u) /\ Follows(t, u) /\ SameModels(t, u)
    /\ u.version > t.version
    /\ u.stamp = t.stamp

Over(segments) == UNION {s.over : s \in segments}
Uniform(segments, m) == \A s \in segments : s.c = m /\ s.q = m

\* The fragments of ids that are still live.
Old(t, ids) == \A f \in ids : f < t.nextId
AllClustered(t, ids) == \A f \in ids \cap DOMAIN t.frags : t.frags[f].clustered
CoveredBut(t, ids, more) == ids \cap DOMAIN t.frags \subseteq Covered(t) \cup more

-------------------------------------------------------------------------------
(* The invariant.                                                          *)

Plans ==
    [version : Nat, frags : FragmentMaps \cup {<<>>}, groups : SUBSET SUBSET Rows, c : Nat, q : Nat]

MaintPhases ==
    {"idle", "done", "cluster_plan", "cluster_rewrite", "cluster_commit", "cluster_build",
     "cluster_prepare", "cluster_index", "cluster_verify", "cluster_stamp",
     "plan", "execute", "commit"}

MaintStates ==
    [pc : MaintPhases, cluster : BOOLEAN, retention : {"off", "on", "missing"}, round : Nat,
     plan : Plans, deleted : Nat, misconfigured : BOOLEAN, segments : SUBSET Segments,
     stamp : Stamps, result : {"none", "error", "skipped", "clustered", "idle", "compacted", "hot"}]

Pins == [version : Nat, frags : SUBSET Nat, index : SUBSET Segments, cfg : Configs]

IndexPhases ==
    {"idle", "done", "plan", "build", "prepare", "commit", "publish", "maintain", "create_index",
     "write_config", "persist_centroids", "bound_deltas"}

IndexStates ==
    [pc : IndexPhases, rebuild : BOOLEAN, reusable : BOOLEAN, round : Nat, pin : Pins, targets : SUBSET Nat,
     mode : {"none", "maintain", "rebuild", "bootstrap", "segments"}, segments : SUBSET Segments,
     built : Nat, stale : BOOLEAN, rows : Nat, result : {"none", "built", "skipped", "error"}]

JobsTypes ==
    /\ GoodTable(table)
    /\ kept \subseteq Rows
    /\ sidecar \in [1 .. Cardinality(Rows) -> Nat]
    /\ maint \in MaintStates /\ expired \in Nat /\ dropped \subseteq Nat
    /\ kind \in {"vector", "btree", "fts"}
    /\ indexer \in IndexStates /\ IsFiniteSet(indexer.targets)
    /\ trained \in Nat /\ torn \in BOOLEAN
    /\ maint.pc \in {"idle", "done"} \/ indexer.pc \in {"idle", "done"}

\* The planned version is the latest one, or the overwrite will be refused.
RowsOK ==
    /\ LiveRows(table) = kept
    /\ maint.pc \in {"cluster_rewrite", "cluster_commit"} =>
          /\ IsFiniteSet(maint.plan.groups)
          /\ maint.plan.version <= table.version
          /\ maint.plan.version = table.version => UNION maint.plan.groups = LiveRows(table)

DeletesOK ==
    /\ maint.pc = "cluster_plan" => expired = 0
    /\ maint.pc # "done" => maint.deleted = expired
    /\ ReportedDeletes

Rebuilding ==
    {"cluster_build", "cluster_prepare", "cluster_index", "cluster_verify", "cluster_stamp"}

\* What the stamp names is clustered, and covered but for what the rebuild dropped.
StampOK ==
    /\ Old(table, table.stamp.ids) /\ AllClustered(table, table.stamp.ids)
    /\ CoveredBut(table, table.stamp.ids, dropped)

\* What the rewrite under way will stamp; nothing the last stamp named is left.
RebuildOK ==
    /\ maint.pc \in Rebuilding =>
          /\ table.stamp.ids \cap DOMAIN table.frags = {}
          /\ Old(table, maint.stamp.ids) /\ AllClustered(table, maint.stamp.ids)
    /\ maint.pc = "cluster_prepare" => CoveredBut(table, maint.stamp.ids, Over(maint.segments))
    /\ maint.pc = "cluster_index" =>
          CoveredBut(table, maint.stamp.ids, Over(maint.segments) \cup dropped)
    /\ maint.pc \in {"cluster_verify", "cluster_stamp"} => CoveredBut(table, maint.stamp.ids, dropped)

\* What the version the indexer planned still has, is covered or being built.
CoverOK ==
    /\ Old(table, indexer.pin.frags)
    /\ indexer.pc = "build" /\ indexer.mode = "segments" =>
          CoveredBut(table, indexer.pin.frags, indexer.targets)
    /\ indexer.pc = "prepare" \/ (indexer.pc = "commit" /\ ~ indexer.stale) =>
          CoveredBut(table, indexer.pin.frags, Over(indexer.segments))
    /\ indexer.pc \in {"write_config", "persist_centroids", "bound_deltas"} =>
          CoveredBut(table, indexer.pin.frags, {})
    /\ indexer.pc \in {"build", "publish"} =>
          table.stamp.ids \cap DOMAIN table.frags \subseteq indexer.pin.frags
    /\ BuiltMeansCovered

KindOK ==
    /\ kind # "vector" => table.cfg = NoConfig /\ trained = 0
    /\ indexer.pc \in {"create_index", "write_config", "persist_centroids"} => kind = "vector"
    /\ indexer.pc \in {"maintain", "publish"} => kind = "fts"
    /\ indexer.pc = "build" => indexer.mode = "segments" \/ (indexer.mode = "rebuild" /\ kind = "fts")

ConfigOK ==
    /\ table.cfg # NoConfig => table.cfg.rows_at_train \in 1 .. Cardinality(Rows)
    /\ indexer.pc \in {"write_config", "persist_centroids"} => indexer.rows \in 1 .. Cardinality(Rows)
    /\ indexer.pc = "persist_centroids" =>
          table.cfg = [rows_at_train |-> indexer.rows, model |-> trained]
    /\ indexer.pc = "build" /\ indexer.mode = "segments" /\ kind = "vector" =>
          /\ table.cfg # NoConfig /\ indexer.pin.cfg = table.cfg
          /\ indexer.pin.index # {}

\* The model of the next segment: the configuration is written after training.
CurrentModel ==
    IF table.cfg = NoConfig \/ indexer.pc = "write_config" THEN trained ELSE table.cfg.model

ModelOK ==
    /\ indexer.pc \in {"write_config", "persist_centroids"} => ~ torn
    /\ ~ torn =>
         /\ Uniform(table.index, CurrentModel)
         /\ table.cfg # NoConfig /\ indexer.pc \notin {"write_config", "persist_centroids"} =>
               sidecar[table.cfg.rows_at_train] \in {0, table.cfg.model}
         /\ indexer.pc = "build" /\ indexer.mode = "segments" =>
               Uniform(indexer.pin.index, CurrentModel)
         /\ indexer.pc \in {"prepare", "commit"} => Uniform(indexer.segments, CurrentModel)

\* The rewrite carries the model of the configuration through the overwrite.
RebuildModelOK ==
    /\ maint.pc \in {"cluster_rewrite", "cluster_commit", "cluster_build"} =>
          /\ table.cfg # NoConfig
          /\ ~ torn => maint.plan.c = table.cfg.model /\ maint.plan.q = table.cfg.model
    /\ maint.pc \in {"cluster_prepare", "cluster_index"} =>
          /\ table.cfg # NoConfig
          /\ ~ torn => Uniform(maint.segments, table.cfg.model)

JobsInvariant ==
    /\ JobsTypes /\ RowsOK /\ DeletesOK /\ StampOK /\ RebuildOK
    /\ CoverOK /\ KindOK /\ ConfigOK /\ ModelOK /\ RebuildModelOK

-------------------------------------------------------------------------------
(* What one commit does to a table.                                        *)

(* The parts of a table that satisfies its type.                           *)
LEMMA TableParts ==
  ASSUME NEW t, GoodTable(t)
  PROVE  /\ t.version \in Nat /\ t.nextId \in Nat /\ t.index \subseteq Segments
         /\ t.stamp \in Stamps /\ t.cfg \in Configs
         /\ DOMAIN t.frags \subseteq Nat /\ t.frags \in [DOMAIN t.frags -> Fragments]
         /\ t = [version |-> t.version, frags |-> t.frags, nextId |-> t.nextId,
                 index |-> t.index, stamp |-> t.stamp, cfg |-> t.cfg]
<1>1. t \in LanceTables /\ t.frags \in FragmentMaps BY DEF GoodTable, LanceTables
<1>2. PICK ids \in SUBSET Nat : t.frags \in [ids -> Fragments] BY <1>1 DEF FragmentMaps
<1>3. DOMAIN t.frags = ids BY <1>2
<1> QED BY <1>1, <1>2, <1>3 DEF LanceTables

(* A record of parts of the right type is a table.                         *)
LEMMA TableOfParts ==
  ASSUME NEW v \in Nat, NEW ids \in SUBSET Nat, NEW frags \in [ids -> Fragments], NEW n \in Nat,
         NEW index \in SUBSET Segments, NEW stamp \in Stamps, NEW cfg \in Configs,
         \A f \in ids : f < n
  PROVE  GoodTable([version |-> v, frags |-> frags, nextId |-> n, index |-> index,
                    stamp |-> stamp, cfg |-> cfg])
<1>1. frags \in FragmentMaps BY DEF FragmentMaps
<1>2. DOMAIN frags = ids OBVIOUS
<1> QED BY <1>1, <1>2 DEF GoodTable, LanceTables

(* The rows of a table are rows, finitely many of them.                    *)
LEMMA RowsFinite ==
  ASSUME NEW t, GoodTable(t)
  PROVE  LiveRows(t) \subseteq Rows /\ IsFiniteSet(LiveRows(t)) /\ count_rows(t) \in 0 .. Cardinality(Rows)
<1>1. LiveRows(t) \subseteq Rows BY TableParts DEF LiveRows, Fragments
<1>2. IsFiniteSet(LiveRows(t)) /\ Cardinality(LiveRows(t)) <= Cardinality(Rows)
  BY <1>1, FS_Subset, TableAssumption DEF TableAssumption
<1>3. Cardinality(LiveRows(t)) \in Nat /\ Cardinality(Rows) \in Nat
  BY <1>2, FS_CardinalityType, TableAssumption DEF TableAssumption
<1> QED BY <1>1, <1>2, <1>3 DEF count_rows

\* The table after a commit that replaces fragments and segments.
Update(t, frags, n, index) ==
    [t EXCEPT !.version = t.version + 1, !.frags = frags, !.nextId = n, !.index = index]

(* A commit of well-formed fragments and segments makes a table again.     *)
LEMMA UpdatedOK ==
  ASSUME NEW t, GoodTable(t), NEW frags \in FragmentMaps, NEW n \in Nat, NEW index \in SUBSET Segments,
         \A f \in DOMAIN frags : f < n
  PROVE  /\ GoodTable(Update(t, frags, n, index))
         /\ Update(t, frags, n, index).version = t.version + 1
         /\ Update(t, frags, n, index).frags = frags
         /\ Update(t, frags, n, index).nextId = n
         /\ Update(t, frags, n, index).index = index
         /\ Update(t, frags, n, index).stamp = t.stamp
         /\ Update(t, frags, n, index).cfg = t.cfg
<1> DEFINE u == [t EXCEPT !.version = t.version + 1, !.frags = frags, !.nextId = n, !.index = index]
<1>1. t \in LanceTables BY DEF GoodTable
<1>2. u \in LanceTables
  <2> DEFINE a == [t EXCEPT !.version = t.version + 1]
             b == [a EXCEPT !.frags = frags]
             c == [b EXCEPT !.nextId = n]
  <2>1. a \in LanceTables BY <1>1 DEF LanceTables
  <2> HIDE DEF a
  <2>2. b \in LanceTables BY <2>1 DEF LanceTables
  <2> HIDE DEF b
  <2>3. c \in LanceTables BY <2>2 DEF LanceTables
  <2> HIDE DEF c
  <2>4. [c EXCEPT !.index = index] \in LanceTables BY <2>3 DEF LanceTables
  <2> QED BY <2>4 DEF a, b, c
<1>3. u.version = t.version + 1 BY <1>1 DEF LanceTables
<1>4. u.frags = frags BY <1>1 DEF LanceTables
<1>5. u.nextId = n BY <1>1 DEF LanceTables
<1>6. u.index = index BY <1>1 DEF LanceTables
<1>7. u.stamp = t.stamp /\ u.cfg = t.cfg BY <1>1 DEF LanceTables
<1> HIDE DEF u
<1>8. GoodTable(u) BY <1>2, <1>4, <1>5 DEF GoodTable
<1> QED BY <1>3, <1>4, <1>5, <1>6, <1>7, <1>8 DEF u, Update

(* A delete (WithoutRows) removes the rows and no other.                   *)
LEMMA WithoutRowsOK ==
  ASSUME NEW t, GoodTable(t), NEW rows
  PROVE  /\ Rewritten(t, WithoutRows(t, rows)) /\ LiveRows(WithoutRows(t, rows)) = LiveRows(t) \ rows
         /\ t.index # {} => WithoutRows(t, rows).index # {}
<1> DEFINE left == {f \in DOMAIN t.frags : ~ t.frags[f].live \subseteq rows}
           frags == [f \in left |-> [live |-> t.frags[f].live \ rows,
                                     holes |-> t.frags[f].holes \/ t.frags[f].live \cap rows # {},
                                     clustered |-> t.frags[f].clustered]]
           index == {[s EXCEPT !.over = s.over \cap left] : s \in t.index}
           u == WithoutRows(t, rows)
<1>1. u = [t EXCEPT !.version = t.version + 1, !.frags = frags, !.index = index] BY DEF WithoutRows
<1>2. left \subseteq DOMAIN t.frags /\ left \in SUBSET Nat BY TableParts
<1> HIDE DEF left
<1>3. frags \in [left -> Fragments] BY <1>2, TableParts DEF Fragments
<1>4. index \in SUBSET Segments BY TableParts DEF Segments
<1>5. u = Update(t, frags, t.nextId, index)
  <2> HIDE DEF frags, index, u
  <2> QED BY <1>1, TableParts DEF Update
<1>6. /\ GoodTable(u) /\ u.version = t.version + 1 /\ u.frags = frags /\ u.nextId = t.nextId
      /\ u.index = index /\ u.stamp = t.stamp /\ u.cfg = t.cfg
  <2> HIDE DEF frags, index, u
  <2>1. t.nextId \in Nat /\ \A f \in left : f < t.nextId BY <1>2, TableParts DEF GoodTable
  <2>2. frags \in FragmentMaps /\ DOMAIN frags = left BY <1>2, <1>3 DEF FragmentMaps
  <2> QED BY <1>4, <1>5, <2>1, <2>2, UpdatedOK
<1> HIDE DEF u
<1>7. \A f \in left : f \in Covered(t) => f \in Covered(u)
  <2> SUFFICES ASSUME NEW f \in left, NEW s \in t.index, f \in s.over
               PROVE  f \in Covered(u)
    BY DEF Covered
  <2>1. [s EXCEPT !.over = s.over \cap left] \in u.index BY <1>6
  <2>2. f \in [s EXCEPT !.over = s.over \cap left].over BY TableParts DEF Segments
  <2> QED BY <2>1, <2>2 DEF Covered
<1>8. Follows(t, u)
  <2> HIDE DEF index
  <2>1. DOMAIN u.frags = left /\ \A f \in left : u.frags[f].clustered = t.frags[f].clustered BY <1>6
  <2> HIDE DEF frags
  <2> QED BY <1>2, <1>6, <1>7, <2>1, TableParts DEF Follows
<1>9. SameModels(t, u)
  <2> SUFFICES ASSUME NEW s \in u.index PROVE \E r \in t.index : s.c = r.c /\ s.q = r.q
    BY <1>6 DEF SameModels
  <2>1. PICK r \in t.index : s = [r EXCEPT !.over = r.over \cap left] BY <1>6
  <2> QED BY <2>1, TableParts DEF Segments
<1>10. LiveRows(u) = LiveRows(t) \ rows
  <2>1. DOMAIN u.frags = left /\ \A f \in left : u.frags[f].live = t.frags[f].live \ rows BY <1>6
  <2>2. LiveRows(u) = UNION {t.frags[f].live \ rows : f \in left} BY <2>1 DEF LiveRows
  <2>3. \A f \in DOMAIN t.frags : f \notin left => t.frags[f].live \subseteq rows BY DEF left
  <2> QED BY <1>2, <2>2, <2>3 DEF LiveRows
<1>11. ASSUME NEW s \in t.index PROVE u.index # {}
  <2>1. [s EXCEPT !.over = s.over \cap left] \in index OBVIOUS
  <2> QED BY <1>6, <2>1
<1> HIDE DEF frags, index
<1>12. Rewritten(t, u) BY <1>6, <1>8, <1>9, TableParts DEF Rewritten
<1> QED BY <1>10, <1>11, <1>12 DEF u

(* An append (WithFragment) adds its rows in a fragment with a new id.     *)
LEMMA WithFragmentOK ==
  ASSUME NEW t, GoodTable(t), NEW rows \in SUBSET Rows
  PROVE  /\ Rewritten(t, WithFragment(t, rows, FALSE))
         /\ LiveRows(WithFragment(t, rows, FALSE)) = LiveRows(t) \cup rows
<1> DEFINE ids == DOMAIN t.frags \cup {t.nextId}
           frags == [f \in ids |-> IF f = t.nextId THEN Fragment(rows, FALSE) ELSE t.frags[f]]
           u == WithFragment(t, rows, FALSE)
<1>1. u = [t EXCEPT !.version = t.version + 1, !.frags = frags, !.nextId = t.nextId + 1]
  BY DEF WithFragment
<1>2. ids \in SUBSET Nat /\ \A f \in ids : f < t.nextId + 1 BY TableParts DEF GoodTable
<1>3. frags \in [ids -> Fragments] BY TableParts DEF Fragments, Fragment
<1>4. u = Update(t, frags, t.nextId + 1, t.index)
  <2> HIDE DEF frags, u
  <2> QED BY <1>1, TableParts DEF Update
<1>5. /\ GoodTable(u) /\ u.version = t.version + 1 /\ u.frags = frags /\ u.nextId = t.nextId + 1
      /\ u.index = t.index /\ u.stamp = t.stamp /\ u.cfg = t.cfg
  <2> HIDE DEF ids, frags, u
  <2>1. t.nextId + 1 \in Nat /\ t.index \in SUBSET Segments BY TableParts
  <2>2. frags \in FragmentMaps /\ DOMAIN frags = ids BY <1>2, <1>3 DEF FragmentMaps
  <2>3. \A f \in DOMAIN frags : f < t.nextId + 1 BY <1>2, <2>2
  <2> QED BY <1>4, <2>1, <2>2, <2>3, UpdatedOK
<1> HIDE DEF u
<1>6. t.nextId \notin DOMAIN t.frags BY TableParts DEF GoodTable
<1>7. /\ DOMAIN u.frags = DOMAIN t.frags \cup {t.nextId}
      /\ \A f \in DOMAIN t.frags : u.frags[f] = t.frags[f]
      /\ u.frags[t.nextId].live = rows
  BY <1>5, <1>6 DEF Fragment
<1> HIDE DEF frags, ids
<1>8. Follows(t, u) BY <1>5, <1>7, TableParts DEF Follows, Covered
<1>9. LiveRows(u) = LiveRows(t) \cup rows BY <1>7 DEF LiveRows
<1>10. Rewritten(t, u) BY <1>5, <1>8, TableParts DEF Rewritten, SameModels
<1> QED BY <1>9, <1>10 DEF u

(* A compaction (Compacted) neither loses nor adds a row.                  *)
LEMMA CompactedOK ==
  ASSUME NEW t, GoodTable(t), NEW group \in SUBSET DOMAIN t.frags
  PROVE  /\ Rewritten(t, Compacted(t, group))
         /\ LiveRows(Compacted(t, group)) = LiveRows(t)
<1> DEFINE rows == UNION {t.frags[f].live : f \in group}
           ids == (DOMAIN t.frags \ group) \cup {t.nextId}
           Moved(s) == (s.over \ group) \cup (IF group \subseteq s.over THEN {t.nextId} ELSE {})
           frags == [f \in ids |-> IF f = t.nextId THEN Fragment(rows, FALSE) ELSE t.frags[f]]
           index == {[s EXCEPT !.over = Moved(s)] : s \in t.index}
           u == Compacted(t, group)
<1>1. u = [t EXCEPT !.version = t.version + 1, !.frags = frags, !.index = index, !.nextId = t.nextId + 1]
  BY DEF Compacted
<1>2. ids \in SUBSET Nat /\ \A f \in ids : f < t.nextId + 1 BY TableParts DEF GoodTable
<1>3. rows \subseteq Rows BY TableParts DEF Fragments
<1>4. frags \in [ids -> Fragments]
  <2> HIDE DEF rows
  <2> QED BY <1>3, TableParts DEF Fragments, Fragment
<1>5. \A s \in t.index : Moved(s) \in SUBSET Nat BY TableParts DEF Segments
<1> HIDE DEF Moved
<1>6. index \in SUBSET Segments BY <1>5, TableParts DEF Segments
<1>7. u = Update(t, frags, t.nextId + 1, index)
  <2> HIDE DEF frags, index, u
  <2> QED BY <1>1, TableParts DEF Update
<1>8. /\ GoodTable(u) /\ u.version = t.version + 1 /\ u.frags = frags /\ u.nextId = t.nextId + 1
      /\ u.index = index /\ u.stamp = t.stamp /\ u.cfg = t.cfg
  <2> HIDE DEF ids, frags, index, u
  <2>1. t.nextId + 1 \in Nat BY TableParts
  <2>2. frags \in FragmentMaps /\ DOMAIN frags = ids BY <1>2, <1>4 DEF FragmentMaps
  <2>3. \A f \in DOMAIN frags : f < t.nextId + 1 BY <1>2, <2>2
  <2> QED BY <1>6, <1>7, <2>1, <2>2, <2>3, UpdatedOK
<1> HIDE DEF u
<1>9. \A f \in ids : f < t.nextId /\ f \in Covered(t) => f \in Covered(u)
  <2> SUFFICES ASSUME NEW f \in ids, f < t.nextId, NEW s \in t.index, f \in s.over
               PROVE  f \in Covered(u)
    BY DEF Covered
  <2>1. f \in Moved(s) BY TableParts DEF Moved
  <2>2. [s EXCEPT !.over = Moved(s)] \in u.index BY <1>8
  <2>3. f \in [s EXCEPT !.over = Moved(s)].over BY <2>1, TableParts DEF Segments
  <2> QED BY <2>2, <2>3 DEF Covered
<1>10. t.nextId \notin DOMAIN t.frags BY TableParts DEF GoodTable
<1>11. /\ DOMAIN u.frags = (DOMAIN t.frags \ group) \cup {t.nextId}
       /\ \A f \in DOMAIN t.frags \ group : u.frags[f] = t.frags[f]
       /\ u.frags[t.nextId].live = rows
  <2> HIDE DEF rows
  <2> QED BY <1>8, <1>10 DEF Fragment
<1>12. SameModels(t, u)
  <2> SUFFICES ASSUME NEW s \in u.index PROVE \E r \in t.index : s.c = r.c /\ s.q = r.q
    BY <1>8 DEF SameModels
  <2>1. PICK r \in t.index : s = [r EXCEPT !.over = Moved(r)] BY <1>8
  <2> QED BY <2>1, TableParts DEF Segments
<1> HIDE DEF frags, index
<1>13. Follows(t, u)
  <2> HIDE DEF rows
  <2> QED BY <1>8, <1>9, <1>11, TableParts DEF Follows
<1>14. LiveRows(u) = LiveRows(t)
  <2>1. \A x : x \in LiveRows(u) <=> \E f \in DOMAIN u.frags : x \in u.frags[f].live BY DEF LiveRows
  <2>2. \A x : x \in LiveRows(t) <=> \E f \in DOMAIN t.frags : x \in t.frags[f].live BY DEF LiveRows
  <2>3. \A x : x \in rows <=> \E f \in group : x \in t.frags[f].live OBVIOUS
  <2> HIDE DEF rows
  <2>4. \A x : x \in LiveRows(u) <=> x \in LiveRows(t) BY <1>11, <2>1, <2>2, <2>3
  <2> QED BY <2>4
<1>15. Rewritten(t, u)
  <2> HIDE DEF rows
  <2> QED BY <1>8, <1>12, <1>13, TableParts DEF Rewritten
<1> QED BY <1>14, <1>15 DEF u

(* SetToSeq lists every element of a finite set.                           *)
LEMMA Listed ==
  ASSUME NEW S, IsFiniteSet(S)
  PROVE  /\ Cardinality(S) \in Nat
         /\ SetToSeq(S) \in [1 .. Cardinality(S) -> S]
         /\ \A x \in S : \E n \in 1 .. Cardinality(S) : SetToSeq(S)[n] = x
<1> DEFINE C == 1 .. Cardinality(S)
<1>1. Cardinality(S) \in Nat /\ ExistsBijection(C, S) BY FS_CardinalityType
<1>2. PICK g \in [C -> S] : IsInjective(g)
  BY <1>1 DEF ExistsBijection, Bijection, Injection, IsInjective
<1>3. SetToSeq(S) \in [C -> S] /\ IsInjective(SetToSeq(S)) BY <1>2 DEF SetToSeq
<1>4. SetToSeq(S) \in Injection(C, S) BY <1>3 DEF Injection, IsInjective
<1>5. Cardinality(C) = Cardinality(S) BY <1>1, FS_Interval
<1>6. SetToSeq(S) \in Surjection(C, S) BY <1>4, <1>5, FS_Injection
<1> QED BY <1>1, <1>3, <1>6 DEF Surjection

(* The overwrite holds the rewritten rows in clustered fragments only.     *)
LEMMA OverwrittenOK ==
  ASSUME NEW t, GoodTable(t), NEW groups \in SUBSET SUBSET Rows, IsFiniteSet(groups)
  PROVE  /\ Rewritten(t, Overwritten(t, groups))
         /\ LiveRows(Overwritten(t, groups)) = UNION groups
         /\ \A f \in DOMAIN Overwritten(t, groups).frags :
               f >= t.nextId /\ Overwritten(t, groups).frags[f].clustered
<1> DEFINE order == SetToSeq(groups)
           count == Cardinality(groups)
           ids == t.nextId .. (t.nextId + count - 1)
           frags == [f \in ids |-> Fragment(order[f - t.nextId + 1], TRUE)]
           u == Overwritten(t, groups)
<1>1. u = [t EXCEPT !.version = t.version + 1, !.frags = frags, !.index = {}, !.nextId = t.nextId + count]
  BY DEF Overwritten
<1>2. /\ count \in Nat /\ order \in [1 .. count -> groups]
      /\ \A x \in groups : \E n \in 1 .. count : order[n] = x
  BY Listed
<1> HIDE DEF order, count
<1>3. ids \in SUBSET Nat /\ \A f \in ids : f < t.nextId + count /\ f - t.nextId + 1 \in 1 .. count
  BY <1>2, TableParts
<1> HIDE DEF ids
<1>4. frags \in [ids -> Fragments] BY <1>2, <1>3 DEF Fragment, Fragments
<1>5. u = Update(t, frags, t.nextId + count, {})
  <2> HIDE DEF frags, u
  <2> QED BY <1>1, TableParts DEF Update
<1>6. /\ GoodTable(u) /\ u.version = t.version + 1 /\ u.frags = frags /\ u.nextId = t.nextId + count
      /\ u.index = {} /\ u.stamp = t.stamp /\ u.cfg = t.cfg
  <2> HIDE DEF frags, u
  <2>1. t.nextId + count \in Nat BY <1>2, TableParts
  <2>2. frags \in FragmentMaps /\ DOMAIN frags = ids BY <1>3, <1>4 DEF FragmentMaps
  <2>3. \A f \in DOMAIN frags : f < t.nextId + count BY <1>3, <2>2
  <2> QED BY <1>5, <2>1, <2>2, <2>3, UpdatedOK
<1> HIDE DEF u
<1>7. /\ DOMAIN u.frags = ids
      /\ \A f \in ids : u.frags[f].clustered /\ u.frags[f].live = order[f - t.nextId + 1]
  BY <1>6 DEF Fragment
<1> HIDE DEF frags
<1>8. \A f \in DOMAIN u.frags : f >= t.nextId BY <1>2, <1>7, TableParts DEF ids
<1>9. Rewritten(t, u)
  <2>1. Follows(t, u) BY <1>2, <1>3, <1>6, <1>7, <1>8, TableParts DEF Follows
  <2> QED BY <1>6, <2>1, TableParts DEF Rewritten, SameModels
<1>10. LiveRows(u) = UNION groups
  <2>1. ASSUME NEW x, x \in LiveRows(u) PROVE x \in UNION groups
    BY <1>2, <1>3, <1>7, <2>1 DEF LiveRows
  <2>2. ASSUME NEW g \in groups PROVE g \subseteq LiveRows(u)
    <3>1. PICK n \in 1 .. count : order[n] = g BY <1>2
    <3>2. t.nextId + n - 1 \in ids /\ (t.nextId + n - 1) - t.nextId + 1 = n BY <1>2, TableParts DEF ids
    <3>3. u.frags[t.nextId + n - 1].live = g BY <1>7, <3>1, <3>2
    <3> QED BY <1>7, <3>2, <3>3 DEF LiveRows
  <2> QED BY <2>1, <2>2
<1> QED BY <1>7, <1>8, <1>9, <1>10 DEF u

(* A commit of segments that Lance accepts (WithSegments) leaves nothing   *)
(* uncovered that was covered, and covers what the segments are over.      *)
LEMMA WithSegmentsOK ==
  ASSUME NEW t, GoodTable(t), NEW segments \in SUBSET Segments, ~ would_orphan(t, segments)
  PROVE  LET u == WithSegments(t, segments)
         IN  /\ GoodTable(u) /\ Follows(t, u)
             /\ u.version = t.version + 1 /\ u.frags = t.frags /\ u.stamp = t.stamp /\ u.cfg = t.cfg
             /\ u.nextId = t.nextId
             /\ u.index \subseteq t.index \cup segments
             /\ Over(segments) \subseteq Covered(u) /\ Covered(t) \subseteq Covered(u)
<1> DEFINE index == (t.index \ Replaced(t, segments)) \cup segments
           u == WithSegments(t, segments)
<1>1. u = [t EXCEPT !.version = t.version + 1, !.index = index] BY DEF WithSegments
<1>2. index \in SUBSET Segments BY TableParts
<1>3. u = Update(t, t.frags, t.nextId, index)
  <2> HIDE DEF index, u
  <2> QED BY <1>1, TableParts DEF Update
<1>4. /\ GoodTable(u) /\ u.version = t.version + 1 /\ u.frags = t.frags /\ u.nextId = t.nextId
      /\ u.index = index /\ u.stamp = t.stamp /\ u.cfg = t.cfg
  <2> HIDE DEF index, u
  <2>1. t.frags \in FragmentMaps /\ t.nextId \in Nat BY DEF GoodTable, LanceTables
  <2>2. \A f \in DOMAIN t.frags : f < t.nextId BY DEF GoodTable
  <2> QED BY <1>2, <1>3, <2>1, <2>2, UpdatedOK
<1> HIDE DEF u
<1>5. Over(segments) \subseteq Covered(u) BY <1>4 DEF Over, Covered
<1>6. Covered(t) \subseteq Covered(u)
  <2> SUFFICES ASSUME NEW s \in t.index, NEW f \in s.over PROVE f \in Covered(u) BY DEF Covered
  <2>1. CASE s \in Replaced(t, segments)
    BY <1>5, <2>1 DEF would_orphan, Over
  <2>2. CASE s \notin Replaced(t, segments)
    BY <1>4, <2>2 DEF Covered
  <2> QED BY <2>1, <2>2
<1>7. Follows(t, u) BY <1>4, <1>6, TableParts DEF Follows
<1> QED BY <1>4, <1>5, <1>6, <1>7 DEF u

(* What holds of the live fragments of an older version keeps holding.     *)
LEMMA OldKept ==
  ASSUME NEW t, GoodTable(t), NEW u, GoodTable(u), Follows(t, u), NEW ids \in SUBSET Nat, Old(t, ids)
  PROVE  /\ Old(u, ids)
         /\ ids \cap DOMAIN u.frags \subseteq ids \cap DOMAIN t.frags
         /\ AllClustered(t, ids) => AllClustered(u, ids)
         /\ \A more : CoveredBut(t, ids, more) => CoveredBut(u, ids, more)
  BY TableParts DEF Follows, Old, AllClustered, CoveredBut

(* split_evenly deals every fragment into a shard.                         *)
LEMMA DealtOut ==
  ASSUME NEW ids \in SUBSET Nat, IsFiniteSet(ids), NEW shards \in Nat \ {0}
  PROVE  /\ UNION split_evenly(ids, shards) = ids
         /\ \A shard \in split_evenly(ids, shards) : shard \in SUBSET Nat
<1> DEFINE low == Min({shards, Cardinality(ids)})
           count == Max({1, low})
<1>1. Cardinality(ids) \in Nat BY FS_CardinalityType
<1>2. low \in Nat
  <2>1. \E x \in {shards, Cardinality(ids)} : \A y \in {shards, Cardinality(ids)} : x =< y BY <1>1
  <2> QED BY <1>1, <2>1 DEF Min
<1> HIDE DEF low
<1>3. count \in Nat \ {0}
  <2>1. \E x \in {1, low} : \A y \in {1, low} : x >= y BY <1>2
  <2> QED BY <1>2, <2>1 DEF Max
<1> HIDE DEF count
<1> DEFINE shard(g) == {f \in ids : RankIn(ids, f) % count = g}
<1>4. split_evenly(ids, shards) = {shard(g) : g \in 0 .. count - 1} \ {{}}
  BY DEF split_evenly, count, low
<1>5. ASSUME NEW f \in ids PROVE \E g \in 0 .. count - 1 : f \in shard(g)
  <2>1. RankIn(ids, f) \in Nat
    <3>1. {g \in ids : g < f} \in SUBSET ids OBVIOUS
    <3> QED BY <3>1, FS_Subset, FS_CardinalityType DEF RankIn
  <2>2. RankIn(ids, f) % count \in 0 .. count - 1 BY <1>3, <2>1
  <2> QED BY <2>2
<1>6. \A g : shard(g) \subseteq ids OBVIOUS
<1> HIDE DEF shard
<1>7. \A s \in split_evenly(ids, shards) : s \subseteq ids BY <1>4, <1>6
<1>8. ASSUME NEW f \in ids PROVE \E s \in split_evenly(ids, shards) : f \in s
  <2>1. PICK g \in 0 .. count - 1 : f \in shard(g) BY <1>5
  <2> QED BY <1>4, <2>1
<1> QED BY <1>7, <1>8

(* Merging keeps what segments are over, and their common model.           *)
LEMMA Merged ==
  ASSUME NEW segments \in SUBSET Segments
  PROVE  /\ merge_segments(segments) \subseteq Segments
         /\ Over(merge_segments(segments)) = Over(segments)
         /\ \A m : Uniform(segments, m) => Uniform(merge_segments(segments), m)
<1>1. CASE Cardinality(segments) < 2 BY <1>1 DEF merge_segments
<1>2. CASE ~ Cardinality(segments) < 2
  <2> DEFINE one == CHOOSE s \in segments : TRUE
  <2>1. segments # {} BY <1>2, FS_EmptySet
  <2>2. one \in segments BY <2>1
  <2> HIDE DEF one
  <2>3. merge_segments(segments) = {[over |-> Over(segments), c |-> one.c, q |-> one.q]}
    BY <1>2 DEF merge_segments, Segment, Over, one
  <2>4. Over(segments) \in SUBSET Nat BY DEF Over, Segments
  <2> QED BY <2>2, <2>3, <2>4 DEF Over, Uniform, Segments
<1> QED BY <1>1, <1>2

-------------------------------------------------------------------------------
(* A commit of data, or none, seen from the two jobs.                      *)

Moved(t, u) == u = t \/ Rewritten(t, u)

(* Two commits follow each other as one does.                              *)
LEMMA MovedTwice ==
  ASSUME NEW t, NEW u, NEW v, GoodTable(t), GoodTable(u), GoodTable(v), Moved(t, u), Moved(u, v)
  PROVE  Moved(t, v)
<1>1. CASE u = t \/ v = u BY <1>1 DEF Moved
<1>2. CASE Rewritten(t, u) /\ Rewritten(u, v)
  <2>1. Follows(t, v) BY <1>2, TableParts DEF Rewritten, Follows
  <2>2. SameModels(t, v) BY <1>2 DEF Rewritten, SameModels
  <2> QED BY <1>2, <2>1, <2>2, TableParts DEF Moved, Rewritten
<1> QED BY <1>1, <1>2 DEF Moved

(* What every commit of data keeps.                                        *)
LEMMA MovedParts ==
  ASSUME NEW t, NEW u, GoodTable(t), Moved(t, u)
  PROVE  /\ GoodTable(u) /\ Follows(t, u) /\ SameModels(t, u) /\ u.stamp = t.stamp /\ u.cfg = t.cfg
         /\ \A m : Uniform(t.index, m) => Uniform(u.index, m)
<1>1. GoodTable(u) /\ Follows(t, u) /\ SameModels(t, u) /\ u.stamp = t.stamp
  BY TableParts DEF Moved, Rewritten, Follows, SameModels
<1> QED BY <1>1 DEF SameModels, Uniform

(* Retention deletes expired rows and nothing else.                        *)
LEMMA AfterRetentionOK ==
  ASSUME NEW t, GoodTable(t)
  PROVE  /\ Moved(t, AfterRetention(t)) /\ LiveRows(AfterRetention(t)) \subseteq LiveRows(t)
         /\ t.index # {} => AfterRetention(t).index # {}
  BY WithoutRowsOK DEF AfterRetention, Moved

(* The stamp keeps its meaning.                                            *)
LEMMA StampMoved ==
  ASSUME JobsInvariant, GoodTable(table'), Follows(table, table'), table'.stamp = table.stamp,
         dropped' = dropped
  PROVE  StampOK'
<1>1. GoodTable(table) BY DEF JobsInvariant, JobsTypes
<1>2. table.stamp.ids \in SUBSET Nat BY <1>1, TableParts DEF Stamps
<1> QED BY <1>1, <1>2, OldKept DEF JobsInvariant, StampOK

(* The indexer's view of the table, while another process commits.         *)
LEMMA IndexMoved ==
  ASSUME JobsInvariant, GoodTable(table'), Follows(table, table'), table'.cfg = table.cfg,
         table'.stamp = table.stamp \/ indexer.pc \in {"idle", "done"},
         UNCHANGED indexVars
  PROVE  CoverOK' /\ KindOK' /\ ConfigOK'
<1>1. GoodTable(table) /\ indexer.pin.frags \in SUBSET Nat
  BY DEF JobsInvariant, JobsTypes, IndexStates, Pins
<1>2. table.stamp.ids \in SUBSET Nat BY <1>1, TableParts DEF Stamps
<1>3. /\ Old(table', indexer.pin.frags)
      /\ indexer.pin.frags \cap DOMAIN table'.frags \subseteq indexer.pin.frags \cap DOMAIN table.frags
      /\ \A more : CoveredBut(table, indexer.pin.frags, more) => CoveredBut(table', indexer.pin.frags, more)
  BY <1>1, OldKept DEF JobsInvariant, CoverOK
<1>4. table.stamp.ids \cap DOMAIN table'.frags \subseteq table.stamp.ids \cap DOMAIN table.frags
  BY <1>1, <1>2, OldKept DEF JobsInvariant, StampOK
<1>5. BuiltMeansCovered => BuiltMeansCovered'
  <2>1. BuiltMeansCovered <=> (indexer.pc = "done" /\ indexer.result = "built"
                                 => CoveredBut(table, indexer.pin.frags, {}))
    BY DEF BuiltMeansCovered, CoveredBut
  <2>2. BuiltMeansCovered' <=> (indexer.pc = "done" /\ indexer.result = "built"
                                  => CoveredBut(table', indexer.pin.frags, {}))
    BY DEF BuiltMeansCovered, CoveredBut, indexVars
  <2> QED BY <1>3, <2>1, <2>2
<1>6. CoverOK'
  BY <1>3, <1>4, <1>5 DEF JobsInvariant, CoverOK, indexVars
<1>7. KindOK' /\ ConfigOK' BY DEF JobsInvariant, KindOK, ConfigOK, indexVars
<1> QED BY <1>6, <1>7

(* No commit of data brings a second model into the index.                 *)
LEMMA ModelMoved ==
  ASSUME JobsInvariant, Moved(table, table'), UNCHANGED <<sidecar, indexVars>>
  PROVE  ModelOK'
<1>1. GoodTable(table) BY DEF JobsInvariant, JobsTypes
<1>2. table'.cfg = table.cfg /\ \A m : Uniform(table.index, m) => Uniform(table'.index, m)
  BY <1>1, MovedParts
<1>3. CurrentModel' = CurrentModel BY <1>2 DEF CurrentModel, indexVars
<1> QED BY <1>2, <1>3 DEF JobsInvariant, ModelOK, indexVars

(* What a rewrite under way will stamp, while other processes commit.      *)
LEMMA RebuildMoved ==
  ASSUME JobsInvariant, Moved(table, table'), UNCHANGED <<maint, dropped, torn>>
  PROVE  RebuildOK' /\ RebuildModelOK'
<1>1. GoodTable(table) /\ maint.stamp.ids \in SUBSET Nat
  BY DEF JobsInvariant, JobsTypes, MaintStates, Stamps
<1>2. table.stamp.ids \in SUBSET Nat BY <1>1, TableParts DEF Stamps
<1>3. /\ GoodTable(table') /\ Follows(table, table') /\ table'.stamp = table.stamp
      /\ table'.cfg = table.cfg
  BY <1>1, MovedParts
<1>4. table.stamp.ids \cap DOMAIN table'.frags \subseteq table.stamp.ids \cap DOMAIN table.frags
  BY <1>1, <1>2, <1>3, OldKept DEF JobsInvariant, StampOK
<1>5. Old(table, maint.stamp.ids) =>
      /\ Old(table', maint.stamp.ids)
      /\ AllClustered(table, maint.stamp.ids) => AllClustered(table', maint.stamp.ids)
      /\ \A more : CoveredBut(table, maint.stamp.ids, more) => CoveredBut(table', maint.stamp.ids, more)
  BY <1>1, <1>3, OldKept
<1>6. RebuildOK' BY <1>3, <1>4, <1>5 DEF JobsInvariant, RebuildOK, Rebuilding
<1>7. RebuildModelOK' BY <1>3 DEF JobsInvariant, RebuildModelOK
<1> QED BY <1>6, <1>7

-------------------------------------------------------------------------------
(* The steps of other processes, and the ends of a maintenance run.        *)

(* The invariant is kept by every commit of data of another process.       *)
LEMMA WritersKeepInvariant ==
  ASSUME JobsInvariant, TableWriters, UNCHANGED <<maintVars, indexVars, runs>>
  PROVE  JobsInvariant'
<1>1. GoodTable(table) /\ kept \subseteq Rows /\ LiveRows(table) = kept
  BY DEF JobsInvariant, JobsTypes, RowsOK
<1> DEFINE Kept == /\ Rewritten(table, table')
                   /\ LiveRows(table') = kept' /\ kept' \subseteq Rows /\ sidecar' = sidecar
<1>2. Kept
  <2>1. ASSUME NEW row \in Rows, WriterAppend(row) PROVE Kept
    BY <1>1, <2>1, WithFragmentOK DEF WriterAppend
  <2>2. ASSUME NEW row \in Rows, WriterDelete(row) PROVE Kept
    BY <1>1, <2>2, WithoutRowsOK DEF WriterDelete
  <2>3. ASSUME NEW row \in Rows, WriterMerge(row) PROVE Kept
    <3> DEFINE u == WithoutRows(table, {row})
    <3>1. table' = WithFragment(u, {row}, FALSE) /\ kept' = kept /\ row \in kept /\ sidecar' = sidecar
      BY <2>3 DEF WriterMerge
    <3>2. Rewritten(table, u) /\ LiveRows(u) = kept \ {row} BY <1>1, WithoutRowsOK
    <3> HIDE DEF u
    <3>3. GoodTable(u) BY <3>2 DEF Rewritten
    <3>4. Rewritten(u, table') /\ LiveRows(table') = (kept \ {row}) \cup {row}
      BY <3>1, <3>2, <3>3, WithFragmentOK
    <3>5. Moved(table, table') BY <1>1, <3>2, <3>3, <3>4, MovedTwice DEF Moved, Rewritten
    <3>6. table'.version > table.version BY <1>1, <3>2, <3>3, <3>4, TableParts DEF Rewritten
    <3>7. table' # table BY <3>6, <1>1, TableParts
    <3> QED BY <1>1, <3>1, <3>4, <3>5, <3>7 DEF Moved
  <2>4. ASSUME WriterCompact PROVE Kept
    BY <1>1, <2>4, CompactedOK DEF WriterCompact
  <2> QED BY <2>1, <2>2, <2>3, <2>4 DEF TableWriters
<1>3. Moved(table, table') BY <1>2 DEF Moved
<1>4. /\ GoodTable(table') /\ Follows(table, table') /\ table'.stamp = table.stamp
      /\ table'.cfg = table.cfg
  BY <1>1, <1>3, MovedParts
<1>5. JobsTypes' BY <1>2, <1>4 DEF JobsInvariant, JobsTypes, maintVars, maintGhosts, indexVars
<1>6. RowsOK'
  <2>1. maint' = maint /\ maint.plan.version \in Nat
    BY DEF JobsInvariant, JobsTypes, MaintStates, Plans, maintVars
  <2> QED BY <1>1, <1>2, <1>4, <2>1, TableParts DEF JobsInvariant, RowsOK, Rewritten
<1>7. DeletesOK' BY DEF JobsInvariant, DeletesOK, ReportedDeletes, maintVars, maintGhosts
<1>8. StampOK' BY <1>4, StampMoved DEF maintVars, maintGhosts
<1>9. RebuildOK' /\ RebuildModelOK' BY <1>3, RebuildMoved DEF maintVars, maintGhosts, indexVars
<1>10. CoverOK' /\ KindOK' /\ ConfigOK' BY <1>4, IndexMoved
<1>11. ModelOK' BY <1>2, <1>3, ModelMoved
<1> QED BY <1>5, <1>6, <1>7, <1>8, <1>9, <1>10, <1>11 DEF JobsInvariant

\* The phases that hold no plan of a clustered rewrite.
Calm == {"idle", "done", "cluster_plan", "plan", "execute", "commit"}

(* A maintenance step that commits data and carries no rewrite.            *)
LEMMA CalmStep ==
  ASSUME JobsInvariant, Moved(table, table'), LiveRows(table') = kept', kept' \subseteq Rows,
         maint' \in MaintStates, maint'.pc \in Calm, expired' \in Nat, DeletesOK',
         indexer.pc \in {"idle", "done"}, UNCHANGED <<sidecar, dropped, indexVars>>
  PROVE  JobsInvariant'
<1>1. GoodTable(table) BY DEF JobsInvariant, JobsTypes
<1>2. /\ GoodTable(table') /\ Follows(table, table') /\ table'.stamp = table.stamp
      /\ table'.cfg = table.cfg
  BY <1>1, MovedParts
<1>3. JobsTypes' BY <1>2 DEF JobsInvariant, JobsTypes, indexVars
<1>4. RowsOK' BY DEF RowsOK, Calm
<1>5. StampOK' BY <1>2, StampMoved
<1>6. RebuildOK' /\ RebuildModelOK' BY DEF RebuildOK, RebuildModelOK, Calm, Rebuilding
<1>7. CoverOK' /\ KindOK' /\ ConfigOK' BY <1>2, IndexMoved
<1>8. ModelOK' BY ModelMoved
<1> QED BY <1>3, <1>4, <1>5, <1>6, <1>7, <1>8 DEF JobsInvariant

(* An error, or any other result, ends a run with what it reports.         *)
LEMMA FinishStep ==
  ASSUME JobsInvariant, Moved(table, table'), LiveRows(table') = kept', kept' \subseteq Rows,
         NEW d \in Nat, NEW r \in {"error", "skipped", "clustered", "idle", "compacted", "hot"},
         Finish(r, d), expired' \in Nat, d <= expired', r # "error" => d = expired',
         indexer.pc \in {"idle", "done"}, UNCHANGED <<sidecar, dropped, indexVars>>
  PROVE  JobsInvariant'
<1>1. maint' = [pc |-> "done", cluster |-> FALSE, retention |-> "off", round |-> 0, plan |-> NoPlan,
                deleted |-> d, misconfigured |-> FALSE, segments |-> {}, stamp |-> NoStamp,
                result |-> r]
  BY DEF Finish, MaintIdle
<1>2. NoPlan \in Plans /\ NoStamp \in Stamps BY DEF NoPlan, Plans, NoStamp, Stamps
<1>3. maint' \in MaintStates BY <1>1, <1>2 DEF MaintStates, MaintPhases
<1>4. DeletesOK' BY <1>1 DEF DeletesOK, ReportedDeletes
<1>5. maint'.pc \in Calm BY <1>1 DEF Calm
<1> QED BY <1>3, <1>4, <1>5, CalmStep

-------------------------------------------------------------------------------
(* The maintenance run.                                                    *)

(* Retention leaves the rows it did not delete, and counts the others.     *)
LEMMA RetainedOK ==
  ASSUME JobsInvariant, NEW t, Moved(table, t), LiveRows(t) \subseteq LiveRows(table), Retained(t)
  PROVE  /\ Moved(table, table') /\ LiveRows(table') = kept' /\ kept' \subseteq Rows
         /\ DeletedBy(t) \in Nat /\ expired' = expired + DeletedBy(t) /\ expired' \in Nat
         /\ dropped' = dropped /\ table' = t
<1>1. GoodTable(table) /\ kept \subseteq Rows /\ LiveRows(table) = kept /\ expired \in Nat
  BY DEF JobsInvariant, JobsTypes, RowsOK
<1>2. IsFiniteSet(LiveRows(table)) BY <1>1, RowsFinite
<1>3. LiveRows(table) \ LiveRows(t) \in SUBSET LiveRows(table) OBVIOUS
<1>4. DeletedBy(t) \in Nat BY <1>2, <1>3, FS_Subset, FS_CardinalityType DEF DeletedBy
<1> QED BY <1>1, <1>4 DEF Retained

(* A table that retention left alone lost no row.                          *)
LEMMA NothingDeleted == DeletedBy(table) = 0
  BY FS_EmptySet DEF DeletedBy

(* The maintenance run is the only job while it runs.                      *)
LEMMA MaintAlone ==
  ASSUME JobsInvariant, maint.pc \notin {"idle", "done"}
  PROVE  /\ indexer.pc \in {"idle", "done"} /\ maint \in MaintStates
         /\ maint.deleted = expired /\ expired \in Nat
         /\ Moved(table, table) /\ LiveRows(table) = kept /\ kept \subseteq Rows /\ GoodTable(table)
  BY DEF JobsInvariant, JobsTypes, DeletesOK, RowsOK, Moved

(* plan_one_dataset keeps the invariant.                                   *)
LEMMA RoundPlanStep ==
  ASSUME JobsInvariant, RoundPlan, UNCHANGED indexVars
  PROVE  JobsInvariant'
<1> DEFINE t == IF maint.round = 0 THEN AfterRetention(table) ELSE table
           bad == maint.misconfigured \/ (maint.round = 0 /\ maint.retention = "missing")
           total == combined_deleted(t)
<1>1. maint.pc = "plan" BY DEF RoundPlan, MaintTurn
<1>2. /\ indexer.pc \in {"idle", "done"} /\ maint \in MaintStates /\ maint.deleted = expired
      /\ expired \in Nat /\ GoodTable(table) /\ Moved(table, table)
  BY <1>1, MaintAlone
<1>3. Moved(table, t) /\ LiveRows(t) \subseteq LiveRows(table) BY <1>2, AfterRetentionOK
<1> DEFINE Planned == \/ Finish(WithBase("skipped", bad), total)
                      \/ Finish(WithBase("idle", bad), total)
                      \/ maint' = [maint EXCEPT !.pc = "execute", !.misconfigured = bad, !.deleted = total,
                                     !.plan = [NoPlan EXCEPT !.version = t.version, !.frags = t.frags]]
                      \/ Finish("error", maint.deleted)
<1>a. CASE Finish("error", maint.deleted) /\ UNCHANGED <<table, kept, writes, maintGhosts>> /\ sidecar' = sidecar
  <2>1. LiveRows(table) = kept /\ kept \subseteq Rows BY DEF JobsInvariant, JobsTypes, RowsOK
  <2> QED BY <1>a, <1>2, <2>1, FinishStep DEF maintGhosts
<1> SUFFICES ASSUME Retained(t), sidecar' = sidecar, Planned PROVE JobsInvariant'
  BY <1>a DEF RoundPlan
<1>4. Retained(t) /\ sidecar' = sidecar OBVIOUS
<1>5. Planned OBVIOUS
<1>6. bad \in BOOLEAN BY <1>2 DEF MaintStates
<1> HIDE DEF t, bad
<1>7. /\ Moved(table, table') /\ LiveRows(table') = kept' /\ kept' \subseteq Rows
      /\ DeletedBy(t) \in Nat /\ expired' = expired + DeletedBy(t) /\ expired' \in Nat
      /\ dropped' = dropped
  BY <1>3, <1>4, RetainedOK
<1>8. total = expired' /\ total \in Nat BY <1>2, <1>7 DEF combined_deleted
<1> HIDE DEF total
<1>9. CASE Finish(WithBase("skipped", bad), total) \/ Finish(WithBase("idle", bad), total)
  <2>1. PICK r \in {"error", "skipped", "idle"} : Finish(r, total) BY <1>9 DEF WithBase
  <2> QED BY <1>2, <1>4, <1>7, <1>8, <2>1, FinishStep
<1>10. CASE Finish("error", maint.deleted)
  <2>1. maint.deleted \in Nat /\ maint.deleted <= expired' BY <1>2, <1>7
  <2> QED BY <1>2, <1>4, <1>7, <1>10, <2>1, FinishStep
<1>11. CASE maint' = [maint EXCEPT !.pc = "execute", !.misconfigured = bad, !.deleted = total,
                                   !.plan = [NoPlan EXCEPT !.version = t.version, !.frags = t.frags]]
  <2>1. GoodTable(t) BY <1>2, <1>3, MovedParts
  <2>2. [NoPlan EXCEPT !.version = t.version, !.frags = t.frags] \in Plans
    BY <2>1 DEF NoPlan, Plans, GoodTable, LanceTables
  <2>3. maint' \in MaintStates /\ maint'.pc = "execute" /\ maint'.deleted = total
    BY <1>2, <1>6, <1>8, <1>11, <2>2 DEF MaintStates, MaintPhases
  <2>4. DeletesOK' BY <1>8, <2>3 DEF DeletesOK, ReportedDeletes
  <2> QED BY <1>2, <1>4, <1>7, <2>3, <2>4, CalmStep DEF Calm
<1> QED BY <1>5, <1>9, <1>10, <1>11

(* execute and commit_one_dataset keep the invariant.                      *)
LEMMA RoundEndStep ==
  ASSUME JobsInvariant, RoundExecute \/ RoundCommit, UNCHANGED indexVars
  PROVE  JobsInvariant'
<1>1. maint.pc \in {"execute", "commit"} BY DEF RoundExecute, RoundCommit, MaintTurn
<1>2. /\ indexer.pc \in {"idle", "done"} /\ maint \in MaintStates /\ maint.deleted = expired
      /\ expired \in Nat /\ GoodTable(table) /\ Moved(table, table)
      /\ LiveRows(table) = kept /\ kept \subseteq Rows
  BY <1>1, MaintAlone
<1>3. sidecar' = sidecar /\ dropped' = dropped /\ expired' = expired /\ kept' = kept
  BY DEF RoundExecute, RoundCommit, tableVars, maintGhosts
<1>4. ASSUME NEW r \in {"error", "compacted", "hot"}, Finish(r, maint.deleted), table' = table
      PROVE JobsInvariant'
  BY <1>2, <1>3, <1>4, FinishStep
<1>5. ASSUME maint' = [maint EXCEPT !.pc = "commit"], table' = table
      PROVE  JobsInvariant'
  <2>1. maint' \in MaintStates /\ maint'.pc = "commit" /\ maint'.deleted = maint.deleted
    BY <1>2, <1>5 DEF MaintStates, MaintPhases
  <2>2. DeletesOK' BY <1>2, <1>3, <2>1 DEF DeletesOK, ReportedDeletes
  <2> QED BY <1>2, <1>3, <1>5, <2>1, <2>2, CalmStep DEF Calm
<1>6. ASSUME maint' = [maint EXCEPT !.pc = "plan", !.round = maint.round + 1, !.plan = NoPlan],
             table' = table
      PROVE  JobsInvariant'
  <2>0. NoPlan \in Plans BY DEF NoPlan, Plans
  <2>1. maint' \in MaintStates /\ maint'.pc = "plan" /\ maint'.deleted = maint.deleted
    <3> DEFINE n == maint.round + 1
    <3>1. n \in Nat BY <1>2 DEF MaintStates
    <3> HIDE DEF n
    <3>2. maint' = [maint EXCEPT !.pc = "plan", !.round = n, !.plan = NoPlan] BY <1>6 DEF n
    <3> QED BY <1>2, <2>0, <3>1, <3>2 DEF MaintStates, MaintPhases
  <2>2. DeletesOK' BY <1>2, <1>3, <2>1 DEF DeletesOK, ReportedDeletes
  <2> QED BY <1>2, <1>3, <1>6, <2>1, <2>2, CalmStep DEF Calm
<1>7. ASSUME ~ rewrite_conflicts, table' = Compacted(table, DOMAIN maint.plan.frags),
             \/ Finish(WithBase("compacted", maint.misconfigured), maint.deleted)
             \/ Finish("error", maint.deleted)
      PROVE  JobsInvariant'
  <2>1. DOMAIN maint.plan.frags \subseteq DOMAIN table.frags BY <1>7 DEF rewrite_conflicts
  <2>2. Rewritten(table, table') /\ LiveRows(table') = LiveRows(table) BY <1>2, <1>7, <2>1, CompactedOK
  <2>3. PICK r \in {"error", "compacted"} : Finish(r, maint.deleted) BY <1>7 DEF WithBase
  <2>4. Moved(table, table') BY <2>2 DEF Moved
  <2> QED BY <1>2, <1>3, <2>2, <2>3, <2>4, FinishStep
<1>8. CASE RoundExecute
  BY <1>4, <1>5, <1>8 DEF RoundExecute, tableVars
<1>9. CASE RoundCommit
  <2>1. ASSUME Finish(WithBase("hot", maint.misconfigured), maint.deleted), table' = table
        PROVE  JobsInvariant'
    BY <1>4, <2>1 DEF WithBase
  <2> QED BY <1>4, <1>6, <1>7, <1>9, <2>1 DEF RoundCommit
<1> QED BY <1>8, <1>9

(* The model a rebuild takes from sidecar and index is the configured one. *)
LEMMA ResolvedOK ==
  ASSUME JobsInvariant, NEW t, t.index \in SUBSET Segments, t.index # {}, t.cfg = table.cfg,
         table.cfg # NoConfig
  PROVE  /\ resolve_centroids(t) \in Nat
         /\ \A m : Uniform(t.index, m) /\ sidecar[table.cfg.rows_at_train] \in {0, m}
               => resolve_centroids(t) = m
<1>1. sidecar[table.cfg.rows_at_train] \in Nat
  BY DEF JobsInvariant, JobsTypes, ConfigOK
<1>2. (CHOOSE s \in t.index : TRUE) \in t.index OBVIOUS
<1>3. (CHOOSE s \in t.index : TRUE).c \in Nat BY <1>2 DEF Segments
<1> QED BY <1>1, <1>2, <1>3 DEF resolve_centroids, Uniform

(* plan_cluster_rewrite keeps the invariant.                               *)
LEMMA ClusterPlanStep ==
  ASSUME JobsInvariant, ClusterPlan, UNCHANGED indexVars
  PROVE  JobsInvariant'
<1> DEFINE first == IF cluster_generation_skip(table) THEN AfterRetention(table) ELSE table
           second == AfterRetention(first)
<1>1. maint.pc = "cluster_plan" /\ expired = 0
  BY DEF ClusterPlan, MaintTurn, JobsInvariant, DeletesOK
<1>2. /\ indexer.pc \in {"idle", "done"} /\ maint \in MaintStates /\ maint.deleted = expired
      /\ expired \in Nat /\ GoodTable(table) /\ Moved(table, table)
      /\ LiveRows(table) = kept /\ kept \subseteq Rows
  BY <1>1, MaintAlone
<1>3. Moved(table, first) /\ LiveRows(first) \subseteq LiveRows(table) BY <1>2, AfterRetentionOK
<1>4. GoodTable(first) BY <1>2, <1>3, MovedParts
<1>5. /\ Moved(first, second) /\ LiveRows(second) \subseteq LiveRows(first)
      /\ first.index # {} => second.index # {}
  <2> HIDE DEF first
  <2> QED BY <1>4, AfterRetentionOK
<1>6. GoodTable(second)
  <2> HIDE DEF first, second
  <2> QED BY <1>4, <1>5, MovedParts
<1>7. Moved(table, second) /\ LiveRows(second) \subseteq LiveRows(table)
  <2> HIDE DEF first, second
  <2> QED BY <1>2, <1>3, <1>4, <1>5, <1>6, MovedTwice
<1>8. \/ Finish("error", 0) /\ UNCHANGED <<tableVars, maintGhosts>>
      \/ Retained(first) /\ sidecar' = sidecar /\ Finish("skipped", DeletedBy(first))
      \/ Retained(first) /\ sidecar' = sidecar /\ Finish("error", 0)
      \/ /\ Retained(first) /\ sidecar' = sidecar
         /\ maint' = [maint EXCEPT !.pc = "plan", !.deleted = DeletedBy(first)]
      \/ /\ cluster_guard(first) /\ Retained(second)
         /\ \/ /\ maint' = [maint EXCEPT !.pc = "plan", !.deleted = DeletedBy(second)]
               /\ sidecar' = sidecar
            \/ /\ BackfillSidecar(second)
               /\ \E groups \in Rewrites(LiveRows(second)) :
                     maint' = [maint EXCEPT
                       !.pc = "cluster_rewrite", !.deleted = DeletedBy(second),
                       !.plan = [version |-> second.version, frags |-> second.frags,
                                 groups |-> groups, c |-> resolve_centroids(second),
                                 q |-> second.cfg.model]]
            \/ Finish("error", 0) /\ sidecar' = sidecar
  BY DEF ClusterPlan
<1> HIDE DEF first, second
<1>9. CASE Finish("error", 0) /\ UNCHANGED <<tableVars, maintGhosts>>
  BY <1>2, <1>9, FinishStep DEF tableVars, maintGhosts
<1>10. ASSUME NEW t, Moved(table, t), LiveRows(t) \subseteq LiveRows(table), Retained(t)
       PROVE  /\ Moved(table, table') /\ LiveRows(table') = kept' /\ kept' \subseteq Rows
              /\ DeletedBy(t) \in Nat /\ expired' = DeletedBy(t) /\ expired' \in Nat
              /\ dropped' = dropped /\ table' = t
  BY <1>1, <1>10, RetainedOK
<1>11. CASE Retained(first) /\ sidecar' = sidecar /\ Finish("skipped", DeletedBy(first))
  BY <1>2, <1>3, <1>10, <1>11, FinishStep
<1>12. ASSUME NEW t, Moved(table, t), LiveRows(t) \subseteq LiveRows(table), Retained(t),
              sidecar' = sidecar, maint' = [maint EXCEPT !.pc = "plan", !.deleted = DeletedBy(t)]
       PROVE  JobsInvariant'
  <2>1. /\ Moved(table, table') /\ LiveRows(table') = kept' /\ kept' \subseteq Rows
        /\ DeletedBy(t) \in Nat /\ expired' = DeletedBy(t) /\ expired' \in Nat /\ dropped' = dropped
    BY <1>10, <1>12
  <2>2. maint' \in MaintStates /\ maint'.pc = "plan" /\ maint'.deleted = DeletedBy(t)
    BY <1>2, <1>12, <2>1 DEF MaintStates, MaintPhases
  <2>3. DeletesOK' BY <2>1, <2>2 DEF DeletesOK, ReportedDeletes
  <2> QED BY <1>2, <1>12, <2>1, <2>2, <2>3, CalmStep DEF Calm
<1>13. CASE (Retained(first) \/ Retained(second)) /\ Finish("error", 0) /\ sidecar' = sidecar
  <2>1. PICK t : Moved(table, t) /\ LiveRows(t) \subseteq LiveRows(table) /\ Retained(t)
    BY <1>3, <1>7, <1>13
  <2>2. 0 \in Nat /\ 0 <= expired' BY <1>10, <2>1
  <2> QED BY <1>2, <1>10, <1>13, <2>1, <2>2, FinishStep
<1>14. ASSUME cluster_guard(first), Retained(second), BackfillSidecar(second),
              NEW groups \in Rewrites(LiveRows(second)),
              maint' = [maint EXCEPT
                       !.pc = "cluster_rewrite", !.deleted = DeletedBy(second),
                       !.plan = [version |-> second.version, frags |-> second.frags,
                                 groups |-> groups, c |-> resolve_centroids(second),
                                 q |-> second.cfg.model]]
       PROVE  JobsInvariant'
  <2> DEFINE c == resolve_centroids(second)
             plan == [version |-> second.version, frags |-> second.frags, groups |-> groups,
                      c |-> c, q |-> second.cfg.model]
  <2>1. /\ Moved(table, table') /\ LiveRows(table') = kept' /\ kept' \subseteq Rows
        /\ DeletedBy(second) \in Nat /\ expired' = DeletedBy(second) /\ expired' \in Nat /\ dropped' = dropped
        /\ table' = second
    BY <1>7, <1>10, <1>14
  <2>2. second.cfg = table.cfg /\ table.cfg # NoConfig /\ second.index # {}
    BY <1>2, <1>3, <1>4, <1>5, <1>14, MovedParts DEF cluster_guard
  <2>3. /\ second.index \in SUBSET Segments /\ second.version \in Nat /\ second.cfg \in Configs
        /\ second.frags \in FragmentMaps
    BY <1>6, TableParts DEF GoodTable, LanceTables
  <2>4. c \in Nat BY <2>2, <2>3, ResolvedOK
  <2>5. LiveRows(second) \in SUBSET Rows BY <1>6, RowsFinite
  <2>6. groups \in SUBSET SUBSET Rows /\ UNION groups = LiveRows(second) /\ IsFiniteSet(groups)
    <3>1. PICK a \in SUBSET LiveRows(second) : groups = {a, LiveRows(second) \ a} \ {{}}
      BY DEF Rewrites
    <3>2. IsFiniteSet({a} \cup {LiveRows(second) \ a}) BY FS_Singleton, FS_Union
    <3>3. groups \in SUBSET ({a} \cup {LiveRows(second) \ a}) BY <3>1
    <3>4. IsFiniteSet(groups) BY <3>2, <3>3, FS_Subset
    <3> QED BY <2>5, <3>1, <3>4
  <2> HIDE DEF c
  <2>7. plan \in Plans BY <2>3, <2>4, <2>6 DEF Plans, Configs
  <2>8. plan.groups = groups /\ plan.version = second.version /\ plan.c = c /\ plan.q = second.cfg.model
    OBVIOUS
  <2>9. maint' = [maint EXCEPT !.pc = "cluster_rewrite", !.deleted = DeletedBy(second), !.plan = plan]
    BY <1>14 DEF c
  <2> HIDE DEF plan
  <2>10. /\ maint' \in MaintStates /\ maint'.pc = "cluster_rewrite" /\ maint'.deleted = DeletedBy(second)
         /\ maint'.plan = plan
    BY <1>2, <2>1, <2>7, <2>9 DEF MaintStates, MaintPhases
  <2>11. sidecar' = sidecar \/ sidecar' = [sidecar EXCEPT ![table.cfg.rows_at_train] = c]
    BY <1>14, <2>2 DEF BackfillSidecar, c
  <2>12. sidecar \in [1 .. Cardinality(Rows) -> Nat] BY DEF JobsInvariant, JobsTypes
  <2>13. sidecar' \in [1 .. Cardinality(Rows) -> Nat] BY <2>4, <2>11, <2>12
  <2>14. /\ GoodTable(table') /\ Follows(table, table') /\ table'.stamp = table.stamp
         /\ table'.cfg = table.cfg /\ \A m : Uniform(table.index, m) => Uniform(table'.index, m)
    BY <1>2, <2>1, MovedParts
  <2>15. JobsTypes' BY <1>2, <2>1, <2>10, <2>13, <2>14 DEF JobsInvariant, JobsTypes, indexVars
  <2>16. RowsOK' BY <2>1, <2>3, <2>6, <2>8, <2>10 DEF RowsOK
  <2>17. DeletesOK' BY <2>1, <2>10 DEF DeletesOK, ReportedDeletes
  <2>18. StampOK' BY <2>1, <2>14, StampMoved
  <2>19. RebuildOK' BY <2>10 DEF RebuildOK, Rebuilding
  <2>20. CoverOK' /\ KindOK' /\ ConfigOK' BY <2>14, IndexMoved
  <2>21. ASSUME ~ torn
         PROVE  /\ Uniform(table'.index, table.cfg.model) /\ c = table.cfg.model
                /\ sidecar'[table.cfg.rows_at_train] \in {0, table.cfg.model}
    <3>1. Uniform(table.index, table.cfg.model) /\ sidecar[table.cfg.rows_at_train] \in {0, table.cfg.model}
      BY <1>2, <2>2, <2>21 DEF JobsInvariant, ModelOK, CurrentModel
    <3>2. Uniform(table'.index, table.cfg.model) BY <2>14, <3>1
    <3>3. c = table.cfg.model BY <2>1, <2>2, <2>3, <3>1, <3>2, ResolvedOK DEF c
    <3> QED BY <2>11, <2>12, <3>1, <3>2, <3>3
  <2>22. CurrentModel' = table.cfg.model BY <1>2, <2>2, <2>14 DEF CurrentModel, indexVars
  <2>23. ModelOK' BY <1>2, <2>14, <2>21, <2>22 DEF ModelOK, indexVars
  <2>24. RebuildModelOK'
    BY <2>2, <2>8, <2>10, <2>14, <2>21 DEF RebuildModelOK, indexVars
  <2> QED BY <2>15, <2>16, <2>17, <2>18, <2>19, <2>20, <2>23, <2>24 DEF JobsInvariant
<1> QED BY <1>3, <1>7, <1>8, <1>9, <1>11, <1>12, <1>13, <1>14

(* The rewrite itself changes nothing but the phase.                       *)
LEMMA ClusterRewriteStep ==
  ASSUME JobsInvariant, ClusterRewrite, UNCHANGED indexVars
  PROVE  JobsInvariant'
<1>1. maint.pc = "cluster_rewrite" BY DEF ClusterRewrite, MaintTurn
<1>2. /\ indexer.pc \in {"idle", "done"} /\ maint \in MaintStates /\ maint.deleted = expired
      /\ expired \in Nat /\ GoodTable(table) /\ Moved(table, table)
      /\ LiveRows(table) = kept /\ kept \subseteq Rows
  BY <1>1, MaintAlone
<1>3. UNCHANGED <<table, kept, sidecar, expired, dropped>> BY DEF ClusterRewrite, tableVars, maintGhosts
<1>4. CASE Finish("error", 0)
  BY <1>2, <1>3, <1>4, FinishStep
<1>5. CASE maint' = [maint EXCEPT !.pc = "cluster_commit"]
  <2>1. /\ maint' \in MaintStates /\ maint'.pc = "cluster_commit" /\ maint'.deleted = maint.deleted
        /\ maint'.plan = maint.plan
    BY <1>2, <1>5 DEF MaintStates, MaintPhases
  <2>2. JobsTypes' BY <1>2, <1>3, <2>1 DEF JobsInvariant, JobsTypes, indexVars
  <2>3. RowsOK' BY <1>1, <1>3, <2>1 DEF JobsInvariant, RowsOK, LiveRows
  <2>4. DeletesOK' BY <1>2, <1>3, <2>1 DEF DeletesOK, ReportedDeletes
  <2>5. GoodTable(table') /\ Follows(table, table') /\ table'.stamp = table.stamp /\ table'.cfg = table.cfg
    BY <1>2, <1>3, MovedParts
  <2>6. StampOK' BY <1>3, <2>5, StampMoved
  <2>7. CoverOK' /\ KindOK' /\ ConfigOK' BY <2>5, IndexMoved
  <2>8. ModelOK' BY <1>2, <1>3, ModelMoved
  <2>9. RebuildOK' BY <2>1 DEF RebuildOK, Rebuilding
  <2>10. RebuildModelOK' BY <1>1, <1>3, <2>1 DEF JobsInvariant, RebuildModelOK, indexVars
  <2> QED BY <2>2, <2>3, <2>4, <2>6, <2>7, <2>8, <2>9, <2>10 DEF JobsInvariant
<1> QED BY <1>4, <1>5 DEF ClusterRewrite

(* commit_cluster_data: the overwrite holds the rows of the latest version.*)
LEMMA ClusterCommitStep ==
  ASSUME JobsInvariant, ClusterCommit, UNCHANGED indexVars
  PROVE  JobsInvariant'
<1>1. maint.pc = "cluster_commit" BY DEF ClusterCommit, MaintTurn
<1>2. /\ indexer.pc \in {"idle", "done"} /\ maint \in MaintStates /\ maint.deleted = expired
      /\ expired \in Nat /\ GoodTable(table) /\ Moved(table, table)
      /\ LiveRows(table) = kept /\ kept \subseteq Rows
  BY <1>1, MaintAlone
<1>3. UNCHANGED <<kept, sidecar, expired, dropped>> BY DEF ClusterCommit, tableVars, maintGhosts
<1>4. CASE Finish("error", 0) /\ UNCHANGED tableVars
  BY <1>2, <1>3, <1>4, FinishStep DEF tableVars
<1>5. ASSUME planned_version_current, table' = Overwritten(table, maint.plan.groups),
             NEW stamp \in {NoStamp, Fingerprint(table')},
             maint' = [maint EXCEPT !.pc = "cluster_build", !.stamp = stamp]
      PROVE  JobsInvariant'
  <2>1. /\ IsFiniteSet(maint.plan.groups) /\ UNION maint.plan.groups = kept
        /\ maint.plan.groups \in SUBSET SUBSET Rows
    BY <1>1, <1>2, <1>5 DEF JobsInvariant, RowsOK, planned_version_current, MaintStates, Plans
  <2>2. /\ Rewritten(table, table') /\ LiveRows(table') = kept
        /\ \A f \in DOMAIN table'.frags : f >= table.nextId /\ table'.frags[f].clustered
    BY <1>2, <1>5, <2>1, OverwrittenOK
  <2>3. Moved(table, table') BY <2>2 DEF Moved
  <2>4. GoodTable(table') /\ Follows(table, table') /\ table'.stamp = table.stamp /\ table'.cfg = table.cfg
    BY <1>2, <2>3, MovedParts
  <2>5. stamp \in Stamps /\ stamp.ids \subseteq DOMAIN table'.frags
    <3>1. count_rows(table') \in Int /\ DOMAIN table'.frags \subseteq Nat
      BY <2>4, RowsFinite, TableParts, FS_CardinalityType, TableAssumption DEF TableAssumption
    <3> QED BY <3>1 DEF NoStamp, Fingerprint, Stamps
  <2>6. /\ maint' \in MaintStates /\ maint'.pc = "cluster_build" /\ maint'.deleted = maint.deleted
        /\ maint'.plan = maint.plan /\ maint'.stamp = stamp
    BY <1>2, <1>5, <2>5 DEF MaintStates, MaintPhases
  <2>7. JobsTypes' BY <1>2, <1>3, <2>4, <2>6 DEF JobsInvariant, JobsTypes, indexVars
  <2>8. RowsOK' BY <1>3, <2>2, <2>6 DEF RowsOK
  <2>9. DeletesOK' BY <1>2, <1>3, <2>6 DEF DeletesOK, ReportedDeletes
  <2>10. StampOK' BY <1>3, <2>4, StampMoved
  <2>11. CoverOK' /\ KindOK' /\ ConfigOK' BY <2>4, IndexMoved
  <2>12. ModelOK' BY <1>2, <1>3, <2>3, ModelMoved
  <2>13. table'.stamp.ids \cap DOMAIN table'.frags = {}
    <3>1. \A f \in table.stamp.ids : f < table.nextId /\ f \in Nat /\ table.nextId \in Nat
      BY <1>2, TableParts DEF JobsInvariant, StampOK, Old, Stamps
    <3> QED BY <2>2, <2>4, <3>1
  <2>14. Old(table', stamp.ids) /\ AllClustered(table', stamp.ids)
    BY <2>2, <2>4, <2>5 DEF Old, AllClustered, GoodTable
  <2>15. RebuildOK' BY <2>6, <2>13, <2>14 DEF RebuildOK, Rebuilding
  <2>16. RebuildModelOK' BY <1>1, <2>4, <2>6 DEF JobsInvariant, RebuildModelOK, indexVars
  <2> QED BY <2>7, <2>8, <2>9, <2>10, <2>11, <2>12, <2>15, <2>16 DEF JobsInvariant
<1> QED BY <1>4, <1>5 DEF ClusterCommit

\* One segment per shard.
Built(shards, c, q) == {Segment(shard, c, q) : shard \in shards}

(* The segments built over shards are over their fragments.                *)
LEMMA SegmentsBuilt ==
  ASSUME NEW shards, \A shard \in shards : shard \in SUBSET Nat, NEW c \in Nat, NEW q \in Nat
  PROVE  /\ Built(shards, c, q) \in SUBSET Segments /\ Over(Built(shards, c, q)) = UNION shards
         /\ \A m : c = m /\ q = m => Uniform(Built(shards, c, q), m)
<1> DEFINE built == {Segment(shard, c, q) : shard \in shards}
<1>1. built \in SUBSET Segments BY DEF Segment, Segments
<1>2. \A m : c = m /\ q = m => Uniform(built, m) BY DEF Uniform, Segment
<1>3. ASSUME NEW x, x \in Over(built) PROVE x \in UNION shards
  <2>1. PICK s \in built : x \in s.over BY <1>3 DEF Over
  <2>2. PICK shard \in shards : s = Segment(shard, c, q) BY <2>1
  <2> QED BY <2>1, <2>2 DEF Segment
<1>4. ASSUME NEW shard \in shards, NEW x \in shard PROVE x \in Over(built)
  <2>1. Segment(shard, c, q) \in built /\ Segment(shard, c, q).over = shard BY DEF Segment
  <2> HIDE DEF built
  <2> QED BY <2>1 DEF Over
<1> HIDE DEF built
<1>5. Over(built) = UNION shards BY <1>3, <1>4
<1> QED BY <1>1, <1>2, <1>5 DEF built, Built

(* The rebuild reads the latest version and commits nothing.               *)
LEMMA ClusterBuildStep ==
  ASSUME JobsInvariant, ClusterBuild, UNCHANGED indexVars
  PROVE  JobsInvariant'
<1> DEFINE shards == split_evenly(DOMAIN table.frags, CLUSTER_READ_SHARDS)
           built == {Segment(shard, maint.plan.c, maint.plan.q) : shard \in shards}
<1>1. maint.pc = "cluster_build" BY DEF ClusterBuild, MaintTurn
<1>2. /\ indexer.pc \in {"idle", "done"} /\ maint \in MaintStates /\ maint.deleted = expired
      /\ expired \in Nat /\ GoodTable(table) /\ Moved(table, table)
      /\ LiveRows(table) = kept /\ kept \subseteq Rows
  BY <1>1, MaintAlone
<1>3. UNCHANGED <<table, kept, sidecar, expired, dropped>> BY DEF ClusterBuild, tableVars, maintGhosts
<1>4. CASE Finish("error", maint.deleted)
  BY <1>2, <1>3, <1>4, FinishStep
<1>5. CASE maint' = [maint EXCEPT !.pc = "cluster_prepare", !.segments = built]
  <2>1. IsFiniteSet(DOMAIN table.frags) /\ DOMAIN table.frags \in SUBSET Nat
    BY <1>2, TableParts, FS_BoundedSetOfNaturals DEF GoodTable
  <2>2. UNION shards = DOMAIN table.frags /\ \A shard \in shards : shard \in SUBSET Nat
    BY <2>1, DealtOut, ReplanAssumption DEF ReplanAssumption
  <2> HIDE DEF shards
  <2>3. maint.plan.c \in Nat /\ maint.plan.q \in Nat BY <1>2 DEF MaintStates, Plans
  <2>4. /\ built \in SUBSET Segments /\ Over(built) = DOMAIN table.frags
        /\ \A m : maint.plan.c = m /\ maint.plan.q = m => Uniform(built, m)
    <3>1. built = Built(shards, maint.plan.c, maint.plan.q) BY DEF Built
    <3> HIDE DEF built
    <3>2. \A shard \in shards : shard \in SUBSET Nat BY <2>2
    <3> DEFINE c == maint.plan.c
               q == maint.plan.q
               b == Built(shards, c, q)
    <3>3. c \in Nat /\ q \in Nat BY <2>3
    <3> HIDE DEF c, q
    <3>4. b \in SUBSET Segments /\ Over(b) = UNION shards /\ \A m : c = m /\ q = m => Uniform(b, m)
      BY <3>2, <3>3, SegmentsBuilt
    <3> QED BY <2>2, <3>1, <3>4 DEF c, q
  <2> HIDE DEF built
  <2>5. /\ maint' \in MaintStates /\ maint'.pc = "cluster_prepare" /\ maint'.deleted = maint.deleted
        /\ maint'.segments = built /\ maint'.stamp = maint.stamp
    BY <1>2, <1>5, <2>4 DEF MaintStates, MaintPhases
  <2>6. JobsTypes' BY <1>2, <1>3, <2>5 DEF JobsInvariant, JobsTypes, indexVars
  <2>7. RowsOK' BY <1>2, <1>3, <2>5 DEF RowsOK
  <2>8. DeletesOK' BY <1>2, <1>3, <2>5 DEF DeletesOK, ReportedDeletes
  <2>9. GoodTable(table') /\ Follows(table, table') /\ table'.stamp = table.stamp /\ table'.cfg = table.cfg
    BY <1>2, <1>3, MovedParts
  <2>10. StampOK' BY <1>3, <2>9, StampMoved
  <2>11. CoverOK' /\ KindOK' /\ ConfigOK' BY <2>9, IndexMoved
  <2>12. ModelOK' BY <1>2, <1>3, ModelMoved
  <2>13. RebuildOK'
    <3>1. CoveredBut(table, maint.stamp.ids, Over(built)) BY <2>4 DEF CoveredBut
    <3> QED BY <1>1, <1>3, <2>5, <3>1 DEF JobsInvariant, RebuildOK, Rebuilding
  <2>14. RebuildModelOK' BY <1>1, <1>3, <2>4, <2>5 DEF JobsInvariant, RebuildModelOK, indexVars
  <2> QED BY <2>6, <2>7, <2>8, <2>10, <2>11, <2>12, <2>13, <2>14 DEF JobsInvariant
<1> QED BY <1>4, <1>5 DEF ClusterBuild

(* commit_segments before its commit: what a rebuild drops.                *)
LEMMA ClusterPrepareStep ==
  ASSUME JobsInvariant, ClusterPrepare, UNCHANGED indexVars
  PROVE  JobsInvariant'
<1> DEFINE fresh == fresh_segments(table, maint.segments)
           pc == IF fresh = {} THEN "cluster_verify" ELSE "cluster_index"
<1>1. maint.pc = "cluster_prepare" BY DEF ClusterPrepare, MaintTurn
<1>2. /\ indexer.pc \in {"idle", "done"} /\ maint \in MaintStates /\ maint.deleted = expired
      /\ expired \in Nat /\ GoodTable(table) /\ Moved(table, table)
      /\ LiveRows(table) = kept /\ kept \subseteq Rows
  BY <1>1, MaintAlone
<1>3. UNCHANGED <<table, kept, sidecar, expired>> BY DEF ClusterPrepare, tableVars
<1>a. CASE Finish("error", maint.deleted) /\ UNCHANGED dropped
  BY <1>a, <1>2, <1>3, FinishStep
<1> SUFFICES ASSUME maint' = [maint EXCEPT !.pc = pc, !.segments = merge_segments(fresh)],
                    dropped' = UNION {s.over : s \in maint.segments \ fresh}
             PROVE  JobsInvariant'
  BY <1>a DEF ClusterPrepare
<1>4. /\ maint' = [maint EXCEPT !.pc = pc, !.segments = merge_segments(fresh)]
      /\ dropped' = UNION {s.over : s \in maint.segments \ fresh}
  OBVIOUS
<1>5. fresh \in SUBSET Segments /\ fresh \subseteq maint.segments
  BY <1>2 DEF fresh_segments, MaintStates
<1> HIDE DEF fresh
<1>6. /\ merge_segments(fresh) \in SUBSET Segments /\ Over(merge_segments(fresh)) = Over(fresh)
      /\ \A m : Uniform(fresh, m) => Uniform(merge_segments(fresh), m)
  BY <1>5, Merged
<1>7. /\ maint' \in MaintStates /\ maint'.pc = pc /\ maint'.deleted = maint.deleted
      /\ maint'.segments = merge_segments(fresh) /\ maint'.stamp = maint.stamp
  BY <1>2, <1>4, <1>6 DEF MaintStates, MaintPhases
<1>8. dropped' \subseteq Nat /\ Over(maint.segments) \subseteq Over(fresh) \cup dropped'
  BY <1>2, <1>4 DEF MaintStates, Segments, Over
<1>9. JobsTypes' BY <1>2, <1>3, <1>7, <1>8 DEF JobsInvariant, JobsTypes, indexVars
<1>10. RowsOK' BY <1>2, <1>3, <1>7 DEF RowsOK
<1>11. DeletesOK' BY <1>2, <1>3, <1>7 DEF DeletesOK, ReportedDeletes
<1>12. GoodTable(table') /\ Follows(table, table') /\ table'.stamp = table.stamp /\ table'.cfg = table.cfg
  BY <1>2, <1>3, MovedParts
<1>13. /\ table.stamp.ids \cap DOMAIN table.frags = {}
       /\ Old(table, maint.stamp.ids) /\ AllClustered(table, maint.stamp.ids)
       /\ CoveredBut(table, maint.stamp.ids, Over(maint.segments))
  BY <1>1 DEF JobsInvariant, RebuildOK, Rebuilding
<1>14. StampOK'
  <2>1. CoveredBut(table, table.stamp.ids, dropped') BY <1>13 DEF CoveredBut
  <2> QED BY <1>3, <2>1 DEF JobsInvariant, StampOK
<1>15. CoverOK' /\ KindOK' /\ ConfigOK' BY <1>12, IndexMoved
<1>16. ModelOK' BY <1>2, <1>3, ModelMoved
<1>17. RebuildOK'
  <2>1. /\ CoveredBut(table, maint.stamp.ids, Over(merge_segments(fresh)) \cup dropped')
        /\ fresh = {} => CoveredBut(table, maint.stamp.ids, dropped')
    <3>1. CoveredBut(table, maint.stamp.ids, Over(fresh) \cup dropped') BY <1>8, <1>13 DEF CoveredBut
    <3>2. fresh = {} => Over(fresh) = {} BY DEF Over
    <3> QED BY <1>6, <3>1, <3>2
  <2> QED BY <1>3, <1>7, <1>8, <1>13, <2>1 DEF RebuildOK, Rebuilding
<1>18. RebuildModelOK'
  <2>1. table.cfg # NoConfig /\ (~ torn => Uniform(fresh, table.cfg.model))
    BY <1>1, <1>5 DEF JobsInvariant, RebuildModelOK, Uniform
  <2> QED BY <1>3, <1>6, <1>7, <2>1 DEF RebuildModelOK, indexVars
<1> QED BY <1>9, <1>10, <1>11, <1>14, <1>15, <1>16, <1>17, <1>18 DEF JobsInvariant

(* The segments that Lance accepts carry the model of the index.           *)
LEMMA SegmentsCommitted ==
  ASSUME JobsInvariant, NEW segments \in SUBSET Segments, ~ would_orphan(table, segments),
         table' = WithSegments(table, segments),
         ~ torn => Uniform(segments, CurrentModel)
  PROVE  /\ GoodTable(table') /\ Follows(table, table') /\ table'.stamp = table.stamp
         /\ table'.cfg = table.cfg /\ table'.frags = table.frags /\ LiveRows(table') = LiveRows(table)
         /\ Over(segments) \subseteq Covered(table') /\ Covered(table) \subseteq Covered(table')
         /\ ~ torn => Uniform(table'.index, CurrentModel)
<1>1. GoodTable(table) BY DEF JobsInvariant, JobsTypes
<1>2. /\ GoodTable(table') /\ Follows(table, table') /\ table'.stamp = table.stamp
      /\ table'.cfg = table.cfg /\ table'.frags = table.frags
      /\ table'.index \subseteq table.index \cup segments
      /\ Over(segments) \subseteq Covered(table') /\ Covered(table) \subseteq Covered(table')
  BY <1>1, WithSegmentsOK
<1>3. ~ torn => Uniform(table'.index, CurrentModel)
  BY <1>2 DEF JobsInvariant, ModelOK, Uniform
<1> QED BY <1>2, <1>3 DEF LiveRows

(* commit_segments of the rebuild keeps the invariant.                     *)
LEMMA ClusterIndexStep ==
  ASSUME JobsInvariant, ClusterIndex, UNCHANGED indexVars
  PROVE  JobsInvariant'
<1>1. maint.pc = "cluster_index" BY DEF ClusterIndex, MaintTurn
<1>2. /\ indexer.pc \in {"idle", "done"} /\ maint \in MaintStates /\ maint.deleted = expired
      /\ expired \in Nat /\ GoodTable(table) /\ Moved(table, table)
      /\ LiveRows(table) = kept /\ kept \subseteq Rows
  BY <1>1, MaintAlone
<1>3. UNCHANGED <<kept, sidecar, expired, dropped>> BY DEF ClusterIndex, maintGhosts
<1>4. CASE Finish("error", maint.deleted) /\ table' = table
  BY <1>2, <1>3, <1>4, FinishStep
<1>5. ASSUME ~ would_orphan(table, maint.segments), table' = WithSegments(table, maint.segments),
             maint' = [maint EXCEPT !.pc = "cluster_verify", !.segments = {}]
      PROVE  JobsInvariant'
  <2>1. maint.segments \in SUBSET Segments BY <1>2 DEF MaintStates
  <2>2. table.cfg # NoConfig /\ CurrentModel = table.cfg.model
    BY <1>1, <1>2 DEF JobsInvariant, RebuildModelOK, CurrentModel
  <2>3. ~ torn => Uniform(maint.segments, CurrentModel)
    BY <1>1, <2>2 DEF JobsInvariant, RebuildModelOK
  <2>4. /\ GoodTable(table') /\ Follows(table, table') /\ table'.stamp = table.stamp
        /\ table'.cfg = table.cfg /\ table'.frags = table.frags /\ LiveRows(table') = LiveRows(table)
        /\ Over(maint.segments) \subseteq Covered(table') /\ Covered(table) \subseteq Covered(table')
        /\ ~ torn => Uniform(table'.index, CurrentModel)
    BY <1>5, <2>1, <2>3, SegmentsCommitted
  <2>5. /\ maint' \in MaintStates /\ maint'.pc = "cluster_verify" /\ maint'.deleted = maint.deleted
        /\ maint'.stamp = maint.stamp
    BY <1>2, <1>5 DEF MaintStates, MaintPhases
  <2>6. JobsTypes' BY <1>2, <1>3, <2>4, <2>5 DEF JobsInvariant, JobsTypes, indexVars
  <2>7. RowsOK' BY <1>2, <1>3, <2>4, <2>5 DEF RowsOK
  <2>8. DeletesOK' BY <1>2, <1>3, <2>5 DEF DeletesOK, ReportedDeletes
  <2>9. StampOK' BY <1>3, <2>4, StampMoved
  <2>10. CoverOK' /\ KindOK' /\ ConfigOK' BY <2>4, IndexMoved
  <2>11. ModelOK'
    <3>1. CurrentModel' = CurrentModel BY <2>4 DEF CurrentModel, indexVars
    <3> QED BY <1>2, <1>3, <2>4, <3>1 DEF JobsInvariant, ModelOK, indexVars
  <2>12. RebuildOK'
    <3>1. /\ table.stamp.ids \cap DOMAIN table.frags = {}
          /\ Old(table, maint.stamp.ids) /\ AllClustered(table, maint.stamp.ids)
          /\ CoveredBut(table, maint.stamp.ids, Over(maint.segments) \cup dropped)
      BY <1>1 DEF JobsInvariant, RebuildOK, Rebuilding
    <3>2. CoveredBut(table', maint.stamp.ids, dropped) BY <2>4, <3>1 DEF CoveredBut
    <3>3. maint.stamp.ids \in SUBSET Nat BY <1>2 DEF MaintStates, Stamps
    <3>4. Old(table', maint.stamp.ids) /\ AllClustered(table', maint.stamp.ids)
      BY <1>2, <2>4, <3>1, <3>3, OldKept
    <3> QED BY <1>3, <2>4, <2>5, <3>1, <3>2, <3>4 DEF RebuildOK, Rebuilding
  <2>13. RebuildModelOK' BY <2>5 DEF RebuildModelOK
  <2> QED BY <2>6, <2>7, <2>8, <2>9, <2>10, <2>11, <2>12, <2>13 DEF JobsInvariant
<1> QED BY <1>4, <1>5 DEF ClusterIndex

(* stamp_cluster_generation, before its commit, keeps the invariant.       *)
LEMMA ClusterVerifyStep ==
  ASSUME JobsInvariant, ClusterVerify, UNCHANGED indexVars
  PROVE  JobsInvariant'
<1>1. maint.pc = "cluster_verify" BY DEF ClusterVerify, MaintTurn
<1>2. /\ indexer.pc \in {"idle", "done"} /\ maint \in MaintStates /\ maint.deleted = expired
      /\ expired \in Nat /\ GoodTable(table) /\ Moved(table, table)
      /\ LiveRows(table) = kept /\ kept \subseteq Rows
  BY <1>1, MaintAlone
<1>3. UNCHANGED <<table, kept, sidecar, expired, dropped>> BY DEF ClusterVerify, tableVars, maintGhosts
<1>4. CASE Finish("error", maint.deleted)
  BY <1>2, <1>3, <1>4, FinishStep
<1>5. ASSUME stamp_expected, maint' = [maint EXCEPT !.pc = "cluster_stamp", !.stamp = Fingerprint(table)]
      PROVE  JobsInvariant'
  <2>1. maint' = [maint EXCEPT !.pc = "cluster_stamp", !.stamp = maint.stamp] BY <1>5 DEF stamp_expected
  <2>2. /\ maint' \in MaintStates /\ maint'.pc = "cluster_stamp" /\ maint'.deleted = maint.deleted
        /\ maint'.stamp = maint.stamp
    BY <1>2, <2>1 DEF MaintStates, MaintPhases
  <2>3. JobsTypes' BY <1>2, <1>3, <2>2 DEF JobsInvariant, JobsTypes, indexVars
  <2>4. RowsOK' BY <1>2, <1>3, <2>2 DEF RowsOK
  <2>5. DeletesOK' BY <1>2, <1>3, <2>2 DEF DeletesOK, ReportedDeletes
  <2>6. GoodTable(table') /\ Follows(table, table') /\ table'.stamp = table.stamp /\ table'.cfg = table.cfg
    BY <1>2, <1>3, MovedParts
  <2>7. StampOK' BY <1>3, <2>6, StampMoved
  <2>8. CoverOK' /\ KindOK' /\ ConfigOK' BY <2>6, IndexMoved
  <2>9. ModelOK' BY <1>2, <1>3, ModelMoved
  <2>10. RebuildOK' BY <1>1, <1>3, <2>2 DEF JobsInvariant, RebuildOK, Rebuilding
  <2>11. RebuildModelOK' BY <2>2 DEF RebuildModelOK
  <2> QED BY <2>3, <2>4, <2>5, <2>7, <2>8, <2>9, <2>10, <2>11 DEF JobsInvariant
<1> QED BY <1>4, <1>5 DEF ClusterVerify

(* The stamp names what the rewrite committed, and that alone.             *)
LEMMA ClusterStampStep ==
  ASSUME JobsInvariant, ClusterStamp, UNCHANGED indexVars
  PROVE  JobsInvariant'
<1>1. maint.pc = "cluster_stamp" BY DEF ClusterStamp, MaintTurn
<1>2. /\ indexer.pc \in {"idle", "done"} /\ maint \in MaintStates /\ maint.deleted = expired
      /\ expired \in Nat /\ GoodTable(table) /\ Moved(table, table)
      /\ LiveRows(table) = kept /\ kept \subseteq Rows
  BY <1>1, MaintAlone
<1>3. UNCHANGED <<kept, sidecar, expired, dropped>> BY DEF ClusterStamp, maintGhosts
<1>a. CASE Finish("error", maint.deleted) /\ table' = table
  BY <1>a, <1>2, <1>3, FinishStep
<1>b. CASE maint' = [maint EXCEPT !.pc = "cluster_verify"] /\ table' = table
  <2>2. /\ maint' \in MaintStates /\ maint'.pc = "cluster_verify" /\ maint'.deleted = maint.deleted
        /\ maint'.stamp = maint.stamp
    BY <1>2, <1>b DEF MaintStates, MaintPhases
  <2>3. JobsTypes' BY <1>2, <1>3, <1>b, <2>2 DEF JobsInvariant, JobsTypes, indexVars
  <2>4. RowsOK' BY <1>2, <1>3, <1>b, <2>2 DEF RowsOK
  <2>5. DeletesOK' BY <1>2, <1>3, <2>2 DEF DeletesOK, ReportedDeletes
  <2>6. GoodTable(table') /\ Follows(table, table') /\ table'.stamp = table.stamp /\ table'.cfg = table.cfg
    BY <1>2, <1>b, MovedParts
  <2>7. StampOK' BY <1>3, <2>6, StampMoved
  <2>8. CoverOK' /\ KindOK' /\ ConfigOK' BY <2>6, IndexMoved
  <2>9. ModelOK' BY <1>2, <1>3, <1>b, ModelMoved
  <2>10. RebuildOK' BY <1>1, <1>3, <1>b, <2>2 DEF JobsInvariant, RebuildOK, Rebuilding
  <2>11. RebuildModelOK' BY <2>2 DEF RebuildModelOK
  <2> QED BY <2>3, <2>4, <2>5, <2>7, <2>8, <2>9, <2>10, <2>11 DEF JobsInvariant
<1> SUFFICES ASSUME table' = [table EXCEPT !.version = table.version + 1, !.stamp = maint.stamp],
                    Finish("clustered", maint.deleted) \/ Finish("error", 0)
             PROVE  JobsInvariant'
  BY <1>a, <1>b DEF ClusterStamp
<1>4. maint.stamp \in Stamps BY <1>2 DEF MaintStates
<1>5. table' = [table EXCEPT !.version = table.version + 1, !.stamp = maint.stamp] OBVIOUS
<1>6. /\ table' \in LanceTables /\ table'.frags = table.frags /\ table'.index = table.index
      /\ table'.nextId = table.nextId /\ table'.cfg = table.cfg /\ table'.stamp = maint.stamp
  <2>1. table \in LanceTables BY <1>2 DEF GoodTable
  <2>2. [table EXCEPT !.version = table.version + 1] \in LanceTables BY <2>1 DEF LanceTables
  <2> QED BY <1>4, <1>5, <2>1, <2>2 DEF LanceTables
<1>7. GoodTable(table') /\ Follows(table, table') /\ LiveRows(table') = LiveRows(table)
  BY <1>2, <1>6, TableParts DEF GoodTable, Follows, Covered, LiveRows
<1>8. PICK d \in {0, maint.deleted}, r \in {"clustered", "error"} :
        /\ maint' = [pc |-> "done", cluster |-> FALSE, retention |-> "off", round |-> 0, plan |-> NoPlan,
                     deleted |-> d, misconfigured |-> FALSE, segments |-> {},
                     stamp |-> NoStamp, result |-> r]
        /\ r = "clustered" => d = maint.deleted
  <2>1. CASE Finish("clustered", maint.deleted) BY <2>1 DEF Finish, MaintIdle
  <2>2. CASE Finish("error", 0) BY <2>2 DEF Finish, MaintIdle
  <2> QED BY <2>1, <2>2
<1>9. NoPlan \in Plans /\ NoStamp \in Stamps BY DEF NoPlan, Plans, NoStamp, Stamps
<1>10. /\ maint' \in MaintStates /\ maint'.pc = "done" /\ maint'.deleted = d
       /\ maint'.result = r
  BY <1>2, <1>8, <1>9 DEF MaintStates, MaintPhases
<1>11. JobsTypes' BY <1>2, <1>3, <1>7, <1>10 DEF JobsInvariant, JobsTypes, indexVars
<1>12. RowsOK' BY <1>2, <1>3, <1>7, <1>10 DEF RowsOK
<1>13. DeletesOK' BY <1>2, <1>3, <1>8, <1>10 DEF DeletesOK, ReportedDeletes
<1>14. StampOK'
  BY <1>1, <1>3, <1>6 DEF JobsInvariant, RebuildOK, Rebuilding, StampOK, Old, AllClustered, CoveredBut, Covered
<1>15. CoverOK' /\ KindOK' /\ ConfigOK' BY <1>2, <1>6, <1>7, IndexMoved
<1>16. ModelOK'
  <2>1. CurrentModel' = CurrentModel BY <1>6 DEF CurrentModel, indexVars
  <2> QED BY <1>3, <1>6, <2>1 DEF JobsInvariant, ModelOK, indexVars
<1>17. RebuildOK' /\ RebuildModelOK' BY <1>10 DEF RebuildOK, RebuildModelOK, Rebuilding
<1> QED BY <1>11, <1>12, <1>13, <1>14, <1>15, <1>16, <1>17 DEF JobsInvariant

(* Every step of a maintenance run keeps the invariant.                    *)
LEMMA MaintKeepsInvariant ==
  ASSUME JobsInvariant, MaintStep, UNCHANGED <<indexVars, runs>>
  PROVE  JobsInvariant'
  BY RoundPlanStep, RoundEndStep, ClusterPlanStep, ClusterRewriteStep, ClusterCommitStep,
     ClusterBuildStep, ClusterPrepareStep, ClusterIndexStep, ClusterVerifyStep, ClusterStampStep
  DEF MaintStep, RoundStep, ClusterStep, ClusterRebuild

-------------------------------------------------------------------------------
(* The indexing run.                                                       *)

(* The indexing run is the only job while it runs.                         *)
LEMMA IndexAlone ==
  ASSUME JobsInvariant, indexer.pc \notin {"idle", "done"}
  PROVE  /\ maint.pc \in {"idle", "done"} /\ indexer \in IndexStates /\ IsFiniteSet(indexer.targets)
         /\ GoodTable(table) /\ LiveRows(table) = kept /\ kind \in {"vector", "btree", "fts"}
         /\ Follows(table, table) /\ trained \in Nat /\ torn \in BOOLEAN
         /\ indexer.pin.frags \in SUBSET Nat /\ Old(table, indexer.pin.frags)
<1>1. GoodTable(table) BY DEF JobsInvariant, JobsTypes
<1>2. Follows(table, table) BY <1>1, MovedParts DEF Moved
<1> QED BY <1>1, <1>2 DEF JobsInvariant, JobsTypes, RowsOK, CoverOK, IndexStates, Pins

(* What an indexing step leaves alone.                                     *)
LEMMA IndexFrame ==
  ASSUME JobsInvariant, indexer.pc \notin {"idle", "done"}, UNCHANGED <<maintVars, kept, kind>>,
         GoodTable(table'), table'.frags = table.frags, sidecar' \in [1 .. Cardinality(Rows) -> Nat],
         indexer' \in IndexStates, IsFiniteSet(indexer'.targets), trained' \in Nat, torn' \in BOOLEAN,
         StampOK', CoverOK', KindOK', ConfigOK', ModelOK'
  PROVE  JobsInvariant'
<1>1. maint.pc \in {"idle", "done"} /\ LiveRows(table) = kept BY IndexAlone
<1>2. JobsTypes' BY <1>1 DEF JobsInvariant, JobsTypes, maintVars, maintGhosts
<1>3. RowsOK' BY <1>1 DEF RowsOK, LiveRows, maintVars
<1>4. DeletesOK' BY DEF JobsInvariant, DeletesOK, ReportedDeletes, maintVars, maintGhosts
<1>5. RebuildOK' /\ RebuildModelOK' BY <1>1 DEF RebuildOK, RebuildModelOK, Rebuilding, maintVars
<1> QED BY <1>2, <1>3, <1>4, <1>5 DEF JobsInvariant

(* A step that ends the round or the run without success.                  *)
LEMMA IndexQuiet ==
  ASSUME JobsInvariant, indexer.pc \notin {"idle", "done", "write_config", "persist_centroids"},
         indexer' \in IndexStates, IsFiniteSet(indexer'.targets),
         indexer'.pin.frags = indexer.pin.frags, indexer'.pc \in {"plan", "done"},
         indexer'.pc = "done" => indexer'.result # "built",
         GoodTable(table'), Follows(table, table'), table'.frags = table.frags,
         table'.stamp = table.stamp, table'.cfg = table.cfg,
         ~ torn => Uniform(table'.index, CurrentModel),
         UNCHANGED <<maintVars, kept, sidecar, kind, trained, torn>>
  PROVE  JobsInvariant'
<1>1. /\ indexer.pin.frags \in SUBSET Nat /\ Old(table, indexer.pin.frags) /\ GoodTable(table)
      /\ trained \in Nat /\ torn \in BOOLEAN
  BY IndexAlone
<1>2. StampOK' BY StampMoved DEF maintVars, maintGhosts
<1>3. Old(table', indexer.pin.frags) BY <1>1, OldKept
<1>4. CoverOK' BY <1>3 DEF CoverOK, BuiltMeansCovered
<1>5. KindOK' BY DEF JobsInvariant, KindOK
<1>6. ConfigOK' BY DEF JobsInvariant, ConfigOK
<1>7. CurrentModel' = CurrentModel BY DEF CurrentModel
<1>8. ModelOK' BY <1>7 DEF JobsInvariant, ModelOK
<1>9. sidecar' \in [1 .. Cardinality(Rows) -> Nat] BY DEF JobsInvariant, JobsTypes
<1> QED BY <1>1, <1>2, <1>4, <1>5, <1>6, <1>8, <1>9, IndexFrame

(* The state a run ends in.                                                *)
LEMMA EndRunState ==
  ASSUME indexer \in IndexStates, NEW r \in {"none", "built", "skipped", "error"}, EndRun(r)
  PROVE  /\ indexer' \in IndexStates /\ indexer'.pc = "done" /\ indexer'.result = r
         /\ indexer'.pin.frags = indexer.pin.frags /\ IsFiniteSet(indexer'.targets)
<1>1. indexer' = [pc |-> "done", rebuild |-> FALSE, reusable |-> TRUE, round |-> 0,
                  pin |-> [version |-> 0, frags |-> indexer.pin.frags, index |-> {}, cfg |-> NoConfig],
                  targets |-> {}, mode |-> "none", segments |-> {}, built |-> 0, stale |-> FALSE,
                  rows |-> 0, result |-> r]
  BY DEF EndRun, IndexIdle, NoPin
<1>2. [version |-> 0, frags |-> indexer.pin.frags, index |-> {}, cfg |-> NoConfig] \in Pins
  BY DEF IndexStates, Pins, NoConfig, Configs
<1> QED BY <1>1, <1>2, FS_EmptySet DEF IndexStates, IndexPhases

(* A run that ends in an error, or had nothing to do.                      *)
LEMMA EndQuiet ==
  ASSUME JobsInvariant, indexer.pc \notin {"idle", "done", "write_config", "persist_centroids"},
         NEW r \in {"skipped", "error"}, EndRun(r), UNCHANGED <<maintVars, tableVars, kind, trained, torn>>
  PROVE  JobsInvariant'
<1>1. indexer \in IndexStates /\ GoodTable(table) /\ Follows(table, table) BY IndexAlone
<1>2. /\ indexer' \in IndexStates /\ indexer'.pc = "done" /\ indexer'.result = r
      /\ indexer'.pin.frags = indexer.pin.frags /\ IsFiniteSet(indexer'.targets)
  BY <1>1, EndRunState
<1>3. ~ torn => Uniform(table.index, CurrentModel) BY DEF JobsInvariant, ModelOK
<1> QED BY <1>1, <1>2, <1>3, IndexQuiet DEF tableVars

(* A stale build sends the dataset into the next round, or ends the run.   *)
LEMMA StaleRoundStep ==
  ASSUME JobsInvariant, indexer.pc \in {"prepare", "commit", "publish"}, StaleRound,
         GoodTable(table'), Follows(table, table'), table'.frags = table.frags,
         table'.stamp = table.stamp, table'.cfg = table.cfg,
         ~ torn => Uniform(table'.index, CurrentModel),
         UNCHANGED <<maintVars, kept, sidecar, kind, trained, torn>>
  PROVE  JobsInvariant'
<1>1. indexer \in IndexStates /\ IsFiniteSet(indexer.targets) BY IndexAlone
<1>2. CASE EndRun("error")
  <2>1. /\ indexer' \in IndexStates /\ indexer'.pc = "done" /\ indexer'.result = "error"
        /\ indexer'.pin.frags = indexer.pin.frags /\ IsFiniteSet(indexer'.targets)
    BY <1>1, <1>2, EndRunState
  <2> QED BY <2>1, IndexQuiet
<1>3. CASE indexer' = [indexer EXCEPT !.pc = "plan", !.round = indexer.round + 1, !.segments = {},
                                      !.built = 0, !.stale = FALSE]
  <2> DEFINE n == indexer.round + 1
  <2>1. n \in Nat BY <1>1 DEF IndexStates
  <2>2. indexer' = [indexer EXCEPT !.pc = "plan", !.round = n, !.segments = {}, !.built = 0, !.stale = FALSE]
    BY <1>3
  <2> HIDE DEF n
  <2>3. indexer' \in IndexStates /\ indexer'.pc = "plan" /\ indexer'.pin = indexer.pin
        /\ indexer'.targets = indexer.targets
    BY <1>1, <2>1, <2>2 DEF IndexStates, IndexPhases
  <2> QED BY <1>1, <2>3, IndexQuiet
<1> QED BY <1>2, <1>3 DEF StaleRound

(* What plan_dataset_indexes decides.                                      *)
LEMMA PlanModes ==
  ASSUME NEW t, kind \in {"vector", "btree", "fts"}
  PROVE  /\ PlanMode(t) \in {"maintain", "rebuild", "bootstrap", "segments"}
         /\ PlanMode(t) \in {"maintain", "rebuild"} => kind = "fts"
         /\ PlanMode(t) = "bootstrap" => kind = "vector"
         /\ PlanMode(t) = "segments" /\ kind = "vector" => t.index # {} /\ t.cfg # NoConfig
  BY DEF PlanMode, needs_bootstrap, vector_index_needs_retrain

(* plan_dataset_indexes keeps the invariant.                               *)
LEMMA IndexPlanStep ==
  ASSUME JobsInvariant, IndexPlan, UNCHANGED <<maintVars, runs>>
  PROVE  JobsInvariant'
<1> DEFINE mode == PlanMode(table)
           targets == PlannedFragments(table)
           pc == CASE mode = "maintain" -> "maintain"
                   [] mode = "bootstrap" -> "create_index"
                   [] mode \in {"segments", "rebuild"} /\ targets = {} -> "bound_deltas"
                   [] OTHER -> "build"
           result == IF targets = {} /\ mode \in {"segments", "rebuild"} THEN "built" ELSE indexer.result
           pin == [version |-> table.version, frags |-> DOMAIN table.frags,
                   index |-> table.index, cfg |-> table.cfg]
<1>1. indexer.pc = "plan" /\ UNCHANGED <<tableVars, kind, trained, torn>> BY DEF IndexPlan, IndexTurn
<1>2. /\ maint.pc \in {"idle", "done"} /\ indexer \in IndexStates
      /\ GoodTable(table) /\ Follows(table, table) /\ kind \in {"vector", "btree", "fts"}
      /\ trained \in Nat /\ torn \in BOOLEAN
  BY <1>1, IndexAlone
<1>3. CASE EndRun("skipped") \/ EndRun("error")
  BY <1>1, <1>3, EndQuiet
<1>4. CASE indexer' = [indexer EXCEPT !.pc = pc, !.mode = mode, !.targets = targets, !.result = result,
                                      !.pin = pin]
  <2>1. /\ mode \in {"maintain", "rebuild", "bootstrap", "segments"}
        /\ mode \in {"maintain", "rebuild"} => kind = "fts"
        /\ mode = "bootstrap" => kind = "vector"
        /\ mode = "segments" /\ kind = "vector" => table.index # {} /\ table.cfg # NoConfig
    BY <1>2, PlanModes
  <2>2. /\ targets \subseteq DOMAIN table.frags
        /\ mode \in {"segments", "rebuild"} => DOMAIN table.frags \subseteq Covered(table) \cup targets
    BY DEF PlannedFragments, target_fragments, Unindexed
  <2> HIDE DEF mode, targets
  <2>3. /\ pc \in {"maintain", "create_index", "bound_deltas", "build"}
        /\ pc = "maintain" => mode = "maintain"
        /\ pc = "create_index" => mode = "bootstrap"
        /\ pc = "bound_deltas" => targets = {} /\ mode \in {"segments", "rebuild"}
        /\ pc = "build" => mode \in {"segments", "rebuild"}
    <3>1. CASE mode = "maintain" BY <3>1
    <3>2. CASE mode = "bootstrap" BY <3>2
    <3>3. CASE mode \in {"segments", "rebuild"} /\ targets = {} BY <3>3
    <3>4. CASE mode \in {"segments", "rebuild"} /\ targets # {} BY <3>4
    <3> QED BY <2>1, <3>1, <3>2, <3>3, <3>4
  <2>4. result \in {"none", "built", "skipped", "error"} BY <1>2 DEF IndexStates
  <2>5. /\ DOMAIN table.frags \in SUBSET Nat /\ IsFiniteSet(DOMAIN table.frags)
        /\ Old(table, DOMAIN table.frags)
    BY <1>2, TableParts, FS_BoundedSetOfNaturals DEF GoodTable, Old
  <2>6. pin \in Pins /\ pin.frags = DOMAIN table.frags /\ pin.index = table.index /\ pin.cfg = table.cfg
    BY <1>2, <2>5, TableParts DEF Pins
  <2>7. targets \in SUBSET Nat /\ IsFiniteSet(targets) BY <2>2, <2>5, FS_Subset
  <2> HIDE DEF pc, result, pin
  <2>8. /\ indexer' \in IndexStates /\ indexer'.pc = pc /\ indexer'.mode = mode
        /\ indexer'.targets = targets /\ indexer'.pin = pin
    BY <1>2, <1>4, <2>1, <2>3, <2>4, <2>6, <2>7 DEF IndexStates, IndexPhases
  <2>9. StampOK' BY <1>1, <1>2, StampMoved DEF tableVars, maintVars, maintGhosts
  <2>10. CoverOK'
    <3>1. mode \in {"segments", "rebuild"} => CoveredBut(table, pin.frags, targets)
      BY <2>2, <2>6 DEF CoveredBut
    <3>2. table' = table BY <1>1 DEF tableVars
    <3>3. pc = "bound_deltas" => CoveredBut(table, pin.frags, {})
      BY <2>3, <3>1
    <3>4. table.stamp.ids \cap DOMAIN table.frags \subseteq pin.frags BY <2>6
    <3> QED BY <2>3, <2>5, <2>6, <2>8, <3>1, <3>2, <3>3, <3>4 DEF CoverOK, BuiltMeansCovered
  <2>11. KindOK'
    BY <1>1, <2>1, <2>3, <2>8 DEF JobsInvariant, KindOK, tableVars
  <2>12. ConfigOK'
    BY <1>1, <2>1, <2>3, <2>6, <2>8 DEF JobsInvariant, ConfigOK, tableVars
  <2>13. CurrentModel' = CurrentModel BY <1>1, <2>3, <2>8 DEF CurrentModel, tableVars
  <2>14. ModelOK' BY <1>1, <2>3, <2>6, <2>8, <2>13 DEF JobsInvariant, ModelOK, tableVars
  <2>15. sidecar' \in [1 .. Cardinality(Rows) -> Nat] /\ table' = table /\ kept' = kept
    BY <1>1 DEF JobsInvariant, JobsTypes, tableVars
  <2> QED BY <1>1, <1>2, <2>7, <2>8, <2>9, <2>10, <2>11, <2>12, <2>14, <2>15, IndexFrame
<1> QED BY <1>3, <1>4 DEF IndexPlan

(* Building shards keeps the invariant.                                    *)
LEMMA BuildShardsStep ==
  ASSUME JobsInvariant, BuildShards, UNCHANGED <<maintVars, runs>>
  PROVE  JobsInvariant'
<1>1. indexer.pc = "build" /\ UNCHANGED <<table, kept, writes, kind, trained, torn>>
  BY DEF BuildShards, IndexTurn
<1>2. /\ maint.pc \in {"idle", "done"} /\ indexer \in IndexStates /\ IsFiniteSet(indexer.targets)
      /\ GoodTable(table) /\ Follows(table, table) /\ kind \in {"vector", "btree", "fts"}
      /\ trained \in Nat /\ torn \in BOOLEAN /\ Old(table, indexer.pin.frags)
  BY <1>1, IndexAlone
<1>3. StampOK' BY <1>1, <1>2, StampMoved DEF maintVars, maintGhosts
<1>4. CASE EndRun("error") /\ sidecar' = sidecar
  BY <1>1, <1>4, EndQuiet DEF tableVars
<1>5. ASSUME indexer.mode = "rebuild", sidecar' = sidecar,
             indexer' = [indexer EXCEPT !.pc = "publish", !.built = Cardinality(indexer.targets)]
      PROVE  JobsInvariant'
  <2>1. Cardinality(indexer.targets) \in Nat BY <1>2, FS_CardinalityType
  <2>2. /\ indexer' \in IndexStates /\ indexer'.pc = "publish" /\ indexer'.pin = indexer.pin
        /\ indexer'.targets = indexer.targets
    BY <1>2, <1>5, <2>1 DEF IndexStates, IndexPhases
  <2>3. CoverOK' BY <1>1, <2>2 DEF JobsInvariant, CoverOK, BuiltMeansCovered
  <2>4. KindOK' BY <1>1, <1>5, <2>2 DEF JobsInvariant, KindOK
  <2>5. ConfigOK' BY <1>1, <2>2 DEF JobsInvariant, ConfigOK
  <2>6. CurrentModel' = CurrentModel BY <1>1, <2>2 DEF CurrentModel
  <2>7. ModelOK' BY <1>1, <1>5, <2>2, <2>6 DEF JobsInvariant, ModelOK
  <2>8. sidecar' \in [1 .. Cardinality(Rows) -> Nat] BY <1>5 DEF JobsInvariant, JobsTypes
  <2> QED BY <1>1, <1>2, <1>3, <2>2, <2>3, <2>4, <2>5, <2>7, <2>8, IndexFrame
<1>6. ASSUME indexer.mode = "segments",
             indexer' = [indexer EXCEPT !.pc = "prepare",
                !.segments = {Segment(shard, PinnedModel.c, PinnedModel.q) : shard \in
                                split_evenly(indexer.targets, shard_count(Cardinality(indexer.targets)))}],
             IF kind = "vector" THEN BackfillSidecar(indexer.pin) ELSE UNCHANGED sidecar
      PROVE  JobsInvariant'
  <2> DEFINE shards == split_evenly(indexer.targets, shard_count(Cardinality(indexer.targets)))
             c == PinnedModel.c
             q == PinnedModel.q
             b == Built(shards, c, q)
  <2>1. /\ indexer.pin.index \in SUBSET Segments /\ indexer.pin.cfg \in Configs
        /\ indexer.targets \in SUBSET Nat
    BY <1>2 DEF IndexStates, Pins
  <2>2. kind = "vector" =>
           /\ table.cfg # NoConfig /\ indexer.pin.cfg = table.cfg /\ indexer.pin.index # {}
    BY <1>1, <1>6 DEF JobsInvariant, ConfigOK
  <2>3. kind = "vector" => c = resolve_centroids(indexer.pin) /\ q = indexer.pin.cfg.model
    BY DEF PinnedModel
  <2>4. kind # "vector" => c = 0 /\ q = 0 BY DEF PinnedModel
  <2>5. kind = "vector" => resolve_centroids(indexer.pin) \in Nat BY <2>1, <2>2, ResolvedOK
  <2>6. c \in Nat /\ q \in Nat
    <3> HIDE DEF c, q
    <3> QED BY <2>1, <2>3, <2>4, <2>5 DEF Configs
  <2>7. UNION shards = indexer.targets /\ \A shard \in shards : shard \in SUBSET Nat
    <3>1. Cardinality(indexer.targets) \in Nat BY <1>2, FS_CardinalityType
    <3>2. shard_count(Cardinality(indexer.targets)) \in Nat \ {0}
      <4> DEFINE k == (Cardinality(indexer.targets) + FragmentsPerTask - 1) \div FragmentsPerTask
      <4>1. k \in Nat BY <3>1, IndexAssumption DEF IndexAssumption
      <4> HIDE DEF k
      <4>2. \E x \in {1, k} : \A y \in {1, k} : x >= y BY <4>1
      <4>3. Max({1, k}) \in Nat \ {0} BY <4>1, <4>2 DEF Max
      <4> QED BY <4>3 DEF shard_count, k
    <3> QED BY <1>2, <2>1, <3>2, DealtOut
  <2>8. indexer' = [indexer EXCEPT !.pc = "prepare", !.segments = b] BY <1>6 DEF Built
  <2> HIDE DEF shards, c, q
  <2>9. b \in SUBSET Segments /\ Over(b) = indexer.targets /\ \A m : c = m /\ q = m => Uniform(b, m)
    BY <2>6, <2>7, SegmentsBuilt
  <2> HIDE DEF b
  <2>10. /\ indexer' \in IndexStates /\ indexer'.pc = "prepare" /\ indexer'.pin = indexer.pin
         /\ indexer'.targets = indexer.targets /\ indexer'.segments = b
    BY <1>2, <2>8, <2>9 DEF IndexStates, IndexPhases
  <2>11. sidecar' = sidecar \/ (kind = "vector" /\ sidecar' = [sidecar EXCEPT ![table.cfg.rows_at_train] = c])
    BY <1>6, <2>2, <2>3 DEF BackfillSidecar
  <2>12. sidecar \in [1 .. Cardinality(Rows) -> Nat] BY DEF JobsInvariant, JobsTypes
  <2>13. sidecar' \in [1 .. Cardinality(Rows) -> Nat] BY <2>6, <2>11, <2>12
  <2>14. CoverOK'
    <3>1. CoveredBut(table, indexer.pin.frags, Over(b)) BY <1>1, <1>6, <2>9 DEF JobsInvariant, CoverOK
    <3> QED BY <1>1, <1>2, <2>10, <3>1 DEF CoverOK, BuiltMeansCovered
  <2>15. KindOK' BY <1>1, <2>10 DEF JobsInvariant, KindOK
  <2>16. ConfigOK' BY <1>1, <2>10 DEF JobsInvariant, ConfigOK
  <2>17. CurrentModel' = CurrentModel BY <1>1, <2>10 DEF CurrentModel
  <2>18. ASSUME ~ torn
         PROVE  /\ c = CurrentModel /\ q = CurrentModel
                /\ table.cfg # NoConfig => sidecar'[table.cfg.rows_at_train] \in {0, table.cfg.model}
    <3>1. /\ Uniform(indexer.pin.index, CurrentModel)
          /\ table.cfg # NoConfig => sidecar[table.cfg.rows_at_train] \in {0, table.cfg.model}
      BY <1>1, <1>6, <2>18 DEF JobsInvariant, ModelOK
    <3>2. CASE kind = "vector"
      <4>1. CurrentModel = table.cfg.model BY <1>1, <2>2, <3>2 DEF CurrentModel
      <4>2. c = table.cfg.model BY <2>1, <2>2, <2>3, <3>1, <3>2, <4>1, ResolvedOK
      <4> QED BY <2>2, <2>3, <2>11, <2>12, <3>1, <3>2, <4>1, <4>2
    <3>3. CASE kind # "vector"
      BY <2>4, <2>11, <3>1, <3>3 DEF JobsInvariant, KindOK, CurrentModel
    <3> QED BY <3>2, <3>3
  <2>19. ModelOK'
    <3>1. ~ torn => Uniform(table.index, CurrentModel) BY DEF JobsInvariant, ModelOK
    <3> QED BY <1>1, <2>9, <2>10, <2>17, <2>18, <3>1 DEF ModelOK
  <2> QED BY <1>1, <1>2, <1>3, <2>10, <2>13, <2>14, <2>15, <2>16, <2>19, IndexFrame
<1> QED BY <1>4, <1>5, <1>6 DEF BuildShards

(* commit_segments before its commit keeps the invariant.                  *)
LEMMA PrepareSegmentsStep ==
  ASSUME JobsInvariant, PrepareSegments, UNCHANGED <<maintVars, runs>>
  PROVE  JobsInvariant'
<1> DEFINE fresh == fresh_segments(table, indexer.segments)
           ready == IF kind = "vector" THEN merge_segments(fresh) ELSE fresh
<1>1. indexer.pc = "prepare" /\ UNCHANGED <<table, kept, sidecar, kind, trained, torn>>
  BY DEF PrepareSegments, IndexTurn, tableVars
<1>2. /\ indexer \in IndexStates /\ IsFiniteSet(indexer.targets)
      /\ GoodTable(table) /\ Follows(table, table)
      /\ trained \in Nat /\ torn \in BOOLEAN /\ Old(table, indexer.pin.frags)
  BY <1>1, IndexAlone
<1>3. ~ torn => Uniform(table.index, CurrentModel) BY DEF JobsInvariant, ModelOK
<1>4. CASE StaleRound
  BY <1>1, <1>2, <1>3, <1>4, StaleRoundStep
<1>5. CASE indexer' = [indexer EXCEPT !.pc = "commit", !.stale = dropped_stale(fresh), !.segments = ready]
  <2>1. fresh \in SUBSET Segments /\ fresh \subseteq indexer.segments
    BY <1>2 DEF fresh_segments, IndexStates
  <2> HIDE DEF fresh
  <2>2. /\ ready \in SUBSET Segments /\ Over(ready) = Over(fresh)
        /\ \A m : Uniform(fresh, m) => Uniform(ready, m)
    BY <2>1, Merged
  <2>3. dropped_stale(fresh) \in BOOLEAN /\ (~ dropped_stale(fresh) => fresh = indexer.segments)
    BY DEF dropped_stale
  <2> HIDE DEF ready
  <2>4. /\ indexer' \in IndexStates /\ indexer'.pc = "commit" /\ indexer'.pin = indexer.pin
        /\ indexer'.targets = indexer.targets /\ indexer'.segments = ready
        /\ indexer'.stale = dropped_stale(fresh)
    BY <1>2, <1>5, <2>2, <2>3 DEF IndexStates, IndexPhases
  <2>5. StampOK' BY <1>1, <1>2, StampMoved DEF maintVars, maintGhosts
  <2>6. CoverOK'
    <3>1. CoveredBut(table, indexer.pin.frags, Over(indexer.segments)) BY <1>1 DEF JobsInvariant, CoverOK
    <3>2. ~ indexer'.stale => CoveredBut(table, indexer.pin.frags, Over(ready)) BY <2>2, <2>3, <2>4, <3>1
    <3> QED BY <1>1, <1>2, <2>4, <3>2 DEF CoverOK, BuiltMeansCovered
  <2>7. KindOK' BY <1>1, <2>4 DEF JobsInvariant, KindOK
  <2>8. ConfigOK' BY <1>1, <2>4 DEF JobsInvariant, ConfigOK
  <2>9. CurrentModel' = CurrentModel BY <1>1, <2>4 DEF CurrentModel
  <2>10. ~ torn => Uniform(ready, CurrentModel)
    BY <1>1, <2>1, <2>2 DEF JobsInvariant, ModelOK, Uniform
  <2>11. ModelOK' BY <1>1, <1>3, <2>4, <2>9, <2>10 DEF JobsInvariant, ModelOK
  <2>12. sidecar' \in [1 .. Cardinality(Rows) -> Nat] BY <1>1 DEF JobsInvariant, JobsTypes
  <2> QED BY <1>1, <1>2, <2>4, <2>5, <2>6, <2>7, <2>8, <2>11, <2>12, IndexFrame
<1>6. CASE EndRun("error")
  BY <1>1, <1>6, EndQuiet DEF PrepareSegments, tableVars
<1> QED BY <1>4, <1>5, <1>6 DEF PrepareSegments

(* A step of the indexer from which the index covers the planned version.  *)
LEMMA IndexCovered ==
  ASSUME JobsInvariant, indexer.pc \notin {"idle", "done", "write_config", "persist_centroids"},
         indexer' \in IndexStates, IsFiniteSet(indexer'.targets), indexer'.pin.frags = indexer.pin.frags,
         indexer'.pc \in {"bound_deltas", "done"},
         GoodTable(table'), table'.frags = table.frags, table'.nextId = table.nextId,
         table'.cfg = table.cfg, StampOK', CoveredBut(table', indexer.pin.frags, {}),
         ~ torn => Uniform(table'.index, CurrentModel),
         UNCHANGED <<maintVars, kept, sidecar, kind, trained, torn>>
  PROVE  JobsInvariant'
<1>1. /\ Old(table, indexer.pin.frags) /\ trained \in Nat /\ torn \in BOOLEAN
  BY IndexAlone
<1>2. Old(table', indexer.pin.frags) BY <1>1 DEF Old
<1>3. CoverOK' BY <1>2 DEF CoverOK, BuiltMeansCovered, CoveredBut
<1>4. KindOK' BY DEF JobsInvariant, KindOK
<1>5. ConfigOK' BY DEF JobsInvariant, ConfigOK
<1>6. CurrentModel' = CurrentModel BY DEF CurrentModel
<1>7. ModelOK' BY <1>6 DEF JobsInvariant, ModelOK
<1>8. sidecar' \in [1 .. Cardinality(Rows) -> Nat] BY DEF JobsInvariant, JobsTypes
<1> QED BY <1>1, <1>3, <1>4, <1>5, <1>7, <1>8, IndexFrame

(* commit_segments keeps the invariant.                                    *)
LEMMA CommitSegmentsStep ==
  ASSUME JobsInvariant, CommitSegments, UNCHANGED <<maintVars, runs>>
  PROVE  JobsInvariant'
<1>1. indexer.pc = "commit" /\ UNCHANGED <<kept, sidecar, kind, trained, torn>>
  BY DEF CommitSegments, IndexTurn
<1>2. /\ indexer \in IndexStates /\ IsFiniteSet(indexer.targets)
      /\ GoodTable(table) /\ Follows(table, table)
      /\ trained \in Nat /\ torn \in BOOLEAN /\ Old(table, indexer.pin.frags)
  BY <1>1, IndexAlone
<1>3. ~ torn => Uniform(table.index, CurrentModel) BY DEF JobsInvariant, ModelOK
<1>4. CASE StaleRound /\ table' = table
  BY <1>1, <1>2, <1>3, <1>4, StaleRoundStep
<1>5. ASSUME ~ would_orphan(table, indexer.segments), table' = WithSegments(table, indexer.segments),
             \/ StaleRound
             \/ /\ ~ indexer.stale
                /\ indexer' = [indexer EXCEPT !.pc = "bound_deltas", !.segments = {}, !.result = "built"]
      PROVE  JobsInvariant'
  <2>1. indexer.segments \in SUBSET Segments BY <1>2 DEF IndexStates
  <2>2. ~ torn => Uniform(indexer.segments, CurrentModel) BY <1>1 DEF JobsInvariant, ModelOK
  <2>3. /\ GoodTable(table') /\ Follows(table, table') /\ table'.stamp = table.stamp
        /\ table'.cfg = table.cfg /\ table'.frags = table.frags
        /\ Over(indexer.segments) \subseteq Covered(table') /\ Covered(table) \subseteq Covered(table')
        /\ ~ torn => Uniform(table'.index, CurrentModel)
    BY <1>5, <2>1, <2>2, SegmentsCommitted
  <2>4. CASE StaleRound
    BY <1>1, <2>3, <2>4, StaleRoundStep
  <2>5. CASE /\ ~ indexer.stale
             /\ indexer' = [indexer EXCEPT !.pc = "bound_deltas", !.segments = {}, !.result = "built"]
    <3>1. /\ indexer' \in IndexStates /\ indexer'.pc = "bound_deltas" /\ indexer'.pin = indexer.pin
          /\ indexer'.targets = indexer.targets
      BY <1>2, <2>5 DEF IndexStates, IndexPhases
    <3>2. CoveredBut(table, indexer.pin.frags, Over(indexer.segments))
      BY <1>1, <2>5 DEF JobsInvariant, CoverOK
    <3>3. CoveredBut(table', indexer.pin.frags, {}) BY <2>3, <3>2 DEF CoveredBut
    <3>4. StampOK' BY <2>3, StampMoved DEF maintVars, maintGhosts
    <3>5. table'.nextId = table.nextId BY <1>2, <1>5, <2>1, WithSegmentsOK
    <3> QED BY <1>1, <1>2, <2>3, <3>1, <3>3, <3>4, <3>5, IndexCovered
  <2> QED BY <1>5, <2>4, <2>5
<1>6. CASE EndRun("error") /\ table' = table
  BY <1>1, <1>6, EndQuiet DEF CommitSegments, tableVars
<1> QED BY <1>4, <1>5, <1>6 DEF CommitSegments

\* The table after a commit that replaces the index alone.
Reindexed(t, index) == [t EXCEPT !.version = t.version + 1, !.index = index]

(* Replacing the index changes nothing else.                               *)
LEMMA IndexReplaced ==
  ASSUME NEW t, GoodTable(t), NEW index \in SUBSET Segments, NEW u, u = Reindexed(t, index)
  PROVE  /\ GoodTable(u) /\ u.frags = t.frags /\ u.nextId = t.nextId /\ u.index = index
         /\ u.stamp = t.stamp /\ u.cfg = t.cfg
<1>1. u = Update(t, t.frags, t.nextId, index) BY TableParts DEF Update, Reindexed
<1>2. t.frags \in FragmentMaps /\ t.nextId \in Nat BY DEF GoodTable, LanceTables
<1>3. \A f \in DOMAIN t.frags : f < t.nextId BY DEF GoodTable
<1> QED BY <1>1, <1>2, <1>3, UpdatedOK

(* commit_fts_index: the rebuilt index covers what the stamp named.        *)
LEMMA PublishFtsStep ==
  ASSUME JobsInvariant, PublishFts, UNCHANGED <<maintVars, runs>>
  PROVE  JobsInvariant'
<1>1. indexer.pc = "publish" /\ UNCHANGED <<kept, sidecar, kind, trained, torn>>
  BY DEF PublishFts, IndexTurn
<1>2. /\ indexer \in IndexStates /\ IsFiniteSet(indexer.targets)
      /\ GoodTable(table) /\ Follows(table, table) /\ indexer.pin.frags \in SUBSET Nat
      /\ trained \in Nat /\ torn \in BOOLEAN /\ Old(table, indexer.pin.frags)
  BY <1>1, IndexAlone
<1>3. ~ torn => Uniform(table.index, CurrentModel) BY DEF JobsInvariant, ModelOK
<1>4. CASE StaleRound /\ table' = table
  BY <1>1, <1>2, <1>3, <1>4, StaleRoundStep
<1>5. ASSUME EndRun("built"),
             table' = [table EXCEPT !.version = table.version + 1,
                                    !.index = {Segment(indexer.pin.frags, 0, 0)}]
      PROVE  JobsInvariant'
  <2> DEFINE index == {Segment(indexer.pin.frags, 0, 0)}
  <2>1. index \in SUBSET Segments BY <1>2 DEF Segment, Segments
  <2>2. /\ UNION {s.over : s \in index} = indexer.pin.frags
        /\ Uniform(index, 0)
    BY DEF Segment, Uniform
  <2>3. table' = Reindexed(table, index) BY <1>5 DEF Reindexed
  <2> HIDE DEF index
  <2>4. /\ GoodTable(table') /\ table'.frags = table.frags /\ table'.nextId = table.nextId
        /\ table'.index = index /\ table'.stamp = table.stamp /\ table'.cfg = table.cfg
    BY <1>2, <2>1, <2>3, IndexReplaced
  <2>5. Covered(table') = indexer.pin.frags BY <2>2, <2>4 DEF Covered
  <2>6. table.stamp.ids \cap DOMAIN table.frags \subseteq indexer.pin.frags
    BY <1>1 DEF JobsInvariant, CoverOK
  <2>7. StampOK'
    BY <2>4, <2>5, <2>6 DEF JobsInvariant, StampOK, Old, AllClustered, CoveredBut
  <2>8. CurrentModel = 0 BY <1>1 DEF JobsInvariant, KindOK, CurrentModel
  <2>9. /\ indexer' \in IndexStates /\ indexer'.pc = "done"
        /\ indexer'.pin.frags = indexer.pin.frags /\ IsFiniteSet(indexer'.targets)
    BY <1>2, <1>5, EndRunState
  <2>10. CoveredBut(table', indexer.pin.frags, {}) BY <2>5 DEF CoveredBut
  <2> QED BY <1>1, <2>2, <2>4, <2>7, <2>8, <2>9, <2>10, IndexCovered
<1>6. CASE EndRun("error") /\ table' = table
  BY <1>1, <1>6, EndQuiet DEF PublishFts, tableVars
<1> QED BY <1>4, <1>5, <1>6 DEF PublishFts

(* maintain_index_locally keeps the invariant.                             *)
LEMMA MaintainFtsStep ==
  ASSUME JobsInvariant, MaintainFts, UNCHANGED <<maintVars, runs>>
  PROVE  JobsInvariant'
<1>1. indexer.pc = "maintain" /\ UNCHANGED <<kept, sidecar, writes, kind, trained, torn>>
  BY DEF MaintainFts, IndexTurn
<1>2. /\ indexer \in IndexStates /\ IsFiniteSet(indexer.targets)
      /\ GoodTable(table) /\ Follows(table, table)
  BY <1>1, IndexAlone
<1>3. ~ torn => Uniform(table.index, CurrentModel) BY DEF JobsInvariant, ModelOK
<1>4. CASE EndRun("error") /\ table' = table
  BY <1>1, <1>4, EndQuiet DEF tableVars
<1>5. ASSUME indexer' = [indexer EXCEPT !.pc = "bound_deltas", !.result = "built"],
             table' = IF Unindexed(table) = {} THEN table
                      ELSE WithSegments(table, {Segment(Unindexed(table), 0, 0)})
      PROVE  JobsInvariant'
  <2>1. /\ indexer' \in IndexStates /\ indexer'.pc = "bound_deltas" /\ indexer'.pin = indexer.pin
        /\ indexer'.targets = indexer.targets
    BY <1>2, <1>5 DEF IndexStates, IndexPhases
  <2>2. CASE Unindexed(table) = {}
    <3>1. table' = table BY <1>5, <2>2
    <3>2. CoveredBut(table, indexer.pin.frags, {}) BY <2>2 DEF Unindexed, CoveredBut
    <3>3. StampOK' BY <1>2, <3>1, StampMoved DEF maintVars, maintGhosts
    <3> QED BY <1>1, <1>2, <1>3, <2>1, <3>1, <3>2, <3>3, IndexCovered
  <2>3. CASE Unindexed(table) # {}
    <3> DEFINE new == {Segment(Unindexed(table), 0, 0)}
    <3>1. table' = WithSegments(table, new) BY <1>5, <2>3
    <3>2. Unindexed(table) \in SUBSET Nat BY <1>2, TableParts DEF Unindexed
    <3>3. new \in SUBSET Segments /\ Over(new) = Unindexed(table) /\ Uniform(new, 0)
      BY <3>2 DEF Segment, Segments, Over, Uniform
    <3>4. ~ would_orphan(table, new)
      <4>1. \A s \in new : s.over = Unindexed(table) BY DEF Segment
      <4>2. \A old \in table.index : old.over \subseteq Covered(table) BY DEF Covered
      <4>3. Unindexed(table) \cap Covered(table) = {} BY DEF Unindexed
      <4> HIDE DEF new
      <4>4. Replaced(table, new) = {} BY <4>1, <4>2, <4>3 DEF Replaced
      <4> QED BY <4>4 DEF would_orphan
    <3>5. CurrentModel = 0 BY <1>1 DEF JobsInvariant, KindOK, CurrentModel
    <3> HIDE DEF new
    <3>6. /\ GoodTable(table') /\ Follows(table, table') /\ table'.stamp = table.stamp
          /\ table'.cfg = table.cfg /\ table'.frags = table.frags
          /\ Over(new) \subseteq Covered(table') /\ Covered(table) \subseteq Covered(table')
          /\ ~ torn => Uniform(table'.index, CurrentModel)
      BY <3>1, <3>3, <3>4, <3>5, SegmentsCommitted
    <3>7. CoveredBut(table', indexer.pin.frags, {})
      BY <3>3, <3>6 DEF CoveredBut, Unindexed
    <3>8. StampOK' BY <3>6, StampMoved DEF maintVars, maintGhosts
    <3>9. table'.nextId = table.nextId BY <1>2, <3>1, <3>3, <3>4, WithSegmentsOK
    <3> QED BY <1>1, <1>2, <2>1, <3>6, <3>7, <3>8, <3>9, IndexCovered
  <2> QED BY <2>2, <2>3
<1> QED BY <1>4, <1>5 DEF MaintainFts

(* create_index covers the latest version with a model of its own.         *)
LEMMA CreateIndexStep ==
  ASSUME JobsInvariant, CreateIndex, UNCHANGED <<maintVars, runs>>
  PROVE  JobsInvariant'
<1>1. indexer.pc = "create_index" /\ UNCHANGED <<kept, sidecar, writes, kind>>
  BY DEF CreateIndex, IndexTurn
<1>2. /\ indexer \in IndexStates /\ IsFiniteSet(indexer.targets) /\ GoodTable(table)
      /\ trained \in Nat /\ torn \in BOOLEAN /\ Old(table, indexer.pin.frags)
  BY <1>1, IndexAlone
<1>3. CASE EndRun("error") /\ UNCHANGED <<table, trained, torn>>
  BY <1>1, <1>3, EndQuiet DEF tableVars
<1>4. ASSUME count_rows(table) > 0, trained' = trained + 1, torn' = FALSE,
             table' = [table EXCEPT !.version = table.version + 1,
                                    !.index = {Segment(DOMAIN table.frags, trained', trained')}],
             indexer' = [indexer EXCEPT !.pc = "write_config", !.rows = count_rows(table)]
      PROVE  JobsInvariant'
  <2> DEFINE index == {Segment(DOMAIN table.frags, trained', trained')}
  <2>1. trained' \in Nat BY <1>2, <1>4
  <2>2. index \in SUBSET Segments BY <1>2, <2>1, TableParts DEF Segment, Segments
  <2>3. UNION {s.over : s \in index} = DOMAIN table.frags /\ Uniform(index, trained')
    BY DEF Segment, Uniform
  <2>4. table' = Reindexed(table, index) BY <1>4 DEF Reindexed
  <2> HIDE DEF index
  <2>5. /\ GoodTable(table') /\ table'.frags = table.frags /\ table'.nextId = table.nextId
        /\ table'.index = index /\ table'.stamp = table.stamp /\ table'.cfg = table.cfg
    BY <1>2, <2>2, <2>4, IndexReplaced
  <2>6. Covered(table') = DOMAIN table.frags BY <2>3, <2>5 DEF Covered
  <2>7. count_rows(table) \in 1 .. Cardinality(Rows) /\ count_rows(table) \in Nat
    BY <1>2, <1>4, RowsFinite, FS_CardinalityType, TableAssumption DEF TableAssumption
  <2>8. /\ indexer' \in IndexStates /\ indexer'.pc = "write_config" /\ indexer'.pin = indexer.pin
        /\ indexer'.targets = indexer.targets /\ indexer'.rows = count_rows(table)
    BY <1>2, <1>4, <2>7 DEF IndexStates, IndexPhases
  <2>9. StampOK' BY <2>5, <2>6 DEF JobsInvariant, StampOK, Old, AllClustered, CoveredBut
  <2>10. CoverOK'
    <3>1. CoveredBut(table', indexer.pin.frags, {}) BY <2>5, <2>6 DEF CoveredBut
    <3>2. Old(table', indexer.pin.frags) BY <1>2, <2>5 DEF Old
    <3> QED BY <2>8, <3>1, <3>2 DEF CoverOK, BuiltMeansCovered
  <2>11. KindOK' BY <1>1, <2>5, <2>8 DEF JobsInvariant, KindOK
  <2>12. ConfigOK' BY <1>1, <2>5, <2>7, <2>8 DEF JobsInvariant, ConfigOK
  <2>13. CurrentModel' = trained' BY <2>8 DEF CurrentModel
  <2>14. ModelOK' BY <1>4, <2>3, <2>5, <2>8, <2>13 DEF ModelOK
  <2>15. sidecar' \in [1 .. Cardinality(Rows) -> Nat] BY <1>1 DEF JobsInvariant, JobsTypes
  <2>16. torn' \in BOOLEAN BY <1>4
  <2> QED BY <1>1, <1>2, <2>1, <2>5, <2>8, <2>9, <2>10, <2>11, <2>12, <2>14, <2>15, <2>16, IndexFrame
<1> QED BY <1>3, <1>4 DEF CreateIndex

(* write_vector_config: a training without configuration is torn when an   *)
(* older configuration stays behind.                                       *)
LEMMA WriteVectorConfigStep ==
  ASSUME JobsInvariant, WriteVectorConfig, UNCHANGED <<maintVars, runs>>
  PROVE  JobsInvariant'
<1>1. indexer.pc = "write_config" /\ UNCHANGED <<kept, sidecar, writes, kind, trained>>
  BY DEF WriteVectorConfig, IndexTurn
<1>2. /\ indexer \in IndexStates /\ IsFiniteSet(indexer.targets) /\ GoodTable(table)
      /\ trained \in Nat /\ torn \in BOOLEAN /\ Old(table, indexer.pin.frags) /\ Follows(table, table)
  BY <1>1, IndexAlone
<1>3. CoveredBut(table, indexer.pin.frags, {}) BY <1>1 DEF JobsInvariant, CoverOK
<1>4. ~ torn /\ Uniform(table.index, trained) BY <1>1 DEF JobsInvariant, ModelOK, CurrentModel
<1>5. sidecar' \in [1 .. Cardinality(Rows) -> Nat] BY <1>1 DEF JobsInvariant, JobsTypes
<1>6. ASSUME EndRun("error"), torn' = (table.cfg # NoConfig), table' = table
      PROVE  JobsInvariant'
  <2>1. /\ indexer' \in IndexStates /\ indexer'.pc = "done" /\ indexer'.result = "error"
        /\ indexer'.pin.frags = indexer.pin.frags /\ IsFiniteSet(indexer'.targets)
    BY <1>2, <1>6, EndRunState
  <2>2. StampOK' BY <1>2, <1>6, StampMoved DEF maintVars, maintGhosts
  <2>3. CoverOK' BY <1>2, <1>6, <2>1 DEF CoverOK, BuiltMeansCovered
  <2>4. KindOK' BY <1>1, <1>6, <2>1 DEF JobsInvariant, KindOK
  <2>5. ConfigOK' BY <1>6, <2>1 DEF JobsInvariant, ConfigOK
  <2>6. torn' \in BOOLEAN BY <1>2, <1>6
  <2>7. ModelOK'
    <3>1. ~ torn' => table.cfg = NoConfig BY <1>6
    <3>2. ~ torn' => CurrentModel' = trained BY <1>1, <1>6, <3>1 DEF CurrentModel
    <3> QED BY <1>4, <1>6, <2>1, <3>1, <3>2 DEF ModelOK
  <2> QED BY <1>1, <1>2, <1>5, <1>6, <2>1, <2>2, <2>3, <2>4, <2>5, <2>6, <2>7, IndexFrame
<1>7. ASSUME table' = [table EXCEPT !.version = table.version + 1,
                                    !.cfg = [rows_at_train |-> indexer.rows, model |-> trained]],
             indexer' = [indexer EXCEPT !.pc = "persist_centroids"], torn' = torn
      PROVE  JobsInvariant'
  <2> DEFINE cfg == [rows_at_train |-> indexer.rows, model |-> trained]
  <2>1. indexer.rows \in 1 .. Cardinality(Rows) /\ indexer.rows \in Nat
    BY <1>1, <1>2 DEF JobsInvariant, ConfigOK, IndexStates
  <2>2. cfg \in Configs BY <1>2, <2>1 DEF Configs
  <2>3. cfg # NoConfig /\ cfg.rows_at_train = indexer.rows /\ cfg.model = trained
    <3>1. cfg.rows_at_train = indexer.rows /\ cfg.model = trained OBVIOUS
    <3>2. NoConfig.rows_at_train = 0 BY DEF NoConfig
    <3>3. indexer.rows # 0 BY <2>1
    <3> HIDE DEF cfg
    <3> QED BY <3>1, <3>2, <3>3
  <2> HIDE DEF cfg
  <2>4. table' = [table EXCEPT !.version = table.version + 1, !.cfg = cfg] BY <1>7 DEF cfg
  <2>5. /\ table' \in LanceTables /\ table'.frags = table.frags /\ table'.index = table.index
        /\ table'.nextId = table.nextId /\ table'.cfg = cfg /\ table'.stamp = table.stamp
    <3>1. table \in LanceTables BY <1>2 DEF GoodTable
    <3>2. [table EXCEPT !.version = table.version + 1] \in LanceTables BY <3>1 DEF LanceTables
    <3> QED BY <2>2, <2>4, <3>1, <3>2 DEF LanceTables
  <2>6. GoodTable(table') /\ Follows(table, table')
    BY <1>2, <2>5, TableParts DEF GoodTable, Follows, Covered
  <2>7. /\ indexer' \in IndexStates /\ indexer'.pc = "persist_centroids" /\ indexer'.pin = indexer.pin
        /\ indexer'.targets = indexer.targets /\ indexer'.rows = indexer.rows
    BY <1>2, <1>7 DEF IndexStates, IndexPhases
  <2>8. StampOK' BY <2>5, <2>6, StampMoved DEF maintVars, maintGhosts
  <2>9. CoverOK'
    <3>1. CoveredBut(table', indexer.pin.frags, {}) BY <1>3, <2>5 DEF CoveredBut, Covered
    <3>2. Old(table', indexer.pin.frags) BY <1>2, <2>5 DEF Old
    <3> QED BY <2>7, <3>1, <3>2 DEF CoverOK, BuiltMeansCovered
  <2>10. KindOK' BY <1>1, <2>7 DEF JobsInvariant, KindOK
  <2>11. ConfigOK' BY <1>1, <2>1, <2>3, <2>5, <2>7 DEF ConfigOK, cfg
  <2>12. CurrentModel' = trained BY <1>1, <2>3, <2>5, <2>7 DEF CurrentModel
  <2>13. ModelOK' BY <1>4, <1>7, <2>5, <2>7, <2>12 DEF ModelOK
  <2> QED BY <1>1, <1>2, <1>5, <1>7, <2>5, <2>6, <2>7, <2>8, <2>9, <2>10, <2>11, <2>13, IndexFrame
<1> QED BY <1>6, <1>7 DEF WriteVectorConfig

(* persist_bootstrap_centroids keeps the invariant.                        *)
LEMMA PersistCentroidsStep ==
  ASSUME JobsInvariant, PersistCentroids, UNCHANGED <<maintVars, runs>>
  PROVE  JobsInvariant'
<1>1. /\ indexer.pc = "persist_centroids" /\ UNCHANGED <<table, kept, writes, kind, trained>>
      /\ indexer' = [indexer EXCEPT !.pc = "bound_deltas", !.result = "built"]
      /\ \/ sidecar' = [sidecar EXCEPT ![indexer.rows] = trained] /\ torn' = torn
         \/ sidecar' = sidecar /\ torn' = (sidecar[indexer.rows] # 0)
  BY DEF PersistCentroids, IndexTurn
<1>2. /\ indexer \in IndexStates /\ IsFiniteSet(indexer.targets) /\ GoodTable(table)
      /\ trained \in Nat /\ torn \in BOOLEAN /\ Old(table, indexer.pin.frags) /\ Follows(table, table)
  BY <1>1, IndexAlone
<1>3. /\ indexer' \in IndexStates /\ indexer'.pc = "bound_deltas" /\ indexer'.pin = indexer.pin
      /\ indexer'.targets = indexer.targets
  BY <1>1, <1>2 DEF IndexStates, IndexPhases
<1>4. /\ sidecar \in [1 .. Cardinality(Rows) -> Nat] /\ indexer.rows \in 1 .. Cardinality(Rows)
      /\ table.cfg = [rows_at_train |-> indexer.rows, model |-> trained]
      /\ CoveredBut(table, indexer.pin.frags, {})
  BY <1>1 DEF JobsInvariant, JobsTypes, ConfigOK, CoverOK
<1>5. sidecar' \in [1 .. Cardinality(Rows) -> Nat] /\ torn' \in BOOLEAN BY <1>1, <1>2, <1>4
<1>6. StampOK' BY <1>1, <1>2, StampMoved DEF maintVars, maintGhosts
<1>7. CoverOK' BY <1>1, <1>2, <1>3, <1>4 DEF CoverOK, BuiltMeansCovered
<1>8. KindOK' BY <1>1, <1>3 DEF JobsInvariant, KindOK
<1>9. ConfigOK' BY <1>1, <1>3 DEF JobsInvariant, ConfigOK
<1>10. ModelOK'
  <2>1. table.cfg.rows_at_train = indexer.rows /\ table.cfg.model = trained BY <1>4
  <2>2. ~ torn' => sidecar'[indexer.rows] \in {0, trained} BY <1>1, <1>4
  <2>3. CurrentModel' = CurrentModel BY <1>1, <1>3 DEF CurrentModel
  <2>4. Uniform(table.index, CurrentModel) BY <1>1 DEF JobsInvariant, ModelOK
  <2> QED BY <1>1, <1>3, <2>1, <2>2, <2>3, <2>4 DEF ModelOK
<1> QED BY <1>1, <1>2, <1>3, <1>5, <1>6, <1>7, <1>8, <1>9, <1>10, IndexFrame

(* merge_index_deltas keeps cover and model.                               *)
LEMMA BoundDeltasStep ==
  ASSUME JobsInvariant, BoundDeltas, UNCHANGED <<maintVars, runs>>
  PROVE  JobsInvariant'
<1>1. /\ indexer.pc = "bound_deltas" /\ UNCHANGED <<kept, sidecar, writes, kind, trained, torn>>
      /\ EndRun(indexer.result)
  BY DEF BoundDeltas, IndexTurn
<1>2. /\ indexer \in IndexStates /\ GoodTable(table) /\ Follows(table, table)
  BY <1>1, IndexAlone
<1>3. /\ indexer' \in IndexStates /\ indexer'.pc = "done"
      /\ indexer'.pin.frags = indexer.pin.frags /\ IsFiniteSet(indexer'.targets)
  <2>1. indexer.result \in {"none", "built", "skipped", "error"} BY <1>2 DEF IndexStates
  <2> QED BY <1>1, <1>2, <2>1, EndRunState
<1>4. CoveredBut(table, indexer.pin.frags, {}) BY <1>1 DEF JobsInvariant, CoverOK
<1>5. ~ torn => Uniform(table.index, CurrentModel) BY DEF JobsInvariant, ModelOK
<1>6. CASE table' = table
  <2>1. StampOK' BY <1>2, <1>6, StampMoved DEF maintVars, maintGhosts
  <2> QED BY <1>1, <1>2, <1>3, <1>4, <1>5, <1>6, <2>1, IndexCovered
<1>7. ASSUME Cardinality(table.index) > MaxIndexDeltas, table.index # {},
             table' = [table EXCEPT !.version = table.version + 1,
                         !.index = {Segment(Covered(table), (CHOOSE s \in table.index : TRUE).c,
                                                            (CHOOSE s \in table.index : TRUE).q)}]
      PROVE  JobsInvariant'
  <2> DEFINE one == CHOOSE s \in table.index : TRUE
             index == {Segment(Covered(table), one.c, one.q)}
  <2>1. one \in table.index BY <1>7
  <2>2. table' = Reindexed(table, index) BY <1>7 DEF Reindexed
  <2> HIDE DEF one
  <2>3. one.c \in Nat /\ one.q \in Nat /\ Covered(table) \in SUBSET Nat
    BY <1>2, <2>1, TableParts DEF Segments, Covered
  <2>4. index \in SUBSET Segments BY <2>3 DEF Segment, Segments
  <2>5. /\ UNION {s.over : s \in index} = Covered(table)
        /\ \A m : one.c = m /\ one.q = m => Uniform(index, m)
    BY DEF Segment, Uniform
  <2> HIDE DEF index
  <2>6. /\ GoodTable(table') /\ table'.frags = table.frags /\ table'.nextId = table.nextId
        /\ table'.index = index /\ table'.stamp = table.stamp /\ table'.cfg = table.cfg
    BY <1>2, <2>2, <2>4, IndexReplaced
  <2>7. Covered(table') = Covered(table)
    <3>1. Covered(table') = UNION {s.over : s \in index} BY <2>6 DEF Covered
    <3> QED BY <2>5, <3>1
  <2>8. Follows(table, table') BY <1>2, <2>6, <2>7, TableParts DEF Follows
  <2>9. StampOK' BY <2>6, <2>8, StampMoved DEF maintVars, maintGhosts
  <2>10. CoveredBut(table', indexer.pin.frags, {}) BY <1>4, <2>6, <2>7 DEF CoveredBut
  <2>11. ~ torn => Uniform(table'.index, CurrentModel) BY <1>5, <2>1, <2>5, <2>6 DEF Uniform
  <2> QED BY <1>1, <1>3, <2>6, <2>9, <2>10, <2>11, IndexCovered
<1>8. Cardinality(table.index) > MaxIndexDeltas => table.index # {}
  BY FS_EmptySet, IndexAssumption DEF IndexAssumption
<1> QED BY <1>6, <1>7, <1>8 DEF BoundDeltas

(* Every step of an indexing run keeps the invariant.                      *)
LEMMA IndexKeepsInvariant ==
  ASSUME JobsInvariant, IndexStep, UNCHANGED <<maintVars, runs>>
  PROVE  JobsInvariant'
  BY IndexPlanStep, BuildShardsStep, PrepareSegmentsStep, CommitSegmentsStep, PublishFtsStep,
     MaintainFtsStep, CreateIndexStep, WriteVectorConfigStep, PersistCentroidsStep, BoundDeltasStep
  DEF IndexStep, Bootstrap, BuildAndCommit

-------------------------------------------------------------------------------
(* The runs.                                                               *)

(* A run that starts carries nothing over from the last one.               *)
LEMMA Restarted ==
  ASSUME JobsInvariant, JobsIdle, UNCHANGED <<tableVars, dropped, kind, trained, torn>>,
         maint' \in MaintStates, maint'.pc \in {"idle", "cluster_plan", "plan"},
         maint'.deleted = 0, expired' = 0,
         indexer' \in IndexStates, indexer'.pc \in {"idle", "plan"},
         indexer'.pin.frags = {}, indexer'.targets = {},
         maint'.pc = "idle" \/ indexer'.pc = "idle"
  PROVE  JobsInvariant'
<1>1. IsFiniteSet(indexer'.targets) BY FS_EmptySet
<1>2. JobsTypes' BY <1>1 DEF JobsInvariant, JobsTypes, tableVars
<1>3. RowsOK' BY DEF JobsInvariant, RowsOK, tableVars
<1>4. DeletesOK' BY DEF DeletesOK, ReportedDeletes
<1>5. StampOK' BY DEF JobsInvariant, StampOK, tableVars
<1>6. RebuildOK' /\ RebuildModelOK' BY DEF RebuildOK, RebuildModelOK, Rebuilding
<1>7. CoverOK' BY DEF CoverOK, BuiltMeansCovered, Old
<1>8. KindOK' BY DEF JobsInvariant, KindOK, tableVars
<1>9. ConfigOK' BY DEF JobsInvariant, ConfigOK, tableVars
<1>10. CurrentModel' = CurrentModel BY DEF CurrentModel, JobsIdle, tableVars
<1>11. ModelOK' BY <1>10 DEF JobsInvariant, ModelOK, JobsIdle, tableVars
<1> QED BY <1>2, <1>3, <1>4, <1>5, <1>6, <1>7, <1>8, <1>9, <1>11 DEF JobsInvariant

(* The states the two jobs start from.                                     *)
LEMMA IdleStates ==
  /\ NoPlan \in Plans /\ NoStamp \in Stamps /\ NoConfig \in Configs /\ NoPin \in Pins
  /\ MaintIdle \in MaintStates /\ IndexIdle \in IndexStates
<1>1. NoPlan \in Plans /\ NoStamp \in Stamps /\ NoConfig \in Configs
  BY DEF NoPlan, Plans, NoStamp, Stamps, NoConfig, Configs
<1>2. NoPin \in Pins BY <1>1 DEF NoPin, Pins
<1>3. MaintIdle \in MaintStates BY <1>1 DEF MaintIdle, MaintStates, MaintPhases
<1>4. IndexIdle \in IndexStates BY <1>2 DEF IndexIdle, IndexStates, IndexPhases
<1> QED BY <1>1, <1>2, <1>3, <1>4

(* The start of a run keeps the invariant.                                 *)
LEMMA StartRunStep ==
  ASSUME JobsInvariant, StartRun
  PROVE  JobsInvariant'
<1>1. JobsIdle BY DEF StartRun
<1>2. ASSUME NEW cluster \in BOOLEAN, NEW retention \in {"off", "on", "missing"},
             StartMaintenance(cluster, retention), indexer' = IndexIdle, UNCHANGED <<kind, trained, torn>>
      PROVE  JobsInvariant'
  <2> DEFINE pc == IF cluster THEN "cluster_plan" ELSE "plan"
  <2>1. maint' = [MaintIdle EXCEPT !.pc = pc, !.cluster = cluster, !.retention = retention]
    BY <1>2 DEF StartMaintenance
  <2>2. pc \in {"cluster_plan", "plan"} OBVIOUS
  <2> HIDE DEF pc
  <2>3. maint' = [pc |-> pc, cluster |-> cluster, retention |-> retention, round |-> 0, plan |-> NoPlan,
                  deleted |-> 0, misconfigured |-> FALSE, segments |-> {}, stamp |-> NoStamp,
                  result |-> "none"]
    BY <2>1 DEF MaintIdle
  <2>4. maint' \in MaintStates BY <2>2, <2>3, IdleStates DEF MaintStates, MaintPhases
  <2>5. /\ indexer' \in IndexStates /\ indexer'.pc = "idle" /\ indexer'.pin.frags = {}
        /\ indexer'.targets = {}
    BY <1>2, IdleStates DEF IndexIdle, NoPin
  <2>6. maint'.pc \in {"cluster_plan", "plan"} /\ maint'.deleted = 0 BY <2>2, <2>3
  <2>7. UNCHANGED <<tableVars, dropped>> /\ expired' = 0 BY <1>2 DEF StartMaintenance
  <2> QED BY <1>1, <1>2, <2>4, <2>5, <2>6, <2>7, Restarted
<1>3. ASSUME NEW rebuild \in BOOLEAN, NEW reusable \in BOOLEAN, StartIndexing(rebuild, reusable),
             maint' = MaintIdle, expired' = 0, UNCHANGED dropped
      PROVE  JobsInvariant'
  <2>1. indexer' = [pc |-> "plan", rebuild |-> rebuild, reusable |-> reusable, round |-> 0,
                    pin |-> NoPin, targets |-> {}, mode |-> "none", segments |-> {}, built |-> 0,
                    stale |-> FALSE, rows |-> 0,
                    result |-> "none"]
    BY <1>3 DEF StartIndexing, IndexIdle
  <2>2. indexer' \in IndexStates BY <2>1, IdleStates DEF IndexStates, IndexPhases
  <2>3. indexer'.pc = "plan" /\ indexer'.pin.frags = {} /\ indexer'.targets = {}
    BY <2>1 DEF NoPin
  <2>4. maint' \in MaintStates /\ maint'.pc = "idle" /\ maint'.deleted = 0
    BY <1>3, IdleStates DEF MaintIdle
  <2> QED BY <1>1, <1>3, <2>2, <2>3, <2>4, Restarted DEF StartIndexing
<1> QED BY <1>2, <1>3 DEF StartRun

(* The dataset before any job satisfies the invariant.                     *)
LEMMA JobsInitOK == ASSUME JobsInit PROVE JobsInvariant
<1> DEFINE order == SetToSeq(InitialRows)
           n == Cardinality(InitialRows)
           frags == [f \in 1 .. n |-> Fragment({order[f]}, FALSE)]
<1>1. IsFiniteSet(InitialRows) /\ InitialRows \subseteq Rows
  BY FS_Subset, TableAssumption DEF TableAssumption
<1>2. /\ n \in Nat /\ order \in [1 .. n -> InitialRows]
      /\ \A x \in InitialRows : \E i \in 1 .. n : order[i] = x
  BY <1>1, Listed
<1>3. Len(order) = n
  <2> HIDE DEF order, n
  <2>1. order \in Seq(InitialRows) BY <1>2
  <2> QED BY <1>2, <2>1
<1>4. table = [version |-> 1, frags |-> frags, nextId |-> n + 1, index |-> {}, stamp |-> NoStamp,
               cfg |-> NoConfig]
  BY <1>3 DEF JobsInit, TableInit
<1> HIDE DEF order, n
<1>5. frags \in [1 .. n -> Fragments] BY <1>1, <1>2 DEF Fragment, Fragments
<1>6. LiveRows(table) = InitialRows
  <2>1. DOMAIN table.frags = 1 .. n /\ \A f \in 1 .. n : table.frags[f].live = {order[f]}
    BY <1>4 DEF Fragment
  <2>2. LiveRows(table) = UNION {{order[f]} : f \in 1 .. n} BY <2>1 DEF LiveRows
  <2> QED BY <1>2, <2>2
<1> HIDE DEF frags
<1>7. GoodTable(table)
  <2>1. 1 .. n \in SUBSET Nat /\ n + 1 \in Nat /\ {} \in SUBSET Segments /\ \A f \in 1 .. n : f < n + 1
    BY <1>2
  <2> QED BY <1>4, <1>5, <2>1, IdleStates, TableOfParts
<1>8. /\ maint = MaintIdle /\ expired = 0 /\ dropped = {} /\ kind \in {"vector", "btree", "fts"}
      /\ indexer = IndexIdle /\ trained = 0 /\ torn = FALSE /\ kept = InitialRows
      /\ sidecar = [i \in 1 .. Cardinality(Rows) |-> 0]
  BY IndexAssumption DEF JobsInit, TableInit, MaintInit, IndexInit, IndexAssumption
<1>9. /\ maint \in MaintStates /\ indexer \in IndexStates /\ maint.pc = "idle" /\ maint.deleted = 0
      /\ indexer.pc = "idle" /\ indexer.targets = {} /\ indexer.pin.frags = {}
  BY <1>8, IdleStates DEF MaintIdle, IndexIdle, NoPin
<1>10. table.index = {} /\ table.stamp.ids = {} /\ table.cfg = NoConfig BY <1>4 DEF NoStamp
<1>11. JobsTypes
  <2>1. IsFiniteSet(indexer.targets) BY <1>9, FS_EmptySet
  <2> QED BY <1>1, <1>7, <1>8, <1>9, <2>1 DEF JobsTypes
<1>12. RowsOK BY <1>6, <1>8, <1>9 DEF RowsOK
<1>13. DeletesOK BY <1>8, <1>9 DEF DeletesOK, ReportedDeletes
<1>14. StampOK BY <1>10 DEF StampOK, Old, AllClustered, CoveredBut
<1>15. RebuildOK /\ RebuildModelOK BY <1>9 DEF RebuildOK, RebuildModelOK, Rebuilding
<1>16. CoverOK BY <1>9 DEF CoverOK, Old, BuiltMeansCovered
<1>17. KindOK /\ ConfigOK BY <1>8, <1>9, <1>10 DEF KindOK, ConfigOK
<1>18. ModelOK BY <1>9, <1>10 DEF ModelOK, Uniform
<1> QED BY <1>11, <1>12, <1>13, <1>14, <1>15, <1>16, <1>17, <1>18 DEF JobsInvariant

(* A step of neither job nor writer changes nothing the invariant names.   *)
LEMMA JobsStutter ==
  ASSUME JobsInvariant, UNCHANGED jobVars
  PROVE  JobsInvariant'
<1>1. JobsTypes' BY DEF JobsInvariant, JobsTypes, jobVars, tableVars, maintVars, maintGhosts, indexVars
<1>2. RowsOK' /\ DeletesOK'
  BY DEF JobsInvariant, RowsOK, DeletesOK, ReportedDeletes, jobVars, tableVars, maintVars, maintGhosts
<1>3. StampOK' /\ RebuildOK'
  BY DEF JobsInvariant, StampOK, RebuildOK, jobVars, tableVars, maintVars, maintGhosts
<1>4. CoverOK' BY DEF JobsInvariant, CoverOK, BuiltMeansCovered, jobVars, tableVars, indexVars
<1>5. KindOK' /\ ConfigOK' BY DEF JobsInvariant, KindOK, ConfigOK, jobVars, tableVars, indexVars
<1>6. ModelOK' BY DEF JobsInvariant, ModelOK, CurrentModel, jobVars, tableVars, indexVars
<1>7. RebuildModelOK'
  BY DEF JobsInvariant, RebuildModelOK, jobVars, tableVars, maintVars, indexVars
<1> QED BY <1>1, <1>2, <1>3, <1>4, <1>5, <1>6, <1>7 DEF JobsInvariant

(* Whatever maintenance and indexing runs do to a dataset while writers    *)
(* commit between any two of their phases, the invariant holds: what a     *)
(* plan, a pin or a stamp recorded of an older version is still true of    *)
(* the fragments of it that live.                                          *)
THEOREM JobsSafety == JobsSpec => []JobsInvariant
<1>1. JobsInvariant /\ [JobsNext]_jobVars => JobsInvariant'
  <2> SUFFICES ASSUME JobsInvariant, [JobsNext]_jobVars PROVE JobsInvariant'
    OBVIOUS
  <2>1. CASE StartRun BY <2>1, StartRunStep
  <2>2. CASE MaintStep /\ UNCHANGED <<indexVars, runs>> BY <2>2, MaintKeepsInvariant
  <2>3. CASE IndexStep /\ UNCHANGED <<maintVars, runs>> BY <2>3, IndexKeepsInvariant
  <2>4. CASE TableWriters /\ UNCHANGED <<maintVars, indexVars, runs>>
    BY <2>4, WritersKeepInvariant
  <2>5. CASE UNCHANGED jobVars BY <2>5, JobsStutter
  <2> QED BY <2>1, <2>2, <2>3, <2>4, <2>5 DEF JobsNext
<1> QED BY <1>1, JobsInitOK, PTL DEF JobsSpec

(* Neither a clustered overwrite nor a compaction loses a row that a       *)
(* writer committed meanwhile, or brings a deleted one back                *)
(* (commit_cluster_data's version check), for every number of rows,        *)
(* writers' commits and runs.                                              *)
THEOREM JobsKeepRowsHolds == JobsSpec => []JobsKeepRows
<1>1. JobsInvariant => JobsKeepRows BY DEF JobsInvariant, RowsOK, JobsKeepRows
<1> QED BY <1>1, JobsSafety, PTL

(* A fingerprint that matches means a clustered dataset, and one whose     *)
(* vector index covers it unless the rebuild dropped a segment             *)
(* (finalise_cluster_dataset), for every number of shards.                 *)
THEOREM StampIsTruthfulHolds == JobsSpec => []StampIsTruthful
<1>1. ASSUME JobsInvariant, table.stamp = Fingerprint(table) PROVE table.stamp.ids = DOMAIN table.frags
  BY <1>1 DEF Fingerprint
<1>2. JobsInvariant => StampIsTruthful
  BY <1>1 DEF JobsInvariant, StampOK, AllClustered, CoveredBut, StampIsTruthful
<1> QED BY <1>2, JobsSafety, PTL

(* A maintenance run reports exactly the rows its retention deleted, an    *)
(* error never more (MaintenanceJob.run), for every re-plan budget.        *)
THEOREM ReportedDeletesHolds == JobsSpec => []ReportedDeletes
<1>1. JobsInvariant => ReportedDeletes BY DEF JobsInvariant, DeletesOK
<1> QED BY <1>1, JobsSafety, PTL

(* The segments of a vector index share one model, whatever number of      *)
(* them the runs added, merged and rebuilt around one training             *)
(* (bootstrap_vector_index, resolve_centroids).                            *)
THEOREM OneModelHolds == JobsSpec => []OneModel
<1>1. JobsInvariant => OneModel BY DEF JobsInvariant, ModelOK, Uniform, OneModel
<1> QED BY <1>1, JobsSafety, PTL

(* A successful indexing run covered what it planned and is still live     *)
(* (commit_one_index and the stale rounds), for every number of shards,    *)
(* stale rounds and index deltas.                                          *)
THEOREM BuiltMeansCoveredHolds == JobsSpec => []BuiltMeansCovered
<1>1. JobsInvariant => BuiltMeansCovered BY DEF JobsInvariant, CoverOK
<1> QED BY <1>1, JobsSafety, PTL

-----------------------------------------------------------------------------
(***************************************************************************)
(* The clustered rewrite.                                                  *)
(***************************************************************************)

\* The tables a rewrite may pin: shards of batches of partitions.
PinnedTables == {t \in Seq(Seq(Seq(Pids))) : Len(t) <= Len(ShardSignature)}

\* The rows of a range of partitions.
Between(t, lo, hi) == {row \in RowsOf(t) : lo <= Pid(t, row) /\ Pid(t, row) <= hi}

BucketRecord == [low : Nat, high : Nat, salt : Nat, salts : Nat]

\* A bucket takes the rows of a range of partitions.
Covers(b, pid) == b.low <= pid /\ pid <= b.high

\* A bucket holds one range of at most c rows, or is one of the salts of an oversized partition.
SoundBucket(t, c, b) ==
  /\ b.low <= b.high
  /\ b.salts = 1 => b.salt = 0 /\ Cardinality(Between(t, b.low, b.high)) <= c
  /\ b.salts # 1 => /\ b.salts > 1 /\ b.salt < b.salts /\ b.low = b.high
                    /\ Cardinality(Between(t, b.low, b.low)) <= c * b.salts

\* Of two buckets in their order, the second has later partitions, or a later salt of the same.
InOrder(a, b) ==
  \/ a.high < b.low
  \/ a.low = b.low /\ a.high = b.high /\ a.salts = b.salts /\ a.salts > 1 /\ a.salt < b.salt

\* Some bucket holds the partition, and with it all of its salts exist.
Served(bs, pid) ==
  \E k \in 1..Len(bs) :
    /\ Covers(bs[k], pid)
    /\ \A j \in 0..(bs[k].salts - 1) : \E l \in 1..Len(bs) : Covers(bs[l], pid) /\ bs[l].salt = j

\* The buckets closed so far serve the rows of every partition below bound.
BucketsOK(t, c, bs, bound) ==
  /\ bs \in Seq(BucketRecord)
  /\ \A k \in 1..Len(bs) : SoundBucket(t, c, bs[k]) /\ bs[k].high < bound
  /\ \A k, l \in 1..Len(bs) : k < l => InOrder(bs[k], bs[l])
  /\ \A row \in RowsOf(t) : Pid(t, row) < bound => Served(bs, Pid(t, row))

\* The closed buckets serve what lies below the open one, which holds what it has counted.
PackingOK(t, c, p) ==
  /\ p \in [buckets : Seq(BucketRecord), low : Int, running : Nat, next : 0..(Partitions + 1)]
  /\ p.low = -1 => BucketsOK(t, c, p.buckets, p.next)
  /\ p.low # -1 => /\ p.low \in 0..(p.next - 1)
                   /\ p.running = Cardinality(Between(t, p.low, p.next - 1)) /\ p.running <= c
                   /\ BucketsOK(t, c, p.buckets, p.low)

-----------------------------------------------------------------------------
(* Rows.                                                                   *)

\* A row is named by its shard, its batch and its place there, and has a partition.
LEMMA RowShape ==
  ASSUME NEW t \in PinnedTables
  PROVE  /\ \A s \in DOMAIN t : t[s] \in Seq(Seq(Pids))
         /\ \A s \in DOMAIN t : \A b \in DOMAIN t[s] : t[s][b] \in Seq(Pids)
         /\ \A row : row \in RowsOf(t) <=>
              \E s \in 1..Len(t) : \E b \in 1..Len(t[s]) : \E i \in 1..Len(t[s][b]) : row = <<s, b, i>>
         /\ \A row \in RowsOf(t) :
              /\ row = <<row[1], row[2], row[3]>>
              /\ row[1] \in 1..Len(t) /\ row[2] \in 1..Len(t[row[1]]) /\ row[3] \in 1..Len(t[row[1]][row[2]])
              /\ Pid(t, row) \in Pids
<1>1. \A s \in DOMAIN t : t[s] \in Seq(Seq(Pids))
  BY DEF PinnedTables
<1>2. \A s \in DOMAIN t : \A b \in DOMAIN t[s] : t[s][b] \in Seq(Pids)
  BY <1>1
<1>3. DOMAIN t = 1..Len(t)
  BY DEF PinnedTables
<1>4. \A s \in DOMAIN t : DOMAIN t[s] = 1..Len(t[s])
  BY <1>1
<1>5. \A s \in DOMAIN t : \A b \in DOMAIN t[s] : DOMAIN t[s][b] = 1..Len(t[s][b])
  BY <1>2
<1>6. \A row : row \in RowsOf(t) <=>
              \E s \in 1..Len(t) : \E b \in 1..Len(t[s]) : \E i \in 1..Len(t[s][b]) : row = <<s, b, i>>
  <2> TAKE row
  <2>1. row \in RowsOf(t) <=> \E s \in DOMAIN t : \E b \in DOMAIN t[s] : \E i \in DOMAIN t[s][b] : row = <<s, b, i>>
    BY DEF RowsOf
  <2> QED BY <1>3, <1>4, <1>5, <2>1
<1>7. ASSUME NEW row \in RowsOf(t)
      PROVE  /\ row = <<row[1], row[2], row[3]>>
             /\ row[1] \in 1..Len(t) /\ row[2] \in 1..Len(t[row[1]]) /\ row[3] \in 1..Len(t[row[1]][row[2]])
             /\ Pid(t, row) \in Pids
  <2>1. PICK s, b, i :
          s \in 1..Len(t) /\ b \in 1..Len(t[s]) /\ i \in 1..Len(t[s][b]) /\ row = <<s, b, i>>
    BY <1>6
  <2>2. row[1] = s /\ row[2] = b /\ row[3] = i
    BY <2>1
  <2>3. s \in DOMAIN t /\ b \in DOMAIN t[s]
    BY <1>3, <1>4, <2>1
  <2>4. t[s][b] \in Seq(Pids)
    BY <1>2, <2>3
  <2>5. \A q \in Seq(Pids) : \A j \in 1..Len(q) : q[j] \in Pids
    OBVIOUS
  <2>6. t[s][b][i] \in Pids
    BY <2>1, <2>4, <2>5
  <2> QED BY <2>1, <2>2, <2>6 DEF Pid
<1> QED BY <1>1, <1>2, <1>6, <1>7

\* The union of finitely many finite sets, one for each number up to n, is finite.
LEMMA FiniteUnion ==
  ASSUME NEW n \in Nat, NEW f, DOMAIN f = 1..n, \A i \in 1..n : IsFiniteSet(f[i])
  PROVE  IsFiniteSet(UNION {f[i] : i \in 1..n})
<1> DEFINE S == {f[i] : i \in 1..n}
           g == [i \in 1..n |-> f[i]]
<1>1. IsFiniteSet(1..n)
  BY FS_Interval
<1>2. g \in Surjection(1..n, S)
  BY DEF Surjection
<1>3. \A x \in S : IsFiniteSet(x)
  OBVIOUS
<1> HIDE DEF S, g
<1>4. IsFiniteSet(S)
  BY <1>1, <1>2, FS_Surjection
<1> QED BY <1>3, <1>4, FS_UNION DEF S

\* A table has finitely many rows.
LEMMA TableFinite ==
  ASSUME NEW t \in PinnedTables
  PROVE  IsFiniteSet(RowsOf(t))
<1> DEFINE P(s, b) == {<<s, b, i>> : i \in 1..Len(t[s][b])}
           B(s) == UNION {P(s, b) : b \in 1..Len(t[s])}
<1>1. ASSUME NEW s \in 1..Len(t), NEW b \in 1..Len(t[s]) PROVE IsFiniteSet(P(s, b))
  <2>0. t[s][b] \in Seq(Pids)
    BY RowShape DEF PinnedTables
  <2> DEFINE n == Len(t[s][b])
             g == [i \in 1..n |-> <<s, b, i>>]
  <2>1. n \in Nat
    BY <2>0
  <2> HIDE DEF n
  <2>2. IsFiniteSet(1..n)
    BY <2>1, FS_Interval
  <2>3. g \in Surjection(1..n, {<<s, b, i>> : i \in 1..n})
    BY DEF Surjection
  <2> QED BY <2>2, <2>3, FS_Surjection DEF n
<1>2. ASSUME NEW s \in 1..Len(t) PROVE IsFiniteSet(B(s))
  <2>0. t[s] \in Seq(Seq(Pids))
    BY RowShape DEF PinnedTables
  <2> DEFINE n == Len(t[s])
             f == [b \in 1..n |-> P(s, b)]
  <2>1. n \in Nat
    BY <2>0
  <2>2. \A b \in 1..n : IsFiniteSet(f[b])
    BY <1>1
  <2> HIDE DEF P, n
  <2>3. IsFiniteSet(UNION {f[b] : b \in 1..n})
    BY <2>1, <2>2, FiniteUnion
  <2>4. {f[b] : b \in 1..n} = {P(s, b) : b \in 1..n}
    OBVIOUS
  <2> QED BY <2>3, <2>4 DEF n
<1> DEFINE m == Len(t)
           h == [s \in 1..m |-> B(s)]
<1>3. m \in Nat
  BY DEF PinnedTables
<1>4. \A s \in 1..m : IsFiniteSet(h[s])
  BY <1>2
<1> HIDE DEF m
<1>5. IsFiniteSet(UNION {h[s] : s \in 1..m})
  <2> HIDE DEF B
  <2> QED BY <1>3, <1>4, FiniteUnion
<1>6. RowsOf(t) \subseteq UNION {h[s] : s \in 1..m}
  <2> SUFFICES ASSUME NEW row \in RowsOf(t) PROVE row \in UNION {h[s] : s \in 1..m}
    OBVIOUS
  <2>1. PICK s, b, i :
          s \in 1..Len(t) /\ b \in 1..Len(t[s]) /\ i \in 1..Len(t[s][b]) /\ row = <<s, b, i>>
    BY RowShape
  <2>2. row \in P(s, b)
    BY <2>1
  <2> HIDE DEF P
  <2>3. row \in B(s)
    BY <2>1, <2>2
  <2> HIDE DEF B
  <2>4. s \in 1..m /\ h[s] = B(s)
    BY <2>1 DEF m
  <2> QED BY <2>3, <2>4
<1> QED BY <1>5, <1>6, FS_Subset

\* Cardinalities of finite sets, as the counting arguments use them.
LEMMA Counting ==
  ASSUME NEW A, IsFiniteSet(A)
  PROVE  /\ Cardinality(A) \in Nat
         /\ \A B \in SUBSET A : IsFiniteSet(B) /\ Cardinality(B) \in Nat /\ Cardinality(B) <= Cardinality(A)
         /\ \A B, C \in SUBSET A :
              B \cap C = {} => Cardinality(B \cup C) = Cardinality(B) + Cardinality(C)
<1>1. \A B \in SUBSET A : IsFiniteSet(B) /\ Cardinality(B) \in Nat /\ Cardinality(B) <= Cardinality(A)
  BY FS_Subset, FS_CardinalityType
<1>2. ASSUME NEW B \in SUBSET A, NEW C \in SUBSET A, B \cap C = {}
      PROVE  Cardinality(B \cup C) = Cardinality(B) + Cardinality(C)
  <2>1. IsFiniteSet(B) /\ IsFiniteSet(C) /\ Cardinality(B) \in Nat /\ Cardinality(C) \in Nat
    BY <1>1
  <2>2. Cardinality(B \cup C) = Cardinality(B) + Cardinality(C) - Cardinality(B \cap C)
    BY <2>1, FS_Union
  <2>3. Cardinality(B \cap C) = 0
    BY <1>2, FS_EmptySet
  <2> QED BY <2>1, <2>2, <2>3
<1> QED BY <1>1, <1>2, FS_CardinalityType

\* A range of partitions has the rows of a shorter one and those of its last partition.
LEMMA BetweenGrows ==
  ASSUME NEW t \in PinnedTables, NEW lo \in Nat, NEW hi \in Nat, lo <= hi
  PROVE  /\ IsFiniteSet(Between(t, lo, hi)) /\ Cardinality(Between(t, lo, hi)) \in Nat
         /\ Cardinality(Between(t, lo, hi)) = Cardinality(Between(t, lo, hi - 1)) + partition_count(t, hi)
         /\ partition_count(t, hi) = Cardinality(Between(t, hi, hi))
         /\ partition_count(t, hi) \in Nat
         /\ partition_count(t, hi) = 0 => \A row \in RowsOf(t) : Pid(t, row) # hi
<1> DEFINE L == {row \in RowsOf(t) : Pid(t, row) = hi}
<1>1. IsFiniteSet(RowsOf(t)) /\ \A row \in RowsOf(t) : Pid(t, row) \in Nat
  BY TableFinite, RowShape, ShuffleAssumption DEF Pids
<1>2. /\ Between(t, lo, hi) = Between(t, lo, hi - 1) \cup L
      /\ Between(t, lo, hi - 1) \cap L = {}
      /\ Between(t, hi, hi) = L
  BY <1>1 DEF Between
<1>3. Between(t, lo, hi - 1) \subseteq RowsOf(t) /\ L \subseteq RowsOf(t) /\ Between(t, lo, hi) \subseteq RowsOf(t)
  BY DEF Between
<1>4. partition_count(t, hi) = Cardinality(L)
  BY DEF partition_count
<1>5. Cardinality(L) = 0 => L = {}
  BY <1>1, <1>3, FS_EmptySet, FS_Subset
<1> HIDE DEF L
<1>6. Cardinality(Between(t, lo, hi - 1) \cup L) = Cardinality(Between(t, lo, hi - 1)) + Cardinality(L)
  BY <1>1, <1>2, <1>3, Counting
<1>7. IsFiniteSet(Between(t, lo, hi)) /\ Cardinality(Between(t, lo, hi)) \in Nat /\ Cardinality(L) \in Nat
  BY <1>1, <1>3, Counting
<1> QED BY <1>2, <1>4, <1>5, <1>6, <1>7 DEF L

\* The salts of an oversized partition are at least two, and enough for its rows.
LEMMA CeilBounds ==
  ASSUME NEW a \in Nat, NEW c \in Nat \ {0}, a > c
  PROVE  /\ CeilDiv(a, c) \in Nat /\ CeilDiv(a, c) > 1
         /\ a <= c * CeilDiv(a, c)
<1> DEFINE q == (a + c - 1) \div c
           r == (a + c - 1) % c
<1>1. q \in Int /\ r \in 0..(c - 1) /\ a + c - 1 = c * q + r
  OBVIOUS
<1> HIDE DEF q, r
<1>2. a <= c * q
  BY <1>1
<1>3. q > 1
  <2> SUFFICES ASSUME q <= 1 PROVE FALSE
    BY <1>1
  <2>1. c * q <= c /\ c * q \in Int
    BY <1>1
  <2> QED BY <1>2, <2>1
<1> QED BY <1>1, <1>2, <1>3 DEF CeilDiv, q

\* Every row below a closed range is served once the range is.
LEMMA ClosingServes ==
  ASSUME NEW t \in PinnedTables, NEW c \in Nat \ {0}, NEW bs, NEW lo \in Nat, NEW next \in Nat, lo < next,
         BucketsOK(t, c, bs, lo), Cardinality(Between(t, lo, next - 1)) <= c
  PROVE  BucketsOK(t, c, Append(bs, Bucket(lo, next - 1, 0, 1)), next)
<1> DEFINE b == Bucket(lo, next - 1, 0, 1)
           cs == Append(bs, b)
           n == Len(bs)
<1>1. b \in BucketRecord /\ b.low = lo /\ b.high = next - 1 /\ b.salt = 0 /\ b.salts = 1
  BY DEF Bucket, BucketRecord
<1>2. bs \in Seq(BucketRecord)
  BY DEF BucketsOK
<1> HIDE DEF b
<1>3. /\ cs \in Seq(BucketRecord) /\ Len(cs) = n + 1 /\ cs[n + 1] = b
      /\ \A k \in 1..n : cs[k] = bs[k]
      /\ n \in Nat
  BY <1>1, <1>2
<1> HIDE DEF cs, n
<1>4. /\ \A k \in 1..n : bs[k] \in BucketRecord /\ SoundBucket(t, c, bs[k]) /\ bs[k].high < lo
      /\ \A k, l \in 1..n : k < l => InOrder(bs[k], bs[l])
      /\ \A row \in RowsOf(t) : Pid(t, row) < lo => Served(bs, Pid(t, row))
  <2>1. \A k \in 1..n : bs[k] \in BucketRecord
    BY <1>2 DEF n
  <2>2. /\ \A k \in 1..n : SoundBucket(t, c, bs[k]) /\ bs[k].high < lo
        /\ \A k, l \in 1..n : k < l => InOrder(bs[k], bs[l])
        /\ \A row \in RowsOf(t) : Pid(t, row) < lo => Served(bs, Pid(t, row))
    BY DEF BucketsOK, n
  <2> QED BY <2>1, <2>2
<1>5. SoundBucket(t, c, b) /\ b.high < next
  BY <1>1 DEF SoundBucket
<1>6. \A k \in 1..Len(cs) : SoundBucket(t, c, cs[k]) /\ cs[k].high < next
  <2> SUFFICES ASSUME NEW k \in 1..(n + 1) PROVE SoundBucket(t, c, cs[k]) /\ cs[k].high < next
    BY <1>3
  <2>1. CASE k = n + 1
    BY <1>3, <1>5, <2>1
  <2>2. CASE k \in 1..n
    <3>1. cs[k] = bs[k] /\ bs[k].high \in Nat /\ bs[k].high < lo
      BY <1>3, <1>4, <2>2 DEF BucketRecord
    <3> QED BY <1>4, <2>2, <3>1
  <2> QED BY <1>3, <2>1, <2>2
<1>7. \A k, l \in 1..Len(cs) : k < l => InOrder(cs[k], cs[l])
  <2> SUFFICES ASSUME NEW k \in 1..(n + 1), NEW l \in 1..(n + 1), k < l PROVE InOrder(cs[k], cs[l])
    BY <1>3
  <2>1. k \in 1..n
    BY <1>3
  <2>2. CASE l = n + 1
    BY <1>1, <1>3, <1>4, <2>1, <2>2 DEF InOrder
  <2>3. CASE l \in 1..n
    BY <1>3, <1>4, <2>1, <2>3
  <2> QED BY <1>3, <2>2, <2>3
<1>8. ASSUME NEW row \in RowsOf(t), Pid(t, row) < next PROVE Served(cs, Pid(t, row))
  <2>0. Pid(t, row) \in Nat
    BY RowShape, ShuffleAssumption DEF Pids
  <2>1. CASE Pid(t, row) < lo
    <3>1. PICK k \in 1..n : /\ Covers(bs[k], Pid(t, row))
                            /\ \A j \in 0..(bs[k].salts - 1) : \E l \in 1..n : Covers(bs[l], Pid(t, row)) /\ bs[l].salt = j
      BY <1>4, <2>1 DEF Served, n
    <3>2. k \in 1..Len(cs) /\ cs[k] = bs[k]
      BY <1>3
    <3>3. \A j \in 0..(cs[k].salts - 1) : \E l \in 1..Len(cs) : Covers(cs[l], Pid(t, row)) /\ cs[l].salt = j
      BY <1>3, <3>1, <3>2
    <3> QED BY <3>1, <3>2, <3>3 DEF Served
  <2>2. CASE Pid(t, row) >= lo
    <3>1. Covers(cs[n + 1], Pid(t, row)) /\ n + 1 \in 1..Len(cs)
      BY <1>1, <1>3, <1>8, <2>0, <2>2 DEF Covers
    <3>2. \A j \in 0..(cs[n + 1].salts - 1) : j = cs[n + 1].salt
      BY <1>1, <1>3
    <3> QED BY <3>1, <3>2 DEF Served
  <2> QED BY <2>0, <2>1, <2>2
<1> QED BY <1>3, <1>6, <1>7, <1>8 DEF BucketsOK, cs, b

\* A partition without rows needs no bucket.
LEMMA SkippingServes ==
  ASSUME NEW t \in PinnedTables, NEW c, NEW bs, NEW pid \in Nat,
         BucketsOK(t, c, bs, pid), partition_count(t, pid) = 0
  PROVE  BucketsOK(t, c, bs, pid + 1)
<1>1. \A row \in RowsOf(t) : Pid(t, row) \in Nat /\ Pid(t, row) # pid
  BY RowShape, BetweenGrows, ShuffleAssumption DEF Pids
<1>2. ASSUME NEW k \in 1..Len(bs) PROVE bs[k].high < pid + 1
  <2>1. bs[k] \in BucketRecord /\ bs[k].high < pid
    BY DEF BucketsOK
  <2>2. bs[k].high \in Nat
    BY <2>1 DEF BucketRecord
  <2> QED BY <2>1, <2>2
<1> QED BY <1>1, <1>2 DEF BucketsOK

\* Salting serves an oversized partition.
LEMMA SaltingServes ==
  ASSUME NEW t \in PinnedTables, NEW c \in Nat \ {0}, NEW bs, NEW pid \in Nat,
         BucketsOK(t, c, bs, pid), partition_count(t, pid) > c
  PROVE  BucketsOK(t, c, bs \o Salted(pid, CeilDiv(partition_count(t, pid), c)), pid + 1)
<1> DEFINE S == CeilDiv(partition_count(t, pid), c)
           ss == Salted(pid, S)
           cs == bs \o ss
           n == Len(bs)
<1>1. partition_count(t, pid) = Cardinality(Between(t, pid, pid)) /\ partition_count(t, pid) \in Nat
  BY BetweenGrows
<1>2. S \in Nat /\ S > 1 /\ Cardinality(Between(t, pid, pid)) <= c * S
  BY <1>1, CeilBounds
<1>3. bs \in Seq(BucketRecord) /\ n \in Nat
  BY DEF BucketsOK
<1> HIDE DEF S, n
<1>4. \A j \in 1..S : Bucket(pid, pid, j - 1, S) \in BucketRecord
  BY <1>2 DEF Bucket, BucketRecord
<1>5. ss \in Seq(BucketRecord) /\ Len(ss) = S /\ \A j \in 1..S : ss[j] = Bucket(pid, pid, j - 1, S)
  <2>1. ss \in [1..S -> BucketRecord]
    BY <1>4 DEF Salted
  <2> QED BY <1>2, <2>1 DEF Salted
<1>6. \A j \in 1..S : /\ ss[j].low = pid /\ ss[j].high = pid /\ ss[j].salt = j - 1 /\ ss[j].salts = S
  BY <1>5 DEF Bucket
<1> HIDE DEF ss
<1>7. /\ cs \in Seq(BucketRecord) /\ Len(cs) = n + S
      /\ \A k \in 1..n : cs[k] = bs[k]
      /\ \A j \in 1..S : cs[n + j] = ss[j]
  <2>1. /\ cs \in Seq(BucketRecord) /\ Len(cs) = n + S
        /\ \A i \in 1..(n + S) : cs[i] = IF i <= n THEN bs[i] ELSE ss[i - n]
    BY <1>3, <1>5, ConcatProperties DEF n
  <2> HIDE DEF cs
  <2>2. \A k \in 1..n : k \in 1..(n + S) /\ k <= n
    BY <1>2, <1>3
  <2>3. \A j \in 1..S : n + j \in 1..(n + S) /\ ~(n + j <= n) /\ (n + j) - n = j
    BY <1>2, <1>3
  <2> QED BY <2>1, <2>2, <2>3
<1> HIDE DEF cs
<1>8. /\ \A k \in 1..n : bs[k] \in BucketRecord /\ SoundBucket(t, c, bs[k]) /\ bs[k].high < pid
      /\ \A k, l \in 1..n : k < l => InOrder(bs[k], bs[l])
      /\ \A row \in RowsOf(t) : Pid(t, row) < pid => Served(bs, Pid(t, row))
  <2>1. \A k \in 1..n : bs[k] \in BucketRecord
    BY <1>3 DEF n
  <2>2. /\ \A k \in 1..n : SoundBucket(t, c, bs[k]) /\ bs[k].high < pid
        /\ \A k, l \in 1..n : k < l => InOrder(bs[k], bs[l])
        /\ \A row \in RowsOf(t) : Pid(t, row) < pid => Served(bs, Pid(t, row))
    BY DEF BucketsOK, n
  <2> QED BY <2>1, <2>2
<1>9. \A j \in 1..S : SoundBucket(t, c, ss[j]) /\ ss[j].high < pid + 1
  BY <1>2, <1>6 DEF SoundBucket
<1>10. \A k \in 1..(n + S) : k \in 1..n \/ \E j \in 1..S : k = n + j
  <2> SUFFICES ASSUME NEW k \in 1..(n + S), k \notin 1..n PROVE \E j \in 1..S : k = n + j
    OBVIOUS
  <2>1. k - n \in 1..S /\ k = n + (k - n)
    BY <1>2, <1>3
  <2> QED BY <2>1
<1>11. ASSUME NEW k \in 1..Len(cs) PROVE SoundBucket(t, c, cs[k]) /\ cs[k].high < pid + 1
  <2>1. CASE k \in 1..n
    <3>1. bs[k].high \in Nat
      BY <1>8, <2>1 DEF BucketRecord
    <3> QED BY <1>7, <1>8, <2>1, <3>1
  <2>2. CASE \E j \in 1..S : k = n + j
    BY <1>7, <1>9, <2>2
  <2> QED BY <1>7, <1>10, <2>1, <2>2
<1>12. ASSUME NEW k \in 1..Len(cs), NEW l \in 1..Len(cs), k < l PROVE InOrder(cs[k], cs[l])
  <2>1. CASE k \in 1..n /\ l \in 1..n
    BY <1>7, <1>8, <1>12, <2>1
  <2>2. CASE k \in 1..n /\ \E j \in 1..S : l = n + j
    BY <1>6, <1>7, <1>8, <2>2 DEF InOrder
  <2>3. CASE (\E i \in 1..S : k = n + i) /\ (\E j \in 1..S : l = n + j)
    <3>1. PICK i \in 1..S, j \in 1..S : k = n + i /\ l = n + j
      BY <2>3
    <3>2. i < j
      BY <1>2, <1>3, <1>12, <3>1
    <3>3. cs[k] = ss[i] /\ cs[l] = ss[j]
      BY <1>7, <3>1
    <3> QED BY <1>2, <1>6, <3>2, <3>3 DEF InOrder
  <2>4. CASE k \notin 1..n /\ l \in 1..n
    BY <1>3, <1>7, <1>12, <2>4
  <2> QED BY <1>7, <1>10, <2>1, <2>2, <2>3, <2>4
<1>13. ASSUME NEW row \in RowsOf(t), Pid(t, row) < pid + 1 PROVE Served(cs, Pid(t, row))
  <2>0. Pid(t, row) \in Nat
    BY RowShape, ShuffleAssumption DEF Pids
  <2>1. CASE Pid(t, row) < pid
    <3>1. PICK k \in 1..n : /\ Covers(bs[k], Pid(t, row))
                            /\ \A j \in 0..(bs[k].salts - 1) : \E l \in 1..n : Covers(bs[l], Pid(t, row)) /\ bs[l].salt = j
      BY <1>8, <2>1 DEF Served, n
    <3>2. 1..n \subseteq 1..Len(cs) /\ cs[k] = bs[k]
      BY <1>2, <1>3, <1>7
    <3>3. \A j \in 0..(cs[k].salts - 1) : \E l \in 1..Len(cs) : Covers(cs[l], Pid(t, row)) /\ cs[l].salt = j
      BY <1>7, <3>1, <3>2
    <3> QED BY <3>1, <3>2, <3>3 DEF Served
  <2>2. CASE Pid(t, row) = pid
    <3>0. \A j \in 1..S : n + j \in 1..Len(cs) /\ cs[n + j] = ss[j]
      BY <1>2, <1>3, <1>7
    <3>1. \A j \in 1..S : n + j \in 1..Len(cs) /\ Covers(cs[n + j], pid) /\ cs[n + j].salt = j - 1 /\ cs[n + j].salts = S
      BY <1>6, <3>0 DEF Covers
    <3>2. \A j \in 0..(S - 1) : j + 1 \in 1..S /\ cs[n + (j + 1)].salt = j
      BY <1>2, <3>1
    <3>3. \A j \in 0..(S - 1) : \E l \in 1..Len(cs) : Covers(cs[l], pid) /\ cs[l].salt = j
      BY <3>1, <3>2
    <3>4. 1 \in 1..S
      BY <1>2
    <3> QED BY <2>2, <3>1, <3>3, <3>4 DEF Served
  <2> QED BY <1>13, <2>0, <2>1, <2>2
<1> QED BY <1>7, <1>11, <1>12, <1>13 DEF BucketsOK, cs, ss, S

\* One partition more keeps the packing sound.
LEMMA PackingStep ==
  ASSUME NEW t \in PinnedTables, cap \in Nat \ {0}, NEW p, PackingOK(t, cap, p), p.next <= Partitions
  PROVE  PackingOK(t, cap, PackPartition(p, partition_count(t, p.next)))
<1> DEFINE c == partition_count(t, p.next)
           q == PackPartition(p, c)
<1>1. /\ p.buckets \in Seq(BucketRecord) /\ p.low \in Int /\ p.running \in Nat /\ p.next \in 0..Partitions
      /\ Partitions \in Nat
  BY ShuffleAssumption DEF PackingOK
<1>2. c \in Nat /\ c = Cardinality(Between(t, p.next, p.next))
  <2>1. p.next \in Nat /\ p.next <= p.next
    BY <1>1
  <2> QED BY <2>1, BetweenGrows
<1> HIDE DEF c
<1>3. \A bs \in Seq(BucketRecord), lo \in Int, run \in Nat :
        /\ Packing(bs, lo, run, p.next + 1) \in
             [buckets : Seq(BucketRecord), low : Int, running : Nat, next : 0..(Partitions + 1)]
        /\ Packing(bs, lo, run, p.next + 1).buckets = bs /\ Packing(bs, lo, run, p.next + 1).low = lo
        /\ Packing(bs, lo, run, p.next + 1).running = run /\ Packing(bs, lo, run, p.next + 1).next = p.next + 1
  BY <1>1 DEF Packing
<1>4. p.low # -1 => /\ p.low \in Nat /\ p.low < p.next
                    /\ p.running = Cardinality(Between(t, p.low, p.next - 1)) /\ p.running <= cap
                    /\ BucketsOK(t, cap, p.buckets, p.low)
  BY <1>1 DEF PackingOK
<1>5. BucketsOK(t, cap, Closed(p), p.next)
  <2>1. CASE p.low = -1
    BY <2>1 DEF PackingOK, Closed
  <2>2. CASE p.low # -1
    <3>1. BucketsOK(t, cap, Append(p.buckets, Bucket(p.low, p.next - 1, 0, 1)), p.next)
      BY <1>1, <1>4, <2>2, ClosingServes
    <3> QED BY <2>2, <3>1 DEF Closed
  <2> QED BY <2>1, <2>2
<1>6. Closed(p) \in Seq(BucketRecord)
  BY <1>5 DEF BucketsOK
<1>7. CASE p.low # -1 /\ p.running + c <= cap
  <2>1. q = Packing(p.buckets, p.low, p.running + c, p.next + 1)
    BY <1>1, <1>2, <1>7 DEF PackPartition
  <2>2. Cardinality(Between(t, p.low, p.next)) = p.running + c
    <3>1. p.low \in Nat /\ p.next \in Nat /\ p.low <= p.next
      BY <1>1, <1>4, <1>7
    <3>2. Cardinality(Between(t, p.low, p.next)) = Cardinality(Between(t, p.low, p.next - 1)) + partition_count(t, p.next)
      BY <3>1, BetweenGrows
    <3> QED BY <1>4, <1>7, <3>2 DEF c
  <2>3. p.running + c \in Nat /\ (p.next + 1) - 1 = p.next /\ p.low \in 0..p.next
    BY <1>1, <1>2, <1>4, <1>7
  <2> HIDE DEF q
  <2>4. /\ q \in [buckets : Seq(BucketRecord), low : Int, running : Nat, next : 0..(Partitions + 1)]
        /\ q.buckets = p.buckets /\ q.low = p.low /\ q.running = p.running + c /\ q.next = p.next + 1
    BY <1>1, <1>3, <2>1, <2>3
  <2>5. PackingOK(t, cap, q)
    BY <1>4, <1>7, <2>2, <2>3, <2>4 DEF PackingOK
  <2> QED BY <2>5 DEF q, c
<1>8. CASE p.low = -1 /\ c = 0
  <2>1. q = Packing(p.buckets, -1, 0, p.next + 1)
    BY <1>8 DEF PackPartition
  <2>2. BucketsOK(t, cap, p.buckets, p.next + 1)
    BY <1>1, <1>8, SkippingServes DEF PackingOK, c
  <2> HIDE DEF q
  <2>4. /\ q \in [buckets : Seq(BucketRecord), low : Int, running : Nat, next : 0..(Partitions + 1)]
        /\ q.buckets = p.buckets /\ q.low = -1 /\ q.running = 0 /\ q.next = p.next + 1
    BY <1>1, <1>3, <2>1
  <2>5. PackingOK(t, cap, q)
    BY <2>2, <2>4 DEF PackingOK
  <2> QED BY <2>5 DEF q, c
<1>9. CASE ~(p.low # -1 /\ p.running + c <= cap) /\ ~(p.low = -1 /\ c = 0) /\ c > cap
  <2> DEFINE bs == Closed(p) \o Salted(p.next, CeilDiv(c, cap))
  <2>1. q = Packing(bs, -1, 0, p.next + 1)
    BY <1>9 DEF PackPartition
  <2>2. BucketsOK(t, cap, bs, p.next + 1)
    BY <1>1, <1>5, <1>9, SaltingServes DEF c
  <2>3. bs \in Seq(BucketRecord)
    BY <2>2 DEF BucketsOK
  <2> HIDE DEF q, bs
  <2>4. -1 \in Int /\ 0 \in Nat /\ p.next + 1 \in 0..(Partitions + 1)
    BY <1>1
  <2>5. q.buckets = bs /\ q.low = -1 /\ q.running = 0 /\ q.next = p.next + 1
    BY <2>1 DEF Packing
  <2>6. q \in [buckets : Seq(BucketRecord), low : Int, running : Nat, next : 0..(Partitions + 1)]
    BY <2>1, <2>3, <2>4 DEF Packing
  <2>7. PackingOK(t, cap, q)
    BY <2>2, <2>5, <2>6 DEF PackingOK
  <2> QED BY <2>7 DEF q, c
<1>10. CASE ~(p.low # -1 /\ p.running + c <= cap) /\ ~(p.low = -1 /\ c = 0) /\ ~(c > cap)
  <2>1. q = Packing(Closed(p), p.next, c, p.next + 1)
    BY <1>10 DEF PackPartition
  <2>2. p.next # -1 /\ p.next \in 0..((p.next + 1) - 1) /\ (p.next + 1) - 1 = p.next /\ c <= cap /\ p.next \in Int
    BY <1>1, <1>2, <1>10
  <2> HIDE DEF q
  <2>4. /\ q \in [buckets : Seq(BucketRecord), low : Int, running : Nat, next : 0..(Partitions + 1)]
        /\ q.buckets = Closed(p) /\ q.low = p.next /\ q.running = c /\ q.next = p.next + 1
    BY <1>2, <1>3, <1>6, <2>1, <2>2
  <2>5. PackingOK(t, cap, q)
    BY <1>2, <1>5, <2>2, <2>4 DEF PackingOK
  <2> QED BY <2>5 DEF q, c
<1> QED BY <1>7, <1>8, <1>9, <1>10

\* When every partition has been looked at, the closed buckets serve all of them.
LEMMA PackingEnds ==
  ASSUME NEW t \in PinnedTables, cap \in Nat \ {0}, NEW p, PackingOK(t, cap, p), p.next > Partitions
  PROVE  BucketsOK(t, cap, Closed(p), Partitions + 1)
<1>1. p.next = Partitions + 1 /\ Partitions \in Nat
  BY ShuffleAssumption DEF PackingOK
<1>2. CASE p.low = -1
  BY <1>1, <1>2 DEF PackingOK, Closed
<1>3. CASE p.low # -1
  <2>1. /\ p.low \in Nat /\ p.low < p.next /\ BucketsOK(t, cap, p.buckets, p.low)
        /\ Cardinality(Between(t, p.low, p.next - 1)) <= cap
    BY <1>1, <1>3 DEF PackingOK
  <2>2. BucketsOK(t, cap, Append(p.buckets, Bucket(p.low, p.next - 1, 0, 1)), p.next)
    BY <1>1, <2>1, ClosingServes
  <2> QED BY <1>1, <1>3, <2>2 DEF Closed
<1> QED BY <1>2, <1>3

\* Every non-empty set of numbers has a least one.
LEMMA LeastNumber ==
  ASSUME NEW T \in SUBSET Nat, T # {}
  PROVE  \E x \in T : \A y \in T : x <= y
<1>1. \E x \in T : \A y \in T : ~(<<y, x>> \in OpToRel(<, Nat))
  BY NatLessThanWellFounded, WFMin
<1>2. \A x, y \in Nat : y < x => <<y, x>> \in OpToRel(<, Nat)
  BY DEF OpToRel
<1>3. \E R : /\ \E x \in T : \A y \in T : ~(<<y, x>> \in R)
             /\ \A x, y \in Nat : y < x => <<y, x>> \in R
  BY <1>1, <1>2
<1>4. PICK R : /\ \E x \in T : \A y \in T : ~(<<y, x>> \in R)
               /\ \A x, y \in Nat : y < x => <<y, x>> \in R
  BY <1>3
<1>5. PICK x \in T : \A y \in T : ~(<<y, x>> \in R)
  BY <1>4
<1>6. \A y \in T : ~(y < x)
  BY <1>4, <1>5
<1> QED BY <1>6

\* Quotient and remainder, and products, of numbers.
LEMMA Dividing ==
  ASSUME NEW S \in Nat \ {0}, NEW a \in Nat
  PROVE  a \div S \in Nat /\ a % S \in 0..(S - 1) /\ a = S * (a \div S) + (a % S) /\ S * (a \div S) \in Nat
<1>1. a \div S \in Int /\ a % S \in 0..(S - 1) /\ a = S * (a \div S) + (a % S)
  OBVIOUS
<1>2. a \div S >= 0
  OBVIOUS
<1>3. \A q \in Nat : S * q \in Nat
  OBVIOUS
<1> QED BY <1>1, <1>2, <1>3

\* Dividing keeps the order.
LEMMA DividingMonotone ==
  ASSUME NEW S \in Nat \ {0}, NEW a \in Nat, NEW b \in Nat, a <= b
  PROVE  a \div S <= b \div S
<1> DEFINE u == a \div S
           v == b \div S
           w == a % S
           z == b % S
<1>1. /\ u \in Nat /\ v \in Nat /\ w \in 0..(S - 1) /\ z \in 0..(S - 1)
      /\ a = S * u + w /\ b = S * v + z /\ S * u \in Nat /\ S * v \in Nat
  BY Dividing
<1> HIDE DEF u, v, w, z
<1>2. CASE u >= v + 1
  <2>1. S * u >= S * (v + 1)
    BY <1>1, <1>2
  <2>2. S * (v + 1) = S * v + S
    BY <1>1
  <2> QED BY <1>1, <2>1, <2>2
<1>3. CASE u <= v
  BY <1>3 DEF u, v
<1> QED BY <1>1, <1>2, <1>3

\* Two numbers of the same quotient that leave the same remainder from some base on are equal.
LEMMA SameTurn ==
  ASSUME NEW base \in Nat, NEW a \in Nat, NEW b \in Nat, NEW S \in Nat \ {0},
         (base + a) % S = (base + b) % S, a \div S = b \div S
  PROVE  a = b
<1> DEFINE q1 == (base + a) \div S
           q2 == (base + b) \div S
           r == (base + a) % S
           d == a \div S
           x == a % S
           y == b % S
<1>1. /\ q1 \in Int /\ q2 \in Int /\ r \in Int /\ d \in Int /\ x \in 0..(S - 1) /\ y \in 0..(S - 1)
      /\ base + a = S * q1 + r /\ base + b = S * q2 + r /\ a = S * d + x /\ b = S * d + y
  <2>1. base + a \in Nat /\ base + b \in Nat
    OBVIOUS
  <2>2. \A m \in Nat : m \div S \in Nat /\ m % S \in 0..(S - 1) /\ m = S * (m \div S) + (m % S)
    BY Dividing
  <2>3. (base + a) \div S \in Nat /\ (base + a) % S \in 0..(S - 1) /\ base + a = S * ((base + a) \div S) + ((base + a) % S)
    BY <2>1, <2>2
  <2>4. (base + b) \div S \in Nat /\ base + b = S * ((base + b) \div S) + ((base + b) % S)
    BY <2>1, <2>2
  <2>5. a \div S \in Nat /\ a % S \in 0..(S - 1) /\ a = S * (a \div S) + (a % S)
    BY <2>2
  <2>6. b \div S \in Nat /\ b % S \in 0..(S - 1) /\ b = S * (b \div S) + (b % S)
    BY <2>2
  <2> QED BY <2>3, <2>4, <2>5, <2>6
<1> HIDE DEF q1, q2, r, d, x, y
<1>2. S * q1 \in Int /\ S * q2 \in Int /\ S * d \in Int
  BY <1>1
<1>3. S * q1 - S * q2 = x - y
  BY <1>1, <1>2
<1>4. S * q1 - S * q2 = S * (q1 - q2) /\ q1 - q2 \in Int
  BY <1>1
<1>5. CASE q1 - q2 >= 1
  <2>1. S * (q1 - q2) >= S
    BY <1>4, <1>5
  <2> QED BY <1>1, <1>2, <1>3, <1>4, <2>1
<1>6. CASE q1 - q2 <= -1
  <2>1. S * (q1 - q2) <= -S
    BY <1>4, <1>6
  <2> QED BY <1>1, <1>2, <1>3, <1>4, <2>1
<1>7. CASE q1 - q2 = 0
  <2>1. x = y
    BY <1>1, <1>2, <1>3, <1>7
  <2> QED BY <1>1, <2>1
<1> QED BY <1>4, <1>5, <1>6, <1>7

-----------------------------------------------------------------------------
(* The turn of a row.                                                      *)

\* How many rows of its partition the shard has routed before a row.
Rank(row) == Cardinality(SameBatchBefore(row)) + Cardinality(salts_before(row))

\* The rows a shard routes to the partition of a row before it.
Predecessors(row) ==
  {r \in RowsOf(pinned) : /\ r[1] = row[1] /\ Pid(pinned, r) = Pid(pinned, row)
                          /\ r[2] < row[2] \/ (r[2] = row[2] /\ r[3] < row[3])}

\* The rows of a partition in one shard.
ShardRows(s, pid) == {row \in RowsOf(pinned) : row[1] = s /\ Pid(pinned, row) = pid}

\* What every use of the buckets relies on.
Planned == pinned \in PinnedTables /\ cap \in Nat \ {0} /\ BucketsOK(pinned, cap, buckets, Partitions + 1)

\* The rank of a row is the number of its predecessors.
LEMMA RankCounts ==
  ASSUME Planned, NEW row \in RowsOf(pinned)
  PROVE  /\ Rank(row) = Cardinality(Predecessors(row)) /\ Rank(row) \in Nat
         /\ Predecessors(row) \subseteq RowsOf(pinned)
<1>1. IsFiniteSet(RowsOf(pinned))
  BY TableFinite DEF Planned
<1>2. \A r \in RowsOf(pinned) : r[1] \in Int /\ r[2] \in Int /\ r[3] \in Int
  BY RowShape DEF Planned
<1>3. /\ Predecessors(row) = SameBatchBefore(row) \cup salts_before(row)
      /\ SameBatchBefore(row) \cap salts_before(row) = {}
      /\ SameBatchBefore(row) \subseteq RowsOf(pinned) /\ salts_before(row) \subseteq RowsOf(pinned)
      /\ Predecessors(row) \subseteq RowsOf(pinned)
  BY <1>2 DEF Predecessors, SameBatchBefore, salts_before
<1>4. Cardinality(SameBatchBefore(row) \cup salts_before(row)) = Rank(row)
  BY <1>1, <1>3, Counting DEF Rank
<1>5. Cardinality(Predecessors(row)) \in Nat
  BY <1>1, <1>3, Counting
<1> QED BY <1>3, <1>4, <1>5

\* Rows of one shard and partition have different ranks, below their number.
LEMMA RanksDiffer ==
  ASSUME Planned, NEW s, NEW pid, NEW r \in ShardRows(s, pid)
  PROVE  /\ Rank(r) \in Nat /\ Rank(r) < Cardinality(ShardRows(s, pid))
         /\ \A q \in ShardRows(s, pid) : Rank(q) = Rank(r) => q = r
<1>1. IsFiniteSet(RowsOf(pinned))
  BY TableFinite DEF Planned
<1>2. \A x \in RowsOf(pinned) : /\ x[1] \in Int /\ x[2] \in Int /\ x[3] \in Int
                                /\ x = <<x[1], x[2], x[3]>>
  BY RowShape DEF Planned
<1>3. ShardRows(s, pid) \subseteq RowsOf(pinned)
  BY DEF ShardRows
<1>4. \A x \in ShardRows(s, pid) : /\ Rank(x) = Cardinality(Predecessors(x)) /\ Rank(x) \in Nat
                                   /\ Predecessors(x) \subseteq RowsOf(pinned)
  BY <1>3, RankCounts
<1>5. \A x \in ShardRows(s, pid) : x \notin Predecessors(x) /\ Predecessors(x) \subseteq ShardRows(s, pid)
  BY <1>2 DEF Predecessors, ShardRows
<1>6. \A x, T : T \subseteq RowsOf(pinned) /\ x \in RowsOf(pinned) /\ x \notin T =>
        Cardinality(T \cup {x}) = Cardinality(T) + 1
  <2> TAKE x, T
  <2> HAVE T \subseteq RowsOf(pinned) /\ x \in RowsOf(pinned) /\ x \notin T
  <2>1. IsFiniteSet(T)
    BY <1>1, FS_Subset
  <2> QED BY <2>1, FS_AddElement
<1>7. Cardinality(Predecessors(r) \cup {r}) = Rank(r) + 1
  BY <1>3, <1>4, <1>5, <1>6
<1>8. Cardinality(Predecessors(r) \cup {r}) <= Cardinality(ShardRows(s, pid))
  <2>1. Predecessors(r) \cup {r} \subseteq ShardRows(s, pid)
    BY <1>5
  <2>2. IsFiniteSet(ShardRows(s, pid))
    BY <1>1, <1>3, FS_Subset
  <2> QED BY <2>1, <2>2, Counting
<1>9. \A x, y \in ShardRows(s, pid) : x \in Predecessors(y) => Rank(x) < Rank(y)
  <2> SUFFICES ASSUME NEW x \in ShardRows(s, pid), NEW y \in ShardRows(s, pid), x \in Predecessors(y)
               PROVE  Rank(x) < Rank(y)
    OBVIOUS
  <2>1. Predecessors(x) \cup {x} \subseteq Predecessors(y)
    BY <1>2, <1>3 DEF Predecessors
  <2>2. IsFiniteSet(Predecessors(y))
    BY <1>1, <1>4, FS_Subset
  <2>3. Cardinality(Predecessors(x) \cup {x}) <= Cardinality(Predecessors(y))
    BY <2>1, <2>2, Counting
  <2>4. Cardinality(Predecessors(x) \cup {x}) = Rank(x) + 1
    BY <1>3, <1>4, <1>5, <1>6
  <2> QED BY <1>4, <2>3, <2>4
<1>10. \A q \in ShardRows(s, pid) : q = r \/ q \in Predecessors(r) \/ r \in Predecessors(q)
  <2> SUFFICES ASSUME NEW q \in ShardRows(s, pid), q # r PROVE q \in Predecessors(r) \/ r \in Predecessors(q)
    OBVIOUS
  <2>1. q[1] = r[1] /\ Pid(pinned, q) = Pid(pinned, r) /\ q \in RowsOf(pinned) /\ r \in RowsOf(pinned)
    BY DEF ShardRows
  <2>2. q[2] # r[2] \/ q[3] # r[3]
    <3>1. q = <<q[1], q[2], q[3]>> /\ r = <<r[1], r[2], r[3]>>
      BY <1>2, <2>1
    <3> QED BY <2>1, <3>1
  <2>3. q[2] \in Int /\ q[3] \in Int /\ r[2] \in Int /\ r[3] \in Int
    BY <1>2, <2>1
  <2>4. \/ q[2] < r[2] \/ (q[2] = r[2] /\ q[3] < r[3])
        \/ r[2] < q[2] \/ (r[2] = q[2] /\ r[3] < q[3])
    BY <2>2, <2>3
  <2> QED BY <2>1, <2>4 DEF Predecessors
<1>11. Rank(r) < Cardinality(ShardRows(s, pid))
  <2>1. Cardinality(ShardRows(s, pid)) \in Nat
    BY <1>1, <1>3, Counting
  <2> QED BY <1>4, <1>7, <1>8, <2>1
<1>12. \A q \in ShardRows(s, pid) : Rank(q) = Rank(r) => q = r
  BY <1>4, <1>9, <1>10
<1> QED BY <1>4, <1>11, <1>12

\* A shard's first turn.
LEMMA OffsetType ==
  ASSUME pinned \in PinnedTables, NEW s \in DOMAIN pinned, NEW pid \in Nat
  PROVE  initial_salt_offset(s, pid) \in Nat
<1>1. ShardSignature \in Seq(Nat) BY ShuffleAssumption DEF ShuffleAssumption
<1>2. pinned \in Seq(Seq(Seq(Pids))) /\ Len(pinned) <= Len(ShardSignature) BY DEF PinnedTables
<1>3. s \in 1..Len(ShardSignature) BY <1>1, <1>2
<1> QED BY <1>1, <1>3 DEF initial_salt_offset

\* Every row goes to a bucket of its partition, and of its turn.
LEMMA RowIsRouted ==
  ASSUME Planned, NEW row \in RowsOf(pinned), NEW k, k = assign_global_bucket(row)
  PROVE  /\ k \in 1..Len(buckets) /\ Covers(buckets[k], Pid(pinned, row))
         /\ buckets[k].salt = (initial_salt_offset(row[1], Pid(pinned, row)) + Rank(row)) % buckets[k].salts
<1> DEFINE pid == Pid(pinned, row)
           targets == bucket_lookup(pid)
           turn == initial_salt_offset(row[1], pid) + Rank(row)
<1>1. pid \in 0..Partitions /\ pid < Partitions + 1 /\ row[1] \in Nat \ {0} /\ Partitions \in Nat
  BY RowShape, ShuffleAssumption DEF Planned, Pids
<1>2. turn \in Nat
  <2>1. pinned \in PinnedTables /\ row[1] \in DOMAIN pinned BY RowShape DEF Planned
  <2>2. initial_salt_offset(row[1], pid) \in Nat BY <1>1, <2>1, OffsetType
  <2> QED BY <2>2, RankCounts
<1> HIDE DEF turn, pid
<1>3. buckets \in Seq(BucketRecord) /\ DOMAIN buckets = 1..Len(buckets) /\ Len(buckets) \in Nat
  BY DEF Planned, BucketsOK
<1>4. \A l : l \in targets <=> l \in 1..Len(buckets) /\ Covers(buckets[l], pid)
  BY <1>3 DEF bucket_lookup, Covers
<1>5. PICK m \in 1..Len(buckets) :
        /\ Covers(buckets[m], pid)
        /\ \A j \in 0..(buckets[m].salts - 1) : \E l \in 1..Len(buckets) : Covers(buckets[l], pid) /\ buckets[l].salt = j
  BY <1>1 DEF Planned, BucketsOK, Served, pid
<1>6. \A l \in 1..Len(buckets) : Covers(buckets[l], pid) => buckets[l].salts = buckets[m].salts
  <2> SUFFICES ASSUME NEW l \in 1..Len(buckets), Covers(buckets[l], pid), l # m
               PROVE  buckets[l].salts = buckets[m].salts
    OBVIOUS
  <2>1. buckets[l] \in BucketRecord /\ buckets[m] \in BucketRecord
    BY <1>3
  <2>2. l < m \/ m < l
    BY <1>3
  <2>3. InOrder(buckets[l], buckets[m]) \/ InOrder(buckets[m], buckets[l])
    BY <2>2 DEF Planned, BucketsOK
  <2> QED BY <1>1, <1>5, <2>1, <2>3 DEF InOrder, Covers, BucketRecord
<1>7. buckets[m].salts \in Nat \ {0}
  <2>1. buckets[m] \in BucketRecord /\ SoundBucket(pinned, cap, buckets[m])
    BY <1>3, <1>5 DEF Planned, BucketsOK
  <2> QED BY <2>1 DEF BucketRecord, SoundBucket
<1>8. turn % buckets[m].salts \in 0..(buckets[m].salts - 1)
  BY <1>2, <1>7
<1>9. PICK l \in 1..Len(buckets) : Covers(buckets[l], pid) /\ buckets[l].salt = turn % buckets[m].salts
  BY <1>5, <1>8
<1>10. l \in targets /\ buckets[l].salt = turn % buckets[l].salts
  BY <1>4, <1>6, <1>9
<1>11. k = IF targets = {} THEN 0 ELSE CHOOSE j \in targets : buckets[j].salt = turn % buckets[j].salts
  BY DEF assign_global_bucket, NextInTurn, pid, turn, Rank
<1> HIDE DEF targets
<1>12. k \in targets /\ buckets[k].salt = turn % buckets[k].salts
  BY <1>10, <1>11
<1> QED BY <1>4, <1>12 DEF turn, pid

\* The rows that go to a bucket.
Routed(k) == {row \in RowsOf(pinned) : assign_global_bucket(row) = k}

\* A shard hands at most its even share, rounded up, to each salt of a partition.
LEMMA ShardShare ==
  ASSUME Planned, NEW k \in 1..Len(buckets), buckets[k].salts > 1, NEW s \in 1..Len(pinned),
         NEW R, R = ShardRows(s, buckets[k].low), NEW M, M = R \cap Routed(k)
  PROVE  buckets[k].salts * Cardinality(M) <= Cardinality(R) + (buckets[k].salts - 1)
<1> DEFINE S == buckets[k].salts
           n == Cardinality(R)
           pid == buckets[k].low
           base == initial_salt_offset(s, pid)
<1>1. IsFiniteSet(R) /\ n \in Nat
  <2>1. IsFiniteSet(RowsOf(pinned))
    BY TableFinite DEF Planned
  <2>2. R \subseteq RowsOf(pinned)
    BY DEF ShardRows
  <2> QED BY <2>1, <2>2, Counting
<1>2. S \in Nat \ {0} /\ S > 1 /\ pid \in Nat /\ base \in Nat /\ buckets[k].salt \in Nat
  <2>1. buckets[k] \in BucketRecord
    BY DEF Planned, BucketsOK
  <2>2. S \in Nat /\ pid \in Nat /\ buckets[k].salt \in Nat
    BY <2>1 DEF BucketRecord
  <2>3. pinned \in PinnedTables /\ s \in DOMAIN pinned
    BY DEF Planned, PinnedTables
  <2>4. base \in Nat BY <2>2, <2>3, OffsetType
  <2> HIDE DEF base
  <2> QED BY <2>2, <2>4
<1>3. ASSUME NEW x \in M
      PROVE  /\ Rank(x) \in Nat /\ Rank(x) < n
             /\ (base + Rank(x)) % S = buckets[k].salt
             /\ \A y \in M : Rank(y) = Rank(x) => y = x
  <2>1. x \in ShardRows(s, pid) /\ x \in RowsOf(pinned) /\ assign_global_bucket(x) = k
    BY DEF Routed
  <2>2. x[1] = s /\ Pid(pinned, x) = pid
    BY <2>1 DEF ShardRows
  <2>3. buckets[k].salt = (initial_salt_offset(x[1], Pid(pinned, x)) + Rank(x)) % buckets[k].salts
    BY <2>1, RowIsRouted
  <2>4. /\ Rank(x) \in Nat /\ Rank(x) < Cardinality(ShardRows(s, pid))
        /\ \A q \in ShardRows(s, pid) : Rank(q) = Rank(x) => q = x
    BY <2>1, RanksDiffer
  <2> QED BY <2>2, <2>3, <2>4
<1> HIDE DEF S, n, pid, base
<1> DEFINE f == [x \in M |-> Rank(x) \div S]
           top == (n - 1) \div S
<1>4. CASE M = {}
  <2>1. Cardinality(M) = 0
    BY <1>4, FS_EmptySet
  <2>2. S * Cardinality(M) = 0
    BY <1>2, <2>1
  <2> QED BY <1>1, <1>2, <2>2 DEF S, n
<1>5. CASE M # {}
  <2>0. n >= 1
    BY <1>1, <1>3, <1>5
  <2>1. top \in Nat /\ S * top <= n - 1
    BY <1>1, <1>2, <2>0
  <2>2. ASSUME NEW x \in M PROVE f[x] \in 0..top
    <3>1. Rank(x) \in Nat /\ Rank(x) <= n - 1
      BY <1>1, <1>3
    <3>2. \A a, b \in Nat : a <= b => a \div S \in Nat /\ a \div S <= b \div S
      BY <1>2, Dividing, DividingMonotone
    <3>3. Rank(x) \div S \in Nat /\ Rank(x) \div S <= top
      BY <2>0, <1>1, <3>1, <3>2
    <3> QED BY <2>1, <3>3
  <2>3. \A x, y \in M : f[x] = f[y] => x = y
    <3> SUFFICES ASSUME NEW x \in M, NEW y \in M, f[x] = f[y] PROVE x = y
      OBVIOUS
    <3>1. Rank(x) \div S = Rank(y) \div S
      OBVIOUS
    <3>2. (base + Rank(x)) % S = (base + Rank(y)) % S /\ Rank(x) \in Nat /\ Rank(y) \in Nat
      BY <1>3
    <3>3. Rank(x) = Rank(y)
      BY <1>2, <3>1, <3>2, SameTurn
    <3> QED BY <1>3, <3>3
  <2>4. f \in Injection(M, 0..top)
    <3>1. f \in [M -> 0..top]
      BY <2>2
    <3> QED BY <2>3, <3>1 DEF Injection, IsInjective
  <2>5. IsFiniteSet(0..top) /\ Cardinality(0..top) = top + 1
    BY <2>1, FS_Interval
  <2> HIDE DEF f
  <2>6. IsFiniteSet(M) /\ Cardinality(M) <= top + 1
    BY <2>4, <2>5, FS_Injection
  <2>7. Cardinality(M) \in Nat
    BY <2>6, FS_CardinalityType
  <2> HIDE DEF top
  <2>8. S * Cardinality(M) <= S * (top + 1) /\ S * (top + 1) = S * top + S
    <3>1. \A a, b \in Nat : a <= b => S * a <= S * b
      BY <1>2
    <3>2. top + 1 \in Nat /\ Cardinality(M) \in Nat /\ Cardinality(M) <= top + 1
      BY <2>1, <2>6, <2>7
    <3>3. S * Cardinality(M) <= S * (top + 1)
      BY <3>1, <3>2
    <3>4. S * (top + 1) = S * top + S
      BY <1>2, <2>1
    <3> QED BY <3>3, <3>4
  <2>9. S * Cardinality(M) \in Int /\ S * top \in Int
    <3>1. \A a \in Nat : S * a \in Int
      BY <1>2
    <3> QED BY <2>1, <2>7, <3>1
  <2>10. S * Cardinality(M) <= n + (S - 1)
    <3>1. \A x, y \in Int : x <= y + S /\ y <= n - 1 => x <= n + (S - 1)
      BY <1>1, <1>2
    <3>2. S * Cardinality(M) <= S * top + S /\ S * top <= n - 1
      BY <2>1, <2>8
    <3> QED BY <2>9, <3>1, <3>2
  <2> QED BY <2>10 DEF S, n
<1> QED BY <1>4, <1>5

\* The shares of the first shards, added up: by a least counterexample.
LEMMA SharesAddUp ==
  ASSUME Planned, NEW k \in 1..Len(buckets), buckets[k].salts > 1
  PROVE  \A j \in 0..Len(pinned) :
           LET A == {row \in RowsOf(pinned) : Pid(pinned, row) = buckets[k].low /\ row[1] <= j} IN
           buckets[k].salts * Cardinality(A \cap Routed(k)) <= Cardinality(A) + j * (buckets[k].salts - 1)
<1> DEFINE S == buckets[k].salts
           pid == buckets[k].low
           A(j) == {row \in RowsOf(pinned) : Pid(pinned, row) = pid /\ row[1] <= j}
           Share(j) == S * Cardinality(A(j) \cap Routed(k)) <= Cardinality(A(j)) + j * (S - 1)
           Bad == {j \in 0..Len(pinned) : ~Share(j)}
<1>1. S \in Nat /\ S > 1 /\ Len(pinned) \in Nat
  <2>1. buckets[k] \in BucketRecord
    BY DEF Planned, BucketsOK
  <2> QED BY <2>1 DEF BucketRecord, Planned, PinnedTables
<1>2. IsFiniteSet(RowsOf(pinned))
  BY TableFinite DEF Planned
<1>3. \A row \in RowsOf(pinned) : row[1] \in 1..Len(pinned) /\ row[1] \in Nat
  BY <1>1, RowShape DEF Planned
<1>4. Share(0)
  <2>1. A(0) = {} /\ A(0) \cap Routed(k) = {}
    BY <1>3
  <2>2. Cardinality(A(0)) = 0 /\ Cardinality(A(0) \cap Routed(k)) = 0
    BY <2>1, FS_EmptySet
  <2> HIDE DEF A
  <2> QED BY <1>1, <2>2
<1>5. ASSUME NEW j \in Nat, j + 1 \in 0..Len(pinned), Share(j) PROVE Share(j + 1)
  <2> DEFINE R == ShardRows(j + 1, pid)
  <2>1. /\ A(j + 1) = A(j) \cup R /\ A(j) \cap R = {}
        /\ A(j) \subseteq RowsOf(pinned) /\ R \subseteq RowsOf(pinned)
    BY <1>3 DEF ShardRows
  <2>2. S * Cardinality(R \cap Routed(k)) <= Cardinality(R) + (S - 1)
    <3>1. j + 1 \in 1..Len(pinned)
      BY <1>5
    <3> QED BY <3>1, <1>1, ShardShare
  <2> HIDE DEF A, R
  <2>3. Cardinality(A(j + 1)) = Cardinality(A(j)) + Cardinality(R) /\ Cardinality(A(j)) \in Nat /\ Cardinality(R) \in Nat
    BY <1>2, <2>1, Counting
  <2>4. /\ A(j + 1) \cap Routed(k) = (A(j) \cap Routed(k)) \cup (R \cap Routed(k))
        /\ (A(j) \cap Routed(k)) \cap (R \cap Routed(k)) = {}
        /\ A(j) \cap Routed(k) \subseteq RowsOf(pinned) /\ R \cap Routed(k) \subseteq RowsOf(pinned)
    BY <2>1
  <2>5. /\ Cardinality(A(j + 1) \cap Routed(k)) = Cardinality(A(j) \cap Routed(k)) + Cardinality(R \cap Routed(k))
        /\ Cardinality(A(j) \cap Routed(k)) \in Nat /\ Cardinality(R \cap Routed(k)) \in Nat
    BY <1>2, <2>4, Counting
  <2> DEFINE a == Cardinality(A(j) \cap Routed(k))
             b == Cardinality(R \cap Routed(k))
             u == Cardinality(A(j))
             v == Cardinality(R)
  <2>6. /\ a \in Nat /\ b \in Nat /\ u \in Nat /\ v \in Nat
        /\ S * a <= u + j * (S - 1) /\ S * b <= v + (S - 1)
    BY <1>5, <2>2, <2>3, <2>5
  <2>7. Cardinality(A(j + 1) \cap Routed(k)) = a + b /\ Cardinality(A(j + 1)) = u + v
    BY <2>3, <2>5
  <2> HIDE DEF S, a, b, u, v
  <2>8. S * (a + b) = S * a + S * b /\ (j + 1) * (S - 1) = j * (S - 1) + (S - 1)
    BY <1>1, <2>6
  <2>9. S * a \in Int /\ S * b \in Int /\ j * (S - 1) \in Int /\ S - 1 \in Int
    BY <1>1, <2>6
  <2>10. S * (a + b) <= (u + v) + (j + 1) * (S - 1)
    <3>1. \A w, x, y, z \in Int : w <= u + y /\ x <= v + z => w + x <= (u + v) + (y + z)
      BY <2>6
    <3>2. S * a + S * b <= (u + v) + (j * (S - 1) + (S - 1))
      BY <2>6, <2>9, <3>1
    <3> QED BY <2>8, <3>2
  <2> QED BY <2>7, <2>10
<1> HIDE DEF Share
<1>6. Bad = {}
  <2> SUFFICES ASSUME Bad # {} PROVE FALSE
    OBVIOUS
  <2>1. PICK x \in Bad : \A y \in Bad : x <= y
    <3>1. Bad \subseteq Nat
      BY <1>1
    <3> HIDE DEF Bad
    <3> QED BY <3>1, LeastNumber
  <2>2. x \in 0..Len(pinned) /\ ~Share(x) /\ x # 0
    BY <1>4, <2>1
  <2>3. x - 1 \in Nat /\ x - 1 \in 0..Len(pinned) /\ (x - 1) + 1 = x
    BY <1>1, <2>2
  <2>4. x - 1 \notin Bad
    BY <2>1, <2>3
  <2>5. Share(x - 1)
    BY <2>3, <2>4
  <2>6. Share((x - 1) + 1)
    BY <1>5, <2>2, <2>3, <2>5
  <2> QED BY <2>2, <2>3, <2>6
<1>7. \A j \in 0..Len(pinned) : Share(j)
  BY <1>6
<1> QED BY <1>7 DEF Share

\* No bucket is sent more rows than the cap; a salted one at most one more for each further shard.
LEMMA RoutedBounded ==
  ASSUME Planned, NEW k \in 1..Len(buckets)
  PROVE  /\ IsFiniteSet(Routed(k))
         /\ Cardinality(Routed(k)) <= cap + (IF buckets[k].salts = 1 THEN 0 ELSE Len(pinned) - 1)
<1>1. IsFiniteSet(RowsOf(pinned))
  BY TableFinite DEF Planned
<1>2. Routed(k) \subseteq RowsOf(pinned)
  BY DEF Routed
<1>3. \A row \in Routed(k) : Covers(buckets[k], Pid(pinned, row))
  BY <1>2, RowIsRouted DEF Routed
<1>4. IsFiniteSet(Routed(k)) /\ Cardinality(Routed(k)) \in Nat
  BY <1>1, <1>2, Counting
<1>5. /\ buckets[k] \in BucketRecord /\ SoundBucket(pinned, cap, buckets[k])
      /\ cap \in Nat \ {0} /\ pinned \in PinnedTables /\ Len(pinned) \in Nat
  BY DEF Planned, BucketsOK, PinnedTables
<1>6. \A lo, hi : Between(pinned, lo, hi) \subseteq RowsOf(pinned)
  BY DEF Between
<1>7. CASE buckets[k].salts = 1
  <2>1. Routed(k) \subseteq Between(pinned, buckets[k].low, buckets[k].high)
    BY <1>2, <1>3 DEF Between, Covers
  <2>2. Cardinality(Routed(k)) <= Cardinality(Between(pinned, buckets[k].low, buckets[k].high))
    <3>1. IsFiniteSet(Between(pinned, buckets[k].low, buckets[k].high))
      BY <1>1, <1>6, FS_Subset
    <3> QED BY <2>1, <3>1, Counting
  <2>3. Cardinality(Between(pinned, buckets[k].low, buckets[k].high)) \in Nat
    BY <1>1, <1>6, Counting
  <2> QED BY <1>4, <1>5, <1>7, <2>2, <2>3 DEF SoundBucket
<1>8. CASE buckets[k].salts # 1
  <2> DEFINE S == buckets[k].salts
             n == Len(pinned)
             c == Cardinality(Routed(k))
             A == {row \in RowsOf(pinned) : Pid(pinned, row) = buckets[k].low /\ row[1] <= n}
  <2>1. /\ S > 1 /\ S \in Nat /\ buckets[k].low = buckets[k].high
        /\ Cardinality(Between(pinned, buckets[k].low, buckets[k].low)) <= cap * S
    BY <1>5, <1>8 DEF SoundBucket, BucketRecord
  <2>2. A = Between(pinned, buckets[k].low, buckets[k].low)
    <3>1. \A row \in RowsOf(pinned) : row[1] <= n /\ Pid(pinned, row) \in Nat
      BY <1>5, RowShape, ShuffleAssumption DEF Pids
    <3>2. buckets[k].low \in Nat
      BY <1>5 DEF BucketRecord
    <3> QED BY <3>1, <3>2 DEF Between
  <2>3. Routed(k) \subseteq A
    BY <1>2, <1>3, <2>1, <2>2 DEF Between, Covers
  <2>4. A \cap Routed(k) = Routed(k)
    BY <2>3
  <2>5. S * Cardinality(A \cap Routed(k)) <= Cardinality(A) + n * (S - 1)
    <3>1. n \in 0..Len(pinned)
      BY <1>5
    <3> HIDE DEF n
    <3> QED BY <2>1, <3>1, SharesAddUp DEF n
  <2>6. Cardinality(A) <= cap * S /\ Cardinality(A) \in Nat
    BY <1>1, <1>6, <2>1, <2>2, Counting
  <2> DEFINE u == Cardinality(A)
  <2>7. S * c <= u + n * (S - 1) /\ u <= cap * S /\ u \in Nat /\ c \in Nat /\ n \in Nat /\ cap \in Nat
    BY <1>4, <1>5, <2>4, <2>5, <2>6
  <2> HIDE DEF S, n, c, A, u
  <2>8. CASE n >= 1
    <3>1. /\ cap * S = S * cap /\ n * (S - 1) = S * n - n /\ S * (cap + n) = S * cap + S * n
          /\ S * cap \in Int /\ S * n \in Int /\ S * c \in Int
      BY <2>1, <2>7
    <3>2. S * c < S * (cap + n)
      BY <2>7, <2>8, <3>1
    <3>3. c < cap + n
      <4> SUFFICES ASSUME c >= cap + n PROVE FALSE
        BY <2>7
      <4>1. S * c >= S * (cap + n) /\ S * (cap + n) \in Int
        BY <2>1, <2>7
      <4> QED BY <3>1, <3>2, <4>1
    <3>4. c <= cap + (n - 1)
      BY <2>7, <3>3
    <3> QED BY <1>4, <1>8, <3>4 DEF c, n
  <2>9. CASE n = 0
    <3>1. \A row \in RowsOf(pinned) : row[1] \in 1..Len(pinned)
      BY <1>5, RowShape
    <3>2. Routed(k) = {}
      BY <1>2, <2>9, <3>1 DEF n
    <3>3. Cardinality(Routed(k)) = 0
      BY <3>2, FS_EmptySet
    <3>4. Len(pinned) = 0 /\ cap >= 1 /\ cap \in Nat
      BY <1>5, <2>9 DEF n
    <3>5. Cardinality(Routed(k)) <= cap + (Len(pinned) - 1)
      BY <3>3, <3>4
    <3> QED BY <1>4, <1>8, <3>5
  <2> QED BY <2>7, <2>8, <2>9
<1> QED BY <1>4, <1>7, <1>8

-----------------------------------------------------------------------------
(* One read task.                                                          *)

\* A slice or chunk of shard s holds some of its rows, all of one bucket and partition.
SliceOK(s, x) ==
  /\ x.rows # {}
  /\ \A row \in x.rows : row \in RowsOf(pinned) /\ row[1] = s /\ KeyOf(row) = x.key

\* No two slices of a buffer go to the same bucket and partition.
OnePerKey(slices) == \A x, y \in slices : x.key = y.key => x = y

\* The rows of the first b batches of a shard.
RowsRead(s, b) == {row \in RowsOf(pinned) : row[1] = s /\ row[2] <= b}

\* Every row read is in exactly one pending slice, buffer or chunk of the task.
ReaderHolds(s, r, chunks) ==
  /\ r.batch \in 0..Len(pinned[s])
  /\ \A x \in r.pending \cup r.buffers \cup chunks : SliceOK(s, x)
  /\ OnePerKey(r.pending) /\ OnePerKey(r.buffers)
  /\ \A x \in r.pending, y \in r.buffers : x.rows \cap y.rows = {}
  /\ \A x \in r.pending \cup r.buffers, c \in chunks : x.rows \cap c.rows = {}
  /\ \A c, d \in chunks : c # d => c.rows \cap d.rows = {}
  /\ RowsIn(r.pending) \cup RowsIn(r.buffers) \cup RowsIn(chunks) = RowsRead(s, r.batch)

\* Reading the fields of a task.
LEMMA TaskFields ==
  ASSUME NEW b, NEW p, NEW q, NEW e
  PROVE  LET r == ReadTask(b, p, q, e) IN r.batch = b /\ r.pending = p /\ r.buffers = q /\ r.emitted = e
BY DEF ReadTask

\* The slices of a batch hold its rows, one slice for each key.
LEMMA SlicesOfBatch ==
  ASSUME pinned \in PinnedTables, NEW s \in DOMAIN pinned, NEW b \in 1..Len(pinned[s])
  PROVE  /\ \A x \in Slices(s, b) : SliceOK(s, x)
         /\ OnePerKey(Slices(s, b))
         /\ RowsIn(Slices(s, b)) = {row \in RowsOf(pinned) : row[1] = s /\ row[2] = b}
<1> DEFINE B == BatchRows(s, b)
           Key(key) == {row \in B : KeyOf(row) = key}
<1>1. B = {row \in RowsOf(pinned) : row[1] = s /\ row[2] = b}
  <2>0. s \in 1..Len(pinned) /\ b \in DOMAIN pinned[s] /\ pinned[s][b] \in Seq(Pids) /\ pinned[s] \in Seq(Seq(Pids))
    BY RowShape DEF PinnedTables
  <2>1. DOMAIN pinned[s][b] = 1..Len(pinned[s][b])
    BY <2>0
  <2>2. \A row : row \in B <=> \E i \in 1..Len(pinned[s][b]) : row = <<s, b, i>>
    BY <2>1 DEF BatchRows
  <2>3. ASSUME NEW row \in B PROVE row \in RowsOf(pinned) /\ row[1] = s /\ row[2] = b
    BY <2>0, <2>2, RowShape
  <2>4. ASSUME NEW row \in RowsOf(pinned), row[1] = s, row[2] = b PROVE row \in B
    BY <2>2, <2>4, RowShape
  <2> QED BY <2>3, <2>4
<1> HIDE DEF B
<1>2. \A x \in Slices(s, b) : \E row \in B : x.key = KeyOf(row) /\ x.rows = Key(KeyOf(row)) /\ x = BucketSlice(KeyOf(row), Key(KeyOf(row)))
  BY DEF Slices, BucketSlice, B
<1>3. \A row \in B : BucketSlice(KeyOf(row), Key(KeyOf(row))) \in Slices(s, b)
  BY DEF Slices, B
<1>4. \A row \in B : BucketSlice(KeyOf(row), Key(KeyOf(row))).rows = Key(KeyOf(row))
  BY DEF BucketSlice
<1>5. ASSUME NEW x \in Slices(s, b) PROVE SliceOK(s, x)
  BY <1>1, <1>2 DEF SliceOK
<1>6. OnePerKey(Slices(s, b))
  <2>1. ASSUME NEW x \in Slices(s, b) PROVE x = BucketSlice(x.key, Key(x.key))
    <3>1. PICK row \in B : x.key = KeyOf(row) /\ x = BucketSlice(KeyOf(row), Key(KeyOf(row)))
      BY <1>2
    <3> HIDE DEF Key
    <3> QED BY <3>1
  <2> HIDE DEF Key
  <2> QED BY <2>1 DEF OnePerKey
<1>7. RowsIn(Slices(s, b)) \subseteq B
  <2>1. \A x \in Slices(s, b) : x.rows \subseteq B
    BY <1>2
  <2> QED BY <2>1 DEF RowsIn
<1>8. ASSUME NEW row \in B PROVE row \in RowsIn(Slices(s, b))
  BY <1>3, <1>4 DEF RowsIn
<1> QED BY <1>1, <1>5, <1>6, <1>7, <1>8

\* Reading a batch keeps every row of the shard in one place.
LEMMA ReadingHolds ==
  ASSUME pinned \in PinnedTables, NEW s \in DOMAIN pinned, NEW r, NEW E, ReaderHolds(s, r, E),
         r.pending = {}, r.batch < Len(pinned[s])
  PROVE  ReaderHolds(s, ReadTask(r.batch + 1, Slices(s, r.batch + 1), r.buffers, r.emitted), E)
<1> DEFINE b == r.batch + 1
           p == Slices(s, b)
           t == ReadTask(b, p, r.buffers, r.emitted)
<1>1. t.batch = b /\ t.pending = p /\ t.buffers = r.buffers
  BY TaskFields
<1>2. pinned[s] \in Seq(Seq(Pids)) /\ Len(pinned[s]) \in Nat /\ r.batch \in 0..Len(pinned[s])
  BY RowShape DEF ReaderHolds
<1>3. b \in 1..Len(pinned[s]) /\ b \in 0..Len(pinned[s])
  BY <1>2
<1>4. /\ \A x \in p : SliceOK(s, x)
      /\ OnePerKey(p)
      /\ RowsIn(p) = {row \in RowsOf(pinned) : row[1] = s /\ row[2] = b}
  BY <1>3, SlicesOfBatch
<1>5. RowsIn(r.buffers) \cup RowsIn(E) = RowsRead(s, r.batch)
  BY DEF ReaderHolds, RowsIn
<1>6. \A row \in RowsOf(pinned) : row[2] \in Nat
  <2> SUFFICES ASSUME NEW row \in RowsOf(pinned) PROVE row[2] \in Nat
    OBVIOUS
  <2>1. row[1] \in DOMAIN pinned /\ row[2] \in 1..Len(pinned[row[1]])
    BY RowShape DEF PinnedTables
  <2>2. Len(pinned[row[1]]) \in Nat
    BY <2>1, RowShape
  <2> QED BY <2>1, <2>2
<1> HIDE DEF p, b, t
<1>7. RowsIn(p) \cup RowsIn(r.buffers) \cup RowsIn(E) = RowsRead(s, b)
  BY <1>2, <1>4, <1>5, <1>6 DEF RowsRead, b
<1>8. \A x \in p, y \in r.buffers \cup E : x.rows \cap y.rows = {}
  <2>1. RowsIn(p) \cap RowsRead(s, r.batch) = {}
    BY <1>2, <1>4, <1>6 DEF RowsRead, b
  <2> QED BY <1>5, <2>1 DEF RowsIn
<1>9. ReaderHolds(s, t, E)
  BY <1>1, <1>3, <1>4, <1>7, <1>8 DEF ReaderHolds
<1> QED BY <1>9 DEF t, p, b

\* So does buffering a slice, with the one its key has in the buffer.
LEMMA BufferingHolds ==
  ASSUME NEW s, NEW r, NEW E, ReaderHolds(s, r, E), NEW slice \in r.pending
  PROVE  ReaderHolds(s, ReadTask(r.batch, r.pending \ {slice}, BufferSlice(r.buffers, slice), r.emitted), E)
<1> DEFINE p == r.pending \ {slice}
           held == {x \in r.buffers : x.key = slice.key}
           new == BucketSlice(slice.key, RowsIn(held) \cup slice.rows)
           q == BufferSlice(r.buffers, slice)
           t == ReadTask(r.batch, p, q, r.emitted)
<1>1. t.batch = r.batch /\ t.pending = p /\ t.buffers = q
  BY TaskFields
<1>2. q = (r.buffers \ held) \cup {new}
  BY DEF BufferSlice
<1>3. new.key = slice.key /\ new.rows = RowsIn(held) \cup slice.rows
  BY DEF BucketSlice
<1>4. \A x \in r.pending \cup r.buffers \cup E : SliceOK(s, x)
  BY DEF ReaderHolds
<1> HIDE DEF new, q, t
<1>5. SliceOK(s, new)
  <2>1. new.rows # {}
    BY <1>3, <1>4 DEF SliceOK
  <2>2. ASSUME NEW row \in new.rows PROVE row \in RowsOf(pinned) /\ row[1] = s /\ KeyOf(row) = new.key
    <3>1. CASE row \in slice.rows
      BY <1>3, <1>4, <3>1 DEF SliceOK
    <3>2. CASE row \in RowsIn(held)
      <4>1. PICK x \in r.buffers : x.key = slice.key /\ row \in x.rows
        BY <3>2 DEF RowsIn
      <4> QED BY <1>3, <1>4, <4>1 DEF SliceOK
    <3> QED BY <1>3, <2>2, <3>1, <3>2
  <2> QED BY <2>1, <2>2 DEF SliceOK
<1>6. \A x \in p \cup q \cup E : SliceOK(s, x)
  BY <1>2, <1>4, <1>5
<1>7. OnePerKey(p) /\ OnePerKey(q)
  BY <1>2, <1>3 DEF ReaderHolds, OnePerKey
<1>8. \A x \in p : x.rows \cap slice.rows = {}
  <2> SUFFICES ASSUME NEW x \in p, NEW row \in x.rows, row \in slice.rows PROVE FALSE
    OBVIOUS
  <2>1. KeyOf(row) = x.key /\ KeyOf(row) = slice.key
    BY <1>4 DEF SliceOK
  <2> QED BY <2>1 DEF ReaderHolds, OnePerKey
<1>9. \A x \in p, y \in q : x.rows \cap y.rows = {}
  <2> SUFFICES ASSUME NEW x \in p, NEW y \in q PROVE x.rows \cap y.rows = {}
    OBVIOUS
  <2>1. \A z \in r.buffers : x.rows \cap z.rows = {}
    BY DEF ReaderHolds
  <2>2. x.rows \cap RowsIn(held) = {}
    BY <2>1 DEF RowsIn
  <2> QED BY <1>2, <1>3, <1>8, <2>1, <2>2
<1>10. \A x \in p \cup q, c \in E : x.rows \cap c.rows = {}
  <2> SUFFICES ASSUME NEW c \in E PROVE \A x \in p \cup q : x.rows \cap c.rows = {}
    OBVIOUS
  <2>1. \A z \in r.pending \cup r.buffers : z.rows \cap c.rows = {}
    BY DEF ReaderHolds
  <2>2. RowsIn(held) \cap c.rows = {}
    BY <2>1 DEF RowsIn
  <2> QED BY <1>2, <1>3, <2>1, <2>2
<1>11. RowsIn(p) \cup RowsIn(q) \cup RowsIn(E) = RowsIn(r.pending) \cup RowsIn(r.buffers) \cup RowsIn(E)
  <2>1. RowsIn(r.pending) = RowsIn(p) \cup slice.rows
    BY DEF RowsIn
  <2>2. RowsIn(q) = RowsIn(r.buffers \ held) \cup new.rows
    BY <1>2 DEF RowsIn
  <2>3. RowsIn(r.buffers) = RowsIn(r.buffers \ held) \cup RowsIn(held)
    BY DEF RowsIn
  <2> QED BY <1>3, <2>1, <2>2, <2>3
<1> HIDE DEF p
<1>12. /\ r.batch \in 0..Len(pinned[s])
       /\ \A c, d \in E : c # d => c.rows \cap d.rows = {}
       /\ RowsIn(p) \cup RowsIn(q) \cup RowsIn(E) = RowsRead(s, r.batch)
  BY <1>11 DEF ReaderHolds
<1>13. ReaderHolds(s, t, E)
  BY <1>1, <1>6, <1>7, <1>9, <1>10, <1>12 DEF ReaderHolds
<1> QED BY <1>13 DEF t, p, q

\* And so does flushing a buffer.
LEMMA FlushingHolds ==
  ASSUME NEW s, NEW r, NEW E, ReaderHolds(s, r, E), NEW x \in r.buffers, NEW n, NEW e
  PROVE  ReaderHolds(s, ReadTask(r.batch, r.pending, r.buffers \ {x}, e), E \cup {ShuffleChunk(s, n, x)})
<1> DEFINE c == ShuffleChunk(s, n, x)
           q == r.buffers \ {x}
           F == E \cup {c}
           t == ReadTask(r.batch, r.pending, q, e)
<1>1. t.batch = r.batch /\ t.pending = r.pending /\ t.buffers = q
  BY TaskFields
<1>2. c.rows = x.rows /\ c.key = x.key
  BY DEF ShuffleChunk
<1>3. \A y \in r.pending \cup r.buffers \cup E : SliceOK(s, y)
  BY DEF ReaderHolds
<1> HIDE DEF c, t
<1>4. \A y \in r.pending \cup q \cup F : SliceOK(s, y)
  BY <1>2, <1>3 DEF SliceOK
<1>5. OnePerKey(r.pending) /\ OnePerKey(q)
  BY DEF ReaderHolds, OnePerKey
<1>6. \A y \in q : y.rows \cap x.rows = {}
  <2> SUFFICES ASSUME NEW y \in q, NEW row \in y.rows, row \in x.rows PROVE FALSE
    OBVIOUS
  <2>1. KeyOf(row) = x.key /\ KeyOf(row) = y.key
    BY <1>3 DEF SliceOK
  <2> QED BY <2>1 DEF ReaderHolds, OnePerKey
<1>7. \A y \in r.pending, z \in q : y.rows \cap z.rows = {}
  BY DEF ReaderHolds
<1>8. \A y \in r.pending \cup q, d \in F : y.rows \cap d.rows = {}
  <2>1. \A y \in r.pending : y.rows \cap x.rows = {}
    BY DEF ReaderHolds
  <2>2. \A y \in r.pending \cup q, d \in E : y.rows \cap d.rows = {}
    BY DEF ReaderHolds
  <2> QED BY <1>2, <1>6, <2>1, <2>2
<1>9. \A d, f \in F : d # f => d.rows \cap f.rows = {}
  <2>1. \A d, f \in E : d # f => d.rows \cap f.rows = {}
    BY DEF ReaderHolds
  <2>2. \A d \in E : x.rows \cap d.rows = {}
    BY DEF ReaderHolds
  <2> QED BY <1>2, <2>1, <2>2
<1>10. RowsIn(q) \cup RowsIn(F) = RowsIn(r.buffers) \cup RowsIn(E)
  <2>1. RowsIn(r.buffers) = RowsIn(q) \cup x.rows
    BY DEF RowsIn
  <2>2. RowsIn(F) = RowsIn(E) \cup x.rows
    BY <1>2 DEF RowsIn
  <2> QED BY <2>1, <2>2
<1> HIDE DEF q, F
<1>11. /\ r.batch \in 0..Len(pinned[s])
       /\ RowsIn(r.pending) \cup RowsIn(q) \cup RowsIn(F) = RowsRead(s, r.batch)
  <2>1. RowsIn(r.pending) \cup RowsIn(r.buffers) \cup RowsIn(E) = RowsRead(s, r.batch)
    BY DEF ReaderHolds
  <2> QED BY <1>10, <2>1 DEF ReaderHolds
<1>12. ReaderHolds(s, t, F)
  BY <1>1, <1>4, <1>5, <1>7, <1>8, <1>9, <1>11 DEF ReaderHolds
<1> QED BY <1>12 DEF t, q, F, c

-----------------------------------------------------------------------------
(* The invariant.                                                          *)

\* The buckets are derived.
Later == rewriteStage \notin {"idle", "pack"}

\* The chunks of one shard in the shuffle.
Emitted(s) == {c \in shuffled : c.shard = s}

\* While packing, the buckets so far are sound; afterwards, all of them.
PlanOK ==
  /\ rewriteStage \in {"idle", "pack", "read", "write", "documents", "refused"}
  /\ rewriteStage = "idle" => packing = Packing(<<>>, -1, 0, 0)
  /\ rewriteStage = "pack" => pinned \in PinnedTables /\ cap \in Nat \ {0} /\ PackingOK(pinned, cap, packing)
  /\ Later => Planned

\* Nothing is read or written before the buckets are derived.
NothingYet ==
  ~Later => readers = <<>> /\ shuffled = {} /\ output = <<>> /\ rowsWritten = 0 /\ failed = {}

\* Every read task accounts for the rows it has read.
ReadersOK ==
  Later => /\ DOMAIN readers = DOMAIN pinned
           /\ \A s \in DOMAIN pinned : ReaderHolds(s, readers[s], Emitted(s))
           /\ \A c \in shuffled : c.shard \in DOMAIN pinned

\* Without a bucket there is no row and nothing is read.
ReadDone ==
  rewriteStage \in {"write", "documents", "refused"} =>
    \A s \in DOMAIN pinned :
      <<"read", s>> \in failed \/ buckets = <<>> \/ (Scanned(s) /\ readers[s].buffers = {})

\* A bucket is written in the order of its chunks' partitions, each chunk once.
BucketWritten(k, w, chunks) ==
  /\ w \in Seq(chunks)
  /\ \A n \in 1..Len(w) : w[n].key[1] = k
  /\ \A m, n \in 1..Len(w) : m < n => w[m] # w[n] /\ w[m].key[2] <= w[n].key[2]
  /\ \A n \in 1..Len(w), x \in chunks :
       x.key[1] = k /\ x \notin {w[i] : i \in 1..Len(w)} => w[n].key[2] <= x.key[2]

\* The rows of all buckets.
AllWritten == UNION {RowsIn(ChunksWritten(k)) : k \in DOMAIN output}

\* The buckets are written in order, and the count reported is of the rows in them.
OutputOK ==
  Later => /\ DOMAIN output = 1..Len(buckets)
           /\ \A k \in DOMAIN output : BucketWritten(k, output[k], shuffled)
           /\ rewriteStage = "read" => \A k \in DOMAIN output : output[k] = <<>>
           /\ rowsWritten = Cardinality(AllWritten)

\* The driver commits only when nothing failed and nothing is left, and refuses only after a failure.
OutcomeOK ==
  /\ rewriteStage = "documents" => failed = {} /\ \A k \in DOMAIN output : ChunksLeft(k) = {}
  /\ rewriteStage = "refused" => failed # {}

ShuffleInvariant == PlanOK /\ NothingYet /\ ReadersOK /\ ReadDone /\ OutputOK /\ OutcomeOK

-----------------------------------------------------------------------------
(* What a step that leaves the plan alone keeps.                           *)

\* The plan fixes where a row goes.
LEMMA PlanKept ==
  ASSUME pinned' = pinned, cap' = cap, packing' = packing
  PROVE  /\ Planned' <=> Planned
         /\ buckets' = buckets
         /\ \A row : KeyOf(row)' = KeyOf(row)
<1>1. buckets' = buckets
  BY DEF buckets
<1>2. \A pid : bucket_lookup(pid)' = bucket_lookup(pid)
  BY <1>1 DEF bucket_lookup
<1>3. \A row : salts_before(row)' = salts_before(row) /\ SameBatchBefore(row)' = SameBatchBefore(row)
  BY DEF salts_before, SameBatchBefore
<1>4. \A row : assign_global_bucket(row)' = assign_global_bucket(row)
  BY <1>1, <1>2, <1>3 DEF assign_global_bucket, initial_salt_offset
<1>5. \A row : KeyOf(row)' = KeyOf(row)
  BY <1>4 DEF KeyOf
<1>6. Planned' <=> Planned
  BY <1>1 DEF Planned
<1> QED BY <1>1, <1>5, <1>6

\* And with it what a read task has to account for.
LEMMA HoldsKept ==
  ASSUME pinned' = pinned, cap' = cap, packing' = packing,
         NEW s, NEW r, NEW E, readers'[s] = r, Emitted(s)' = E, ReaderHolds(s, r, E)
  PROVE  ReaderHolds(s, readers[s], Emitted(s))'
<1>1. \A row : KeyOf(row)' = KeyOf(row)
  BY PlanKept
<1>2. \A x : SliceOK(s, x)' <=> SliceOK(s, x)
  BY <1>1 DEF SliceOK
<1>3. \A b : RowsRead(s, b)' = RowsRead(s, b)
  BY DEF RowsRead
<1> QED BY <1>2, <1>3 DEF ReaderHolds, OnePerKey, RowsIn

\* Reading the fields of a packing.
LEMMA PackingFields ==
  ASSUME NEW b, NEW l, NEW r, NEW n
  PROVE  LET p == Packing(b, l, r, n) IN p.buckets = b /\ p.low = l /\ p.running = r /\ p.next = n
BY DEF Packing

\* Every chunk in the shuffle holds rows of one bucket and partition, and no row is in two.
LEMMA ChunksSound ==
  ASSUME ShuffleInvariant, Later
  PROVE  /\ Planned
         /\ \A x \in shuffled : SliceOK(x.shard, x) /\ x.rows \subseteq RowsOf(pinned) /\ x.shard \in DOMAIN pinned
         /\ \A x \in shuffled : /\ x.key[1] \in 1..Len(buckets) /\ x.key[2] \in Nat
                                /\ Covers(buckets[x.key[1]], x.key[2])
                                /\ x.rows \subseteq Routed(x.key[1])
                                /\ \A row \in x.rows : Pid(pinned, row) = x.key[2]
         /\ \A x, y \in shuffled : x # y => x.rows \cap y.rows = {}
<1>1. Planned
  BY DEF ShuffleInvariant, PlanOK
<1>2. /\ \A s \in DOMAIN pinned : ReaderHolds(s, readers[s], Emitted(s))
      /\ \A c \in shuffled : c.shard \in DOMAIN pinned
  BY DEF ShuffleInvariant, ReadersOK
<1>3. ASSUME NEW x \in shuffled PROVE SliceOK(x.shard, x) /\ x.rows \subseteq RowsOf(pinned) /\ x.shard \in DOMAIN pinned
  <2>1. x \in Emitted(x.shard) /\ ReaderHolds(x.shard, readers[x.shard], Emitted(x.shard))
    BY <1>2 DEF Emitted
  <2>2. SliceOK(x.shard, x)
    BY <2>1 DEF ReaderHolds
  <2> QED BY <1>2, <2>2 DEF SliceOK
<1>4. ASSUME NEW x \in shuffled
      PROVE  /\ x.key[1] \in 1..Len(buckets) /\ x.key[2] \in Nat
             /\ Covers(buckets[x.key[1]], x.key[2])
             /\ x.rows \subseteq Routed(x.key[1])
             /\ \A row \in x.rows : Pid(pinned, row) = x.key[2]
  <2>1. ASSUME NEW row \in x.rows
        PROVE  row \in RowsOf(pinned) /\ assign_global_bucket(row) = x.key[1] /\ Pid(pinned, row) = x.key[2]
    <3>1. row \in RowsOf(pinned) /\ KeyOf(row) = x.key
      BY <1>3 DEF SliceOK
    <3>2. KeyOf(row)[1] = assign_global_bucket(row) /\ KeyOf(row)[2] = Pid(pinned, row)
      BY DEF KeyOf
    <3> QED BY <3>1, <3>2
  <2>2. PICK row : row \in x.rows
    BY <1>3 DEF SliceOK
  <2>3. x.key[1] \in 1..Len(buckets) /\ Covers(buckets[x.key[1]], Pid(pinned, row))
    BY <1>1, <2>1, <2>2, RowIsRouted
  <2>4. Pid(pinned, row) \in Nat
    BY <1>1, <2>1, <2>2, RowShape, ShuffleAssumption DEF Planned, Pids
  <2> QED BY <2>1, <2>2, <2>3, <2>4 DEF Routed
<1>5. ASSUME NEW x \in shuffled, NEW y \in shuffled, x # y PROVE x.rows \cap y.rows = {}
  <2>1. CASE x.shard = y.shard
    <3>1. x \in Emitted(x.shard) /\ y \in Emitted(x.shard) /\ ReaderHolds(x.shard, readers[x.shard], Emitted(x.shard))
      BY <1>2, <2>1 DEF Emitted
    <3> QED BY <1>5, <3>1 DEF ReaderHolds
  <2>2. CASE x.shard # y.shard
    BY <1>3, <2>2 DEF SliceOK
  <2> QED BY <2>1, <2>2
<1> QED BY <1>1, <1>3, <1>4, <1>5

-----------------------------------------------------------------------------
(* Every action keeps the invariant.                                       *)

\* Nothing has been written to a bucket yet.
LEMMA EmptyBucket ==
  ASSUME NEW k, NEW C
  PROVE  BucketWritten(k, <<>>, C)
<1>1. <<>> \in Seq(C) /\ Len(<<>>) = 0
  OBVIOUS
<1>2. 1..0 = {}
  OBVIOUS
<1> QED BY <1>1, <1>2 DEF BucketWritten

\* Nothing is planned, read or written at first.
LEMMA ShuffleStarts ==
  ShuffleInit => ShuffleInvariant
<1> SUFFICES ASSUME ShuffleInit PROVE ShuffleInvariant
  OBVIOUS
<1>1. rewriteStage = "idle" /\ ~Later
  BY DEF ShuffleInit, Later
<1> QED BY <1>1 DEF ShuffleInit, ShuffleInvariant, PlanOK, NothingYet, ReadersOK, ReadDone, OutputOK, OutcomeOK

\* Pinning a table: no bucket serves the no partition looked at.
LEMMA StartRewriteKeeps ==
  ASSUME ShuffleInvariant, StartRewrite
  PROVE  ShuffleInvariant'
<1> DEFINE p == Packing(<<>>, -1, 0, 0)
<1>1. rewriteStage = "idle" /\ rewriteStage' = "pack" /\ ~Later /\ ~Later'
  BY DEF StartRewrite, Later
<1>2. pinned' \in PinnedTables /\ cap' \in Nat \ {0}
  BY ShuffleAssumption DEF StartRewrite, PinnedTables
<1>3. packing' = p
  BY <1>1 DEF StartRewrite, ShuffleInvariant, PlanOK
<1>4. p.buckets = <<>> /\ p.low = -1 /\ p.running = 0 /\ p.next = 0
  BY PackingFields
<1>5. p \in [buckets : Seq(BucketRecord), low : Int, running : Nat, next : 0..(Partitions + 1)]
  BY ShuffleAssumption DEF Packing
<1> HIDE DEF p
<1>6. \A row \in RowsOf(pinned)' : ~(Pid(pinned, row)' < 0)
  BY <1>2, RowShape, ShuffleAssumption DEF Pids
<1>7. BucketsOK(pinned', cap', <<>>, 0)
  BY <1>6 DEF BucketsOK
<1>8. PackingOK(pinned', cap', p)
  BY <1>4, <1>5, <1>7 DEF PackingOK
<1>9. PlanOK'
  BY <1>1, <1>2, <1>3, <1>8 DEF PlanOK
<1>10. NothingYet'
  BY <1>1 DEF StartRewrite, ShuffleInvariant, NothingYet
<1> QED BY <1>1, <1>9, <1>10 DEF ShuffleInvariant, ReadersOK, ReadDone, OutputOK, OutcomeOK

\* One partition more.
LEMMA PackNextKeeps ==
  ASSUME ShuffleInvariant, PackNext
  PROVE  ShuffleInvariant'
<1>1. rewriteStage = "pack" /\ rewriteStage' = "pack" /\ ~Later /\ ~Later'
  BY DEF PackNext, Later
<1>2. pinned \in PinnedTables /\ cap \in Nat \ {0} /\ PackingOK(pinned, cap, packing)
  BY <1>1 DEF ShuffleInvariant, PlanOK
<1>3. pinned' = pinned /\ cap' = cap /\ packing' = PackPartition(packing, partition_count(pinned, packing.next))
  BY DEF PackNext
<1>4. PackingOK(pinned, cap, PackPartition(packing, partition_count(pinned, packing.next)))
  BY <1>2, PackingStep DEF PackNext
<1>5. PackingOK(pinned', cap', packing')
  BY <1>3, <1>4
<1>6. PlanOK'
  BY <1>1, <1>2, <1>3, <1>5 DEF PlanOK
<1>7. NothingYet'
  BY <1>1 DEF PackNext, ShuffleInvariant, NothingYet
<1> QED BY <1>1, <1>6, <1>7 DEF ShuffleInvariant, ReadersOK, ReadDone, OutputOK, OutcomeOK

\* The last bucket is closed, and every task starts with nothing.
LEMMA StartReadingKeeps ==
  ASSUME ShuffleInvariant, StartReading
  PROVE  ShuffleInvariant'
<1> DEFINE bs == Closed(packing)
           task == ReadTask(0, {}, {}, 0)
<1>1. rewriteStage = "pack" /\ rewriteStage' \in {"read", "write"} /\ ~Later /\ Later'
  BY DEF StartReading, Later
<1>2. pinned \in PinnedTables /\ cap \in Nat \ {0} /\ PackingOK(pinned, cap, packing)
  BY <1>1 DEF ShuffleInvariant, PlanOK
<1>3. readers = <<>> /\ shuffled = {} /\ output = <<>> /\ rowsWritten = 0 /\ failed = {}
  BY <1>1 DEF ShuffleInvariant, NothingYet
<1>4. BucketsOK(pinned, cap, bs, Partitions + 1)
  BY <1>2, PackingEnds DEF StartReading
<1>5. pinned' = pinned /\ cap' = cap /\ buckets' = bs
  BY PackingFields DEF StartReading, buckets
<1>6. /\ readers' = [s \in DOMAIN pinned |-> task]
      /\ output' = [k \in DOMAIN bs |-> <<>>]
      /\ shuffled' = {} /\ rowsWritten' = 0 /\ failed' = {}
      /\ rewriteStage' = IF bs = <<>> THEN "write" ELSE "read"
  BY <1>3 DEF StartReading
<1>7. bs \in Seq(BucketRecord) /\ DOMAIN bs = 1..Len(bs)
  BY <1>4 DEF BucketsOK
<1>8. task.batch = 0 /\ task.pending = {} /\ task.buffers = {}
  BY TaskFields
<1> HIDE DEF bs, task
<1>9. Planned'
  BY <1>2, <1>4, <1>5 DEF Planned
<1>10. PlanOK'
  BY <1>1, <1>9 DEF PlanOK, Later
<1>11. NothingYet'
  BY <1>1 DEF NothingYet
<1>12. ReadersOK'
  <2>1. \A s : Emitted(s)' = {}
    BY <1>6 DEF Emitted
  <2>2. ASSUME NEW s \in DOMAIN pinned PROVE ReaderHolds(s, readers[s], Emitted(s))'
    <3>1. readers'[s] = task
      BY <1>6
    <3>2. Len(pinned[s]) \in Nat
      BY <1>2, RowShape
    <3>3. RowsRead(s, 0)' = {}
      <4> SUFFICES ASSUME NEW row \in RowsOf(pinned) PROVE ~(row[2] <= 0)
        BY <1>5 DEF RowsRead
      <4>1. row[1] \in DOMAIN pinned /\ row[2] \in 1..Len(pinned[row[1]])
        BY <1>2, RowShape DEF PinnedTables
      <4>2. Len(pinned[row[1]]) \in Nat
        BY <1>2, <4>1, RowShape
      <4> QED BY <4>1, <4>2
    <3> QED BY <1>5, <1>8, <2>1, <3>1, <3>2, <3>3 DEF ReaderHolds, OnePerKey, RowsIn
  <2> QED BY <1>5, <1>6, <2>2 DEF ReadersOK
<1>13. ReadDone'
  BY <1>5, <1>6 DEF ReadDone
<1>14. OutputOK'
  <2>1. DOMAIN output' = 1..Len(buckets') /\ \A k \in DOMAIN output' : output'[k] = <<>>
    BY <1>5, <1>6, <1>7
  <2>2. \A k \in DOMAIN output' : BucketWritten(k, output[k], shuffled)'
    BY <2>1, EmptyBucket
  <2>3. \A k \in DOMAIN output' : ChunksWritten(k)' = {}
    BY <2>1 DEF ChunksWritten
  <2>4. AllWritten' = {}
    BY <2>3 DEF AllWritten, RowsIn
  <2>5. rowsWritten' = Cardinality(AllWritten')
    BY <1>6, <2>4, FS_EmptySet
  <2> QED BY <2>1, <2>2, <2>5 DEF OutputOK
<1>15. OutcomeOK'
  BY <1>1 DEF OutcomeOK
<1> QED BY <1>10, <1>11, <1>12, <1>13, <1>14, <1>15 DEF ShuffleInvariant

\* A step of the read task of shard s, which then is r and has emitted the chunks C.
ReaderStep(s, r, C) ==
  /\ readers' = [readers EXCEPT ![s] = r]
  /\ shuffled' = shuffled \cup C
  /\ \A c \in C : c.shard = s

\* A step of one read task: its rows stay accounted for, and nothing is written yet.
LEMMA ReaderStepKeeps ==
  ASSUME ShuffleInvariant, rewriteStage = "read",
         UNCHANGED <<pinned, cap, packing, output, rowsWritten, failed, rewriteStage>>,
         NEW s \in DOMAIN pinned, NEW r, NEW C,
         ReaderStep(s, r, C), ReaderHolds(s, r, Emitted(s) \cup C)
  PROVE  ShuffleInvariant'
<1>0. /\ readers' = [readers EXCEPT ![s] = r]
      /\ shuffled' = shuffled \cup C
      /\ \A c \in C : c.shard = s
  BY DEF ReaderStep
<1>1. rewriteStage' = "read" /\ Later /\ Later'
  BY DEF Later
<1>2. Planned /\ Planned'
  BY <1>1, PlanKept DEF ShuffleInvariant, PlanOK
<1>3. /\ DOMAIN readers = DOMAIN pinned
      /\ \A q \in DOMAIN pinned : ReaderHolds(q, readers[q], Emitted(q))
      /\ \A c \in shuffled : c.shard \in DOMAIN pinned
  BY <1>1 DEF ShuffleInvariant, ReadersOK
<1>4. ASSUME NEW q \in DOMAIN pinned PROVE ReaderHolds(q, readers[q], Emitted(q))'
  <2>1. CASE q = s
    <3>1. readers'[q] = r /\ Emitted(q)' = Emitted(s) \cup C
      BY <1>0, <1>3, <2>1 DEF Emitted
    <3> QED BY <2>1, <3>1, HoldsKept
  <2>2. CASE q # s
    <3>1. readers'[q] = readers[q] /\ Emitted(q)' = Emitted(q)
      BY <1>0, <1>3, <2>2 DEF Emitted
    <3> QED BY <1>3, <3>1, HoldsKept
  <2> QED BY <2>1, <2>2
<1>5. ReadersOK'
  BY <1>0, <1>3, <1>4 DEF ReadersOK
<1>6. OutputOK'
  <2>1. /\ DOMAIN output = 1..Len(buckets) /\ \A k \in DOMAIN output : output[k] = <<>>
        /\ rowsWritten = Cardinality(AllWritten)
    BY <1>1 DEF ShuffleInvariant, OutputOK
  <2>2. \A k \in DOMAIN output' : BucketWritten(k, output[k], shuffled)'
    BY <2>1, EmptyBucket
  <2>3. AllWritten' = AllWritten
    BY DEF AllWritten, ChunksWritten
  <2>4. buckets' = buckets
    BY PlanKept
  <2> QED BY <2>1, <2>2, <2>3, <2>4 DEF OutputOK
<1> QED BY <1>1, <1>2, <1>5, <1>6 DEF ShuffleInvariant, PlanOK, NothingYet, ReadDone, OutcomeOK

\* The next batch is cut into slices.
LEMMA ReadBatchKeeps ==
  ASSUME ShuffleInvariant, NEW s \in DOMAIN readers, ReadBatch(s)
  PROVE  ShuffleInvariant'
<1> DEFINE r == readers[s]
           t == ReadTask(r.batch + 1, Slices(s, r.batch + 1), r.buffers, r.emitted)
<1>1. rewriteStage = "read" /\ Later
  BY DEF ReadBatch, Reading, Later
<1>2. pinned \in PinnedTables /\ s \in DOMAIN pinned /\ ReaderHolds(s, r, Emitted(s))
  BY <1>1 DEF ShuffleInvariant, PlanOK, Planned, ReadersOK
<1>3. ReaderHolds(s, t, Emitted(s))
  BY <1>2, ReadingHolds DEF ReadBatch
<1>4. ReaderHolds(s, t, Emitted(s) \cup {})
  BY <1>3
<1>5. ReaderStep(s, t, {})
  BY DEF ReadBatch, ReaderStep
<1>6. UNCHANGED <<pinned, cap, packing, output, rowsWritten, failed, rewriteStage>>
  BY DEF ReadBatch
<1> HIDE DEF t
<1> QED BY <1>1, <1>2, <1>4, <1>5, <1>6, ReaderStepKeeps

\* A flush moves a buffer of the task to the shuffle.
LEMMA FlushKeeps ==
  ASSUME ShuffleInvariant, rewriteStage = "read",
         UNCHANGED <<pinned, cap, packing, output, rowsWritten, failed, rewriteStage>>,
         NEW s \in DOMAIN pinned, NEW p, NEW q,
         ReaderHolds(s, ReadTask(readers[s].batch, p, q, readers[s].emitted), Emitted(s)),
         pop_largest_bucket(s, p, q)
  PROVE  ShuffleInvariant'
<1> DEFINE r == readers[s]
           u == ReadTask(r.batch, p, q, r.emitted)
<1>1. PICK x \in Largest(q) :
        /\ shuffled' = shuffled \cup {ShuffleChunk(s, r.emitted, x)}
        /\ readers' = [readers EXCEPT ![s] = ReadTask(r.batch, p, q \ {x}, r.emitted + 1)]
  BY DEF pop_largest_bucket
<1> DEFINE c == ShuffleChunk(s, r.emitted, x)
           t == ReadTask(r.batch, p, q \ {x}, r.emitted + 1)
<1>2. x \in q /\ c.shard = s
  BY <1>1 DEF Largest, ShuffleChunk
<1>3. u.batch = r.batch /\ u.pending = p /\ u.buffers = q
  BY TaskFields
<1> HIDE DEF u
<1>4. ReaderHolds(s, ReadTask(u.batch, u.pending, u.buffers \ {x}, r.emitted + 1), Emitted(s) \cup {c})
  BY <1>2, <1>3, FlushingHolds DEF u
<1>5. ReaderHolds(s, t, Emitted(s) \cup {c})
  BY <1>3, <1>4
<1>6. ReaderStep(s, t, {c})
  BY <1>1, <1>2 DEF ReaderStep
<1> HIDE DEF t, c
<1> QED BY <1>5, <1>6, ReaderStepKeeps

\* A slice is buffered, with or without a flush.
LEMMA TakeSliceKeeps ==
  ASSUME ShuffleInvariant, NEW s \in DOMAIN readers, TakeSlice(s)
  PROVE  ShuffleInvariant'
<1> DEFINE r == readers[s]
<1>1. rewriteStage = "read" /\ Later
  BY DEF TakeSlice, Reading, Later
<1>2. pinned \in PinnedTables /\ s \in DOMAIN pinned /\ ReaderHolds(s, r, Emitted(s))
  BY <1>1 DEF ShuffleInvariant, PlanOK, Planned, ReadersOK
<1>3. UNCHANGED <<pinned, cap, packing, output, rowsWritten, failed, rewriteStage>>
  BY DEF TakeSlice
<1>4. PICK slice \in Least(r.pending) :
         LET pending == r.pending \ {slice}
             grown == BufferSlice(r.buffers, slice)
         IN  \/ pop_largest_bucket(s, pending, grown)
             \/ /\ readers' = [readers EXCEPT ![s] = ReadTask(r.batch, pending, grown, r.emitted)]
                /\ UNCHANGED shuffled
  BY DEF TakeSlice
<1> DEFINE p == r.pending \ {slice}
           q == BufferSlice(r.buffers, slice)
           t == ReadTask(r.batch, p, q, r.emitted)
<1>5. slice \in r.pending
  BY <1>4 DEF Least
<1>6. ReaderHolds(s, t, Emitted(s))
  BY <1>2, <1>5, BufferingHolds
<1>7. CASE pop_largest_bucket(s, p, q)
  <2> HIDE DEF p, q
  <2> QED BY <1>1, <1>2, <1>3, <1>6, <1>7, FlushKeeps
<1>8. CASE readers' = [readers EXCEPT ![s] = t] /\ UNCHANGED shuffled
  <2>1. ReaderHolds(s, t, Emitted(s) \cup {}) /\ ReaderStep(s, t, {})
    BY <1>6, <1>8 DEF ReaderStep
  <2> HIDE DEF t
  <2> QED BY <1>1, <1>2, <1>3, <1>8, <2>1, ReaderStepKeeps
<1> QED BY <1>4, <1>7, <1>8

\* The buffers are drained at the end of the shard.
LEMMA DrainBufferKeeps ==
  ASSUME ShuffleInvariant, NEW s \in DOMAIN readers, DrainBuffer(s)
  PROVE  ShuffleInvariant'
<1> DEFINE r == readers[s]
           t == ReadTask(r.batch, {}, r.buffers, r.emitted)
<1>1. rewriteStage = "read" /\ Later /\ r.pending = {}
  BY DEF DrainBuffer, Reading, Later, Scanned
<1>2. s \in DOMAIN pinned /\ ReaderHolds(s, r, Emitted(s))
  BY <1>1 DEF ShuffleInvariant, ReadersOK
<1>3. UNCHANGED <<pinned, cap, packing, output, rowsWritten, failed, rewriteStage>>
  BY DEF DrainBuffer
<1>4. t.batch = r.batch /\ t.pending = r.pending /\ t.buffers = r.buffers
  BY <1>1, TaskFields
<1> HIDE DEF t
<1>5. ReaderHolds(s, t, Emitted(s))
  BY <1>2, <1>4 DEF ReaderHolds
<1>6. pop_largest_bucket(s, {}, r.buffers)
  BY DEF DrainBuffer
<1> QED BY <1>1, <1>2, <1>3, <1>5, <1>6, FlushKeeps DEF t

\* A step that leaves the plan, the tasks and the shuffle alone keeps what they account for.
LEMMA TasksKept ==
  ASSUME ShuffleInvariant, Later, Later', UNCHANGED <<pinned, cap, packing, readers, shuffled>>
  PROVE  ReadersOK' /\ NothingYet' /\ Planned'
<1>1. Planned'
  BY PlanKept DEF ShuffleInvariant, PlanOK
<1>2. ASSUME NEW s \in DOMAIN pinned PROVE ReaderHolds(s, readers[s], Emitted(s))'
  <2>1. readers'[s] = readers[s] /\ Emitted(s)' = Emitted(s) /\ ReaderHolds(s, readers[s], Emitted(s))
    BY DEF Emitted, ShuffleInvariant, ReadersOK
  <2> QED BY <2>1, HoldsKept
<1>3. ReadersOK'
  BY <1>2 DEF ShuffleInvariant, ReadersOK
<1> QED BY <1>1, <1>3 DEF NothingYet

\* What the write tasks have done stays as it is while they rest.
LEMMA OutputKept ==
  ASSUME ShuffleInvariant, Later, UNCHANGED <<packing, shuffled, output, rowsWritten>>,
         rewriteStage' = "read" => rewriteStage = "read"
  PROVE  OutputOK' /\ \A k : ChunksLeft(k)' = ChunksLeft(k)
<1>1. /\ DOMAIN output = 1..Len(buckets)
      /\ \A k \in DOMAIN output : BucketWritten(k, output[k], shuffled)
      /\ rewriteStage = "read" => \A k \in DOMAIN output : output[k] = <<>>
      /\ rowsWritten = Cardinality(AllWritten)
  BY DEF ShuffleInvariant, OutputOK
<1>2. \A k : ChunksWritten(k)' = ChunksWritten(k)
  BY DEF ChunksWritten
<1>3. AllWritten' = AllWritten
  BY <1>2 DEF AllWritten
<1>4. \A k : ChunksLeft(k)' = ChunksLeft(k)
  BY <1>2 DEF ChunksLeft
<1>5. buckets' = buckets
  BY DEF buckets
<1>6. \A k \in DOMAIN output' : BucketWritten(k, output[k], shuffled)'
  BY <1>1
<1> QED BY <1>1, <1>3, <1>4, <1>5, <1>6 DEF OutputOK

\* A read or a write task fails: what it has emitted or written stays.
LEMMA FailureKeeps ==
  ASSUME ShuffleInvariant, rewriteStage \in {"read", "write"},
         UNCHANGED <<pinned, cap, packing, readers, shuffled, output, rowsWritten, rewriteStage>>,
         NEW task, failed' = failed \cup {task}
  PROVE  ShuffleInvariant'
<1>1. Later /\ Later'
  BY DEF Later
<1>2. ReadersOK' /\ NothingYet' /\ Planned'
  BY <1>1, TasksKept
<1>3. OutputOK'
  BY <1>1, OutputKept
<1>4. PlanOK'
  BY <1>1, <1>2 DEF PlanOK, Later
<1>5. ReadDone'
  <2>1. buckets' = buckets
    BY PlanKept
  <2>2. \A s : Scanned(s)' <=> Scanned(s)
    BY DEF Scanned
  <2> QED BY <2>1, <2>2 DEF ShuffleInvariant, ReadDone
<1> QED BY <1>2, <1>3, <1>4, <1>5 DEF ShuffleInvariant, OutcomeOK

\* The writers start when no read task has anything left.
LEMMA StartWritingKeeps ==
  ASSUME ShuffleInvariant, StartWriting
  PROVE  ShuffleInvariant'
<1>1. Later /\ Later' /\ rewriteStage' = "write"
  BY DEF StartWriting, Later
<1>2. ReadersOK' /\ NothingYet' /\ Planned'
  BY <1>1, TasksKept DEF StartWriting
<1>3. OutputOK'
  BY <1>1, OutputKept DEF StartWriting
<1>4. PlanOK'
  BY <1>1, <1>2 DEF PlanOK, Later
<1>5. ReadDone'
  BY DEF StartWriting, ReadDone, Scanned
<1> QED BY <1>1, <1>2, <1>3, <1>4, <1>5 DEF ShuffleInvariant, OutcomeOK

\* The next chunk of a bucket follows those written in the order of the partitions.
LEMMA AppendingKeepsOrder ==
  ASSUME NEW k, NEW C, NEW w, BucketWritten(k, w, C),
         \A x \in C : x.key[1] \in Nat /\ x.key[2] \in Nat,
         NEW x \in Least({y \in C : y.key[1] = k} \ {w[n] : n \in 1..Len(w)})
  PROVE  BucketWritten(k, Append(w, x), C)
<1> DEFINE n == Len(w)
           v == Append(w, x)
           left == {y \in C : y.key[1] = k} \ {w[i] : i \in 1..n}
<1>1. /\ w \in Seq(C) /\ n \in Nat
      /\ \A i \in 1..n : w[i] \in C /\ w[i].key[1] = k
      /\ \A i, j \in 1..n : i < j => w[i] # w[j] /\ w[i].key[2] <= w[j].key[2]
      /\ \A i \in 1..n, y \in C : y.key[1] = k /\ y \notin {w[j] : j \in 1..n} => w[i].key[2] <= y.key[2]
  BY DEF BucketWritten
<1>2. /\ x \in C /\ x.key[1] = k /\ \A i \in 1..n : w[i] # x
      /\ \A y \in left : KeyBelow(x.key, y.key)
  BY DEF Least
<1>3. \A y \in left : x.key[2] <= y.key[2]
  BY <1>2 DEF KeyBelow
<1>4. v \in Seq(C) /\ Len(v) = n + 1 /\ v[n + 1] = x /\ \A i \in 1..n : v[i] = w[i]
  BY <1>1, <1>2
<1> HIDE DEF n, v
<1>5. \A i \in 1..(n + 1) : i \in 1..n \/ i = n + 1
  BY <1>1
<1>6. \A i \in 1..(n + 1) : v[i].key[1] = k
  BY <1>1, <1>2, <1>4, <1>5
<1>7. \A i \in 1..n : w[i].key[2] <= x.key[2]
  BY <1>1, <1>2
<1>8. \A i, j \in 1..(n + 1) : i < j => v[i] # v[j] /\ v[i].key[2] <= v[j].key[2]
  <2> SUFFICES ASSUME NEW i \in 1..(n + 1), NEW j \in 1..(n + 1), i < j
               PROVE  v[i] # v[j] /\ v[i].key[2] <= v[j].key[2]
    OBVIOUS
  <2>1. i \in 1..n
    BY <1>1
  <2>2. CASE j \in 1..n
    BY <1>1, <1>4, <2>1, <2>2
  <2>3. CASE j = n + 1
    BY <1>2, <1>4, <1>7, <2>1, <2>3
  <2> QED BY <1>5, <2>2, <2>3
<1>9. ASSUME NEW i \in 1..(n + 1), NEW y \in C, y.key[1] = k, y \notin {v[j] : j \in 1..(n + 1)}
      PROVE  v[i].key[2] <= y.key[2]
  <2>0. \A j \in 1..n : j \in 1..(n + 1)
    BY <1>1
  <2>1. \A j \in 1..n : y # w[j]
    BY <1>4, <1>9, <2>0
  <2>2. y \in left
    BY <1>9, <2>1
  <2>3. CASE i \in 1..n
    BY <1>1, <1>4, <1>9, <2>1, <2>3
  <2>4. CASE i = n + 1
    BY <1>3, <1>4, <2>2, <2>4
  <2> QED BY <1>5, <2>3, <2>4
<1> QED BY <1>4, <1>6, <1>8, <1>9 DEF BucketWritten, v

\* A chunk is written: no row of it was written before.
LEMMA WriteChunkKeeps ==
  ASSUME ShuffleInvariant, NEW k \in DOMAIN output, WriteChunk(k)
  PROVE  ShuffleInvariant'
<1>1. rewriteStage = "write" /\ rewriteStage' = "write" /\ Later /\ Later'
  BY DEF WriteChunk, Writing, Later
<1>2. PICK x \in Least(ChunksLeft(k)) :
        /\ output' = [output EXCEPT ![k] = Append(@, x)]
        /\ rowsWritten' = rowsWritten + Cardinality(x.rows)
  BY DEF WriteChunk, WriteOrder
<1>3. UNCHANGED <<pinned, cap, packing, readers, shuffled, failed, rewriteStage>>
  BY DEF WriteChunk
<1>4. ReadersOK' /\ NothingYet' /\ Planned'
  BY <1>1, <1>3, TasksKept
<1>5. PlanOK'
  BY <1>1, <1>4 DEF PlanOK, Later
<1>6. buckets' = buckets
  BY <1>3, PlanKept
<1>7. ReadDone'
  <2>1. \A s : Scanned(s)' <=> Scanned(s)
    BY <1>3 DEF Scanned
  <2> QED BY <1>1, <1>3, <1>6, <2>1 DEF ShuffleInvariant, ReadDone
<1>8. /\ DOMAIN output = 1..Len(buckets)
      /\ \A l \in DOMAIN output : BucketWritten(l, output[l], shuffled)
      /\ rowsWritten = Cardinality(AllWritten)
  BY <1>1 DEF ShuffleInvariant, OutputOK
<1>9. /\ \A y \in shuffled : y.key[1] \in 1..Len(buckets) /\ y.key[2] \in Nat /\ y.rows \subseteq RowsOf(pinned)
      /\ \A y, z \in shuffled : y # z => y.rows \cap z.rows = {}
      /\ pinned \in PinnedTables
  BY <1>1, ChunksSound DEF Planned
<1>10. \A l \in DOMAIN output : /\ DOMAIN output[l] = 1..Len(output[l]) /\ output[l] \in Seq(shuffled)
                                /\ \A n \in 1..Len(output[l]) : output[l][n] \in shuffled /\ output[l][n].key[1] = l
  BY <1>8 DEF BucketWritten
<1>11. \A l \in DOMAIN output : ChunksWritten(l) = {output[l][n] : n \in 1..Len(output[l])}
  BY <1>10 DEF ChunksWritten
<1>12. x \in ChunksLeft(k) /\ x \in shuffled /\ x.key[1] = k /\ x \notin ChunksWritten(k)
  BY <1>2 DEF Least, ChunksLeft
<1>13. BucketWritten(k, Append(output[k], x), shuffled)
  <2>1. ChunksLeft(k) = {y \in shuffled : y.key[1] = k} \ {output[k][n] : n \in 1..Len(output[k])}
    BY <1>11 DEF ChunksLeft
  <2>2. \A y \in shuffled : y.key[1] \in Nat /\ y.key[2] \in Nat
    BY <1>9
  <2>3. x \in Least({y \in shuffled : y.key[1] = k} \ {output[k][n] : n \in 1..Len(output[k])})
    BY <1>2, <2>1
  <2> QED BY <1>8, <2>2, <2>3, AppendingKeepsOrder
<1>14. \A l \in DOMAIN output : output'[l] = IF l = k THEN Append(output[k], x) ELSE output[l]
  BY <1>2
<1>15. DOMAIN output' = DOMAIN output
  BY <1>2
<1>16. \A l \in DOMAIN output' : BucketWritten(l, output[l], shuffled)'
  BY <1>3, <1>8, <1>13, <1>14, <1>15
<1>17. \A l \in DOMAIN output : ChunksWritten(l)' = IF l = k THEN ChunksWritten(k) \cup {x} ELSE ChunksWritten(l)
  <2>1. ASSUME NEW l \in DOMAIN output, l # k PROVE ChunksWritten(l)' = ChunksWritten(l)
    BY <1>14, <2>1 DEF ChunksWritten
  <2>2. ChunksWritten(k)' = ChunksWritten(k) \cup {x}
    <3> DEFINE w == output[k]
               n == Len(w)
               v == Append(w, x)
    <3>1. w \in Seq(shuffled) /\ n \in Nat /\ DOMAIN w = 1..n
      BY <1>10
    <3>2. DOMAIN v = 1..(n + 1) /\ v[n + 1] = x /\ \A i \in 1..n : v[i] = w[i]
      BY <1>12, <3>1
    <3>3. ChunksWritten(k) = {w[i] : i \in 1..n} /\ ChunksWritten(k)' = {v[i] : i \in 1..(n + 1)}
      BY <1>14, <3>1, <3>2 DEF ChunksWritten
    <3> HIDE DEF w, v, n
    <3>4. \A i \in 1..(n + 1) : i \in 1..n \/ i = n + 1
      BY <3>1
    <3>5. n + 1 \in 1..(n + 1) /\ \A i \in 1..n : i \in 1..(n + 1)
      BY <3>1
    <3>6. {v[i] : i \in 1..(n + 1)} = {w[i] : i \in 1..n} \cup {x}
      BY <3>2, <3>4, <3>5
    <3> QED BY <3>3, <3>6
  <2> QED BY <2>1, <2>2
<1>18. AllWritten' = AllWritten \cup x.rows
  <2>1. RowsIn(ChunksWritten(k) \cup {x}) = RowsIn(ChunksWritten(k)) \cup x.rows
    BY DEF RowsIn
  <2>2. \A l \in DOMAIN output : RowsIn(ChunksWritten(l)') = IF l = k THEN RowsIn(ChunksWritten(k)) \cup x.rows ELSE RowsIn(ChunksWritten(l))
    BY <1>17, <2>1
  <2>3. AllWritten' = UNION {RowsIn(ChunksWritten(l)') : l \in DOMAIN output}
    BY <1>15 DEF AllWritten, RowsIn
  <2>4. \A row : row \in AllWritten' <=> \E l \in DOMAIN output : row \in RowsIn(ChunksWritten(l)')
    BY <2>3
  <2>5. \A row : row \in AllWritten <=> \E l \in DOMAIN output : row \in RowsIn(ChunksWritten(l))
    BY DEF AllWritten
  <2> QED BY <2>2, <2>4, <2>5
<1>19. AllWritten \subseteq RowsOf(pinned) /\ AllWritten \cap x.rows = {}
  <2> SUFFICES ASSUME NEW row \in AllWritten PROVE row \in RowsOf(pinned) /\ row \notin x.rows
    OBVIOUS
  <2>1. PICK l \in DOMAIN output : row \in RowsIn(ChunksWritten(l))
    BY DEF AllWritten
  <2>2. PICK y \in ChunksWritten(l) : row \in y.rows
    BY <2>1 DEF RowsIn
  <2>3. y \in shuffled /\ y.key[1] = l /\ y # x
    BY <1>10, <1>11, <1>12, <2>2
  <2> QED BY <1>9, <1>12, <2>2, <2>3
<1>20. rowsWritten' = Cardinality(AllWritten')
  <2>1. IsFiniteSet(RowsOf(pinned))
    BY <1>9, TableFinite
  <2>2. x.rows \in SUBSET RowsOf(pinned) /\ AllWritten \in SUBSET RowsOf(pinned)
    BY <1>9, <1>12, <1>19
  <2>3. Cardinality(AllWritten \cup x.rows) = Cardinality(AllWritten) + Cardinality(x.rows)
    BY <1>19, <2>1, <2>2, Counting
  <2> QED BY <1>2, <1>8, <1>18, <2>3
<1>21. OutputOK'
  BY <1>1, <1>6, <1>8, <1>15, <1>16, <1>20 DEF OutputOK
<1> QED BY <1>1, <1>4, <1>5, <1>7, <1>21 DEF ShuffleInvariant, OutcomeOK

\* What a bucket holds is chunks of its own, and nothing but.
LEMMA OutputSound ==
  ASSUME ShuffleInvariant, Later, NEW k \in DOMAIN output
  PROVE  /\ k \in 1..Len(buckets) /\ DOMAIN output[k] = 1..Len(output[k]) /\ Len(output[k]) \in Nat
         /\ ChunksWritten(k) = {output[k][n] : n \in 1..Len(output[k])}
         /\ \A n \in DOMAIN output[k] : output[k][n] \in shuffled /\ output[k][n].key[1] = k
         /\ \A m, n \in DOMAIN output[k] : m < n => output[k][m] # output[k][n] /\ output[k][m].key[2] <= output[k][n].key[2]
<1>1. k \in 1..Len(buckets) /\ BucketWritten(k, output[k], shuffled)
  BY DEF ShuffleInvariant, OutputOK
<1>2. output[k] \in Seq(shuffled)
  BY <1>1 DEF BucketWritten
<1>3. DOMAIN output[k] = 1..Len(output[k]) /\ Len(output[k]) \in Nat /\ \A n \in DOMAIN output[k] : output[k][n] \in shuffled
  BY <1>2
<1> QED BY <1>1, <1>3 DEF BucketWritten, ChunksWritten

\* Without a failure and with nothing left to write, every row of the table is written.
LEMMA AllRowsWritten ==
  ASSUME ShuffleInvariant, rewriteStage \in {"write", "documents", "refused"}, failed = {},
         \A k \in DOMAIN output : ChunksLeft(k) = {}
  PROVE  AllWritten = RowsOf(pinned)
<1>0. Later
  BY DEF Later
<1>1. /\ Planned /\ pinned \in PinnedTables
      /\ \A x \in shuffled : x.key[1] \in 1..Len(buckets) /\ x.rows \subseteq RowsOf(pinned)
  BY <1>0, ChunksSound DEF Planned
<1>2. DOMAIN output = 1..Len(buckets)
  BY <1>0 DEF ShuffleInvariant, OutputOK
<1>3. ASSUME NEW row \in AllWritten PROVE row \in RowsOf(pinned)
  <2>1. PICK k \in DOMAIN output : row \in RowsIn(ChunksWritten(k))
    BY DEF AllWritten
  <2>2. PICK x \in ChunksWritten(k) : row \in x.rows
    BY <2>1 DEF RowsIn
  <2>3. x \in shuffled
    BY <1>0, <2>2, OutputSound
  <2> QED BY <1>1, <2>2, <2>3
<1>4. ASSUME NEW row \in RowsOf(pinned) PROVE row \in AllWritten
  <2> DEFINE s == row[1]
  <2>1. s \in 1..Len(pinned) /\ row[2] \in 1..Len(pinned[s])
    BY <1>1, RowShape
  <2>2. s \in DOMAIN pinned
    BY <1>1, <2>1 DEF PinnedTables
  <2>3. Len(pinned[s]) \in Nat
    BY <1>1, <2>2, RowShape
  <2>4. assign_global_bucket(row) \in 1..Len(buckets)
    BY <1>1, RowIsRouted
  <2>5. buckets # <<>>
    BY <2>4
  <2>6. Scanned(s) /\ readers[s].buffers = {}
    BY <2>2, <2>5 DEF ShuffleInvariant, ReadDone
  <2>7. readers[s].pending = {} /\ readers[s].batch = Len(pinned[s])
    BY <2>6 DEF Scanned
  <2>8. ReaderHolds(s, readers[s], Emitted(s))
    BY <1>0, <2>2 DEF ShuffleInvariant, ReadersOK
  <2>9. RowsIn(Emitted(s)) = RowsRead(s, Len(pinned[s]))
    <3>1. RowsIn({}) = {}
      BY DEF RowsIn
    <3> QED BY <2>6, <2>7, <2>8, <3>1 DEF ReaderHolds
  <2>10. row \in RowsRead(s, Len(pinned[s]))
    BY <2>1, <2>3 DEF RowsRead
  <2>11. PICK x \in shuffled : row \in x.rows
    BY <2>9, <2>10 DEF RowsIn, Emitted
  <2>12. x.key[1] \in DOMAIN output
    BY <1>1, <1>2
  <2>13. x \in ChunksWritten(x.key[1])
    BY <2>12 DEF ChunksLeft
  <2> QED BY <2>11, <2>12, <2>13 DEF AllWritten, RowsIn
<1> QED BY <1>3, <1>4

\* The driver decides: without a failure the totals agree.
LEMMA ValidateKeeps ==
  ASSUME ShuffleInvariant, validate_rewrite
  PROVE  ShuffleInvariant'
<1>1. rewriteStage = "write" /\ rewriteStage' \in {"documents", "refused"} /\ Later /\ Later'
  BY DEF validate_rewrite, Later
<1>2. UNCHANGED <<pinned, cap, packing, readers, shuffled, output, rowsWritten, failed>>
  BY DEF validate_rewrite
<1>3. ReadersOK' /\ NothingYet' /\ Planned'
  BY <1>1, <1>2, TasksKept
<1>4. OutputOK' /\ \A k : ChunksLeft(k)' = ChunksLeft(k)
  BY <1>1, <1>2, OutputKept
<1>5. PlanOK'
  BY <1>1, <1>3 DEF PlanOK, Later
<1>6. ReadDone'
  <2>1. buckets' = buckets
    BY <1>2, PlanKept
  <2>2. \A s : Scanned(s)' <=> Scanned(s)
    BY <1>2 DEF Scanned
  <2> QED BY <1>1, <1>2, <2>1, <2>2 DEF ShuffleInvariant, ReadDone
<1>7. OutcomeOK'
  <2>1. CASE failed # {}
    BY <1>2, <2>1 DEF validate_rewrite, OutcomeOK
  <2>2. CASE failed = {}
    <3>1. DOMAIN output = DOMAIN buckets
      <4>1. Planned /\ DOMAIN output = 1..Len(buckets)
        BY <1>1, ChunksSound DEF ShuffleInvariant, OutputOK
      <4>2. buckets \in Seq(BucketRecord)
        BY <4>1 DEF Planned, BucketsOK
      <4> QED BY <4>1, <4>2
    <3>2. \A k \in DOMAIN output : ChunksLeft(k) = {}
      BY <1>1, <2>2, <3>1 DEF validate_rewrite, Writing
    <3>3. AllWritten = RowsOf(pinned)
      BY <1>1, <2>2, <3>2, AllRowsWritten
    <3>4. rowsWritten = Cardinality(RowsOf(pinned))
      BY <1>1, <3>3 DEF ShuffleInvariant, OutputOK
    <3>5. rewriteStage' = "documents"
      BY <2>2, <3>4 DEF validate_rewrite
    <3> QED BY <1>2, <1>4, <2>2, <3>2, <3>5 DEF OutcomeOK
  <2> QED BY <2>1, <2>2
<1> QED BY <1>3, <1>4, <1>5, <1>6, <1>7 DEF ShuffleInvariant

\* A step that changes nothing keeps the invariant.
LEMMA ShuffleStutterKeeps ==
  ASSUME ShuffleInvariant, UNCHANGED shuffleVars
  PROVE  ShuffleInvariant'
<1>1. UNCHANGED <<pinned, cap, packing, readers, shuffled, output, rowsWritten, failed, rewriteStage>>
  BY DEF shuffleVars
<1>2. Later' <=> Later
  BY <1>1 DEF Later
<1>3. buckets' = buckets /\ (Planned' <=> Planned)
  BY <1>1, PlanKept
<1>4. PlanOK'
  BY <1>1, <1>2, <1>3 DEF ShuffleInvariant, PlanOK
<1>5. CASE ~Later
  <2>1. NothingYet'
    BY <1>1 DEF ShuffleInvariant, NothingYet, Later
  <2>2. rewriteStage' \in {"idle", "pack"}
    BY <1>2, <1>5 DEF Later
  <2> QED BY <1>2, <1>4, <1>5, <2>1, <2>2 DEF ShuffleInvariant, ReadersOK, ReadDone, OutputOK, OutcomeOK
<1>6. CASE Later
  <2>1. ReadersOK' /\ NothingYet'
    BY <1>1, <1>2, <1>6, TasksKept
  <2>2. OutputOK' /\ \A k : ChunksLeft(k)' = ChunksLeft(k)
    BY <1>1, <1>6, OutputKept
  <2>3. \A s : Scanned(s)' <=> Scanned(s)
    BY <1>1 DEF Scanned
  <2>4. ReadDone' /\ OutcomeOK'
    BY <1>1, <1>3, <2>2, <2>3 DEF ShuffleInvariant, ReadDone, OutcomeOK
  <2> QED BY <1>4, <2>1, <2>2, <2>4 DEF ShuffleInvariant
<1> QED BY <1>5, <1>6

-----------------------------------------------------------------------------
(* The theorems.                                                           *)

\* The clustered rewrite keeps its invariant: in every state each row that a task has
\* read is in exactly one of its slices, buffers or chunks, every chunk belongs to a
\* bucket of its partition, each bucket is written in the order of the partitions,
\* and the rows reported are the rows written.
THEOREM ShuffleSafety ==
  ShuffleSpec => []ShuffleInvariant
<1>1. ShuffleInit => ShuffleInvariant
  BY ShuffleStarts
<1>2. ShuffleInvariant /\ [ShuffleNext]_shuffleVars => ShuffleInvariant'
  <2> SUFFICES ASSUME ShuffleInvariant, [ShuffleNext]_shuffleVars PROVE ShuffleInvariant'
    OBVIOUS
  <2>1. CASE StartRewrite
    BY <2>1, StartRewriteKeeps
  <2>2. CASE PackNext
    BY <2>2, PackNextKeeps
  <2>3. CASE StartReading
    BY <2>3, StartReadingKeeps
  <2>4. CASE StartWriting
    BY <2>4, StartWritingKeeps
  <2>5. CASE validate_rewrite
    BY <2>5, ValidateKeeps
  <2>6. ASSUME NEW s \in DOMAIN readers, ReadBatch(s) PROVE ShuffleInvariant'
    BY <2>6, ReadBatchKeeps
  <2>7. ASSUME NEW s \in DOMAIN readers, TakeSlice(s) PROVE ShuffleInvariant'
    BY <2>7, TakeSliceKeeps
  <2>8. ASSUME NEW s \in DOMAIN readers, DrainBuffer(s) PROVE ShuffleInvariant'
    BY <2>8, DrainBufferKeeps
  <2>9. ASSUME NEW s \in DOMAIN readers, FailRead(s) PROVE ShuffleInvariant'
    BY <2>9, FailureKeeps DEF FailRead, Reading
  <2>10. ASSUME NEW k \in DOMAIN output, WriteChunk(k) PROVE ShuffleInvariant'
    BY <2>10, WriteChunkKeeps
  <2>11. ASSUME NEW k \in DOMAIN output, FailWrite(k) PROVE ShuffleInvariant'
    BY <2>11, FailureKeeps DEF FailWrite, Writing
  <2>12. CASE UNCHANGED shuffleVars
    BY <2>12, ShuffleStutterKeeps
  <2> QED BY <2>1, <2>2, <2>3, <2>4, <2>5, <2>6, <2>7, <2>8, <2>9, <2>10, <2>11, <2>12 DEF ShuffleNext
<1> QED BY <1>1, <1>2, PTL DEF ShuffleSpec

\* A committed rewrite holds every row of the table in exactly one chunk, and nothing is
\* refused unless a task failed (run_rewrite_shuffle, validate_rewrite).
THEOREM EveryRowRoutedOnceHolds ==
  ShuffleSpec => []EveryRowRoutedOnce
<1>1. ShuffleInvariant => EveryRowRoutedOnce
  <2> SUFFICES ASSUME ShuffleInvariant PROVE EveryRowRoutedOnce
    OBVIOUS
  <2>1. rewriteStage = "refused" => failed # {}
    BY DEF ShuffleInvariant, OutcomeOK
  <2>2. ASSUME rewriteStage = "documents"
        PROVE  UNION {RowsIn(ChunksWritten(k)) : k \in DOMAIN output} = RowsOf(pinned)
    BY <2>2, AllRowsWritten DEF ShuffleInvariant, OutcomeOK, AllWritten
  <2>3. ASSUME rewriteStage = "documents", NEW k \in DOMAIN output, NEW l \in DOMAIN output,
               NEW m \in DOMAIN output[k], NEW n \in DOMAIN output[l], <<k, m>> # <<l, n>>
        PROVE  output[k][m].rows \cap output[l][n].rows = {}
    <3>0. Later
      BY <2>3 DEF Later
    <3>1. /\ output[k][m] \in shuffled /\ output[k][m].key[1] = k
          /\ output[l][n] \in shuffled /\ output[l][n].key[1] = l
          /\ DOMAIN output[k] = 1..Len(output[k]) /\ Len(output[k]) \in Nat
          /\ \A i, j \in DOMAIN output[k] : i < j => output[k][i] # output[k][j]
      BY <3>0, OutputSound
    <3>2. output[k][m] # output[l][n]
      <4>1. CASE k # l
        BY <3>1, <4>1
      <4>2. CASE k = l
        <5>1. m \in Nat /\ n \in Nat /\ m # n /\ n \in DOMAIN output[k]
          BY <2>3, <3>1, <4>2
        <5>2. m < n \/ n < m
          BY <5>1
        <5> QED BY <3>1, <4>2, <5>1, <5>2
      <4> QED BY <4>1, <4>2
    <3> QED BY <3>0, <3>1, <3>2, ChunksSound
  <2> QED BY <2>1, <2>2, <2>3 DEF EveryRowRoutedOnce
<1> QED BY <1>1, ShuffleSafety, PTL

\* Read bucket by bucket, what has been written never goes back to an earlier partition
\* (repartitionAndSortWithinPartitions over the buckets of derive_buckets).
THEOREM WrittenInPartitionOrderHolds ==
  ShuffleSpec => []WrittenInPartitionOrder
<1>1. ShuffleInvariant => WrittenInPartitionOrder
  <2> SUFFICES ASSUME ShuffleInvariant,
                      NEW k \in DOMAIN output, NEW l \in DOMAIN output,
                      NEW m \in DOMAIN output[k], NEW n \in DOMAIN output[l],
                      k < l \/ (k = l /\ m <= n),
                      NEW r \in output[k][m].rows, NEW q \in output[l][n].rows
               PROVE  Pid(pinned, r) <= Pid(pinned, q)
    BY DEF WrittenInPartitionOrder
  <2>0. Later
    <3> SUFFICES ASSUME ~Later PROVE FALSE
      OBVIOUS
    <3>1. output = <<>>
      BY DEF ShuffleInvariant, NothingYet
    <3> QED BY <3>1
  <2> DEFINE x == output[k][m]
             y == output[l][n]
  <2>1. /\ x \in shuffled /\ x.key[1] = k /\ y \in shuffled /\ y.key[1] = l
        /\ k \in 1..Len(buckets) /\ l \in 1..Len(buckets)
        /\ DOMAIN output[k] = 1..Len(output[k]) /\ Len(output[k]) \in Nat
        /\ \A i, j \in DOMAIN output[k] : i < j => output[k][i].key[2] <= output[k][j].key[2]
    BY <2>0, OutputSound
  <2>2. /\ Planned /\ Pid(pinned, r) = x.key[2] /\ Pid(pinned, q) = y.key[2] /\ x.key[2] \in Nat /\ y.key[2] \in Nat
        /\ Covers(buckets[k], x.key[2]) /\ Covers(buckets[l], y.key[2])
    BY <2>0, <2>1, ChunksSound
  <2>3. CASE k < l
    <3>1. buckets[k] \in BucketRecord /\ buckets[l] \in BucketRecord /\ InOrder(buckets[k], buckets[l])
      BY <2>1, <2>2, <2>3 DEF Planned, BucketsOK
    <3>2. /\ buckets[k].low \in Nat /\ buckets[k].high \in Nat /\ buckets[l].low \in Nat /\ buckets[l].high \in Nat
          /\ SoundBucket(pinned, cap, buckets[k])
      BY <2>1, <2>2, <3>1 DEF BucketRecord, Planned, BucketsOK
    <3>3. CASE buckets[k].high < buckets[l].low
      BY <2>2, <3>2, <3>3 DEF Covers
    <3>4. CASE buckets[k].low = buckets[l].low /\ buckets[k].high = buckets[l].high /\ buckets[k].salts > 1
      <4>1. buckets[k].low = buckets[k].high
        BY <3>2, <3>4 DEF SoundBucket
      <4> QED BY <2>2, <3>2, <3>4, <4>1 DEF Covers
    <3> QED BY <3>1, <3>3, <3>4 DEF InOrder
  <2>4. CASE k = l /\ m <= n
    <3>1. n \in DOMAIN output[k] /\ m \in Nat /\ n \in Nat
      BY <2>1, <2>4
    <3>2. CASE m < n
      BY <2>1, <2>2, <2>4, <3>1, <3>2
    <3>3. CASE m = n
      BY <2>2, <2>4, <3>3
    <3> QED BY <2>4, <3>1, <3>2, <3>3
  <2> QED BY <2>3, <2>4
<1> QED BY <1>1, ShuffleSafety, PTL

\* No bucket is handed more rows than the cap, but for one row more from each further
\* shard where its partition is salted (derive_buckets, assign_global_buckets).
THEOREM BucketsBoundedHolds ==
  ShuffleSpec => []BucketsBounded
<1>1. ShuffleInvariant => BucketsBounded
  <2> SUFFICES ASSUME ShuffleInvariant, NEW k \in DOMAIN output
               PROVE  Cardinality(RowsIn({x \in shuffled : x.key[1] = k}))
                        <= cap + (IF buckets[k].salts = 1 THEN 0 ELSE Len(pinned) - 1)
    BY DEF BucketsBounded
  <2>0. Later
    <3> SUFFICES ASSUME ~Later PROVE FALSE
      OBVIOUS
    <3>1. output = <<>>
      BY DEF ShuffleInvariant, NothingYet
    <3> QED BY <3>1
  <2> DEFINE R == RowsIn({x \in shuffled : x.key[1] = k})
             B == cap + (IF buckets[k].salts = 1 THEN 0 ELSE Len(pinned) - 1)
  <2>1. k \in 1..Len(buckets)
    BY <2>0, OutputSound
  <2>2. Planned /\ \A x \in shuffled : x.rows \subseteq Routed(x.key[1])
    BY <2>0, ChunksSound
  <2>3. R \subseteq Routed(k)
    BY <2>2 DEF RowsIn
  <2>4. IsFiniteSet(RowsOf(pinned)) /\ Routed(k) \subseteq RowsOf(pinned)
    BY <2>2, TableFinite DEF Planned, Routed
  <2>5. IsFiniteSet(Routed(k))
    BY <2>4, FS_Subset
  <2> HIDE DEF R
  <2>6. Cardinality(R) <= Cardinality(Routed(k)) /\ Cardinality(R) \in Nat /\ Cardinality(Routed(k)) \in Nat
    BY <2>3, <2>5, Counting
  <2>7. Cardinality(Routed(k)) <= B
    BY <2>1, <2>2, RoutedBounded
  <2>8. B \in Int
    BY <2>2 DEF Planned, PinnedTables
  <2> HIDE DEF B
  <2>9. Cardinality(R) <= B
    BY <2>6, <2>7, <2>8
  <2> QED BY <2>9 DEF R, B
<1> QED BY <1>1, ShuffleSafety, PTL

=============================================================================
