------------------------------ MODULE LanceTable ------------------------------
(***************************************************************************)
(* One Lance dataset as the maintenance and indexing jobs see it: an       *)
(* external store with optimistic commits.  Every commit makes a new       *)
(* version; fragment ids are minted monotonically and never reused; an     *)
(* Overwrite keeps the configuration and drops every index; a compaction   *)
(* remaps the index segments over the fragments it rewrites.               *)
(*                                                                         *)
(* The module also holds the writers the jobs race with: the ingest's      *)
(* append and merge, a delete, and a compaction by another process.        *)
(***************************************************************************)
EXTENDS Integers, SequencesExt

CONSTANTS
    Rows,           \* rows that can be written
    InitialRows,    \* rows in the dataset before the first run
    ExpiredRows,    \* rows whose timestamp lies behind the retention cutoff
    MaxWrites       \* bound: commits of the concurrent writers

ASSUME TableAssumption ==
    /\ ExpiredRows \subseteq Rows /\ InitialRows \subseteq Rows
    /\ IsFiniteSet(Rows)
    /\ MaxWrites \in Nat

VARIABLES
    table,      \* the latest version of the dataset
    kept,       \* ghost: rows written and deleted by nobody since
    sidecar,    \* centroid sidecars beside the dataset: rows at training -> model
    writes      \* commits of the concurrent writers so far

tableVars == <<table, kept, sidecar, writes>>

NoStamp == [ids |-> {}, rows |-> -1]
NoConfig == [rows_at_train |-> 0, model |-> 0]

Fragment(rows, isClustered) == [live |-> rows, holes |-> FALSE, clustered |-> isClustered]

(* The dataset before any job: one fragment per initial row, no index.     *)
TableInit ==
    LET order == SetToSeq(InitialRows)
    IN  /\ table = [version |-> 1,
                    frags |-> [f \in 1 .. Len(order) |-> Fragment({order[f]}, FALSE)],
                    nextId |-> Len(order) + 1, index |-> {}, stamp |-> NoStamp, cfg |-> NoConfig]
        /\ kept = InitialRows
        /\ sidecar = [n \in 1 .. Cardinality(Rows) |-> 0]
        /\ writes = 0

all_fragment_ids(t) == DOMAIN t.frags
LiveRows(t) == UNION {t.frags[f].live : f \in DOMAIN t.frags}
count_rows(t) == Cardinality(LiveRows(t))
Covered(t) == UNION {segment.over : segment \in t.index}
Fingerprint(t) == [ids |-> DOMAIN t.frags, rows |-> count_rows(t)]

(* Deleting rows leaves holes in their fragments; a fragment without a row *)
(* left is dropped from the manifest.                                      *)
WithoutRows(t, rows) ==
    LET left == {f \in DOMAIN t.frags : ~ t.frags[f].live \subseteq rows}
    IN  [t EXCEPT
          !.version = @ + 1,
          !.frags = [f \in left |->
                        [live |-> t.frags[f].live \ rows,
                         holes |-> t.frags[f].holes \/ t.frags[f].live \cap rows # {},
                         clustered |-> t.frags[f].clustered]],
          !.index = {[s EXCEPT !.over = s.over \cap left] : s \in t.index}]

WithFragment(t, rows, isClustered) ==
    [t EXCEPT !.version = @ + 1,
              !.frags = [f \in DOMAIN t.frags \cup {t.nextId} |->
                            IF f = t.nextId THEN Fragment(rows, isClustered) ELSE t.frags[f]],
              !.nextId = @ + 1]

(* Lance's Rewrite operation: the fragments of group become one fragment   *)
(* that an index segment covers when it covered all of them.               *)
Compacted(t, group) ==
    LET rows == UNION {t.frags[f].live : f \in group}
        rest == DOMAIN t.frags \ group
    IN  [t EXCEPT
          !.version = @ + 1,
          !.frags = [f \in rest \cup {t.nextId} |->
                        IF f = t.nextId THEN Fragment(rows, FALSE) ELSE t.frags[f]],
          !.index = {[s EXCEPT !.over = (s.over \ group) \cup
                         (IF group \subseteq s.over THEN {t.nextId} ELSE {})] : s \in t.index},
          !.nextId = @ + 1]

(* Lance's Overwrite operation: new fragments, no index, the same config.  *)
Overwritten(t, groups) ==
    LET order == SetToSeq(groups)
        ids == t.nextId .. (t.nextId + Cardinality(groups) - 1)
    IN  [t EXCEPT
          !.version = @ + 1,
          !.frags = [f \in ids |-> Fragment(order[f - t.nextId + 1], TRUE)],
          !.index = {},
          !.nextId = @ + Cardinality(groups)]

WriterAppend(row) ==
    /\ writes < MaxWrites
    /\ row \notin kept
    /\ table' = WithFragment(table, {row}, FALSE)
    /\ kept' = kept \cup {row}
    /\ writes' = writes + 1
    /\ UNCHANGED sidecar

(* merge_insert of an existing row: the old copy becomes a hole and the    *)
(* new one goes into a fragment of its own.                                *)
WriterMerge(row) ==
    /\ writes < MaxWrites
    /\ row \in kept
    /\ table' = WithFragment(WithoutRows(table, {row}), {row}, FALSE)
    /\ writes' = writes + 1
    /\ UNCHANGED <<kept, sidecar>>

WriterDelete(row) ==
    /\ writes < MaxWrites
    /\ row \in kept
    /\ table' = WithoutRows(table, {row})
    /\ kept' = kept \ {row}
    /\ writes' = writes + 1
    /\ UNCHANGED sidecar

WriterCompact ==
    /\ writes < MaxWrites
    /\ Cardinality(DOMAIN table.frags) > 1
    /\ table' = Compacted(table, DOMAIN table.frags)
    /\ writes' = writes + 1
    /\ UNCHANGED <<kept, sidecar>>

TableWriters ==
    \/ \E row \in Rows : WriterAppend(row) \/ WriterMerge(row) \/ WriterDelete(row)
    \/ WriterCompact

===============================================================================
