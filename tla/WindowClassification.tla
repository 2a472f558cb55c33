------------------------- MODULE WindowClassification -------------------------
(***************************************************************************)
(* The classification of one snapshot, whatever its manifests and its      *)
(* catalog evidence say (plan_incremental_window).                         *)
(***************************************************************************)
EXTENDS SourceManifests

CONSTANTS
  Targets,      \* routing keys of the table's partitions
  SnapshotIds,  \* snapshots a manifest fact may belong to
  SpecIds,      \* partition specifications
  Hours,        \* hours of the partitions
  Inspected     \* the snapshots that may be classified, with their evidence

ASSUME TargetsAreKeys == {"NULL", "BAD"} \intersect Targets = {}

\* trust is the empty set where the catalog has no evidence for a rewrite.
ASSUME InspectedAreEvidence ==
  \A s \in Inspected :
    /\ DOMAIN s = {"id", "spec", "op", "declared", "entries", "trust"}
    /\ s.id \in SnapshotIds /\ s.spec \in SpecIds /\ s.declared \in DeclaredData
    /\ s.op \in {"append", "replace", "delete", "other"}
    /\ s.entries \subseteq ManifestEntry(SnapshotIds, SpecIds, Targets, Hours) /\ IsFiniteSet(s.entries)
    /\ s.trust \subseteq MaintenanceTrust

VARIABLE classified   \* the snapshot classified, with the verdict: at most one

WindowInit == classified = {}

ClassifySnapshot(s) ==
  classified' = {[of |-> s, as |-> plan_incremental_window(s.id, s.spec, s.op, s.declared, s.entries, s.trust)]}

WindowNext == classified = {} /\ \E s \in Inspected : ClassifySnapshot(s)

WindowSpec == WindowInit /\ [][WindowNext]_classified

-----------------------------------------------------------------------------

\* The files the snapshot adds to and removes from its table.
AddedRows(s)   == {e \in s.entries : e.snapshot = s.id /\ e.status = "ADDED" /\ e.content = "DATA"}
RemovedRows(s) == {e \in s.entries : e.status = "DELETED" \/ (e.status = "ADDED" /\ e.content # "DATA")}

\* What ingestion relies on (classify_snapshot): an accepted window only adds
\* rows, and an INGEST row exists for a target exactly when the window adds rows to
\* it.  A window that declares new data never has an empty set of targets.
AcceptedWindowsOnlyAdd ==
  \A c \in classified : c.as.ok =>
    /\ c.as.kind = "APPEND" => /\ RemovedRows(c.of) = {}
                               /\ c.as.targets = {e.target : e \in AddedRows(c.of)}
                               /\ c.of.declared = "data" => c.as.targets # {}
    /\ c.as.kind = "TRUSTED_MAINTENANCE" => c.as.targets = {} /\ c.of.trust # {}
    /\ c.as.targets \subseteq Targets

\* The snapshot only adds readable files of its own and of its specification, declares
\* what it adds, and has no more facts than a plan collects.
CleanAppend(s) ==
  /\ s.op = "append" /\ s.declared # "malformed"
  /\ Cardinality(s.entries) <= MAX_MANIFEST_FACTS_PER_SNAPSHOT
  /\ \A e \in s.entries : e.target \in Targets /\ e.status # "DELETED"
  /\ \A e \in s.entries : e.status = "ADDED" => e \in AddedRows(s) /\ e.spec = s.spec
  /\ s.declared = "data" => AddedRows(s) # {}

\* Classification fails closed and nothing more (validate_append_entries): an append
\* that only adds readable data files of its own specification is accepted, as long as
\* its summary is readable and its facts are within the limit of collect_manifest_rows.
CleanAppendsAccepted == \A c \in classified : CleanAppend(c.of) => c.as.ok

=============================================================================
