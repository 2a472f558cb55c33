--------------------------- MODULE SourceManifests ---------------------------
(***************************************************************************)
(* Classification of one Iceberg snapshot from its manifest facts          *)
(* (source/manifests.py, reconciler/iceberg.py).  A snapshot is accepted   *)
(* as a window with a set of targets, or rejected with an error code.      *)
(* Operators only; SourcePlanning applies them to the snapshots it walks.  *)
(***************************************************************************)
EXTENDS Naturals, FiniteSets

CONSTANT MAX_MANIFEST_FACTS_PER_SNAPSHOT

ASSUME FactLimitAssumption == MAX_MANIFEST_FACTS_PER_SNAPSHOT \in Nat

ManifestStatus  == {"ADDED", "EXISTING", "DELETED"}
ManifestContent == {"DATA", "POSITION_DELETES", "EQUALITY_DELETES"}

\* One distinct fact of all_entries: target is the routing key of its partition, or
\* "NULL" or "BAD" when a partition value is missing or is no routing segment.
ManifestEntry(Ids, Specs, Targets, Hours) ==
  [snapshot : Ids, spec : Specs, status : ManifestStatus, content : ManifestContent,
   target : Targets \cup {"NULL", "BAD"}, hour : Hours]

\* The added-data counts of a snapshot's summary: some data, none, or no numbers.
DeclaredData == {"data", "nothing", "malformed"}

\* Catalog evidence for a rewrite; SparkIcebergCatalog never has any.
MaintenanceTrust ==
  [identified : BOOLEAN, authenticated : BOOLEAN, allowlisted : BOOLEAN,
   logical_change : BOOLEAN, invariants_match : BOOLEAN]

Accepted(as, targets) == [ok |-> TRUE, kind |-> as, targets |-> targets, code |-> "none"]
Rejected(code)          == [ok |-> FALSE, kind |-> "REJECTED", targets |-> {}, code |-> code]

IsAddedData(e) == e.status = "ADDED" /\ e.content = "DATA"

\* manifest_from_row: a fact that names no target makes the snapshot unreadable.
manifest_from_row(entries) ==
  IF \E e \in entries : e.target = "NULL" THEN "SOURCE_PARTITION_NULL"
  ELSE IF \E e \in entries : e.target = "BAD" THEN "SOURCE_PARTITION_ROUTING"
  ELSE "none"

\* Facts are collected up to a limit, then decoded one by one.
collect_manifest_rows(entries) ==
  IF Cardinality(entries) > MAX_MANIFEST_FACTS_PER_SNAPSHOT THEN "SOURCE_MANIFEST_FACT_LIMIT"
  ELSE manifest_from_row(entries)

\* Mutant: files removed by an append go unnoticed.
validate_append_tolerates_removal(id, declared, entries) ==
  IF declared = "malformed" THEN "MANIFEST_SUMMARY_INVALID"
  ELSE IF declared = "data" /\ ~ \E e \in entries : IsAddedData(e) THEN "MANIFEST_EVIDENCE_MISSING"
  ELSE IF \E e \in entries : e.status = "ADDED" /\ e.content # "DATA" THEN "DELETE_FILE"
  ELSE "none"

\* Mutant: an append that declares nothing must still show data.
validate_append_requires_data(id, declared, entries) ==
  IF declared = "malformed" THEN "MANIFEST_SUMMARY_INVALID"
  ELSE IF ~ \E e \in entries : IsAddedData(e) THEN "MANIFEST_EVIDENCE_MISSING"
  ELSE IF \E e \in entries : e.snapshot # id /\ e.status # "EXISTING" THEN "MANIFEST_SNAPSHOT_MISMATCH"
  ELSE IF \E e \in entries : e.status = "DELETED" THEN "PHYSICAL_DELETE"
  ELSE IF \E e \in entries : e.status = "ADDED" /\ e.content # "DATA" THEN "DELETE_FILE"
  ELSE "none"

\* Only added data files of the snapshot itself; the first failing entry decides
\* between the codes, any of them rejects.
validate_append_entries(id, declared, entries) ==
  IF declared = "malformed" THEN "MANIFEST_SUMMARY_INVALID"
  ELSE IF declared = "data" /\ ~ \E e \in entries : IsAddedData(e) THEN "MANIFEST_EVIDENCE_MISSING"
  ELSE IF \E e \in entries : e.snapshot # id /\ e.status # "EXISTING" THEN "MANIFEST_SNAPSHOT_MISMATCH"
  ELSE IF \E e \in entries : e.status = "DELETED" THEN "PHYSICAL_DELETE"
  ELSE IF \E e \in entries : e.status = "ADDED" /\ e.content # "DATA" THEN "DELETE_FILE"
  ELSE "none"

validate_trusted_rewrite(entries, trust) ==
  IF /\ trust # {}
     /\ \A t \in trust : /\ t.identified /\ t.authenticated /\ t.allowlisted
                         /\ ~t.logical_change /\ t.invariants_match
     /\ \A e \in entries : e.content = "DATA"
  THEN "none" ELSE "UNTRUSTED_REWRITE"

discover_added_targets(entries) == {e.target : e \in {f \in entries : IsAddedData(f)}}

discover_baseline_targets(entries) ==
  {e.target : e \in {f \in entries : f.status # "DELETED" /\ f.content = "DATA"}}

\* validate_entry_spec over the entries a discovery looks at.
SpecsAgree(spec, entries) == \A e \in entries : e.spec = spec

\* classify_snapshot followed by discover_added_targets (plan_incremental_window).
\* trust is the empty set for None.
plan_incremental_window(id, spec, op, declared, entries, trust) ==
  LET unreadable == collect_manifest_rows(entries)
      append     == validate_append_entries(id, declared, entries)
      rewrite    == validate_trusted_rewrite(entries, trust) IN
  IF unreadable # "none" THEN Rejected(unreadable)
  ELSE IF op = "append" THEN
    IF append # "none" THEN Rejected(append)
    ELSE IF ~SpecsAgree(spec, {e \in entries : IsAddedData(e)}) THEN Rejected("PARTITION_SPEC_CHANGED")
    ELSE Accepted("APPEND", discover_added_targets(entries))
  ELSE IF op = "replace" THEN
    IF rewrite # "none" THEN Rejected(rewrite) ELSE Accepted("TRUSTED_MAINTENANCE", {})
  ELSE IF op = "delete" THEN Rejected("PHYSICAL_DELETE")
  ELSE Rejected("UNKNOWN_OPERATION")

=============================================================================
