--------------------------- MODULE SpecValidation ---------------------------
(***************************************************************************)
(* What a specification revision must satisfy (state/specs.py), and what   *)
(* the database says of the rows it is stored as (state/tables.py).  A     *)
(* draft passes both, is read back in the transaction that wrote it, and   *)
(* must come back as it was.                                               *)
(*                                                                         *)
(* A revision is a record of its fields, its indexes (sequences, as the    *)
(* operator listed them) and its settings.  Checks of Python types have no *)
(* counterpart.  A decimal is counted in 1/100000 and remembers whether it *)
(* was written as a float, since the digest is taken of its text; a digest *)
(* is the document it is taken of.                                         *)
(***************************************************************************)
EXTENDS Integers, SequencesExt

CONSTANTS
  Null,         \* None
  Malformed,    \* the names in use that are no identifiers
  INTEGER_MAX,  \* the largest value of an INTEGER column, 2^31 - 1
  BIGINT_MAX    \* the largest value of a BIGINT column, 2^63 - 1

\* The units of 1.
Unit == 100000

\* Data types: scalars have dimension 0.
Scalar(base) == [base |-> base, size |-> 0]
VectorOf(n)  == [base |-> "float32", size |-> n]

SCALAR_DATA_TYPES ==
  {Scalar(b) : b \in {"string", "bool", "int32", "int64", "float32", "float64", "date32", "timestamp[us,UTC]",
                      "duration[s]", "binary[32]"}}

FieldRole == {"KEY", "EVENT_TIME", "VECTOR", "TEXT", "METADATA", "TOMBSTONE", "LINEAGE"}

validate_identifier(name) == name \notin Malformed

validate_optional_positive(n) == n = Null \/ n >= 1

validate_unique(s) == Cardinality(ToSet(s)) = Len(s)

Column(rows, key) == [i \in DOMAIN rows |-> rows[i][key]]

-----------------------------------------------------------------------------
(* Fields.                                                                 *)

map_columns == [VECTOR |-> "vectors", TEXT |-> "texts", METADATA |-> "metadata"]

canonical_direct_columns == [KEY |-> "record_id", EVENT_TIME |-> "ts"]

validate_source_mapping(f) ==
  /\ (f.kind = "MAP_KEY") = (f.key # Null)
  /\ f.key # Null => validate_identifier(f.key) /\ f.key = f.name
  /\ (f.kind = "MAP_KEY") = (f.role \in DOMAIN map_columns)
  /\ f.role \in DOMAIN map_columns => f.column = map_columns[f.role]
  /\ f.role \in {"TOMBSTONE", "LINEAGE"} => f.kind = "DERIVED"
  /\ f.role \in {"KEY", "EVENT_TIME"} =>
       /\ f.kind = "DIRECT"
       /\ f.name = canonical_direct_columns[f.role] /\ f.column = canonical_direct_columns[f.role]
  /\ f.kind = "DERIVED" => f.column = f.name

required_types ==
  [KEY |-> Scalar("string"), EVENT_TIME |-> Scalar("timestamp[us,UTC]"), TEXT |-> Scalar("string"),
   METADATA |-> Scalar("string"), TOMBSTONE |-> Scalar("bool")]

\* <<nullable, required_on_upsert>>
expected_flags ==
  [KEY |-> <<FALSE, TRUE>>, EVENT_TIME |-> <<TRUE, TRUE>>, VECTOR |-> <<TRUE, TRUE>>, TEXT |-> <<TRUE, FALSE>>,
   METADATA |-> <<TRUE, FALSE>>, TOMBSTONE |-> <<FALSE, FALSE>>, LINEAGE |-> <<FALSE, FALSE>>]

validate_role_type(f) ==
  /\ f.role \in DOMAIN required_types => f.type = required_types[f.role]
  /\ IF f.role = "VECTOR"
     THEN f.dim # Null /\ f.dim >= 8 /\ f.dim % 8 = 0 /\ f.type = VectorOf(f.dim)
     ELSE f.dim = Null /\ f.type \in SCALAR_DATA_TYPES
  /\ f.flags = expected_flags[f.role]

validate_field(f) ==
  /\ f.ordinal >= 0 /\ validate_identifier(f.name) /\ validate_identifier(f.column)
  /\ validate_source_mapping(f) /\ validate_role_type(f)

sorted(rows) == SortSeq(rows, LAMBDA a, b : a.ordinal < b.ordinal)

\* The places of the fields of a role (role_counts).
role_places(r, role) == {i \in DOMAIN r.fields : r.fields[i].role = role}

fields_for_role(r, role) == sorted(SelectSeq(r.fields, LAMBDA f : f.role = role))

Names(rows) == Column(rows, "name")

canonical_lineage ==
  [lance_etl_window_seq |-> Scalar("int64"), lance_etl_source_sequence |-> Scalar("int64"),
   lance_etl_event_digest |-> Scalar("binary[32]")]

expected_order(r) ==
  <<"record_id", "ts">> \o Names(fields_for_role(r, "VECTOR")) \o Names(fields_for_role(r, "TEXT"))
    \o Names(fields_for_role(r, "METADATA"))
    \o <<"lance_etl_window_seq", "lance_etl_source_sequence", "lance_etl_event_digest", "is_deleted">>

validate_fields(r) ==
  /\ r.fields # <<>>
  /\ \A key \in {"id", "name", "ordinal"} : validate_unique(Column(r.fields, key))
  /\ \A i \in DOMAIN r.fields : validate_field(r.fields[i])
  /\ validate_unique([i \in DOMAIN r.fields |-> <<r.fields[i].kind, r.fields[i].column, r.fields[i].key>>])
  /\ \A role \in {"KEY", "EVENT_TIME", "TOMBSTONE"} : Cardinality(role_places(r, role)) = 1
  /\ {r.fields[i].name : i \in role_places(r, "LINEAGE")} = DOMAIN canonical_lineage
  /\ \A i \in role_places(r, "LINEAGE") : r.fields[i].type = canonical_lineage[r.fields[i].name]
  /\ \A i \in role_places(r, "TOMBSTONE") : r.fields[i].name = "is_deleted"
  /\ Names(sorted(r.fields)) = expected_order(r)
  /\ ToSet(Column(r.fields, "ordinal")) = 0..(Len(r.fields) - 1)

-----------------------------------------------------------------------------
(* Indexes.                                                                *)

validate_vector_options(o) ==
  /\ o.minimum_partitions >= 1 /\ o.maximum_partitions >= o.minimum_partitions
  /\ validate_optional_positive(o.num_partitions)
  /\ o.num_partitions # Null => o.num_partitions \in o.minimum_partitions..o.maximum_partitions
  /\ o.minimum_rows >= 0 /\ o.num_bits \in 1..8
  /\ o.retrain_growth_factor.units > Unit

validate_optional_text(text) == text \notin {"", " "}

validate_fts_options(o) == validate_optional_text(o.base_tokenizer) /\ o.max_unindexed_fragments >= 0

validate_index(x) ==
  /\ x.ordinal >= 0 /\ validate_identifier(x.name)
  /\ (x.type = "IVF_RQ") = (x.vector # Null)
  /\ x.vector # Null => validate_vector_options(x.vector)
  /\ (x.type = "INVERTED") = (x.fts # Null)
  /\ x.fts # Null => validate_fts_options(x.fts)

allowed_roles ==
  [IVF_RQ |-> {"VECTOR"}, INVERTED |-> {"TEXT"}, BTREE |-> {"KEY", "EVENT_TIME", "METADATA", "LINEAGE"},
   BITMAP |-> {"KEY", "METADATA", "TOMBSTONE"}, ZONEMAP |-> {"EVENT_TIME", "LINEAGE"}]

validate_indexes(r) ==
  /\ \A i \in DOMAIN r.indexes :
       /\ validate_index(r.indexes[i])
       /\ \E k \in DOMAIN r.fields : /\ r.fields[k].id = r.indexes[i].field
                                     /\ r.fields[k].role \in allowed_roles[r.indexes[i].type]
  /\ \A key \in {"id", "name", "ordinal"} : validate_unique(Column(r.indexes, key))
  /\ validate_unique([i \in DOMAIN r.indexes |-> <<r.indexes[i].field, r.indexes[i].type>>])

-----------------------------------------------------------------------------
(* The revision.                                                           *)

validate_operational_settings(r) ==
  /\ \A s \in DOMAIN r.required : r.required[s] >= 1
  /\ \A s \in DOMAIN r.optional : validate_optional_positive(r.optional[s])
  /\ r.cleanup_older_than # Null => r.cleanup_older_than >= 21600
  /\ r.max_stale_replans >= 0
  /\ r.threshold.units \in 0..Unit

\* Everything but identities; children by ordinal, an index by the name of its field.
field_document(f) == [f EXCEPT !.id = Null]

index_document(x, names) == [x EXCEPT !.id = Null, !.field = names[@]]

configuration_document(r) ==
  LET names == [id \in ToSet(Column(r.fields, "id")) |-> (CHOOSE f \in ToSet(r.fields) : f.id = id).name] IN
  [fields   |-> [i \in DOMAIN r.fields |-> field_document(sorted(r.fields)[i])],
   indexes  |-> [i \in DOMAIN r.indexes |-> index_document(sorted(r.indexes)[i], names)],
   settings |-> <<r.required, r.optional, r.cleanup_older_than, r.max_stale_replans, r.threshold>>]

expected_configuration_digest(r) == configuration_document(r)

validate_revision(r) ==
  /\ r.number >= 1
  /\ validate_operational_settings(r) /\ validate_fields(r) /\ validate_indexes(r)
  /\ r.digest = expected_configuration_digest(r)

\* Mutant: decimals of any scale are taken.
any_decimal(d) == d.units >= 0

validate_database_decimal(d) == d.units % 10 = 0

Decimals(r) ==
  {r.threshold} \union {r.indexes[i].vector.retrain_growth_factor : i \in {k \in DOMAIN r.indexes : r.indexes[k].vector # Null}}

IdentifiedFields(r) == \A i \in DOMAIN r.indexes : \E k \in DOMAIN r.fields : r.fields[k].id = r.indexes[i].field

\* prepared_draft_revision; the digest of an index of an unknown field cannot be taken.
prepared(r) == [r EXCEPT !.digest = expected_configuration_digest(r)]

is_prepared(r) ==
  /\ IdentifiedFields(r)
  /\ \A d \in Decimals(r) : validate_database_decimal(d)
  /\ validate_revision(prepared(r))

-----------------------------------------------------------------------------
(* The tables.                                                             *)

\* NUMERIC(8, 4) holds less than 10000.
numeric_limit == 10000 * Unit

\* NUMERIC(p, 4) keeps four places and is read back as a float.
numeric(d) == [units |-> ((d.units + 5) \div 10) * 10, float |-> TRUE]

\* A value too large for its column is refused; the checks in Python have no upper bound.
Holds(limit, n) == n # Null => n <= limit

field_columns_hold(f) == Holds(INTEGER_MAX, f.ordinal) /\ Holds(INTEGER_MAX, f.dim)

index_columns_hold(x) ==
  /\ Holds(INTEGER_MAX, x.ordinal)
  /\ x.vector # Null =>
       /\ \A k \in {"num_partitions", "minimum_partitions", "maximum_partitions", "num_bits"} : Holds(INTEGER_MAX, x.vector[k])
       /\ Holds(BIGINT_MAX, x.vector.minimum_rows)
       /\ numeric(x.vector.retrain_growth_factor).units < numeric_limit
  /\ x.fts # Null => Holds(INTEGER_MAX, x.fts.max_unindexed_fragments)

bigint_settings == {"artifact_retention", "record_retention"}

setting_limit(s) == IF s \in bigint_settings THEN BIGINT_MAX ELSE INTEGER_MAX

revision_columns_hold(r) ==
  /\ Holds(BIGINT_MAX, r.number) /\ Holds(BIGINT_MAX, r.cleanup_older_than) /\ Holds(INTEGER_MAX, r.max_stale_replans)
  /\ \A s \in DOMAIN r.required : Holds(setting_limit(s), r.required[s])
  /\ \A s \in DOMAIN r.optional : Holds(setting_limit(s), r.optional[s])

columns_hold(r) ==
  /\ revision_columns_hold(r)
  /\ \A i \in DOMAIN r.fields : field_columns_hold(r.fields[i])
  /\ \A i \in DOMAIN r.indexes : index_columns_hold(r.indexes[i])

ck_dataset_fields(f) ==
  /\ f.ordinal >= 0 /\ f.name \notin Malformed /\ f.column \notin Malformed
  /\ (f.kind = "MAP_KEY") = (f.key # Null)
  /\ f.kind = "MAP_KEY" => f.key = f.name
  /\ CASE f.role = "KEY"        -> f.name = "record_id" /\ f.kind = "DIRECT" /\ f.column = "record_id"
       [] f.role = "EVENT_TIME" -> f.name = "ts" /\ f.kind = "DIRECT" /\ f.column = "ts"
       [] f.role = "TOMBSTONE"  -> f.name = "is_deleted" /\ f.kind = "DERIVED" /\ f.column = f.name
       [] f.role = "LINEAGE"    -> /\ f.name \in DOMAIN canonical_lineage /\ f.type = canonical_lineage[f.name]
                                   /\ f.kind = "DERIVED" /\ f.column = f.name
       [] OTHER                 -> f.kind = "MAP_KEY" /\ f.column = map_columns[f.role]
  /\ f.role \in DOMAIN required_types => f.type = required_types[f.role]
  /\ IF f.role = "VECTOR" THEN f.dim >= 8 /\ f.dim % 8 = 0 /\ f.type = VectorOf(f.dim) ELSE f.dim = Null
  /\ f.flags = expected_flags[f.role]

ck_index_definitions(x) ==
  /\ x.ordinal >= 0 /\ x.name \notin Malformed
  /\ (x.type = "IVF_RQ") = (x.vector # Null) /\ (x.type = "INVERTED") = (x.fts # Null)
  /\ x.vector # Null =>
       /\ x.vector.num_partitions # Null =>
            x.vector.num_partitions > 0 /\ x.vector.num_partitions \in x.vector.minimum_partitions..x.vector.maximum_partitions
       /\ x.vector.minimum_partitions > 0 /\ x.vector.maximum_partitions >= x.vector.minimum_partitions
       /\ x.vector.minimum_rows >= 0 /\ x.vector.num_bits > 0
       /\ numeric(x.vector.retrain_growth_factor).units > Unit
  /\ x.fts # Null => x.fts.base_tokenizer # "" /\ x.fts.max_unindexed_fragments >= 0

ck_dataset_spec_revisions(r) ==
  /\ r.number > 0 /\ r.max_stale_replans >= 0
  /\ \A s \in DOMAIN r.required : r.required[s] > 0
  /\ \A s \in DOMAIN r.optional : r.optional[s] # Null => r.optional[s] > 0
  /\ r.cleanup_older_than # Null => r.cleanup_older_than >= 21600
  /\ numeric(r.threshold).units \in 0..Unit

\* Unique constraints and the foreign keys of a revision's children.
unique_children(r) ==
  /\ \A key \in {"id", "name", "ordinal"} :
       validate_unique(Column(r.fields, key)) /\ validate_unique(Column(r.indexes, key))
  /\ \A role \in {"KEY", "EVENT_TIME", "TOMBSTONE"} : Cardinality(role_places(r, role)) <= 1
  /\ validate_unique([i \in DOMAIN r.indexes |-> <<r.indexes[i].field, r.indexes[i].type>>])
  /\ IdentifiedFields(r)

index_row_values(x) == IF x.vector = Null THEN x ELSE [x EXCEPT !.vector.retrain_growth_factor = numeric(@)]

row_values(r) ==
  [r EXCEPT !.threshold = numeric(@), !.indexes = [i \in DOMAIN @ |-> index_row_values(@[i])]]

\* Children are read by ordinal.
load_spec_revision(rows) == [rows EXCEPT !.fields = sorted(@), !.indexes = sorted(@)]

\* Rows that do not validate raise instead of being decoded.
decode_dataset_spec_revision(r) == validate_revision(r)

\* Python compares 4 and 4.0 as equal.
index_content(x) == IF x.vector = Null THEN x ELSE [x EXCEPT !.vector.retrain_growth_factor = @.units]

Content(r) ==
  [r EXCEPT !.digest = Null, !.threshold = @.units, !.indexes = [i \in DOMAIN @ |-> index_content(@[i])]]

-----------------------------------------------------------------------------
(* The revision migration 0001 stores.                                     *)

DatasetField(n, name, role, from, column, key, type, flags, dim) ==
  [id |-> n, ordinal |-> n, name |-> name, role |-> role, kind |-> from, column |-> column, key |-> key,
   type |-> type, flags |-> flags, dim |-> dim]

IndexDefinition(n, name, field, type, vector, fts) ==
  [id |-> n, ordinal |-> n, name |-> name, field |-> field, type |-> type, vector |-> vector, fts |-> fts]

FloatDecimal(n) == [units |-> n, float |-> TRUE]

production_default_fields ==
  << DatasetField(0, "record_id", "KEY", "DIRECT", "record_id", Null, Scalar("string"), <<FALSE, TRUE>>, Null),
     DatasetField(1, "ts", "EVENT_TIME", "DIRECT", "ts", Null, Scalar("timestamp[us,UTC]"), <<TRUE, TRUE>>, Null),
     DatasetField(2, "vector", "VECTOR", "MAP_KEY", "vectors", "vector", VectorOf(128), <<TRUE, TRUE>>, 128),
     DatasetField(3, "text", "TEXT", "MAP_KEY", "texts", "text", Scalar("string"), <<TRUE, FALSE>>, Null),
     DatasetField(4, "cluster", "METADATA", "MAP_KEY", "metadata", "cluster", Scalar("string"), <<TRUE, FALSE>>, Null),
     DatasetField(5, "lance_etl_window_seq", "LINEAGE", "DERIVED", "lance_etl_window_seq", Null, Scalar("int64"),
                  <<FALSE, FALSE>>, Null),
     DatasetField(6, "lance_etl_source_sequence", "LINEAGE", "DERIVED", "lance_etl_source_sequence", Null, Scalar("int64"),
                  <<FALSE, FALSE>>, Null),
     DatasetField(7, "lance_etl_event_digest", "LINEAGE", "DERIVED", "lance_etl_event_digest", Null, Scalar("binary[32]"),
                  <<FALSE, FALSE>>, Null),
     DatasetField(8, "is_deleted", "TOMBSTONE", "DERIVED", "is_deleted", Null, Scalar("bool"), <<FALSE, FALSE>>, Null) >>

default_vector_options ==
  [num_partitions |-> Null, minimum_partitions |-> 16, maximum_partitions |-> 32768, minimum_rows |-> 1,
   num_bits |-> 1, retrain_growth_factor |-> FloatDecimal(400000)]

production_default_spec_revision ==
  [number |-> 1, digest |-> Null, fields |-> production_default_fields,
   indexes |-> << IndexDefinition(0, "vector_idx", 2, "IVF_RQ", default_vector_options, Null),
                  IndexDefinition(1, "text_fts_idx", 3, "INVERTED", Null, [base_tokenizer |-> Null, max_unindexed_fragments |-> 32]),
                  IndexDefinition(2, "cluster_idx", 4, "BTREE", Null, Null), IndexDefinition(3, "ts_idx", 1, "BTREE", Null, Null),
                  IndexDefinition(4, "ts_zonemap_idx", 1, "ZONEMAP", Null, Null),
                  IndexDefinition(5, "is_deleted_bitmap_idx", 8, "BITMAP", Null, Null) >>,
   required |-> [fragments_per_index_task |-> 8, artifact_retention |-> 2592000],
   optional |-> [retain_versions |-> 2, record_retention |-> Null],
   cleanup_older_than |-> 216000, max_stale_replans |-> 3, threshold |-> FloatDecimal(10000)]

-----------------------------------------------------------------------------
(* One operator edits the seeded revision into the next and submits it.    *)

CONSTANTS
  FieldEdits,       \* what a field, an index or the revision may be changed to: records
  IndexEdits,       \* of the changed components
  RevisionEdits,
  MaxEdits          \* bound on the edits of a draft

\* The settings of a revision can be edited, and a component keeps its type.
Decimal == [units : Int, float : BOOLEAN]

VectorOptions ==
  [num_partitions : Int \union {Null}, minimum_partitions : Int, maximum_partitions : Int, minimum_rows : Int,
   num_bits : Int, retrain_growth_factor : Decimal]

ASSUME EditsAreTyped ==
  /\ \A e \in FieldEdits : "role" \in DOMAIN e => e.role \in FieldRole
  /\ \A e \in IndexEdits : "vector" \in DOMAIN e => e.vector \in VectorOptions \union {Null}
  /\ \A e \in RevisionEdits :
       /\ DOMAIN e \intersect {"number", "digest", "fields", "indexes"} = {}
       /\ "threshold" \in DOMAIN e => e.threshold \in Decimal
       /\ "required" \in DOMAIN e => \A s \in DOMAIN e.required : e.required[s] \in Int
       /\ "optional" \in DOMAIN e => \A s \in DOMAIN e.optional : e.optional[s] \in Int \union {Null}

VARIABLE drafting   \* the draft, its edits and, once submitted, what became of it

DraftInit == drafting = [draft |-> [production_default_spec_revision EXCEPT !.number = 2], edits |-> 0, outcome |-> "open"]

Stored == row_values(prepared(production_default_spec_revision))

unique_revisions(r) == r.number # Stored.number /\ r.digest # Stored.digest

ConstraintsHold(r) ==
  /\ columns_hold(r)
  /\ ck_dataset_spec_revisions(r) /\ unique_children(r)
  /\ \A i \in DOMAIN r.fields : ck_dataset_fields(r.fields[i])
  /\ \A i \in DOMAIN r.indexes : ck_index_definitions(r.indexes[i])

\* Inserted, read back, compared; any failure rolls the transaction back.
Outcome(r) ==
  LET candidate == prepared(r)
      persisted == load_spec_revision(row_values(candidate)) IN
  IF      ~is_prepared(r)              THEN "invalid"
  ELSE IF ~ConstraintsHold(candidate)  THEN "refused"
  ELSE IF ~unique_revisions(candidate) THEN "duplicate"
  ELSE IF ~(decode_dataset_spec_revision(persisted) /\ Content(persisted) = Content(candidate)) THEN "unreadable"
  ELSE "stored"

Edit(draft) ==
  /\ drafting.outcome = "open" /\ drafting.edits < MaxEdits
  /\ drafting' = [drafting EXCEPT !.draft = draft, !.edits = @ + 1]

Changed(row, e) == [k \in DOMAIN row |-> IF k \in DOMAIN e THEN e[k] ELSE row[k]]

Exchanged(s, i, j) == [s EXCEPT ![i] = s[j], ![j] = s[i]]

EditDraft ==
  LET r == drafting.draft IN
  \/ \E e \in RevisionEdits : Edit(Changed(r, e))
  \/ \E i \in DOMAIN r.fields, e \in FieldEdits : Edit([r EXCEPT !.fields[i] = Changed(@, e)])
  \/ \E i \in DOMAIN r.indexes, e \in IndexEdits : Edit([r EXCEPT !.indexes[i] = Changed(@, e)])
  \/ \E i, j \in DOMAIN r.fields : Edit([r EXCEPT !.fields = Exchanged(@, i, j)])
  \/ \E i, j \in DOMAIN r.indexes : Edit([r EXCEPT !.indexes = Exchanged(@, i, j)])

\* create_draft_spec_revision
SubmitDraft ==
  /\ drafting.outcome = "open"
  /\ drafting' = [drafting EXCEPT !.outcome = Outcome(drafting.draft)]

DraftNext == EditDraft \/ SubmitDraft

DraftSpec == DraftInit /\ [][DraftNext]_drafting

-----------------------------------------------------------------------------

InOrder(r) == r.fields = sorted(r.fields) /\ r.indexes = sorted(r.indexes)

\* The checks in Python and the constraints of the tables are written twice and must
\* agree: a draft that prepared_draft_revision passes, with its children listed by
\* ordinal, its decimals written as floats and no number too large for its column, is
\* stored and read back as it was, unless the specification has its number or its
\* configuration already.  Whatever is stored decodes for ever.
PreparedDraftsPersist ==
  LET r == drafting.draft
      fits == columns_hold(r) /\ \A d \in Decimals(r) : d.float IN
  drafting.outcome # "open" /\ InOrder(r) /\ is_prepared(r) /\ fits => drafting.outcome \in {"stored", "duplicate"}

=============================================================================
