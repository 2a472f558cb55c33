--------------------------- MODULE DocumentedClaims ---------------------------
(* Statements the repository's documents make about the lanes that its     *)
(* code does not keep.  Each one is checked by a run that refutes it.      *)
EXTENDS DatasetLanes

\* "dataset-disjoint by construction" (state/README.md) and per-claim failure
\* isolation (reconciler/README.md): the rows one claim_due_work selects never
\* include a row whose dataset already has a RUNNING row.  If one does, the index
\* uq_dataset_work_running_dataset rejects it and every other claim of the batch.
ClaimsStayDisjoint ==
  LET swept == sweep_stale_work(release_expired_leases) IN
  \A w, e \in WorkIds :
    Claimable(swept, w) /\ e.ds = w.ds => swept[e].state # "RUNNING"

\* "The maximum-attempt setting moves exhausted work to BLOCKED" (the control
\* plane ADR): without operator repairs no row is claimed more than
\* settings.max_attempts times.
AttemptsBounded == \A w \in WorkIds : work[w].attempt <= MaxAttempts

IngestClaimed(w) ==
  w.kind = "INGEST" /\ work[w].state # "RUNNING" /\ work'[w].state = "RUNNING"

\* "The next INGEST naturally re-freezes the desired revision" (state/README.md):
\* an INGEST row of a materialized dataset runs under the revision the dataset
\* desires when the row is claimed.
ClaimRefreezesRevision ==
  [][\A w \in WorkIds :
       IngestClaimed(w) /\ Materialized(w.ds) => work'[w].rev = ds[w.ds].desired]_vars

=============================================================================
