-------------------------- MODULE DatasetLanesProofs --------------------------
(* Proofs about the dataset-work lanes, for every number of datasets,      *)
(* snapshots, revisions, faults and repairs.                               *)
EXTENDS DatasetLanes, SequenceTheorems, WellFoundedInduction, TLAPS

-----------------------------------------------------------------------------
(* Shapes.                                                                 *)

\* A work identity of kind INGEST is keyed by a source sequence.
LEMMA IngestKey ==
  ASSUME NEW w \in WorkIds, w.kind = "INGEST"
  PROVE  w.key \in Seqs /\ w.ds \in Datasets
BY DEF WorkIds

\* Every work identity belongs to a dataset, and to a rebuild key if a REBUILD.
LEMMA WorkIdShape ==
  ASSUME NEW w \in WorkIds
  PROVE  /\ w.ds \in Datasets
         /\ w.kind \in {"INGEST", "PUBLISH", "REBUILD"}
         /\ w.kind = "REBUILD" => w.key \in RebuildKeys
BY DEF WorkIds

\* The derived identities are work identities.
LEMMA DerivedIds ==
  ASSUME NEW d \in Datasets
  PROVE  /\ \A s \in Seqs : /\ deterministic_ingest_work_id(d, s) \in WorkIds
                            /\ deterministic_publish_work_id(d, s) \in WorkIds
         /\ \A k \in RebuildKeys : deterministic_rebuild_work_id(d, k) \in WorkIds
BY DEF WorkIds, deterministic_ingest_work_id, deterministic_publish_work_id,
       deterministic_rebuild_work_id

\* The rows the code writes are work rows.
LEMMA ReleasedType ==
  ASSUME NEW row \in WorkRow, NEW state \in WorkState
  PROVE  Released(row, state) \in WorkRow
BY DEF Released, WorkRow

\* A row as it is inserted (insert_ingest_work, enqueue_publish_work, rebuilds).
LEMMA NewWorkType ==
  ASSUME NEW p \in Phases, NEW s \in 0..MaxSeq, NEW r \in Revision,
         NEW e \in [uri : Uris \cup {None}, ver : Nat, pub : Publication],
         NEW k \in [uri : Uris \cup {None}, ver : Nat]
  PROVE  NewWork(p, s, r, e, k) \in WorkRow
<1>1. AbsentWork \in WorkRow
  BY ConstantsAssumption
     DEF ConstantsAssumption, AbsentWork, WorkRow, WorkState, Phases, Revision, Publication
<1> QED BY <1>1 DEF NewWork, WorkRow, WorkState

\* The frozen expectation of a dataset row has the shape of the expected_* columns.
LEMMA PointerType ==
  ASSUME NEW row \in DatasetRow
  PROVE  Pointer(row) \in [uri : Uris \cup {None}, ver : Nat, pub : Publication]
BY DEF Pointer, DatasetRow, Publication

\* Releasing expired leases and sweeping stale work keep the table well typed.
LEMMA ReleaseAndSweepType ==
  ASSUME work \in [WorkIds -> WorkRow]
  PROVE  /\ release_expired_leases \in [WorkIds -> WorkRow]
         /\ sweep_stale_work(release_expired_leases) \in [WorkIds -> WorkRow]
<1>1. release_expired_leases \in [WorkIds -> WorkRow]
  BY ReleasedType DEF release_expired_leases, WorkState
<1>2. sweep_stale_work(release_expired_leases) \in [WorkIds -> WorkRow]
  BY <1>1, ReleasedType DEF sweep_stale_work, WorkState
<1> QED BY <1>1, <1>2

-----------------------------------------------------------------------------
(* Frames.  Most transactions leave the INGEST history, the fences or the  *)
(* claims alone; these facts are proved once and cited by every action.    *)

\* The INGEST rows keep their identity, and none starts running or succeeds.
QuietIngest ==
  \A w \in WorkIds : w.kind = "INGEST" =>
    /\ work'[w].state = "ABSENT" <=> work[w].state = "ABSENT"
    /\ work'[w].state = "SUCCEEDED" <=> work[w].state = "SUCCEEDED"
    /\ work'[w].state = "RUNNING" => work[w].state = "RUNNING"
    /\ work'[w].seq = work[w].seq

QuietSnapshots == \A s \in Seqs : snap'[s].state = "ABSENT" <=> snap[s].state = "ABSENT"

QuietApplied == \A d \in Datasets : ds'[d].applied = ds[d].applied

\* A step that leaves the INGEST history alone keeps source order.
LEMMA QuietOrder ==
  ASSUME TypeOK, SourceOrder, AppliedPrefix, QuietIngest, QuietSnapshots, QuietApplied
  PROVE  SourceOrder' /\ AppliedPrefix'
<1>1. \A s \in Seqs : snap'[s].state # "ABSENT" => \A t \in 1..(s - 1) : snap'[t].state # "ABSENT"
  BY ConstantsAssumption DEF ConstantsAssumption, SourceOrder, QuietSnapshots, Seqs
<1>2. \A w \in WorkIds : w.kind = "INGEST" /\ work'[w].state # "ABSENT" =>
        work'[w].seq = w.key /\ snap'[w.key].state # "ABSENT"
  BY IngestKey DEF SourceOrder, QuietIngest, QuietSnapshots
<1>3. \A d \in Datasets : ds'[d].applied # 0 => snap'[ds'[d].applied].state # "ABSENT"
  <2> SUFFICES ASSUME NEW d \in Datasets, ds'[d].applied # 0
               PROVE  snap'[ds'[d].applied].state # "ABSENT"
    OBVIOUS
  <2>1. ds[d].applied \in Seqs /\ ds'[d].applied = ds[d].applied
    BY ConstantsAssumption DEF ConstantsAssumption, TypeOK, DatasetRow, QuietApplied, Seqs
  <2> QED BY <2>1 DEF SourceOrder, QuietSnapshots
<1>4. \A v, w \in WorkIds :
        v.kind = "INGEST" /\ w.kind = "INGEST" /\ v.ds = w.ds /\ v.key < w.key
          /\ work'[w].state = "RUNNING" => work'[v].state \in {"ABSENT", "SUCCEEDED"}
  BY DEF SourceOrder, QuietIngest
<1>5. AppliedPrefix'
  BY DerivedIds DEF AppliedPrefix, QuietIngest, QuietApplied, deterministic_ingest_work_id
<1> QED BY <1>1, <1>2, <1>3, <1>4, <1>5 DEF SourceOrder

QuietFences == \A d \in Datasets : ds'[d].fence = ds[d].fence

\* Dropping claims keeps the fences.
LEMMA DropFenced ==
  ASSUME TypeOK, Fenced, QuietFences, claims' \subseteq claims
  PROVE  Fenced' /\ claims' \subseteq Claim
BY WorkIdShape DEF TypeOK, Claim, Fenced, QuietFences

\* So does the progress of a worker.
LEMMA HoldFenced ==
  ASSUME TypeOK, Fenced, QuietFences,
         NEW c \in claims, NEW held \in Claim, held.work = c.work, held.token = c.token,
         Hold(c, held)
  PROVE  Fenced' /\ claims' \subseteq Claim
<1>1. claims' \subseteq Claim
  BY DEF TypeOK, Hold
<1>2. \A e \in claims' : \E b \in claims : b.work = e.work /\ b.token = e.token /\ (e # held => b = e /\ b # c) /\ (e = held => b = c)
  BY DEF Hold
<1>3. \A e \in claims' : e.token <= ds'[e.work.ds].fence
  <2> SUFFICES ASSUME NEW e \in claims'
               PROVE  e.token <= ds'[e.work.ds].fence
    OBVIOUS
  <2>1. PICK b \in claims : b.work = e.work /\ b.token = e.token
    BY <1>2
  <2>2. e.work.ds \in Datasets
    BY <1>1, WorkIdShape DEF Claim
  <2> QED BY <2>1, <2>2 DEF Fenced, QuietFences
<1>4. \A e, f \in claims' : e.work.ds = f.work.ds /\ e.token = f.token => e = f
  BY <1>2 DEF Fenced
<1> QED BY <1>1, <1>3, <1>4 DEF Fenced

\* The tables untouched: only the claims and Lance move.
LEMMA UnchangedTables ==
  ASSUME TypeOK, RowsWellFormed, SourceOrder, AppliedPrefix, UNCHANGED tables
  PROVE  /\ RowsWellFormed' /\ SourceOrder' /\ AppliedPrefix' /\ QuietFences
         /\ snap' \in [Seqs -> SnapshotRow]
         /\ ds' \in [Datasets -> DatasetRow]
         /\ work' \in [WorkIds -> WorkRow]
         /\ pubs' \in [WorkIds -> PublicationRow \cup {None}]
BY DEF TypeOK, RowsWellFormed, SourceOrder, AppliedPrefix, tables, QuietFences

-----------------------------------------------------------------------------
(* The workers' Lance steps.                                               *)

\* Progress keeps a claim a claim, with its identity and token.
LEMMA ProgressType ==
  ASSUME NEW c \in Claim, NEW st \in Stages, NEW v \in Nat
  PROVE  LET a == [c EXCEPT !.stage = st]
             b == [c EXCEPT !.stage = st, !.out = v] IN
         /\ a \in Claim /\ a.work = c.work /\ a.token = c.token
         /\ b \in Claim /\ b.work = c.work /\ b.token = c.token
BY DEF Claim

\* What a URI contains is a source sequence, and its latest version a number.
LEMMA ContentsType ==
  ASSUME lance \in [Uris -> Seq(0..MaxSeq)], NEW u \in Uris
  PROVE  Contents(u) \in 0..MaxSeq /\ Latest(u) \in Nat
<1>1. lance[u] \in Seq(0..MaxSeq)
  OBVIOUS
<1>2. CASE lance[u] = <<>>
  BY <1>1, <1>2, ConstantsAssumption DEF ConstantsAssumption, Contents, Latest
<1>3. CASE lance[u] # <<>>
  <2>1. Len(lance[u]) \in 1..Len(lance[u]) /\ Len(lance[u]) \in Nat
    BY <1>1, <1>3
  <2>2. lance[u][Len(lance[u])] \in 0..MaxSeq
    BY <1>1, <2>1, ElementOfSeq
  <2> QED BY <1>3, <2>1, <2>2 DEF Contents, Latest
<1> QED BY <1>2, <1>3

\* A commit of a source sequence keeps the store well typed.
LEMMA CommitType ==
  ASSUME lance \in [Uris -> Seq(0..MaxSeq)], NEW u \in Uris, NEW x \in 0..MaxSeq, Commit(u, x)
  PROVE  lance' \in [Uris -> Seq(0..MaxSeq)]
<1>1. Append(lance[u], x) \in Seq(0..MaxSeq)
  OBVIOUS
<1> QED BY <1>1 DEF Commit

\* The URI a candidate is built at is one the store knows.
LEMMA CandidateUriType ==
  ASSUME NEW c \in Claim
  PROVE  CandidateUri(c) \in Uris
<1>1. c.work \in WorkIds /\ c.uri \in Uris
  BY DEF Claim
<1> QED BY <1>1, WorkIdShape DEF CandidateUri, rebuild_uri, Uris

\* A worker's Lance step changes its own claim and the store, and both stay typed.
LEMMA RunStepPreserves ==
  ASSUME LaneInvariant, NEW c \in claims, RunStep(c), ~pin_candidate(c)
  PROVE  LaneInvariant'
<1> USE DEF LaneInvariant
<1>1. c \in Claim /\ c.work \in WorkIds /\ c.uri \in Uris
  BY DEF TypeOK, Claim
<1>2. UNCHANGED tables /\ UNCHANGED bounds
  BY DEF RunStep, execute, applied_completion_marker, write_terminal, finalize_completion_marker,
         candidate_pin_version, build_candidate, qualify_candidate
<1>3. Contents(c.uri) \in 0..MaxSeq /\ Latest(c.uri) \in Nat
  BY <1>1, ContentsType DEF TypeOK
<1>4. c.work.kind = "INGEST" => c.work.key \in Seqs
  BY <1>1, IngestKey
<1>5. CandidateUri(c) \in Uris /\ Contents(CandidateUri(c)) \in 0..MaxSeq /\ Latest(CandidateUri(c)) \in Nat
  BY <1>1, CandidateUriType, ContentsType DEF TypeOK
<1>6. /\ claims' \subseteq Claim /\ Fenced'
      /\ lance' \in [Uris -> Seq(0..MaxSeq)]
      /\ marker' \in [Uris -> 0..MaxSeq]
      /\ pin' \in [WorkIds -> Nat]
  <2>0. QuietFences
    BY <1>2 DEF tables, QuietFences
  <2>1. CASE execute(c)
    <3>1. CASE lease_is_current(c)
      BY <1>1, <2>0, <2>1, <3>1, ProgressType, HoldFenced DEF execute, TypeOK, Stages, store
    <3>2. CASE ~lease_is_current(c)
      <4>1. claims' \subseteq claims
        BY <2>1, <3>2 DEF execute, Drop
      <4> QED BY <2>0, <2>1, <4>1, DropFenced DEF execute, TypeOK, store
    <3> QED BY <3>1, <3>2
  <2>2. CASE applied_completion_marker(c)
    <3> DEFINE held == IF marker[c.uri] >= c.work.key
                       THEN [c EXCEPT !.stage = "done", !.out = Latest(c.uri)]
                       ELSE [c EXCEPT !.stage = "writing"]
    <3>1. held \in Claim /\ held.work = c.work /\ held.token = c.token
      BY <1>1, <1>3, ProgressType DEF Stages
    <3>2. Hold(c, held) /\ UNCHANGED store
      BY <2>2 DEF applied_completion_marker
    <3> HIDE DEF held
    <3> QED BY <2>0, <3>1, <3>2, HoldFenced DEF TypeOK, store
  <2>3. CASE write_terminal(c)
    <3> DEFINE held == [c EXCEPT !.stage = "written"]
    <3>1. held \in Claim /\ held.work = c.work /\ held.token = c.token
      BY <1>1, ProgressType DEF Stages
    <3>2. Hold(c, held) /\ UNCHANGED <<marker, pin>>
      BY <2>3 DEF write_terminal
    <3>3. c.work.key \in 0..MaxSeq
      BY <1>4, <2>3, ConstantsAssumption DEF ConstantsAssumption, write_terminal, Seqs
    <3>4. lance' \in [Uris -> Seq(0..MaxSeq)]
      BY <1>1, <2>3, <3>3, CommitType DEF write_terminal, TypeOK
    <3> HIDE DEF held
    <3> QED BY <2>0, <3>1, <3>2, <3>4, HoldFenced DEF TypeOK
  <2>4. CASE finalize_completion_marker(c)
    <3>1. c.work.key \in 0..MaxSeq
      BY <1>4, <2>4, ConstantsAssumption DEF ConstantsAssumption, finalize_completion_marker, Seqs
    <3>2. lance' \in [Uris -> Seq(0..MaxSeq)]
      BY <1>1, <1>3, <2>4, CommitType DEF finalize_completion_marker, TypeOK
    <3>3. marker' \in [Uris -> 0..MaxSeq] /\ pin' \in [WorkIds -> Nat]
      BY <2>4, <3>1 DEF finalize_completion_marker, TypeOK
    <3> DEFINE held(v) == [c EXCEPT !.stage = "done", !.out = v]
    <3>4. \/ Hold(c, held(Latest(c.uri)))
          \/ Hold(c, held(Latest(c.uri) + 1))
      BY <2>4 DEF finalize_completion_marker
    <3>5. \A v \in Nat : held(v) \in Claim /\ held(v).work = c.work /\ held(v).token = c.token
      BY <1>1, ProgressType DEF Stages
    <3>6. Latest(c.uri) + 1 \in Nat
      BY <1>3
    <3> HIDE DEF held
    <3> QED BY <1>3, <2>0, <3>2, <3>3, <3>4, <3>5, <3>6, HoldFenced
  <2>5. CASE candidate_pin_version(c)
    <3> DEFINE held == IF pin[c.work] # 0 THEN [c EXCEPT !.stage = "pinned", !.out = pin[c.work]]
                                          ELSE [c EXCEPT !.stage = "building"]
    <3>1. held \in Claim /\ held.work = c.work /\ held.token = c.token
      BY <1>1, ProgressType DEF Stages, TypeOK
    <3>2. Hold(c, held) /\ UNCHANGED store
      BY <2>5 DEF candidate_pin_version
    <3> HIDE DEF held
    <3> QED BY <2>0, <3>1, <3>2, HoldFenced DEF TypeOK, store
  <2>6. CASE build_candidate(c)
    <3>1. CandidateContents(c) \in 0..MaxSeq
      <4>1. CASE c.work.kind = "REBUILD"
        <5>1. lance[c.uri][c.ver] \in 0..MaxSeq
          <6>1. lance[c.uri] \in Seq(0..MaxSeq) /\ c.ver \in DOMAIN lance[c.uri]
            BY <1>1, <2>6, <4>1 DEF build_candidate, TypeOK
          <6>2. c.ver \in 1..Len(lance[c.uri])
            BY <6>1, LenProperties
          <6> QED BY <6>1, <6>2, ElementOfSeq
        <5> QED BY <1>5, <5>1 DEF CandidateContents
      <4>2. CASE c.work.kind # "REBUILD"
        BY <1>5, <4>2 DEF CandidateContents
      <4> QED BY <4>1, <4>2
    <3>2. lance' \in [Uris -> Seq(0..MaxSeq)]
      BY <1>5, <2>6, <3>1, CommitType DEF build_candidate, TypeOK
    <3>3. marker' \in [Uris -> 0..MaxSeq] /\ pin' \in [WorkIds -> Nat]
      BY <2>6 DEF build_candidate, TypeOK
    <3> DEFINE held(v) == [c EXCEPT !.stage = "built", !.out = v]
    <3>4. \/ Hold(c, held(Latest(CandidateUri(c))))
          \/ Hold(c, held(Latest(CandidateUri(c)) + 1))
      BY <2>6 DEF build_candidate
    <3>5. \A v \in Nat : held(v) \in Claim /\ held(v).work = c.work /\ held(v).token = c.token
      BY <1>1, ProgressType DEF Stages
    <3>6. Latest(CandidateUri(c)) + 1 \in Nat
      BY <1>5
    <3> HIDE DEF held
    <3> QED BY <1>5, <2>0, <3>2, <3>3, <3>4, <3>5, <3>6, HoldFenced
  <2>7. CASE qualify_candidate(c)
    BY <1>1, <2>0, <2>7, ProgressType, HoldFenced DEF qualify_candidate, TypeOK, Stages, store
  <2> QED BY <2>1, <2>2, <2>3, <2>4, <2>5, <2>6, <2>7 DEF RunStep
<1>7. faults' \in 0..MaxFaults /\ repairs' \in 0..MaxRepairs
  BY <1>2 DEF TypeOK, bounds
<1> QED BY <1>2, <1>6, <1>7, UnchangedTables DEF TypeOK

-----------------------------------------------------------------------------
(* Results.                                                                *)

\* A lease is current only for the running row of the claim itself.
LEMMA CurrentLease ==
  ASSUME TypeOK, NEW c \in claims, lease_is_current(c)
  PROVE  /\ c \in Claim /\ c.work \in WorkIds /\ c.work.ds \in Datasets
         /\ work[c.work] \in WorkRow /\ work[c.work].state = "RUNNING"
<1>1. c \in Claim /\ c.work \in WorkIds
  BY DEF TypeOK, Claim
<1> QED BY <1>1, WorkIdShape DEF TypeOK, lease_is_current

\* A fenced release keeps everything but one running row and the claim.
LEMMA FencedReleasePreserves ==
  ASSUME LaneInvariant, NEW c \in claims, NEW state \in {"BLOCKED", "RETRY_WAIT"},
         FencedRelease(c, state), faults' \in 0..MaxFaults
  PROVE  LaneInvariant'
<1> USE DEF LaneInvariant
<1>1. claims' \subseteq claims /\ UNCHANGED <<snap, ds, pubs, lance, marker, pin, repairs>>
  BY DEF FencedRelease, Drop, store
<1>2. Fenced' /\ claims' \subseteq Claim
  BY <1>1, DropFenced DEF QuietFences
<1>3. CASE ~lease_is_current(c)
  <2>1. UNCHANGED tables
    BY <1>1, <1>3 DEF FencedRelease, tables
  <2> QED BY <1>1, <1>2, <2>1, UnchangedTables DEF TypeOK
<1>4. CASE lease_is_current(c)
  <2>1. c.work \in WorkIds /\ work[c.work] \in WorkRow /\ work[c.work].state = "RUNNING"
    BY <1>4, CurrentLease
  <2>2. work' = [work EXCEPT ![c.work] = Released(work[c.work], state)]
    BY <1>4 DEF FencedRelease
  <2>3. Released(work[c.work], state) \in WorkRow
    BY <2>1, ReleasedType DEF WorkState
  <2>4. work' \in [WorkIds -> WorkRow]
    BY <2>1, <2>2, <2>3 DEF TypeOK
  <2>5. \A w \in WorkIds :
          /\ w # c.work => work'[w] = work[w]
          /\ w = c.work => work'[w].state = state /\ work'[w].seq = work[w].seq
                           /\ work'[w].exp = work[w].exp
    BY <2>1, <2>2 DEF TypeOK, Released, WorkRow
  <2>6. QuietIngest
    BY <2>1, <2>5 DEF QuietIngest
  <2>7. QuietSnapshots /\ QuietApplied
    BY <1>1 DEF QuietSnapshots, QuietApplied
  <2>8. RowsWellFormed'
    BY <1>1, <2>1, <2>5 DEF RowsWellFormed
  <2> QED BY <1>1, <1>2, <2>4, <2>6, <2>7, <2>8, QuietOrder DEF TypeOK
<1> QED BY <1>3, <1>4

\* A result that changes no table keeps the invariant.
LEMMA StaleResultPreserves ==
  ASSUME LaneInvariant, NEW c \in claims, StaleResult(c)
  PROVE  LaneInvariant'
<1> USE DEF LaneInvariant
<1>1. claims' \subseteq claims /\ UNCHANGED <<tables, lance, marker, pin, faults, repairs>>
  BY DEF StaleResult, Drop, store, bounds
<1>2. Fenced' /\ claims' \subseteq Claim
  BY <1>1, DropFenced DEF QuietFences, tables
<1> QED BY <1>1, <1>2, UnchangedTables DEF TypeOK

\* Failures and the divergence path.
LEMMA FailurePreserves ==
  ASSUME LaneInvariant, NEW c \in claims, retry_work(c) \/ block_work(c) \/ block_diverged_claim(c)
  PROVE  LaneInvariant'
<1>1. faults' \in 0..MaxFaults
  BY ConstantsAssumption
     DEF ConstantsAssumption, LaneInvariant, TypeOK, retry_work, block_work, block_diverged_claim, Failing
<1>2. \E state \in {"BLOCKED", "RETRY_WAIT"} : FencedRelease(c, state)
  BY DEF retry_work, block_work, block_diverged_claim
<1> QED BY <1>1, <1>2, FencedReleasePreserves

\* Pinning moves the pin and the claim, or blocks the row on a pin conflict.
LEMMA PinPreserves ==
  ASSUME LaneInvariant, NEW c \in claims, pin_candidate(c)
  PROVE  LaneInvariant'
<1> USE DEF LaneInvariant
<1>1. c \in Claim /\ c.work \in WorkIds /\ c.out \in Nat
  BY DEF TypeOK, Claim
<1>2. CASE pin[c.work] \in {0, c.out}
  <2> DEFINE held == [c EXCEPT !.stage = "pinned"]
  <2>1. held \in Claim /\ held.work = c.work /\ held.token = c.token
    BY <1>1, ProgressType DEF Stages
  <2>2. /\ Hold(c, held) /\ UNCHANGED <<tables, lance, marker, faults, repairs>>
        /\ pin' = [pin EXCEPT ![c.work] = c.out]
    BY <1>2 DEF pin_candidate, bounds
  <2>3. pin' \in [WorkIds -> Nat]
    BY <1>1, <2>2 DEF TypeOK
  <2>4. QuietFences
    BY <2>2 DEF QuietFences, tables
  <2> HIDE DEF held
  <2>5. Fenced' /\ claims' \subseteq Claim
    BY <2>1, <2>2, <2>4, HoldFenced
  <2> QED BY <2>2, <2>3, <2>5, UnchangedTables DEF TypeOK
<1>3. CASE pin[c.work] \notin {0, c.out}
  <2>1. FencedRelease(c, "BLOCKED") /\ faults' \in 0..MaxFaults
    BY <1>3 DEF pin_candidate, TypeOK
  <2> QED BY <2>1, FencedReleasePreserves
<1> QED BY <1>2, <1>3

-----------------------------------------------------------------------------
(* Faults.                                                                 *)

\* Failed attempts, crashes and expiring leases keep the invariant.
LEMMA FaultPreserves ==
  ASSUME LaneInvariant, FaultStep
  PROVE  LaneInvariant'
<1> USE DEF LaneInvariant
<1>1. CASE \E c \in claims : retry_work(c) \/ block_work(c)
  BY <1>1, FailurePreserves
<1>2. ASSUME NEW c \in claims, WorkerCrash(c)
      PROVE  LaneInvariant'
  <2>1. /\ claims' \subseteq claims /\ UNCHANGED <<tables, lance, marker, pin, repairs>>
        /\ faults' \in 0..MaxFaults
    BY <1>2, ConstantsAssumption DEF ConstantsAssumption, WorkerCrash, Drop, store, TypeOK
  <2>2. Fenced' /\ claims' \subseteq Claim
    BY <2>1, DropFenced DEF QuietFences, tables
  <2> QED BY <2>1, <2>2, UnchangedTables DEF TypeOK
<1>3. ASSUME NEW w \in WorkIds, LeaseExpires(w)
      PROVE  LaneInvariant'
  <2>1. /\ UNCHANGED <<snap, ds, pubs, claims, lance, marker, pin, repairs>>
        /\ work' = [work EXCEPT ![w].lapsed = TRUE]
    BY <1>3 DEF LeaseExpires, store
  <2>2. faults' \in 0..MaxFaults
    BY <1>3, ConstantsAssumption DEF ConstantsAssumption, LeaseExpires, TypeOK
  <2>3. work' \in [WorkIds -> WorkRow]
    <3>1. \A row \in WorkRow : [row EXCEPT !.lapsed = TRUE] \in WorkRow
      BY DEF WorkRow
    <3>2. work' = [work EXCEPT ![w] = [work[w] EXCEPT !.lapsed = TRUE]]
      BY <2>1
    <3> HIDE DEF WorkRow
    <3> QED BY <3>1, <3>2 DEF TypeOK
  <2>4. \A v \in WorkIds : /\ work'[v].state = work[v].state /\ work'[v].seq = work[v].seq
                           /\ work'[v].exp = work[v].exp
    BY <2>1 DEF TypeOK, WorkRow
  <2>5. QuietIngest /\ QuietSnapshots /\ QuietApplied /\ QuietFences
    BY <2>1, <2>4 DEF QuietIngest, QuietSnapshots, QuietApplied, QuietFences
  <2>6. RowsWellFormed'
    BY <2>1, <2>4 DEF RowsWellFormed
  <2>7. Fenced' /\ claims' \subseteq Claim
    BY <2>1, <2>5, DropFenced
  <2> QED BY <2>1, <2>2, <2>3, <2>5, <2>6, <2>7, QuietOrder DEF TypeOK
<1> QED BY <1>1, <1>2, <1>3 DEF FaultStep

-----------------------------------------------------------------------------
(* Publication.                                                            *)

\* A checkpoint moves the phase and the candidate of one running non-INGEST row.
LEMMA AdvancePreserves ==
  ASSUME LaneInvariant, NEW c \in claims, advance_phase(c)
  PROVE  LaneInvariant'
<1> USE DEF LaneInvariant
<1>1. c \in Claim /\ c.work \in WorkIds /\ c.out \in Nat /\ c.at \in Phases
  BY DEF TypeOK, Claim
<1>2. CASE StaleResult(c)
  BY <1>2, StaleResultPreserves
<1>3. CASE ~StaleResult(c)
  <2> DEFINE held == [c EXCEPT !.at = @ + 1]
             cand == [uri |-> CandidateUri(c), ver |-> c.out]
             row  == [work[c.work] EXCEPT !.phase = c.at + 1, !.cand = cand]
  <2>1. /\ work' = [work EXCEPT ![c.work] = row]
        /\ Hold(c, held)
        /\ UNCHANGED <<snap, ds, pubs, lance, marker, pin, faults, repairs>>
        /\ c.at + 1 \in Phases /\ c.work.kind # "INGEST"
    BY <1>1, <1>3 DEF advance_phase, store, bounds, PREWARM, Phases
  <2>2. held \in Claim /\ held.work = c.work /\ held.token = c.token
    BY <1>1, <2>1 DEF Claim
  <2>3. cand \in [uri : Uris \cup {None}, ver : Nat]
    BY <1>1, CandidateUriType
  <2>4. /\ row \in WorkRow
        /\ row.state = work[c.work].state /\ row.exp = work[c.work].exp
    <3> HIDE DEF cand
    <3> QED BY <1>1, <2>1, <2>3 DEF TypeOK, WorkRow
  <2> HIDE DEF held, row
  <2>5. work' \in [WorkIds -> WorkRow]
    BY <2>1, <2>4 DEF TypeOK
  <2>6. QuietIngest /\ QuietSnapshots /\ QuietApplied /\ QuietFences
    BY <1>1, <2>1 DEF QuietIngest, QuietSnapshots, QuietApplied, QuietFences, TypeOK
  <2>7. RowsWellFormed'
    BY <1>1, <2>1, <2>4 DEF RowsWellFormed, TypeOK
  <2>8. Fenced' /\ claims' \subseteq Claim
    BY <2>1, <2>2, <2>6, HoldFenced
  <2> QED BY <2>1, <2>5, <2>6, <2>7, <2>8, QuietOrder DEF TypeOK
<1> QED BY <1>2, <1>3

\* The pointer swap: a non-INGEST row succeeds, its publication becomes active.
LEMMA SwapPreserves ==
  ASSUME LaneInvariant, NEW c \in claims, c.work.kind # "INGEST", lease_is_current(c),
         SwapServingPointer(c)
  PROVE  LaneInvariant'
<1> USE DEF LaneInvariant
<1> DEFINE w == c.work
           u == CandidateUri(c)
           former == ds[w.ds].pub
           fresh == [seq |-> work[w].seq, rev |-> work[w].rev, uri |-> u, ver |-> c.out, retired |-> FALSE]
           row == [Released(work[w], "SUCCEEDED") EXCEPT !.phase = PUBLISH, !.cand = [uri |-> u, ver |-> c.out]]
           moved == IF w.kind = "REBUILD"
                    THEN [ds[w.ds] EXCEPT !.pub = w, !.uri = u, !.ver = c.out, !.materialized = work[w].rev]
                    ELSE [ds[w.ds] EXCEPT !.pub = w]
<1>1. /\ w \in WorkIds /\ w.ds \in Datasets /\ c.out \in Nat /\ u \in Uris
      /\ work[w] \in WorkRow /\ ds[w.ds] \in DatasetRow
  <2>1. c \in Claim /\ w \in WorkIds /\ w.ds \in Datasets /\ work[w] \in WorkRow
    BY CurrentLease
  <2>2. c.out \in Nat
    BY <2>1 DEF Claim
  <2> QED BY <2>1, <2>2, CandidateUriType DEF TypeOK
<1>2. /\ pubs' = [Retire(former) EXCEPT ![w] = fresh]
      /\ ds' = [ds EXCEPT ![w.ds] = moved]
      /\ work' = [work EXCEPT ![w] = row]
      /\ claims' \subseteq claims
      /\ UNCHANGED <<snap, lance, marker, pin, faults, repairs>>
  BY DEF SwapServingPointer, Drop, store, bounds
<1>3. fresh \in PublicationRow
  BY <1>1 DEF PublicationRow, WorkRow
<1>4. row \in WorkRow /\ row.exp = work[w].exp
  <2>1. Released(work[w], "SUCCEEDED") \in WorkRow /\ Released(work[w], "SUCCEEDED").exp = work[w].exp
    <3>1. Released(work[w], "SUCCEEDED").exp = work[w].exp
      BY <1>1 DEF Released, WorkRow
    <3> QED BY <1>1, <3>1, ReleasedType DEF WorkState
  <2>2. [uri |-> u, ver |-> c.out] \in [uri : Uris \cup {None}, ver : Nat] /\ PUBLISH \in Phases
    BY <1>1 DEF PUBLISH, Phases
  <2> DEFINE r0 == Released(work[w], "SUCCEEDED")  k0 == [uri |-> u, ver |-> c.out]
  <2> HIDE DEF r0, k0
  <2>3. \A r \in WorkRow : \A k \in [uri : Uris \cup {None}, ver : Nat] :
          [r EXCEPT !.phase = PUBLISH, !.cand = k] \in WorkRow
          /\ [r EXCEPT !.phase = PUBLISH, !.cand = k].exp = r.exp
    BY <2>2 DEF WorkRow
  <2> QED BY <2>1, <2>2, <2>3
<1>5. /\ moved \in DatasetRow /\ moved.pub = w
      /\ moved.applied = ds[w.ds].applied /\ moved.fence = ds[w.ds].fence
  BY <1>1 DEF DatasetRow, Publication, WorkRow
<1>6. former # None => pubs[former] \in PublicationRow
  BY <1>1 DEF TypeOK, RowsWellFormed, DatasetRow, Publication
<1> HIDE DEF fresh, row, moved
<1>7. /\ pubs' \in [WorkIds -> PublicationRow \cup {None}]
      /\ \A p \in WorkIds : p = w \/ p = former \/ pubs[p] \in PublicationRow => pubs'[p] \in PublicationRow
  <2>1. \A p \in PublicationRow : [p EXCEPT !.retired = TRUE] \in PublicationRow
    BY DEF PublicationRow
  <2>2. former \in WorkIds => pubs[former] \in PublicationRow
    BY <1>6, NullAssumption DEF NullAssumption
  <2>3. \A p \in WorkIds : /\ p = former => Retire(former)[p] \in PublicationRow
                           /\ p # former => Retire(former)[p] = pubs[p]
    BY <2>1, <2>2 DEF Retire
  <2>4. Retire(former) \in [WorkIds -> PublicationRow \cup {None}]
    <3>1. Retire(former) = [p \in WorkIds |-> Retire(former)[p]]
      BY DEF Retire
    <3> QED BY <2>3, <3>1 DEF TypeOK
  <2> QED BY <1>1, <1>2, <1>3, <2>3, <2>4
<1>8. RowsWellFormed'
  <2>1. \A v \in WorkIds : work'[v].exp = work[v].exp
                           /\ (v # w => work'[v] = work[v])
    BY <1>1, <1>2, <1>4 DEF TypeOK
  <2>2. work[w].state = "RUNNING"
    BY CurrentLease
  <2>3. \A v \in WorkIds : work'[v].state # "ABSENT" => work'[v].exp.uri \in Uris
    BY <2>1, <2>2 DEF RowsWellFormed
  <2>4. ASSUME NEW d \in Datasets, ds'[d].pub # None
        PROVE  pubs'[ds'[d].pub] \in PublicationRow
    <3>1. CASE d = w.ds
      BY <1>1, <1>2, <1>5, <1>7, <3>1 DEF TypeOK
    <3>2. CASE d # w.ds
      <4>1. ds'[d] = ds[d] /\ ds[d].pub \in WorkIds
        BY <1>2, <2>4, <3>2 DEF TypeOK, DatasetRow, Publication
      <4> QED BY <1>7, <2>4, <4>1 DEF RowsWellFormed
    <3> QED BY <3>1, <3>2
  <2> QED BY <2>3, <2>4 DEF RowsWellFormed
<1>9. QuietIngest /\ QuietSnapshots /\ QuietApplied /\ QuietFences
  BY <1>1, <1>2, <1>5 DEF QuietIngest, QuietSnapshots, QuietApplied, QuietFences, TypeOK
<1>10. work' \in [WorkIds -> WorkRow] /\ ds' \in [Datasets -> DatasetRow]
  BY <1>1, <1>2, <1>4, <1>5 DEF TypeOK
<1>11. Fenced' /\ claims' \subseteq Claim
  BY <1>2, <1>9, DropFenced
<1> QED BY <1>2, <1>7, <1>8, <1>9, <1>10, <1>11, QuietOrder DEF TypeOK

\* publish_dataset swaps the pointer, answers a stale claim or diverges.
LEMMA PublishPreserves ==
  ASSUME LaneInvariant, NEW c \in claims, publish_dataset(c)
  PROVE  LaneInvariant'
BY StaleResultPreserves, FailurePreserves, SwapPreserves DEF publish_dataset

-----------------------------------------------------------------------------
(* Completing an INGEST.                                                   *)

\* What the completion writes: the row succeeds, its PUBLISH row may appear.
LEMMA ApplyIngestWrites ==
  ASSUME LaneInvariant, NEW c \in claims, c.work.kind = "INGEST", lease_is_current(c), ApplyIngest(c)
  PROVE  /\ work' \in [WorkIds -> WorkRow]
         /\ \A v \in WorkIds : v.kind = "INGEST" =>
              /\ v # c.work => work'[v] = work[v]
              /\ v = c.work => work'[v].state = "SUCCEEDED" /\ work'[v].seq = work[v].seq
         /\ \A v \in WorkIds : work'[v].state # "ABSENT" => work'[v].exp.uri \in Uris
<1> USE DEF LaneInvariant
<1> DEFINE w == c.work
           row == work[w]
           k == [uri |-> row.exp.uri, ver |-> c.out]
           fin == [Released(row, "SUCCEEDED") EXCEPT !.cand = k]
           done == [work EXCEPT ![w] = fin]
           p == deterministic_publish_work_id(w.ds, row.seq)
           e == [uri |-> row.exp.uri, ver |-> c.out, pub |-> ds[w.ds].pub]
           new == NewWork(COMPACT, row.seq, row.rev, e, k)
<1>1. /\ w \in WorkIds /\ w.ds \in Datasets /\ c.out \in Nat /\ row \in WorkRow
      /\ row.state = "RUNNING" /\ row.exp.uri \in Uris /\ row.seq = w.key /\ w.key \in Seqs
  <2>1. c \in Claim /\ w \in WorkIds /\ w.ds \in Datasets /\ row \in WorkRow /\ row.state = "RUNNING"
    BY CurrentLease
  <2>2. c.out \in Nat
    BY <2>1 DEF Claim
  <2> QED BY <2>1, <2>2, IngestKey DEF RowsWellFormed, SourceOrder
<1>2. work' = IF done[p].state # "ABSENT" THEN done ELSE [done EXCEPT ![p] = new]
  BY DEF ApplyIngest, enqueue_publish_work
<1>3. k \in [uri : Uris \cup {None}, ver : Nat] /\ e \in [uri : Uris \cup {None}, ver : Nat, pub : Publication]
  BY <1>1 DEF TypeOK, DatasetRow
<1>4. fin \in WorkRow /\ fin.state = "SUCCEEDED" /\ fin.seq = row.seq /\ fin.exp = row.exp
  <2>1. \A r \in WorkRow : \A q \in [uri : Uris \cup {None}, ver : Nat] :
          LET f == [Released(r, "SUCCEEDED") EXCEPT !.cand = q] IN
          f \in WorkRow /\ f.state = "SUCCEEDED" /\ f.seq = r.seq /\ f.exp = r.exp
    BY DEF Released, WorkRow, WorkState
  <2> QED BY <1>1, <1>3, <2>1
<1>5. new \in WorkRow /\ new.exp = e
  <2>1. COMPACT \in Phases /\ row.seq \in 0..MaxSeq /\ row.rev \in Revision
    BY <1>1 DEF COMPACT, Phases, WorkRow
  <2>2. \A a, b, r, x, q : NewWork(a, b, r, x, q).exp = x
    BY DEF NewWork, AbsentWork
  <2> HIDE DEF e, k
  <2> QED BY <1>3, <2>1, <2>2, NewWorkType
<1>6. p \in WorkIds /\ p.kind = "PUBLISH"
  BY <1>1, DerivedIds DEF deterministic_publish_work_id
<1>7. e.uri = row.exp.uri
  OBVIOUS
<1> HIDE DEF fin, p, new, e, k
<1>8. done \in [WorkIds -> WorkRow] /\ done[w] = fin /\ \A v \in WorkIds : v # w => done[v] = work[v]
  BY <1>1, <1>4 DEF TypeOK
<1> HIDE DEF done
<1>9. /\ work' \in [WorkIds -> WorkRow]
      /\ \A v \in WorkIds : work'[v] = done[v] \/ (v = p /\ work'[v] = new)
  BY <1>2, <1>5, <1>6, <1>8
<1>10. \A v \in WorkIds : work'[v].state # "ABSENT" => work'[v].exp.uri \in Uris
  BY <1>1, <1>4, <1>5, <1>7, <1>8, <1>9 DEF RowsWellFormed
<1> QED BY <1>4, <1>6, <1>8, <1>9, <1>10

\* The completion of an INGEST moves the applied snapshot past exactly the rows
\* that have succeeded, since everything before a running INGEST has.
LEMMA ApplyIngestPreserves ==
  ASSUME LaneInvariant, NEW c \in claims, c.work.kind = "INGEST", lease_is_current(c), ApplyIngest(c)
  PROVE  LaneInvariant'
<1> USE DEF LaneInvariant
<1> DEFINE w == c.work
           d == w.ds
           s == work[w].seq
           moved == [ds[d] EXCEPT !.materialized = work[w].rev, !.applied = s,
                                  !.uri = work[w].exp.uri, !.ver = c.out]
<1>1. /\ w \in WorkIds /\ d \in Datasets /\ c.out \in Nat /\ work[w] \in WorkRow
      /\ work[w].state = "RUNNING" /\ work[w].exp.uri \in Uris /\ s = w.key /\ w.key \in Seqs
      /\ snap[s].state # "ABSENT"
  <2>1. c \in Claim /\ w \in WorkIds /\ d \in Datasets /\ work[w] \in WorkRow /\ work[w].state = "RUNNING"
    BY CurrentLease
  <2>2. c.out \in Nat
    BY <2>1 DEF Claim
  <2> QED BY <2>1, <2>2, IngestKey DEF RowsWellFormed, SourceOrder
<1>2. /\ ds' = [ds EXCEPT ![d] = moved]
      /\ snap' = complete_snapshot_if_applied(work', s)
      /\ claims' \subseteq claims
      /\ UNCHANGED <<pubs, lance, marker, pin, faults, repairs>>
  BY DEF ApplyIngest, Drop, store, bounds
<1>3. moved \in DatasetRow /\ moved.applied = s /\ moved.pub = ds[d].pub /\ moved.fence = ds[d].fence
  <2>1. ds[d] \in DatasetRow /\ work[w].rev \in Revision /\ s \in 0..MaxSeq /\ work[w].exp.uri \in Uris
    BY <1>1 DEF TypeOK, WorkRow
  <2> DEFINE r == work[w].rev
             a == s
             u == work[w].exp.uri
             n == c.out
  <2>2. r \in Revision /\ a \in 0..MaxSeq /\ u \in Uris /\ n \in Nat /\ a = s
    BY <1>1, <2>1
  <2>3. moved = [ds[d] EXCEPT !.materialized = r, !.applied = a, !.uri = u, !.ver = n]
    OBVIOUS
  <2> HIDE DEF moved, r, a, u, n, s
  <2> QED BY <2>1, <2>2, <2>3 DEF DatasetRow
<1> HIDE DEF moved
<1>4. ds' \in [Datasets -> DatasetRow]
      /\ \A x \in Datasets : /\ ds'[x].pub = ds[x].pub /\ ds'[x].fence = ds[x].fence
                             /\ x # d => ds'[x] = ds[x]
                             /\ x = d => ds'[x].applied = s
  BY <1>1, <1>2, <1>3 DEF TypeOK
<1>5. snap' \in [Seqs -> SnapshotRow] /\ QuietSnapshots
  <2>1. CASE snap' = snap
    BY <2>1 DEF QuietSnapshots, TypeOK
  <2>2. CASE snap' = [snap EXCEPT ![s].state = "COMPLETE"]
    BY <1>1, <2>2 DEF QuietSnapshots, TypeOK, SnapshotRow
  <2> QED BY <1>2, <2>1, <2>2 DEF complete_snapshot_if_applied
<1>6. /\ work' \in [WorkIds -> WorkRow]
      /\ \A v \in WorkIds : v.kind = "INGEST" =>
           /\ v # w => work'[v] = work[v]
           /\ v = w => work'[v].state = "SUCCEEDED" /\ work'[v].seq = work[v].seq
      /\ \A v \in WorkIds : work'[v].state # "ABSENT" => work'[v].exp.uri \in Uris
  BY ApplyIngestWrites
<1>7. RowsWellFormed'
  BY <1>2, <1>4, <1>6 DEF RowsWellFormed
<1>8. Fenced' /\ claims' \subseteq Claim
  BY <1>2, <1>4, DropFenced DEF QuietFences
<1>9. SourceOrder'
  <2>1. \A t \in Seqs : snap'[t].state # "ABSENT" => \A r \in 1..(t - 1) : snap'[r].state # "ABSENT"
    BY <1>5, ConstantsAssumption DEF ConstantsAssumption, SourceOrder, QuietSnapshots, Seqs
  <2>2. \A v \in WorkIds : v.kind = "INGEST" /\ work'[v].state # "ABSENT" =>
          work'[v].seq = v.key /\ snap'[v.key].state # "ABSENT"
    BY <1>1, <1>5, <1>6, IngestKey DEF SourceOrder, QuietSnapshots
  <2>3. ASSUME NEW x \in Datasets, ds'[x].applied # 0
        PROVE  snap'[ds'[x].applied].state # "ABSENT"
    <3>1. CASE x = d
      BY <1>1, <1>4, <1>5, <3>1 DEF QuietSnapshots
    <3>2. CASE x # d
      <4>1. ds[x].applied \in Seqs /\ ds'[x].applied = ds[x].applied
        BY <1>4, <2>3, <3>2, ConstantsAssumption DEF ConstantsAssumption, TypeOK, DatasetRow, Seqs
      <4> QED BY <1>5, <2>3, <4>1 DEF SourceOrder, QuietSnapshots
    <3> QED BY <3>1, <3>2
  <2>4. \A u, v \in WorkIds :
          u.kind = "INGEST" /\ v.kind = "INGEST" /\ u.ds = v.ds /\ u.key < v.key
            /\ work'[v].state = "RUNNING" => work'[u].state \in {"ABSENT", "SUCCEEDED"}
    BY <1>6 DEF SourceOrder
  <2> QED BY <2>1, <2>2, <2>3, <2>4 DEF SourceOrder
<1>10. AppliedPrefix'
  <2> SUFFICES ASSUME NEW x \in Datasets, NEW t \in Seqs
               PROVE  LET v == deterministic_ingest_work_id(x, t) IN
                      work'[v].state # "ABSENT" => (work'[v].state = "SUCCEEDED" <=> t <= ds'[x].applied)
    BY DEF AppliedPrefix, deterministic_ingest_work_id
  <2> DEFINE v == deterministic_ingest_work_id(x, t)
  <2>1. v \in WorkIds /\ v.kind = "INGEST" /\ v.ds = x /\ v.key = t
    BY DerivedIds DEF deterministic_ingest_work_id
  <2>2. w = deterministic_ingest_work_id(d, s)
    BY <1>1 DEF deterministic_ingest_work_id, WorkIds
  <2>3. work[v].state # "ABSENT" => (work[v].state = "SUCCEEDED" <=> t <= ds[x].applied)
    BY DEF AppliedPrefix
  <2>4. s > ds[d].applied
    <3>1. ~(s <= ds[d].applied)
      BY <1>1, <2>2 DEF AppliedPrefix
    <3>2. ds[d].applied \in Nat /\ s \in Nat
      <4>1. ds[d].applied \in 0..MaxSeq /\ s \in 1..MaxSeq
        BY <1>1 DEF TypeOK, DatasetRow, Seqs
      <4> QED BY <4>1
    <3> QED BY <3>1, <3>2
  <2>5. v # w /\ x = d /\ t < s => work[v].state \in {"ABSENT", "SUCCEEDED"}
    BY <1>1, <2>1 DEF SourceOrder
  <2>6. CASE x # d
    BY <1>4, <1>6, <2>1, <2>3, <2>6
  <2>7. CASE x = d /\ v = w
    BY <1>1, <1>4, <1>6, <2>1, <2>7 DEF Seqs
  <2>8. CASE x = d /\ v # w
    <3>1. t # s
      BY <2>2, <2>8
    <3>2. ds'[x].applied = s /\ work'[v] = work[v] /\ ds[d].applied \in Nat /\ s \in Nat /\ t \in Nat
      <4>1. ds[d].applied \in 0..MaxSeq /\ s \in 1..MaxSeq /\ t \in 1..MaxSeq
        BY <1>1 DEF TypeOK, DatasetRow, Seqs
      <4>2. ds'[x].applied = s /\ work'[v] = work[v]
        BY <1>4, <1>6, <2>1, <2>8
      <4> HIDE DEF v, s
      <4> QED BY <4>1, <4>2
    <3>3. CASE t < s
      BY <2>5, <2>8, <3>2, <3>3
    <3>4. CASE t > s
      BY <2>3, <2>4, <2>8, <3>2, <3>4
    <3> QED BY <3>1, <3>2, <3>3, <3>4
  <2> QED BY <2>6, <2>7, <2>8
<1> QED BY <1>2, <1>4, <1>5, <1>6, <1>7, <1>8, <1>9, <1>10 DEF TypeOK

\* complete_ingest applies, answers a stale claim or diverges.
LEMMA CompletePreserves ==
  ASSUME LaneInvariant, NEW c \in claims, complete_ingest(c)
  PROVE  LaneInvariant'
BY StaleResultPreserves, FailurePreserves, ApplyIngestPreserves DEF complete_ingest

-----------------------------------------------------------------------------
(* Operators and the source gates.                                         *)

\* A transaction of an operator or of the gate: the INGEST history, the fences,
\* the applied snapshots and the active publications stay as they are.
LEMMA QuietPreserves ==
  ASSUME LaneInvariant, QuietIngest, QuietSnapshots, QuietApplied, QuietFences,
         UNCHANGED <<pubs, claims, store, faults>>,
         snap' \in [Seqs -> SnapshotRow], ds' \in [Datasets -> DatasetRow],
         work' \in [WorkIds -> WorkRow], repairs' \in 0..MaxRepairs,
         \A d \in Datasets : ds'[d].pub = ds[d].pub,
         \A w \in WorkIds : work'[w].state # "ABSENT" => work'[w].exp.uri \in Uris
  PROVE  LaneInvariant'
<1> USE DEF LaneInvariant
<1>1. RowsWellFormed'
  BY DEF RowsWellFormed
<1>2. Fenced' /\ claims' \subseteq Claim
  BY DropFenced
<1> QED BY <1>1, <1>2, QuietOrder DEF TypeOK, store

\* Operator actions are counted within their bound.
LEMMA RepairingType ==
  ASSUME TypeOK, Repairing
  PROVE  repairs' \in 0..MaxRepairs
BY ConstantsAssumption DEF ConstantsAssumption, TypeOK, Repairing

\* A reopened row is a blocked row again waiting for a claim.
LEMMA RetryBlockedPreserves ==
  ASSUME LaneInvariant, NEW w \in WorkIds, retry_blocked_work(w)
  PROVE  LaneInvariant'
<1> USE DEF LaneInvariant
<1>1. /\ UNCHANGED <<snap, ds, pubs, claims, store, faults>>
      /\ work' = [work EXCEPT ![w] = Released(work[w], "PENDING")]
      /\ work[w].state = "BLOCKED" /\ repairs' \in 0..MaxRepairs /\ work[w] \in WorkRow
  BY RepairingType DEF retry_blocked_work, TypeOK
<1>2. /\ Released(work[w], "PENDING") \in WorkRow
      /\ Released(work[w], "PENDING").state = "PENDING"
      /\ Released(work[w], "PENDING").seq = work[w].seq
      /\ Released(work[w], "PENDING").exp = work[w].exp
  <2>1. \A r \in WorkRow : LET f == Released(r, "PENDING") IN
          f.state = "PENDING" /\ f.seq = r.seq /\ f.exp = r.exp
    BY DEF Released, WorkRow
  <2> QED BY <1>1, <2>1, ReleasedType DEF WorkState
<1>3. /\ work' \in [WorkIds -> WorkRow]
      /\ \A v \in WorkIds : /\ v # w => work'[v] = work[v]
                            /\ v = w => work'[v] = Released(work[w], "PENDING")
  BY <1>1, <1>2 DEF TypeOK
<1>4. QuietIngest /\ QuietSnapshots /\ QuietApplied /\ QuietFences
  BY <1>1, <1>2, <1>3 DEF QuietIngest, QuietSnapshots, QuietApplied, QuietFences
<1>5. \A v \in WorkIds : work'[v].state # "ABSENT" => work'[v].exp.uri \in Uris
  BY <1>1, <1>2, <1>3 DEF RowsWellFormed
<1> QED BY <1>1, <1>3, <1>4, <1>5, QuietPreserves DEF TypeOK

\* A rebuild row freezes the dataset's pointer and targets its own URI.
LEMMA NewRebuildType ==
  ASSUME TypeOK, NEW d \in Datasets, NEW k \in RebuildKeys, NEW r \in Revision
  PROVE  LET w == deterministic_rebuild_work_id(d, k) IN
         /\ w \in WorkIds /\ w.kind = "REBUILD"
         /\ NewRebuild(w, r) \in WorkRow /\ NewRebuild(w, r).exp.uri \in Uris
<1> DEFINE w == deterministic_rebuild_work_id(d, k)
           e == Pointer(ds[w.ds])
           q == [uri |-> rebuild_uri(w), ver |-> 0]
<1>1. w \in WorkIds /\ w.kind = "REBUILD" /\ w.ds = d /\ w.key = k
  BY DerivedIds DEF deterministic_rebuild_work_id
<1>2. ds[d] \in DatasetRow /\ ds[d].applied \in 0..MaxSeq
  BY DEF TypeOK, DatasetRow
<1>3. e \in [uri : Uris \cup {None}, ver : Nat, pub : Publication] /\ e.uri \in Uris
  BY <1>1, <1>2, PointerType DEF Pointer, DatasetRow
<1>4. q \in [uri : Uris \cup {None}, ver : Nat] /\ COMPACT \in Phases
  BY <1>1 DEF rebuild_uri, Uris, COMPACT, Phases
<1>5. \A a, b, f, x, g : NewWork(a, b, f, x, g).exp = x
  BY DEF NewWork, AbsentWork
<1>6. NewRebuild(w, r) = NewWork(COMPACT, ds[d].applied, r, e, q)
  BY <1>1 DEF NewRebuild
<1> HIDE DEF w, e, q
<1>7. NewRebuild(w, r) \in WorkRow /\ NewRebuild(w, r).exp.uri \in Uris
  BY <1>2, <1>3, <1>4, <1>5, <1>6, NewWorkType
<1> QED BY <1>1, <1>7 DEF w

\* A new rebuild row touches no INGEST row.
LEMMA RebuildPreserves ==
  ASSUME LaneInvariant, NEW d \in Datasets, NEW q \in Requests, enqueue_rebuild(d, q)
  PROVE  LaneInvariant'
<1> USE DEF LaneInvariant
<1> DEFINE w == deterministic_rebuild_work_id(d, q)
           new == NewRebuild(w, ds[d].desired)
<1>1. /\ UNCHANGED <<snap, ds, pubs, claims, store, faults>>
      /\ work' = [work EXCEPT ![w] = new] /\ repairs' \in 0..MaxRepairs
  BY RepairingType DEF enqueue_rebuild
<1>2. q \in RebuildKeys /\ ds[d].desired \in Revision
  BY DEF RebuildKeys, TypeOK, DatasetRow
<1>3. w \in WorkIds /\ w.kind = "REBUILD" /\ new \in WorkRow /\ new.exp.uri \in Uris
  BY <1>2, NewRebuildType
<1> HIDE DEF w, new
<1>4. work' \in [WorkIds -> WorkRow] /\ \A v \in WorkIds : IF v = w THEN work'[v] = new ELSE work'[v] = work[v]
  BY <1>1, <1>3 DEF TypeOK
<1>5. QuietIngest /\ QuietSnapshots /\ QuietApplied /\ QuietFences
  BY <1>1, <1>3, <1>4 DEF QuietIngest, QuietSnapshots, QuietApplied, QuietFences
<1>6. \A v \in WorkIds : work'[v].state # "ABSENT" => work'[v].exp.uri \in Uris
  BY <1>3, <1>4 DEF RowsWellFormed
<1> QED BY <1>1, <1>4, <1>5, <1>6, QuietPreserves DEF TypeOK

\* An assignment moves the desired revision and may enqueue its rebuild.
LEMMA AssignPreserves ==
  ASSUME LaneInvariant, NEW d \in Datasets, NEW r \in Revisions, assign_dataset_spec_revision(d, r)
  PROVE  LaneInvariant'
<1> USE DEF LaneInvariant
<1> DEFINE w == deterministic_rebuild_work_id(d, r)
           new == NewRebuild(w, r)
           moved == [ds[d] EXCEPT !.desired = r]
<1>1. /\ UNCHANGED <<snap, pubs, claims, store, faults>> /\ repairs' \in 0..MaxRepairs
      /\ ds' = [ds EXCEPT ![d] = moved]
      /\ work' = work \/ work' = [work EXCEPT ![w] = new]
  BY RepairingType DEF assign_dataset_spec_revision
<1>2. r \in RebuildKeys /\ r \in Revision
  BY DEF RebuildKeys, Revision
<1>3. w \in WorkIds /\ w.kind = "REBUILD" /\ new \in WorkRow /\ new.exp.uri \in Uris
  BY <1>2, NewRebuildType
<1>4. /\ moved \in DatasetRow /\ moved.pub = ds[d].pub
      /\ moved.applied = ds[d].applied /\ moved.fence = ds[d].fence
  <2>1. ds[d] \in DatasetRow
    BY DEF TypeOK
  <2> QED BY <1>2, <2>1 DEF DatasetRow
<1> HIDE DEF w, new, moved
<1>5. /\ ds' \in [Datasets -> DatasetRow]
      /\ \A x \in Datasets : /\ ds'[x].pub = ds[x].pub /\ ds'[x].applied = ds[x].applied
                             /\ ds'[x].fence = ds[x].fence
  BY <1>1, <1>4 DEF TypeOK
<1>6. work' \in [WorkIds -> WorkRow] /\ \A v \in WorkIds : work'[v] = work[v] \/ (v = w /\ work'[v] = new)
  BY <1>1, <1>3 DEF TypeOK
<1>7. QuietIngest /\ QuietSnapshots /\ QuietApplied /\ QuietFences
  BY <1>1, <1>3, <1>5, <1>6 DEF QuietIngest, QuietSnapshots, QuietApplied, QuietFences
<1>8. \A v \in WorkIds : work'[v].state # "ABSENT" => work'[v].exp.uri \in Uris
  BY <1>3, <1>6 DEF RowsWellFormed
<1> QED BY <1>1, <1>5, <1>6, <1>7, <1>8, QuietPreserves DEF TypeOK

\* Closing the gate blocks waiting INGEST rows; reopening it touches the snapshot.
LEMMA GatePreserves ==
  ASSUME LaneInvariant, NEW s \in Seqs,
         block_source_snapshot(s) \/ retry_blocked_source_snapshot(s)
  PROVE  LaneInvariant'
<1> USE DEF LaneInvariant
<1>1. /\ UNCHANGED <<ds, pubs, claims, store, faults>> /\ repairs' \in 0..MaxRepairs
      /\ snap[s].state # "ABSENT"
      /\ \E x \in {"BLOCKED", "SEALED", "COMPLETE"} : snap' = [snap EXCEPT ![s].state = x]
  BY RepairingType DEF block_source_snapshot, retry_blocked_source_snapshot
<1>2. snap' \in [Seqs -> SnapshotRow] /\ QuietSnapshots
  BY <1>1 DEF TypeOK, SnapshotRow, QuietSnapshots
<1>3. \A v \in WorkIds : \/ work'[v] = work[v]
                         \/ work[v].state \in Waiting /\ work'[v] = Released(work[v], "BLOCKED")
  BY DEF block_source_snapshot, retry_blocked_source_snapshot
<1>4. \A r \in WorkRow : LET f == Released(r, "BLOCKED") IN
        f \in WorkRow /\ f.state = "BLOCKED" /\ f.seq = r.seq /\ f.exp = r.exp
  <2>1. \A r \in WorkRow : LET f == Released(r, "BLOCKED") IN
          f.state = "BLOCKED" /\ f.seq = r.seq /\ f.exp = r.exp
    BY DEF Released, WorkRow
  <2> QED BY <2>1, ReleasedType DEF WorkState
<1>5. \A v \in WorkIds : work[v] \in WorkRow
  BY DEF TypeOK
<1>6. work' \in [WorkIds -> WorkRow]
  <2>1. \A v \in WorkIds : work'[v] \in WorkRow
    BY <1>3, <1>4, <1>5
  <2>2. work' = [v \in WorkIds |-> work'[v]]
    BY DEF block_source_snapshot, retry_blocked_source_snapshot, TypeOK
  <2> QED BY <2>1, <2>2
<1>7. QuietIngest /\ QuietApplied /\ QuietFences
  BY <1>1, <1>3, <1>4, <1>5 DEF QuietIngest, QuietApplied, QuietFences, Waiting
<1>8. \A v \in WorkIds : work'[v].state # "ABSENT" => work'[v].exp.uri \in Uris
  BY <1>3, <1>4, <1>5 DEF RowsWellFormed, Waiting
<1> QED BY <1>1, <1>2, <1>6, <1>7, <1>8, QuietPreserves DEF TypeOK

-----------------------------------------------------------------------------
(* Sealing snapshots.                                                      *)

\* A snapshot extending the head lies past every applied one, and no INGEST row
\* belongs to it or to a later one.
LEMMA ExtendsAll ==
  ASSUME LaneInvariant, NEW s \in Seqs, ExtendsLatest(s)
  PROVE  /\ \A d \in Datasets : ds[d].applied < s
         /\ \A w \in WorkIds : w.kind = "INGEST" /\ work[w].state # "ABSENT" => w.key < s
<1> USE DEF LaneInvariant
<1>1. \A t \in Seqs : snap[t].state # "ABSENT" => t < s
  <2> SUFFICES ASSUME NEW t \in Seqs, snap[t].state # "ABSENT", ~(t < s)
               PROVE  FALSE
    OBVIOUS
  <2>1. t = s \/ s \in 1..(t - 1)
    BY ConstantsAssumption DEF ConstantsAssumption, Seqs
  <2> QED BY <2>1 DEF ExtendsLatest, SourceOrder
<1>2. \A d \in Datasets : ds[d].applied < s
  <2> SUFFICES ASSUME NEW d \in Datasets
               PROVE  ds[d].applied < s
    OBVIOUS
  <2>1. ds[d].applied \in 0..MaxSeq
    BY DEF TypeOK, DatasetRow
  <2>2. CASE ds[d].applied = 0
    BY <2>2, ConstantsAssumption DEF ConstantsAssumption, Seqs
  <2>3. CASE ds[d].applied # 0
    <3>1. ds[d].applied \in Seqs
      BY <2>1, <2>3, ConstantsAssumption DEF ConstantsAssumption, Seqs
    <3> QED BY <1>1, <2>3, <3>1 DEF SourceOrder
  <2> QED BY <2>2, <2>3
<1> QED BY <1>1, <1>2, IngestKey DEF SourceOrder

\* Sealing a snapshot at s keeps the snapshots in order.
LEMMA SealedOrder ==
  ASSUME LaneInvariant, NEW s \in Seqs, ExtendsLatest(s),
         NEW row \in SnapshotRow, row.state # "ABSENT", snap' = [snap EXCEPT ![s] = row]
  PROVE  /\ snap' \in [Seqs -> SnapshotRow]
         /\ \A t \in Seqs : snap[t].state # "ABSENT" => snap'[t].state # "ABSENT"
         /\ snap'[s].state # "ABSENT"
         /\ \A t \in Seqs : snap'[t].state # "ABSENT" =>
              \A r \in 1..(t - 1) : snap'[r].state # "ABSENT"
<1> USE DEF LaneInvariant
<1>1. /\ snap' \in [Seqs -> SnapshotRow]
      /\ snap'[s] = row /\ \A t \in Seqs : t # s => snap'[t] = snap[t]
  BY DEF TypeOK
<1>2. ASSUME NEW t \in Seqs, snap'[t].state # "ABSENT", NEW r \in 1..(t - 1)
      PROVE  snap'[r].state # "ABSENT"
  <2>1. r \in Seqs
    BY <1>2, ConstantsAssumption DEF ConstantsAssumption, Seqs
  <2>2. CASE t = s
    BY <1>1, <1>2, <2>1, <2>2 DEF ExtendsLatest
  <2>3. CASE t # s
    BY <1>1, <1>2, <2>1, <2>3 DEF SourceOrder
  <2> QED BY <2>2, <2>3
<1> QED BY <1>1, <1>2

\* A rejected snapshot only extends the snapshots.
LEMMA RejectedPreserves ==
  ASSUME LaneInvariant, NEW s \in Seqs, enqueue_blocked_source_snapshot(s)
  PROVE  LaneInvariant'
<1> USE DEF LaneInvariant
<1> DEFINE row == [state |-> "BLOCKED", rejected |-> TRUE]
<1>1. /\ ExtendsLatest(s) /\ snap' = [snap EXCEPT ![s] = row] /\ repairs' \in 0..MaxRepairs
      /\ UNCHANGED <<ds, work, pubs, claims, lance, marker, pin, faults>>
  BY RepairingType DEF enqueue_blocked_source_snapshot, store
<1>2. row \in SnapshotRow /\ row.state # "ABSENT"
  BY DEF SnapshotRow
<1> HIDE DEF row
<1>3. /\ snap' \in [Seqs -> SnapshotRow]
      /\ \A t \in Seqs : snap[t].state # "ABSENT" => snap'[t].state # "ABSENT"
      /\ \A t \in Seqs : snap'[t].state # "ABSENT" =>
           \A r \in 1..(t - 1) : snap'[r].state # "ABSENT"
  BY <1>1, <1>2, SealedOrder
<1>4. SourceOrder'
  <2>1. \A d \in Datasets : ds[d].applied # 0 => ds[d].applied \in Seqs
    BY ConstantsAssumption DEF ConstantsAssumption, TypeOK, DatasetRow, Seqs
  <2> QED BY <1>1, <1>3, <2>1, IngestKey DEF SourceOrder
<1>5. RowsWellFormed' /\ AppliedPrefix'
  BY <1>1 DEF RowsWellFormed, AppliedPrefix
<1>6. Fenced' /\ claims' \subseteq Claim
  BY <1>1, DropFenced DEF QuietFences
<1> QED BY <1>1, <1>3, <1>4, <1>5, <1>6 DEF TypeOK

\* A sealed snapshot adds the INGEST rows of its datasets, behind everything applied.
LEMMA SealPreserves ==
  ASSUME LaneInvariant, NEW s \in Seqs, NEW D \in SUBSET Datasets, enqueue_source_snapshot(s, D)
  PROVE  LaneInvariant'
<1> USE DEF LaneInvariant
<1> DEFINE row == [state |-> IF D = {} THEN "COMPLETE" ELSE "SEALED", rejected |-> FALSE]
           fresh(w) == w.kind = "INGEST" /\ w.ds \in D /\ w.key = s
           new(w) == NewWork(0, s, Discovered(D)[w.ds].desired, Pointer(ds[w.ds]), AbsentWork.cand)
<1>1. /\ ExtendsLatest(s) /\ snap' = [snap EXCEPT ![s] = row]
      /\ ds' = Discovered(D) /\ work' = insert_ingest_work(D, s)
      /\ UNCHANGED <<pubs, claims, lance, marker, pin, faults, repairs>>
  BY DEF enqueue_source_snapshot, store, bounds
<1>2. row \in SnapshotRow /\ row.state # "ABSENT"
  BY DEF SnapshotRow
<1> HIDE DEF row
<1>3. /\ snap' \in [Seqs -> SnapshotRow]
      /\ \A t \in Seqs : snap[t].state # "ABSENT" => snap'[t].state # "ABSENT"
      /\ snap'[s].state # "ABSENT"
      /\ \A t \in Seqs : snap'[t].state # "ABSENT" =>
           \A r \in 1..(t - 1) : snap'[r].state # "ABSENT"
  BY <1>1, <1>2, SealedOrder
<1>4. \A d \in Datasets : LET y == Discovered(D)[d] IN
        /\ y \in DatasetRow /\ y.applied = ds[d].applied /\ y.fence = ds[d].fence /\ y.pub = ds[d].pub
  <2>1. \A x \in DatasetRow : LET y == [x EXCEPT !.desired = DefaultRevision] IN
          y \in DatasetRow /\ y.applied = x.applied /\ y.fence = x.fence /\ y.pub = x.pub
    BY ConstantsAssumption DEF ConstantsAssumption, DatasetRow, Revision
  <2>2. \A d \in Datasets : ds[d] \in DatasetRow
    BY DEF TypeOK
  <2> HIDE DEF DatasetRow
  <2> QED BY <2>1, <2>2 DEF Discovered
<1>5. /\ ds' \in [Datasets -> DatasetRow]
      /\ \A d \in Datasets : /\ ds'[d].applied = ds[d].applied /\ ds'[d].fence = ds[d].fence
                             /\ ds'[d].pub = ds[d].pub
  <2>1. Discovered(D) = [d \in Datasets |-> Discovered(D)[d]]
    BY DEF Discovered
  <2> QED BY <1>1, <1>4, <2>1
<1>6. \A w \in WorkIds : IF fresh(w) THEN work'[w] = new(w) ELSE work'[w] = work[w]
  BY <1>1 DEF insert_ingest_work
<1>7. ASSUME NEW w \in WorkIds, fresh(w)
      PROVE  new(w) \in WorkRow /\ new(w).state = "PENDING" /\ new(w).seq = s /\ new(w).exp.uri \in Uris
  <2> DEFINE r == Discovered(D)[w.ds].desired
             e == Pointer(ds[w.ds])
             k == AbsentWork.cand
  <2>1. w.ds \in Datasets /\ s \in 0..MaxSeq /\ 0 \in Phases
    BY WorkIdShape, ConstantsAssumption DEF ConstantsAssumption, Seqs, Phases
  <2>2. r \in Revision
    BY <1>4, <2>1 DEF DatasetRow
  <2>3. e \in [uri : Uris \cup {None}, ver : Nat, pub : Publication] /\ e.uri \in Uris
    BY <2>1, PointerType DEF Pointer, DatasetRow, TypeOK
  <2>4. k \in [uri : Uris \cup {None}, ver : Nat]
    BY DEF AbsentWork
  <2>5. \A a, b, f, x, g : LET n == NewWork(a, b, f, x, g) IN n.exp = x /\ n.state = "PENDING" /\ n.seq = b
    BY DEF NewWork, AbsentWork
  <2> HIDE DEF r, e, k
  <2>6. new(w) = NewWork(0, s, r, e, k)
    BY DEF r, e, k
  <2> QED BY <2>1, <2>2, <2>3, <2>4, <2>5, <2>6, NewWorkType
<1> HIDE DEF new
<1>8. work' \in [WorkIds -> WorkRow]
  <2>1. work' = [w \in WorkIds |-> work'[w]]
    BY <1>1 DEF insert_ingest_work
  <2>2. \A w \in WorkIds : work'[w] \in WorkRow
    BY <1>6, <1>7 DEF TypeOK
  <2> QED BY <2>1, <2>2
<1>9. RowsWellFormed'
  BY <1>1, <1>5, <1>6, <1>7 DEF RowsWellFormed
<1>10. Fenced' /\ claims' \subseteq Claim
  BY <1>1, <1>5, DropFenced DEF QuietFences
<1>11. /\ \A d \in Datasets : ds[d].applied < s
       /\ \A w \in WorkIds : w.kind = "INGEST" /\ work[w].state # "ABSENT" => w.key < s
  BY <1>1, ExtendsAll
<1>12. SourceOrder'
  <2>1. \A w \in WorkIds : w.kind = "INGEST" /\ work'[w].state # "ABSENT" =>
          work'[w].seq = w.key /\ snap'[w.key].state # "ABSENT"
    BY <1>3, <1>6, <1>7, IngestKey DEF SourceOrder
  <2>2. \A d \in Datasets : ds'[d].applied # 0 => snap'[ds'[d].applied].state # "ABSENT"
    <3>1. \A d \in Datasets : ds[d].applied # 0 => ds[d].applied \in Seqs
      BY ConstantsAssumption DEF ConstantsAssumption, TypeOK, DatasetRow, Seqs
    <3> QED BY <1>3, <1>5, <3>1 DEF SourceOrder
  <2>3. ASSUME NEW v \in WorkIds, NEW w \in WorkIds, v.kind = "INGEST", w.kind = "INGEST",
               v.ds = w.ds, v.key < w.key, work'[w].state = "RUNNING"
        PROVE  work'[v].state \in {"ABSENT", "SUCCEEDED"}
    <3>1. ~fresh(w) /\ work[w].state = "RUNNING" /\ w.key < s
      BY <1>6, <1>7, <1>11, <2>3
    <3>2. v.key \in Nat /\ w.key \in Nat /\ s \in Nat
      BY <2>3, IngestKey, ConstantsAssumption DEF ConstantsAssumption, Seqs
    <3>3. ~fresh(v)
      BY <2>3, <3>1, <3>2
    <3> QED BY <1>6, <2>3, <3>1, <3>3 DEF SourceOrder
  <2> QED BY <1>3, <2>1, <2>2, <2>3 DEF SourceOrder
<1>13. AppliedPrefix'
  <2> SUFFICES ASSUME NEW d \in Datasets, NEW t \in Seqs
               PROVE  LET v == deterministic_ingest_work_id(d, t) IN
                      work'[v].state # "ABSENT" => (work'[v].state = "SUCCEEDED" <=> t <= ds'[d].applied)
    BY DEF AppliedPrefix, deterministic_ingest_work_id
  <2> DEFINE v == deterministic_ingest_work_id(d, t)
  <2>1. v \in WorkIds /\ v.kind = "INGEST" /\ v.ds = d /\ v.key = t
    BY DerivedIds DEF deterministic_ingest_work_id
  <2>2. ds'[d].applied = ds[d].applied /\ ds[d].applied < s
    BY <1>5, <1>11
  <2>3. work[v].state # "ABSENT" => (work[v].state = "SUCCEEDED" <=> t <= ds[d].applied)
    BY DEF AppliedPrefix
  <2> HIDE DEF v
  <2>4. CASE fresh(v)
    <3>1. t = s /\ work'[v].state = "PENDING"
      BY <1>6, <1>7, <2>1, <2>4
    <3>2. ds[d].applied \in Nat /\ s \in Nat
      BY ConstantsAssumption DEF ConstantsAssumption, TypeOK, DatasetRow, Seqs
    <3>3. ~(t <= ds'[d].applied)
      BY <2>2, <3>1, <3>2
    <3> QED BY <3>1, <3>3 DEF v
  <2>5. CASE ~fresh(v)
    BY <1>6, <2>1, <2>2, <2>3, <2>5 DEF v
  <2> QED BY <2>4, <2>5
<1> QED BY <1>1, <1>3, <1>5, <1>8, <1>9, <1>10, <1>12, <1>13 DEF TypeOK

-----------------------------------------------------------------------------
(* Claiming.                                                               *)

\* What a claim transaction first does to a row: nothing, or it takes an expired
\* row back to RETRY_WAIT, or it blocks a stale non-INGEST one.
LEMMA SweptRow ==
  ASSUME TypeOK, NEW w \in WorkIds
  PROVE  LET row == sweep_stale_work(release_expired_leases)[w] IN
         /\ row \in WorkRow /\ row.seq = work[w].seq /\ row.exp = work[w].exp
         /\ row.state = "ABSENT" <=> work[w].state = "ABSENT"
         /\ row.state = "SUCCEEDED" <=> work[w].state = "SUCCEEDED"
         /\ row.state = "RUNNING" => work[w].state = "RUNNING"
<1> DEFINE freed == release_expired_leases
           row == sweep_stale_work(freed)[w]
<1>1. \A r \in WorkRow : \A x \in {"RETRY_WAIT", "BLOCKED"} : LET f == Released(r, x) IN
        f.state = x /\ f.seq = r.seq /\ f.exp = r.exp
  BY DEF Released, WorkRow
<1>2. work[w] \in WorkRow /\ freed[w] \in WorkRow /\ row \in WorkRow
  BY ReleaseAndSweepType DEF TypeOK
<1>3. \/ freed[w] = work[w]
      \/ work[w].state = "RUNNING" /\ freed[w] = Released(work[w], "RETRY_WAIT")
  BY DEF release_expired_leases
<1>4. \/ row = freed[w]
      \/ freed[w].state \in Waiting /\ row = Released(freed[w], "BLOCKED")
  BY DEF sweep_stale_work
<1> HIDE DEF freed, row
<1>5. /\ freed[w].seq = work[w].seq /\ freed[w].exp = work[w].exp
      /\ freed[w] # work[w] => freed[w].state = "RETRY_WAIT" /\ work[w].state = "RUNNING"
  BY <1>1, <1>2, <1>3
<1>6. /\ row.seq = freed[w].seq /\ row.exp = freed[w].exp
      /\ row # freed[w] => row.state = "BLOCKED" /\ freed[w].state \in {"PENDING", "RETRY_WAIT"}
  BY <1>1, <1>2, <1>4 DEF Waiting
<1>7. /\ row.state = "ABSENT" <=> work[w].state = "ABSENT"
      /\ row.state = "SUCCEEDED" <=> work[w].state = "SUCCEEDED"
      /\ row.state = "RUNNING" => work[w].state = "RUNNING"
  BY <1>5, <1>6
<1>8. row \in WorkRow /\ row.seq = work[w].seq /\ row.exp = work[w].exp
  BY <1>2, <1>5, <1>6
<1> QED BY <1>7, <1>8 DEF row, freed

\* The row a claim writes.
LEMMA ClaimedRow ==
  ASSUME TypeOK, NEW W, NEW w \in WorkIds, W[w] \in WorkRow
  PROVE  LET row == claim_locked_row(W, w) IN
         /\ row \in WorkRow /\ row.state = "RUNNING" /\ row.seq = W[w].seq
         /\ W[w].exp.uri \in Uris => row.exp.uri \in Uris
<1> DEFINE e == IF w.kind = "INGEST" THEN Pointer(ds[w.ds]) ELSE W[w].exp
           t == ds[w.ds].fence + 1
           a == W[w].attempt + 1
           old == W[w]
<1>1. ds[w.ds] \in DatasetRow
  BY WorkIdShape DEF TypeOK
<1>2. t \in Nat /\ a \in Nat
  BY <1>1 DEF DatasetRow, WorkRow
<1>3. /\ e \in [uri : Uris \cup {None}, ver : Nat, pub : Publication]
      /\ W[w].exp.uri \in Uris => e.uri \in Uris
  <2>1. Pointer(ds[w.ds]).uri \in Uris
    BY <1>1 DEF Pointer, DatasetRow
  <2> QED BY <1>1, <2>1, PointerType DEF WorkRow
<1>4. claim_locked_row(W, w) = [old EXCEPT !.state = "RUNNING", !.token = t, !.lapsed = FALSE,
                                           !.attempt = a, !.exp = e]
  BY DEF claim_locked_row
<1>5. old \in WorkRow /\ old = W[w] /\ "RUNNING" \in WorkState /\ FALSE \in BOOLEAN
  BY DEF WorkState
<1> HIDE DEF e, t, a, old
<1>6. LET row == claim_locked_row(W, w) IN
      row \in WorkRow /\ row.state = "RUNNING" /\ row.seq = old.seq /\ row.exp = e
  BY <1>2, <1>3, <1>4, <1>5 DEF WorkRow
<1> QED BY <1>3, <1>5, <1>6

\* Claims take the next fence of their dataset, and an INGEST is claimed only
\* when every earlier one has succeeded.
LEMMA ClaimPreserves ==
  ASSUME LaneInvariant, claim_due_work
  PROVE  LaneInvariant'
<1> USE DEF LaneInvariant
<1> DEFINE swept == sweep_stale_work(release_expired_leases)
<1>1. PICK S \in SUBSET {w \in WorkIds : Claimable(swept, w)} :
        /\ \A v, w \in S : v.ds = w.ds => v = w
        /\ work' = [w \in WorkIds |-> IF w \in S THEN claim_locked_row(swept, w) ELSE swept[w]]
        /\ ds' = [d \in Datasets |-> IF \E w \in S : w.ds = d
                                    THEN [ds[d] EXCEPT !.fence = @ + 1] ELSE ds[d]]
        /\ claims' = claims \cup {WorkClaim(swept, w) : w \in S}
        /\ UNCHANGED <<snap, pubs, lance, marker, pin, faults, repairs>>
  BY DEF claim_due_work, store, bounds
<1>2. \A w \in WorkIds :
         /\ swept[w] \in WorkRow /\ swept[w].seq = work[w].seq /\ swept[w].exp = work[w].exp
         /\ swept[w].state = "ABSENT" <=> work[w].state = "ABSENT"
         /\ swept[w].state = "SUCCEEDED" <=> work[w].state = "SUCCEEDED"
         /\ swept[w].state = "RUNNING" => work[w].state = "RUNNING"
  BY SweptRow
<1> HIDE DEF swept
<1>3. \A w \in S : w \in WorkIds /\ swept[w].state \in Waiting /\ lane_order_predicate(swept, w)
  BY <1>1 DEF Claimable
<1>4. \A w \in WorkIds : LET row == claim_locked_row(swept, w) IN
         /\ row \in WorkRow /\ row.state = "RUNNING" /\ row.seq = swept[w].seq
         /\ swept[w].exp.uri \in Uris => row.exp.uri \in Uris
  BY <1>2, ClaimedRow
<1>5. \A w \in WorkIds : IF w \in S THEN work'[w] = claim_locked_row(swept, w) ELSE work'[w] = swept[w]
  BY <1>1
<1>6. work' \in [WorkIds -> WorkRow]
  BY <1>1, <1>2, <1>4
<1>7. \A w \in WorkIds :
         /\ work'[w].seq = work[w].seq
         /\ work'[w].state = "ABSENT" <=> work[w].state = "ABSENT"
         /\ work'[w].state = "SUCCEEDED" <=> work[w].state = "SUCCEEDED"
         /\ work'[w].state = "RUNNING" => w \in S \/ work[w].state = "RUNNING"
  BY <1>2, <1>3, <1>4, <1>5 DEF Waiting
<1>8. \A w \in WorkIds : work'[w].state # "ABSENT" => work'[w].exp.uri \in Uris
  BY <1>2, <1>4, <1>5, <1>7 DEF RowsWellFormed
<1>9. /\ ds' \in [Datasets -> DatasetRow]
      /\ \A d \in Datasets :
           /\ ds'[d].applied = ds[d].applied /\ ds'[d].pub = ds[d].pub
           /\ ds[d].fence \in Nat
           /\ (\E w \in S : w.ds = d) => ds'[d].fence = ds[d].fence + 1
           /\ ~(\E w \in S : w.ds = d) => ds'[d].fence = ds[d].fence
  <2>1. \A x \in DatasetRow : LET y == [x EXCEPT !.fence = @ + 1] IN
          /\ y \in DatasetRow /\ y.applied = x.applied /\ y.pub = x.pub
          /\ y.fence = x.fence + 1 /\ x.fence \in Nat
    BY DEF DatasetRow
  <2>2. \A d \in Datasets : ds[d] \in DatasetRow
    BY DEF TypeOK
  <2>3. \A d \in Datasets : IF \E w \in S : w.ds = d THEN ds'[d] = [ds[d] EXCEPT !.fence = @ + 1]
                                                   ELSE ds'[d] = ds[d]
    BY <1>1
  <2>4. ASSUME NEW d \in Datasets
        PROVE  ds'[d] \in DatasetRow
    <3>1. CASE \E w \in S : w.ds = d
      <4>1. ds'[d] = [ds[d] EXCEPT !.fence = @ + 1]
        BY <2>3, <3>1
      <4> QED BY <2>1, <2>2, <4>1
    <3>2. CASE ~\E w \in S : w.ds = d
      BY <2>2, <2>3, <3>2
    <3> QED BY <3>1, <3>2
  <2>5. ds' \in [Datasets -> DatasetRow]
    BY <1>1, <2>4
  <2> QED BY <2>1, <2>2, <2>3, <2>5
<1>10. RowsWellFormed'
  BY <1>1, <1>8, <1>9 DEF RowsWellFormed
<1>11. Fenced' /\ claims' \subseteq Claim
  <2>1. ASSUME NEW w \in S
        PROVE  LET c == WorkClaim(swept, w) IN
               c \in Claim /\ c.work = w /\ c.token = ds[w.ds].fence + 1 /\ w.ds \in Datasets
    <3>1. w \in WorkIds /\ w.ds \in Datasets /\ ds[w.ds] \in DatasetRow /\ swept[w] \in WorkRow
      BY <1>2, <1>3, WorkIdShape DEF TypeOK
    <3> QED BY <3>1 DEF WorkClaim, Claim, DatasetRow, WorkRow, Stages
  <2>2. \A c \in claims : c.work.ds \in Datasets /\ c.token \in Nat
    BY WorkIdShape DEF TypeOK, Claim
  <2>3. \A c \in claims' : \/ c \in claims
                           \/ \E w \in S : c = WorkClaim(swept, w)
    BY <1>1
  <2>4. \A c \in claims' : /\ c \in Claim /\ c.work.ds \in Datasets /\ c.token \in Nat
                           /\ c.token <= ds'[c.work.ds].fence
                           /\ c \notin claims => /\ c.token = ds[c.work.ds].fence + 1
                                                 /\ c.work \in S /\ c = WorkClaim(swept, c.work)
    <3> SUFFICES ASSUME NEW c \in claims'
                 PROVE  /\ c \in Claim /\ c.work.ds \in Datasets /\ c.token \in Nat
                        /\ c.token <= ds'[c.work.ds].fence
                        /\ c \notin claims => /\ c.token = ds[c.work.ds].fence + 1
                                              /\ c.work \in S /\ c = WorkClaim(swept, c.work)
      OBVIOUS
    <3>1. CASE c \in claims
      <4>1. c.token <= ds[c.work.ds].fence /\ c \in Claim
        BY <3>1 DEF Fenced, TypeOK
      <4> QED BY <1>9, <2>2, <3>1, <4>1
    <3>2. CASE c \notin claims
      <4>1. PICK w \in S : c = WorkClaim(swept, w)
        BY <2>3, <3>2
      <4>2. c \in Claim /\ c.work = w /\ c.token = ds[w.ds].fence + 1 /\ w.ds \in Datasets
        BY <2>1, <4>1
      <4> QED BY <1>9, <4>1, <4>2
    <3> QED BY <3>1, <3>2
  <2>5. ASSUME NEW c \in claims', NEW e \in claims', c.work.ds = e.work.ds, c.token = e.token
        PROVE  c = e
    <3>1. CASE c \in claims /\ e \in claims
      BY <2>5, <3>1 DEF Fenced
    <3>2. CASE c \notin claims /\ e \notin claims
      <4>1. c.work \in S /\ e.work \in S /\ c = WorkClaim(swept, c.work) /\ e = WorkClaim(swept, e.work)
        BY <2>4, <3>2
      <4>2. c.work = e.work
        BY <1>1, <2>5, <4>1
      <4> QED BY <4>1, <4>2
    <3>3. \A x, y \in claims' : x \in claims /\ y \notin claims /\ x.work.ds = y.work.ds => x.token < y.token
      BY <1>9, <2>2, <2>4 DEF Fenced
    <3>4. ~(c.token < e.token) /\ ~(e.token < c.token)
      BY <2>4, <2>5
    <3>5. CASE c \in claims /\ e \notin claims
      BY <2>5, <3>3, <3>4, <3>5
    <3>6. CASE c \notin claims /\ e \in claims
      <4>1. e.work.ds = c.work.ds
        BY <2>5
      <4> QED BY <3>3, <3>4, <3>6, <4>1
    <3> QED BY <3>1, <3>2, <3>5, <3>6
  <2> QED BY <2>4, <2>5 DEF Fenced
<1>12. SourceOrder'
  <2>1. \A w \in WorkIds : w.kind = "INGEST" /\ work'[w].state # "ABSENT" =>
          work'[w].seq = w.key /\ snap'[w.key].state # "ABSENT"
    BY <1>1, <1>7 DEF SourceOrder
  <2>2. ASSUME NEW v \in WorkIds, NEW w \in WorkIds, v.kind = "INGEST", w.kind = "INGEST",
               v.ds = w.ds, v.key < w.key, work'[w].state = "RUNNING"
        PROVE  work'[v].state \in {"ABSENT", "SUCCEEDED"}
    <3>1. CASE w \in S
      <4>1. v.key \in Nat /\ w.key \in Nat
        BY <2>2, IngestKey, ConstantsAssumption DEF ConstantsAssumption, Seqs
      <4>2. v # w
        BY <2>2, <4>1
      <4>3. work[v].state # "ABSENT" => Precedes(swept, v, w)
        BY <1>2, <1>3, <2>2, <3>1 DEF SourceOrder, Precedes, Waiting
      <4>4. swept[v].state \in {"ABSENT", "SUCCEEDED"}
        BY <1>2, <1>3, <2>2, <3>1, <4>2, <4>3 DEF lane_order_predicate
      <4> QED BY <1>2, <1>7, <4>4
    <3>2. CASE w \notin S
      BY <1>7, <2>2, <3>2 DEF SourceOrder
    <3> QED BY <3>1, <3>2
  <2> QED BY <1>1, <1>9, <2>1, <2>2 DEF SourceOrder
<1>13. AppliedPrefix'
  BY <1>7, <1>9, DerivedIds DEF AppliedPrefix, deterministic_ingest_work_id
<1> QED BY <1>1, <1>6, <1>9, <1>10, <1>11, <1>12, <1>13 DEF TypeOK

-----------------------------------------------------------------------------
(* The theorems.                                                           *)

\* The empty control plane satisfies the invariant.
LEMMA InitInvariant ==
  ASSUME Init
  PROVE  LaneInvariant
<1>1. AbsentWork \in WorkRow
  BY ConstantsAssumption
     DEF ConstantsAssumption, AbsentWork, WorkRow, WorkState, Phases, Revision, Publication
<1>2. \A d \in Datasets : AbsentDataset(d) \in DatasetRow
  BY ConstantsAssumption
     DEF ConstantsAssumption, AbsentDataset, DatasetRow, Revision, Publication, ingest_uri, Uris
<1>3. \A d \in Datasets : AbsentDataset(d).applied = 0 /\ AbsentDataset(d).pub = None
  BY DEF AbsentDataset
<1>4. AbsentWork.state = "ABSENT"
  BY DEF AbsentWork
<1>5. 0 \in 0..MaxSeq /\ 0 \in 0..MaxFaults /\ 0 \in 0..MaxRepairs /\ <<>> \in Seq(0..MaxSeq)
  BY ConstantsAssumption DEF ConstantsAssumption
<1>6. TypeOK
  <2>1. snap \in [Seqs -> SnapshotRow]
    BY DEF Init, SnapshotRow
  <2>2. ds \in [Datasets -> DatasetRow]
    BY <1>2 DEF Init
  <2>3. work \in [WorkIds -> WorkRow]
    BY <1>1 DEF Init
  <2> QED BY <1>5, <2>1, <2>2, <2>3 DEF Init, TypeOK
<1>7. RowsWellFormed
  BY <1>3, <1>4 DEF Init, RowsWellFormed
<1>8. Fenced
  BY DEF Init, Fenced
<1>9. SourceOrder
  BY <1>3, <1>4 DEF Init, SourceOrder
<1>10. AppliedPrefix
  BY <1>4, DerivedIds DEF Init, AppliedPrefix
<1> QED BY <1>6, <1>7, <1>8, <1>9, <1>10 DEF LaneInvariant

\* Every transaction, Lance step and fault preserves the invariant.
LEMMA NextPreserves ==
  ASSUME LaneInvariant, [Next]_vars
  PROVE  LaneInvariant'
<1>1. CASE claim_due_work
  BY <1>1, ClaimPreserves
<1>2. CASE \E c \in claims : RunStep(c)
  BY <1>2, RunStepPreserves, PinPreserves
<1>3. CASE \E c \in claims : ReconcileStep(c)
  BY <1>3, CompletePreserves, AdvancePreserves, PublishPreserves DEF ReconcileStep
<1>4. CASE FaultStep
  BY <1>4, FaultPreserves
<1>5. CASE PlanStep
  BY <1>5, SealPreserves, RejectedPreserves, GatePreserves DEF PlanStep
<1>6. CASE OperatorStep
  BY <1>6, RetryBlockedPreserves, RebuildPreserves, AssignPreserves DEF OperatorStep
<1>7. CASE UNCHANGED vars
  <2>1. UNCHANGED tables /\ UNCHANGED <<claims, lance, marker, pin, faults, repairs>>
    BY <1>7 DEF vars, tables
  <2>2. Fenced' /\ claims' \subseteq Claim
    BY <2>1, DropFenced DEF QuietFences, tables, LaneInvariant
  <2> QED BY <2>1, <2>2, UnchangedTables DEF LaneInvariant, TypeOK
<1> QED BY <1>1, <1>2, <1>3, <1>4, <1>5, <1>6, <1>7 DEF Next

\* In every reachable state of the lanes the tables are well typed, claims are
\* fenced, and the source is applied in order (claim_due_work, complete_ingest,
\* publish_dataset, enqueue_source_snapshot and the operator calls).
THEOREM LaneSafety == Spec => []LaneInvariant
<1>1. Init => LaneInvariant
  BY InitInvariant
<1>2. LaneInvariant /\ [Next]_vars => LaneInvariant'
  BY NextPreserves
<1> QED BY <1>1, <1>2, PTL DEF Spec

\* Every table, claim and Lance dataset keeps the shape the code gives it.
THEOREM TypeCorrect == Spec => []TypeOK
<1>1. LaneInvariant => TypeOK
  BY DEF LaneInvariant
<1> QED BY <1>1, LaneSafety, PTL

\* The applied snapshot of a dataset covers exactly the INGEST rows that have
\* succeeded: lane_order_predicate leaves no gap and complete_ingest no overtaking,
\* for any number of workers, crashes and repairs.
THEOREM AppliedInOrder == Spec => []AppliedPrefix
<1>1. LaneInvariant => AppliedPrefix
  BY DEF LaneInvariant
<1> QED BY <1>1, LaneSafety, PTL

\* At most one claim per dataset is admitted by lease_is_current, however many
\* superseded workers still run.
THEOREM SingleOwner == Spec => []AtMostOneOwner
<1>1. LaneInvariant => AtMostOneOwner
  BY DEF LaneInvariant, Fenced, AtMostOneOwner, lease_is_current
<1> QED BY <1>1, LaneSafety, PTL

-----------------------------------------------------------------------------
(* Completion of source snapshots, and what expiration may drop.           *)

Finished(state) == state \in {"ABSENT", "SUCCEEDED"}

\* No INGEST row becomes finished or unfinished.
IngestSteady ==
  \A w \in WorkIds : w.kind = "INGEST" => (Finished(work'[w].state) <=> Finished(work[w].state))

\* A transition a fence admits moves one running row to another unfinished state.
LEMMA ReleaseSteady ==
  ASSUME LaneInvariant, NEW c \in claims, NEW state \in {"BLOCKED", "RETRY_WAIT"}, FencedRelease(c, state)
  PROVE  IngestSteady /\ UNCHANGED snap
<1>1. UNCHANGED snap
  BY DEF FencedRelease
<1>2. CASE ~lease_is_current(c)
  BY <1>1, <1>2 DEF FencedRelease, IngestSteady
<1>3. CASE lease_is_current(c)
  <2>1. c.work \in WorkIds /\ work[c.work] \in WorkRow /\ work[c.work].state = "RUNNING"
    BY <1>3, CurrentLease DEF LaneInvariant
  <2>2. work' = [work EXCEPT ![c.work] = Released(work[c.work], state)]
    BY <1>3 DEF FencedRelease
  <2>3. Released(work[c.work], state).state = state
    BY <2>1 DEF Released, WorkRow
  <2>4. \A w \in WorkIds : /\ w # c.work => work'[w] = work[w]
                           /\ w = c.work => work'[w].state = state
    BY <2>1, <2>2, <2>3 DEF LaneInvariant, TypeOK
  <2> QED BY <1>1, <2>1, <2>4 DEF IngestSteady, Finished
<1> QED BY <1>2, <1>3

\* So does a claim, after expired leases were released and stale rows swept.
LEMMA ClaimSteady ==
  ASSUME LaneInvariant, claim_due_work
  PROVE  IngestSteady /\ UNCHANGED snap
<1> DEFINE swept == sweep_stale_work(release_expired_leases)
<1>1. PICK S \in SUBSET {w \in WorkIds : Claimable(swept, w)} :
        work' = [w \in WorkIds |-> IF w \in S THEN claim_locked_row(swept, w) ELSE swept[w]]
  BY DEF claim_due_work
<1>2. \A w \in WorkIds : swept[w] \in WorkRow /\ (Finished(swept[w].state) <=> Finished(work[w].state))
  BY SweptRow DEF Finished, LaneInvariant
<1> HIDE DEF swept
<1>3. \A w \in S : w \in WorkIds /\ ~Finished(swept[w].state)
  BY <1>1 DEF Claimable, Waiting, Finished
<1>4. \A w \in WorkIds : claim_locked_row(swept, w).state = "RUNNING"
  BY <1>2, ClaimedRow DEF LaneInvariant
<1>5. \A w \in WorkIds : Finished(work'[w].state) <=> Finished(work[w].state)
  BY <1>1, <1>2, <1>3, <1>4 DEF Finished
<1>6. UNCHANGED snap
  BY DEF claim_due_work
<1> QED BY <1>5, <1>6 DEF IngestSteady

\* The operator calls reopen blocked rows and insert rebuilds.
LEMMA OperatorSteady ==
  ASSUME LaneInvariant, OperatorStep
  PROVE  IngestSteady /\ UNCHANGED snap
<1>1. ASSUME NEW w \in WorkIds, retry_blocked_work(w)
      PROVE  IngestSteady /\ UNCHANGED snap
  <2>1. work[w] \in WorkRow /\ work[w].state = "BLOCKED" /\ UNCHANGED snap
        /\ work' = [work EXCEPT ![w] = Released(work[w], "PENDING")]
    BY <1>1 DEF retry_blocked_work, LaneInvariant, TypeOK
  <2>2. Released(work[w], "PENDING").state = "PENDING"
    BY <2>1 DEF Released, WorkRow
  <2> QED BY <2>1, <2>2 DEF IngestSteady, Finished, LaneInvariant, TypeOK
<1>2. ASSUME NEW d \in Datasets, NEW k \in RebuildKeys, UNCHANGED snap,
             LET w == deterministic_rebuild_work_id(d, k) IN
             UNCHANGED work \/ \E r : work' = [work EXCEPT ![w] = NewRebuild(w, r)]
      PROVE  IngestSteady /\ UNCHANGED snap
  <2>1. \A w \in WorkIds : w.kind = "INGEST" => w # deterministic_rebuild_work_id(d, k)
    BY DEF deterministic_rebuild_work_id
  <2>2. \A w \in WorkIds : w.kind = "INGEST" => work'[w] = work[w]
    BY <1>2, <2>1 DEF LaneInvariant, TypeOK
  <2> QED BY <1>2, <2>2 DEF IngestSteady
<1>3. ASSUME NEW d \in Datasets, NEW q \in Requests, enqueue_rebuild(d, q)
      PROVE  IngestSteady /\ UNCHANGED snap
  BY <1>2, <1>3 DEF enqueue_rebuild, RebuildKeys
<1>4. ASSUME NEW d \in Datasets, NEW r \in Revisions, assign_dataset_spec_revision(d, r)
      PROVE  IngestSteady /\ UNCHANGED snap
  BY <1>2, <1>4 DEF assign_dataset_spec_revision, RebuildKeys
<1> QED BY <1>1, <1>3, <1>4 DEF OperatorStep

\* Workers and faults: every transition but ApplyIngest leaves the INGEST rows as finished
\* as they were.
LEMMA WorkerSteady ==
  ASSUME LaneInvariant,
         \/ \E c \in claims : RunStep(c) \/ (ReconcileStep(c) /\ ~(complete_ingest(c) /\ ApplyIngest(c)))
         \/ FaultStep \/ UNCHANGED vars
  PROVE  IngestSteady /\ UNCHANGED snap
<1>1. UNCHANGED work /\ UNCHANGED snap => IngestSteady /\ UNCHANGED snap
  BY DEF IngestSteady
<1>2. ASSUME NEW c \in claims, NEW row, c.work.kind # "INGEST", UNCHANGED snap,
             work' = [work EXCEPT ![c.work] = row]
      PROVE  IngestSteady /\ UNCHANGED snap
  <2>1. \A w \in WorkIds : w.kind = "INGEST" => work'[w] = work[w]
    BY <1>2 DEF LaneInvariant, TypeOK
  <2> QED BY <1>2, <2>1 DEF IngestSteady
<1>3. ASSUME NEW c \in claims, RunStep(c)
      PROVE  IngestSteady /\ UNCHANGED snap
  <2>1. CASE pin_candidate(c)
    BY <1>1, <2>1, ReleaseSteady DEF pin_candidate, tables
  <2>2. CASE ~pin_candidate(c)
    BY <1>1, <1>3, <2>2 DEF RunStep, execute, applied_completion_marker, write_terminal,
         finalize_completion_marker, candidate_pin_version, build_candidate, qualify_candidate, tables
  <2> QED BY <2>1, <2>2
<1>4. ASSUME NEW c \in claims, ReconcileStep(c), ~(complete_ingest(c) /\ ApplyIngest(c))
      PROVE  IngestSteady /\ UNCHANGED snap
  <2>1. CASE StaleResult(c)
    BY <1>1, <2>1 DEF StaleResult, tables
  <2>2. CASE block_diverged_claim(c)
    BY <2>2, ReleaseSteady DEF block_diverged_claim
  <2>3. CASE complete_ingest(c)
    BY <1>4, <2>1, <2>2, <2>3 DEF complete_ingest
  <2>4. CASE advance_phase(c)
    BY <1>2, <2>1, <2>4 DEF advance_phase
  <2>5. CASE publish_dataset(c)
    BY <1>2, <2>1, <2>2, <2>5 DEF publish_dataset, SwapServingPointer
  <2> QED BY <1>4, <2>3, <2>4, <2>5 DEF ReconcileStep
<1>5. CASE FaultStep
  <2>1. CASE \E c \in claims : retry_work(c) \/ block_work(c)
    BY <2>1, ReleaseSteady DEF retry_work, block_work
  <2>2. CASE \E c \in claims : WorkerCrash(c)
    BY <1>1, <2>2 DEF WorkerCrash, tables
  <2>3. ASSUME NEW w \in WorkIds, LeaseExpires(w)
        PROVE  IngestSteady /\ UNCHANGED snap
    <3>1. work' = [work EXCEPT ![w].lapsed = TRUE] /\ UNCHANGED snap
      BY <2>3 DEF LeaseExpires
    <3> QED BY <3>1 DEF IngestSteady, LaneInvariant, TypeOK, WorkRow
  <2> QED BY <1>5, <2>1, <2>2, <2>3 DEF FaultStep
<1>6. CASE UNCHANGED vars
  BY <1>1, <1>6 DEF vars
<1> QED BY <1>3, <1>4, <1>5, <1>6

\* Completion of a snapshot depends on its own INGEST rows only.
LEMMA IncompleteSame ==
  ASSUME NEW s \in Seqs,
         \A w \in WorkIds : w.kind = "INGEST" /\ w.key = s =>
           (Finished(work'[w].state) <=> Finished(work[w].state))
  PROVE  IncompleteIngest(work', s) <=> IncompleteIngest(work, s)
<1>1. \A d \in Datasets : LET w == deterministic_ingest_work_id(d, s) IN
         w \in WorkIds /\ w.kind = "INGEST" /\ w.key = s
  BY DerivedIds DEF deterministic_ingest_work_id
<1>2. \A d \in Datasets : LET w == deterministic_ingest_work_id(d, s) IN
         Finished(work'[w].state) <=> Finished(work[w].state)
  BY <1>1
<1> QED BY <1>2 DEF IncompleteIngest, Finished

\* What sealing a snapshot does to the INGEST rows: it inserts those of the routed
\* datasets, none of which existed, and touches no other.
LEMMA SealRows ==
  ASSUME LaneInvariant, NEW s \in Seqs, NEW D \in SUBSET Datasets, enqueue_source_snapshot(s, D)
  PROVE  \A w \in WorkIds : w.kind = "INGEST" =>
           /\ w.key # s => work'[w] = work[w]
           /\ w.key = s => work[w].state = "ABSENT"
           /\ w.key = s /\ w.ds \notin D => work'[w].state = "ABSENT"
           /\ w.key = s /\ w.ds \in D => work'[w].state = "PENDING"
<1> SUFFICES ASSUME NEW w \in WorkIds, w.kind = "INGEST"
             PROVE  /\ w.key # s => work'[w] = work[w]
                    /\ w.key = s => work[w].state = "ABSENT"
                    /\ w.key = s /\ w.ds \notin D => work'[w].state = "ABSENT"
                    /\ w.key = s /\ w.ds \in D => work'[w].state = "PENDING"
  OBVIOUS
<1>1. ExtendsLatest(s) /\ work' = insert_ingest_work(D, s)
  BY DEF enqueue_source_snapshot
<1>2. PICK new : new = NewWork(0, s, Discovered(D)[w.ds].desired, Pointer(ds[w.ds]), AbsentWork.cand)
  OBVIOUS
<1>3. \A a, b, f, x, g : NewWork(a, b, f, x, g).state = "PENDING"
  BY DEF NewWork, AbsentWork
<1>4. new.state = "PENDING"
  BY <1>2, <1>3
<1>5. IF w.ds \in D /\ w.key = s THEN work'[w] = new ELSE work'[w] = work[w]
  BY <1>1, <1>2 DEF insert_ingest_work
<1>6. w.key = s => work[w].state = "ABSENT"
  <2>1. ~(s < s)
    BY ConstantsAssumption DEF ConstantsAssumption, Seqs
  <2> QED BY <1>1, <2>1, ExtendsAll
<1> QED BY <1>4, <1>5, <1>6

\* What an admitted completion does to them.
LEMMA ApplyRows ==
  ASSUME LaneInvariant, NEW c \in claims, complete_ingest(c), ApplyIngest(c), lease_is_current(c)
  PROVE  /\ c.work \in WorkIds /\ c.work.kind = "INGEST" /\ work[c.work].state = "RUNNING"
         /\ work[c.work].seq = c.work.key /\ c.work.key \in Seqs
         /\ work'[c.work].state = "SUCCEEDED"
         /\ \A w \in WorkIds : w.kind = "INGEST" /\ w # c.work => work'[w] = work[w]
<1>1. c.work.kind = "INGEST"
  BY DEF complete_ingest
<1>2. c.work \in WorkIds /\ work[c.work].state = "RUNNING"
  BY CurrentLease DEF LaneInvariant
<1>3. c.work.key \in Seqs /\ work[c.work].seq = c.work.key
  BY <1>1, <1>2, IngestKey DEF LaneInvariant, SourceOrder
<1> QED BY <1>1, <1>2, <1>3, ApplyIngestWrites

\* Every step keeps COMPLETE exact.
LEMMA CompletionPreserved ==
  ASSUME LaneInvariant, SnapshotCompletion, [Next]_vars
  PROVE  SnapshotCompletion'
<1>1. ASSUME NEW s \in Seqs, snap'[s] = snap[s], IncompleteIngest(work', s) <=> IncompleteIngest(work, s),
             snap'[s].state \in {"SEALED", "COMPLETE"}
      PROVE  snap'[s].state = "COMPLETE" <=> ~IncompleteIngest(work', s)
  BY <1>1 DEF SnapshotCompletion
<1>2. ASSUME IngestSteady
      PROVE  \A s \in Seqs : IncompleteIngest(work', s) <=> IncompleteIngest(work, s)
  BY <1>2, IncompleteSame DEF IngestSteady
<1>3. ASSUME IngestSteady, UNCHANGED snap
      PROVE  SnapshotCompletion'
  BY <1>1, <1>2, <1>3 DEF SnapshotCompletion
<1>4. ASSUME NEW c \in claims, complete_ingest(c), ApplyIngest(c)
      PROVE  SnapshotCompletion'
  <2>1. CASE ~lease_is_current(c)
    BY <1>3, <1>4, <2>1 DEF complete_ingest, StaleResult, tables, IngestSteady
  <2>2. CASE lease_is_current(c)
    <3>1. PICK w, k : w = c.work /\ k = c.work.key
      OBVIOUS
    <3>2. /\ w \in WorkIds /\ w.kind = "INGEST" /\ work[w].state = "RUNNING" /\ k = w.key
          /\ work[w].seq = k /\ k \in Seqs /\ work'[w].state = "SUCCEEDED"
          /\ \A v \in WorkIds : v.kind = "INGEST" /\ v # w => work'[v] = work[v]
      BY <1>4, <2>2, <3>1, ApplyRows
    <3>3. snap' = complete_snapshot_if_applied(work', k)
      BY <1>4, <3>1, <3>2 DEF ApplyIngest
    <3>4. \A s \in Seqs : s # k => snap'[s] = snap[s]
      BY <3>3 DEF complete_snapshot_if_applied, LaneInvariant, TypeOK
    <3>5. \A s \in Seqs : s # k => (IncompleteIngest(work', s) <=> IncompleteIngest(work, s))
      BY <3>2, IncompleteSame
    <3>6. IncompleteIngest(work, k)
      <4>1. w.ds \in Datasets /\ w = deterministic_ingest_work_id(w.ds, k)
        BY <3>2, WorkIdShape DEF WorkIds, deterministic_ingest_work_id
      <4> QED BY <3>2, <4>1 DEF IncompleteIngest
    <3>7. snap[k].state # "COMPLETE"
      BY <3>2, <3>6 DEF SnapshotCompletion
    <3>8. snap'[k].state \in {"SEALED", "COMPLETE"} =>
            (snap'[k].state = "COMPLETE" <=> ~IncompleteIngest(work', k))
      <4>1. CASE snap[k].state # "BLOCKED" /\ ~IncompleteIngest(work', k)
        <5>1. snap' = [snap EXCEPT ![k].state = "COMPLETE"]
          BY <3>3, <4>1 DEF complete_snapshot_if_applied
        <5>2. snap'[k].state = "COMPLETE"
          BY <3>2, <5>1 DEF LaneInvariant, TypeOK, SnapshotRow
        <5> QED BY <4>1, <5>2
      <4>2. CASE ~(snap[k].state # "BLOCKED" /\ ~IncompleteIngest(work', k))
        <5>1. snap' = snap
          BY <3>3, <4>2 DEF complete_snapshot_if_applied
        <5> QED BY <3>7, <4>2, <5>1
      <4> QED BY <4>1, <4>2
    <3> QED BY <1>1, <3>4, <3>5, <3>8 DEF SnapshotCompletion
  <2> QED BY <2>1, <2>2
<1>5. ASSUME NEW s \in Seqs, NEW D \in SUBSET Datasets, enqueue_source_snapshot(s, D)
      PROVE  SnapshotCompletion'
  <2>1. PICK row : row = [state |-> IF D = {} THEN "COMPLETE" ELSE "SEALED", rejected |-> FALSE]
    OBVIOUS
  <2>2. snap' = [snap EXCEPT ![s] = row]
    BY <1>5, <2>1 DEF enqueue_source_snapshot
  <2>3. snap'[s] = row /\ \A t \in Seqs : t # s => snap'[t] = snap[t]
    BY <2>2 DEF LaneInvariant, TypeOK
  <2>4. \A t \in Seqs : t # s => (IncompleteIngest(work', t) <=> IncompleteIngest(work, t))
    BY <1>5, SealRows, IncompleteSame
  <2>5. IncompleteIngest(work', s) <=> D # {}
    <3>1. \A d \in Datasets : LET w == deterministic_ingest_work_id(d, s) IN
             w \in WorkIds /\ w.kind = "INGEST" /\ w.key = s /\ w.ds = d
      BY DerivedIds DEF deterministic_ingest_work_id
    <3>2. \A d \in Datasets : LET w == deterministic_ingest_work_id(d, s) IN
             IF d \in D THEN work'[w].state = "PENDING" ELSE work'[w].state = "ABSENT"
      BY <1>5, <3>1, SealRows
    <3> QED BY <3>2 DEF IncompleteIngest
  <2>6. row.state = "COMPLETE" <=> D = {}
    BY <2>1
  <2> QED BY <1>1, <2>3, <2>4, <2>5, <2>6 DEF SnapshotCompletion
<1>6. ASSUME NEW s \in Seqs, enqueue_blocked_source_snapshot(s) \/ block_source_snapshot(s)
      PROVE  SnapshotCompletion'
  <2>1. snap'[s].state = "BLOCKED" /\ \A t \in Seqs : t # s => snap'[t] = snap[t]
    BY <1>6 DEF enqueue_blocked_source_snapshot, block_source_snapshot, LaneInvariant, TypeOK, SnapshotRow
  <2>2. IngestSteady
    <3>1. CASE UNCHANGED work
      BY <3>1 DEF IngestSteady
    <3>2. CASE block_source_snapshot(s)
      <4>1. \A w \in WorkIds : \/ work'[w] = work[w]
                               \/ work[w].state \in Waiting /\ work'[w] = Released(work[w], "BLOCKED")
        BY <3>2 DEF block_source_snapshot
      <4>2. \A w \in WorkIds : Released(work[w], "BLOCKED").state = "BLOCKED"
        BY DEF Released, LaneInvariant, TypeOK, WorkRow
      <4> QED BY <4>1, <4>2 DEF IngestSteady, Finished, Waiting
    <3> QED BY <1>6, <3>1, <3>2 DEF enqueue_blocked_source_snapshot
  <2> QED BY <1>1, <1>2, <2>1, <2>2 DEF SnapshotCompletion
<1>7. ASSUME NEW s \in Seqs, retry_blocked_source_snapshot(s)
      PROVE  SnapshotCompletion'
  <2>1. /\ snap' = [snap EXCEPT ![s].state = IF IncompleteIngest(work, s) THEN "SEALED" ELSE "COMPLETE"]
        /\ UNCHANGED work
    BY <1>7 DEF retry_blocked_source_snapshot
  <2>2. snap'[s].state = "COMPLETE" <=> ~IncompleteIngest(work, s)
    BY <2>1 DEF LaneInvariant, TypeOK, SnapshotRow
  <2>3. \A t \in Seqs : t # s => snap'[t] = snap[t]
    BY <2>1 DEF LaneInvariant, TypeOK
  <2> QED BY <1>1, <2>1, <2>2, <2>3 DEF SnapshotCompletion
<1>8. CASE claim_due_work
  BY <1>3, <1>8, ClaimSteady
<1>9. CASE OperatorStep
  BY <1>3, <1>9, OperatorSteady
<1>10. CASE \/ \E c \in claims : RunStep(c) \/ (ReconcileStep(c) /\ ~(complete_ingest(c) /\ ApplyIngest(c)))
            \/ FaultStep \/ UNCHANGED vars
  BY <1>3, <1>10, WorkerSteady
<1>11. CASE PlanStep
  BY <1>5, <1>6, <1>7, <1>11 DEF PlanStep
<1> QED BY <1>4, <1>8, <1>9, <1>10, <1>11 DEF Next

\* A snapshot reads COMPLETE exactly when all its INGEST rows have succeeded
\* (complete_snapshot_if_applied, retry_blocked_source_snapshot, enqueue_source_snapshot).
THEOREM CompletionExact == Spec => []SnapshotCompletion
<1>1. Init => SnapshotCompletion
  BY DEF Init, SnapshotCompletion
<1>2. LaneInvariant /\ SnapshotCompletion /\ [Next]_vars => SnapshotCompletion'
  BY CompletionPreserved
<1> QED BY <1>1, <1>2, LaneSafety, PTL DEF Spec

\* Every non-empty set of numbers has a least one.
LEMMA Least ==
  ASSUME NEW T \in SUBSET Nat, T # {}
  PROVE  \E x \in T : \A y \in T : x <= y
<1>1. \E x \in T : \A y \in T : ~(<<y, x>> \in OpToRel(<, Nat))
  BY NatLessThanWellFounded, WFMin
<1>2. \A x, y \in Nat : y < x => <<y, x>> \in OpToRel(<, Nat)
  BY DEF OpToRel
<1>3. \E R : /\ \E x \in T : \A y \in T : ~(<<y, x>> \in R)
             /\ \A x, y \in Nat : y < x => <<y, x>> \in R
  BY <1>1, <1>2
<1>4. PICK R : /\ \E x \in T : \A y \in T : ~(<<y, x>> \in R)
               /\ \A x, y \in Nat : y < x => <<y, x>> \in R
  BY <1>3
<1>5. PICK x \in T : \A y \in T : ~(<<y, x>> \in R)
  BY <1>4
<1>6. \A y \in T : x <= y
  <2> SUFFICES ASSUME NEW y \in T PROVE x <= y
    OBVIOUS
  <2>1. x \in Nat /\ y \in Nat
    OBVIOUS
  <2>2. ~(y < x)
    BY <1>4, <1>5, <2>1
  <2> QED BY <2>1, <2>2
<1> QED BY <1>6

\* While an INGEST row of a window is unfinished the retention decision keeps everything
\* its scan reads: the floor is at or before the window, and the parent of the floor is kept.
LEMMA UnfinishedIsRetained ==
  ASSUME LaneInvariant, NEW s \in Seqs, IncompleteIngest(work, s), NEW t \in ScanRange(s)
  PROVE  ~Expirable(t)
<1> DEFINE candidates == {x \in Seqs : \/ snap[x].state = "BLOCKED"
                                       \/ \E w \in WorkIds : work[w].state \notin {"ABSENT", "SUCCEEDED"}
                                                             /\ work[w].seq = x}
<1>1. s \in candidates
  <2>1. PICK d \in Datasets : work[deterministic_ingest_work_id(d, s)].state \notin {"ABSENT", "SUCCEEDED"}
    BY DEF IncompleteIngest
  <2>2. PICK w \in WorkIds : w.kind = "INGEST" /\ w.key = s /\ work[w].state \notin {"ABSENT", "SUCCEEDED"}
    BY <2>1, DerivedIds DEF deterministic_ingest_work_id
  <2>3. work[w].seq = s
    BY <2>2 DEF LaneInvariant, SourceOrder
  <2> QED BY <2>2, <2>3
<1>2. candidates \subseteq Seqs /\ select_retention_floor =
        IF candidates = {} THEN None ELSE CHOOSE x \in candidates : \A y \in candidates : x <= y
  BY DEF select_retention_floor
<1> HIDE DEF candidates
<1>3. Seqs \subseteq Nat /\ \A x \in Seqs : x >= 1
  BY ConstantsAssumption DEF ConstantsAssumption, Seqs
<1>4. PICK f : f = select_retention_floor
  OBVIOUS
<1>5. f \in candidates /\ f <= s
  <2>1. \E x \in candidates : \A y \in candidates : x <= y
    BY <1>1, <1>2, <1>3, Least
  <2>2. f = CHOOSE x \in candidates : \A y \in candidates : x <= y
    BY <1>1, <1>2, <1>4
  <2>3. f \in candidates /\ \A y \in candidates : f <= y
    BY <2>1, <2>2
  <2> QED BY <1>1, <2>3
<1>6. f \in Nat /\ f >= 1 /\ s \in Nat /\ s >= 1 /\ f <= s
  BY <1>2, <1>3, <1>5
<1>7. None \notin Nat
  BY NullColumns DEF NullColumns
<1>8. PICK r : r = retention_decision(f)
  OBVIOUS
<1>9. r = IF f = 1 THEN f ELSE f - 1
  <2>1. f # None
    BY <1>6, <1>7
  <2>2. CASE f = 1
    BY <1>8, <2>2 DEF retention_decision, parent_snapshot
  <2>3. CASE f # 1
    <3>1. f - 1 \in Nat
      BY <1>6, <2>3
    <3>2. f - 1 # None
      BY <1>7, <3>1
    <3> QED BY <1>8, <2>1, <2>3, <3>2 DEF retention_decision, parent_snapshot
  <2> QED BY <2>2, <2>3
<1>10. r \in Nat /\ r # None
  <2>1. r \in Nat
    BY <1>6, <1>9
  <2> QED BY <1>7, <2>1
<1>11. t = s \/ (s # 1 /\ t = s - 1)
  BY <1>6 DEF ScanRange, parent_snapshot
<1>12. ~(t < r)
  BY <1>6, <1>9, <1>11
<1> QED BY <1>4, <1>8, <1>10, <1>12 DEF Expirable

\* A sealed window whose INGEST rows are finished stays finished.
LEMMA FinishedStays ==
  ASSUME LaneInvariant, [Next]_vars, NEW s \in Seqs, snap[s].state # "ABSENT", ~IncompleteIngest(work, s)
  PROVE  ~IncompleteIngest(work', s)
<1>1. ASSUME IngestSteady
      PROVE  ~IncompleteIngest(work', s)
  BY <1>1, IncompleteSame DEF IngestSteady
<1>2. ASSUME NEW c \in claims, complete_ingest(c), ApplyIngest(c)
      PROVE  ~IncompleteIngest(work', s)
  <2>1. CASE ~lease_is_current(c)
    BY <1>1, <1>2, <2>1 DEF complete_ingest, StaleResult, tables, IngestSteady
  <2>2. CASE lease_is_current(c)
    <3>1. \A w \in WorkIds : w.kind = "INGEST" => work'[w] = work[w] \/ work'[w].state = "SUCCEEDED"
      BY <1>2, <2>2, ApplyRows
    <3>2. \A d \in Datasets : LET w == deterministic_ingest_work_id(d, s) IN w \in WorkIds /\ w.kind = "INGEST"
      BY DerivedIds DEF deterministic_ingest_work_id
    <3>3. \A d \in Datasets : LET w == deterministic_ingest_work_id(d, s) IN
             work'[w] = work[w] \/ work'[w].state = "SUCCEEDED"
      BY <3>1, <3>2
    <3> QED BY <3>3 DEF IncompleteIngest
  <2> QED BY <2>1, <2>2
<1>3. ASSUME NEW t \in Seqs, NEW D \in SUBSET Datasets, enqueue_source_snapshot(t, D)
      PROVE  ~IncompleteIngest(work', s)
  <2>1. t # s
    BY <1>3 DEF enqueue_source_snapshot, ExtendsLatest
  <2>2. \A w \in WorkIds : w.kind = "INGEST" /\ w.key = s => work'[w] = work[w]
    BY <1>3, <2>1, SealRows
  <2> QED BY <2>2, IncompleteSame
<1>4. ASSUME NEW t \in Seqs, \/ enqueue_blocked_source_snapshot(t) \/ block_source_snapshot(t)
                             \/ retry_blocked_source_snapshot(t)
      PROVE  ~IncompleteIngest(work', s)
  <2>1. CASE UNCHANGED work
    BY <1>1, <2>1 DEF IngestSteady
  <2>2. CASE block_source_snapshot(t)
    <3>1. \A w \in WorkIds : \/ work'[w] = work[w]
                             \/ work[w].state \in Waiting /\ work'[w] = Released(work[w], "BLOCKED")
      BY <2>2 DEF block_source_snapshot
    <3>2. \A w \in WorkIds : Released(work[w], "BLOCKED").state = "BLOCKED"
      BY DEF Released, LaneInvariant, TypeOK, WorkRow
    <3>3. IngestSteady
      BY <3>1, <3>2 DEF IngestSteady, Finished, Waiting
    <3> QED BY <1>1, <3>3
  <2> QED BY <1>4, <2>1, <2>2 DEF enqueue_blocked_source_snapshot, retry_blocked_source_snapshot
<1>5. CASE claim_due_work
  BY <1>1, <1>5, ClaimSteady
<1>6. CASE OperatorStep
  BY <1>1, <1>6, OperatorSteady
<1>7. CASE \/ \E c \in claims : RunStep(c) \/ (ReconcileStep(c) /\ ~(complete_ingest(c) /\ ApplyIngest(c)))
           \/ FaultStep \/ UNCHANGED vars
  BY <1>1, <1>7, WorkerSteady
<1>8. CASE PlanStep
  BY <1>3, <1>4, <1>8 DEF PlanStep
<1> QED BY <1>2, <1>5, <1>6, <1>7, <1>8 DEF Next

\* A window the retention decision may have let go, or whose INGEST rows all succeeded, is
\* never ingested again (select_retention_floor, retry_blocked_work,
\* retry_blocked_source_snapshot).
THEOREM SpentWindowsStaySpent == Spec => ExpiredSourceIsNeverNeeded
<1>1. LaneInvariant /\ [Next]_vars =>
        [\A s \in Seqs :
           LET spent == IncompleteIngest(work, s) => \E t \in ScanRange(s) : Expirable(t) IN
           snap[s].state # "ABSENT" /\ spent => ~IncompleteIngest(work', s)]_vars
  <2> SUFFICES ASSUME LaneInvariant, [Next]_vars, NEW s \in Seqs, snap[s].state # "ABSENT",
                      IncompleteIngest(work, s) => \E t \in ScanRange(s) : Expirable(t)
               PROVE  ~IncompleteIngest(work', s)
    OBVIOUS
  <2>1. ~IncompleteIngest(work, s)
    BY UnfinishedIsRetained
  <2> QED BY <2>1, FinishedStays
<1> QED BY <1>1, LaneSafety, PTL DEF Spec, ExpiredSourceIsNeverNeeded

=============================================================================
