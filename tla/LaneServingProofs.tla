-------------------------- MODULE LaneServingProofs --------------------------
(* What the dataset lanes serve: every publication and every ingest        *)
(* pointer names a Lance version with exactly the source snapshots it      *)
(* claims, and the lanes implement the serving catalog, for every number   *)
(* of datasets, snapshots, workers, faults and repairs.                    *)
EXTENDS CatalogRefinement, DatasetLanesProofs

-----------------------------------------------------------------------------
(* The invariant.                                                          *)

Present(w) == work[w].state # "ABSENT"
Settled(w) == work[w].state \in {"ABSENT", "SUCCEEDED"}

\* An ingest at snapshot k has been let through: everything before it is done.
Started(d, k) ==
  /\ Present(deterministic_ingest_work_id(d, k))
  /\ \A j \in 1..(k - 1) : Settled(deterministic_ingest_work_id(d, j))

\* A URI workers of dataset d may write: its first, or that of a published rebuild.
Home(u, d) ==
  /\ u \in Uris /\ u.ds = d
  /\ u.key # None => pubs[deterministic_rebuild_work_id(d, u.key)] # None

Matches(w) == work[w].exp = Pointer(ds[w.ds])

\* A publication that can still be swapped in.
Live(w) == w.kind = "PUBLISH" /\ ~Settled(w) /\ Matches(w)

\* Where the candidate of a row is built.
Build(w) == IF w.kind = "REBUILD" THEN rebuild_uri(w) ELSE work[w].exp.uri

\* The frozen inputs of a publication or rebuild: an existing version, with exactly
\* the snapshots of its sequence, which is the applied one while they match.
FrozenInputs(w) ==
  w.kind # "INGEST" /\ Present(w) =>
    /\ Home(work[w].exp.uri, w.ds)
    /\ VersionHolds(work[w].exp.uri, work[w].exp.ver, work[w].seq)
    /\ work[w].seq \in 1..ds[w.ds].applied
    /\ work[w].exp.pub # None => pubs[work[w].exp.pub] # None
    /\ Matches(w) => work[w].seq = ds[w.ds].applied
    /\ w.kind = "PUBLISH" => work[w].seq = w.key

\* Nothing exists of a row not inserted yet.
Unborn(w) == ~Present(w) => pin[w] = 0 /\ pubs[w] = None

\* Until it is published, only the attempts of a rebuild write its candidate, and
\* every version of it holds exactly the frozen sequence.
Candidate(w) ==
  w.kind = "REBUILD" /\ pubs[w] = None =>
    \A i \in DOMAIN lance[rebuild_uri(w)] : Present(w) /\ lance[rebuild_uri(w)][i] = work[w].seq

Pinned(w) == pin[w] # 0 => w.kind # "INGEST" /\ pin[w] \in DOMAIN lance[Build(w)]

\* While a publication can be swapped in nothing newer reaches its URI.
LiveHolds(w) ==
  Live(w) =>
    /\ Contents(ds[w.ds].uri) = ds[w.ds].applied
    /\ pin[w] # 0 => lance[ds[w.ds].uri][pin[w]] = work[w].seq

Published(w) ==
  pubs[w] # None =>
    /\ w.kind # "INGEST" /\ work[w].state = "SUCCEEDED"
    /\ pubs[w].seq = work[w].seq /\ pubs[w].uri = Build(w) /\ pubs[w].ver = pin[w]
    /\ VersionHolds(pubs[w].uri, pubs[w].ver, pubs[w].seq)
    /\ w.kind = "REBUILD" => pubs[w].seq <= Contents(pubs[w].uri)

\* A publication made in the URI of a rebuild is later than that rebuild.
Succeeds(w) ==
  w.kind = "PUBLISH" /\ Present(w) /\ work[w].exp.uri.key # None =>
    pubs[deterministic_rebuild_work_id(w.ds, work[w].exp.uri.key)].seq < work[w].seq

RowHolds(w) ==
  /\ FrozenInputs(w) /\ Unborn(w) /\ Candidate(w) /\ Pinned(w)
  /\ LiveHolds(w) /\ Published(w) /\ Succeeds(w)

\* The ingest pointer: its version holds exactly what was applied, and anything newer
\* in the URI belongs to an ingest that was let through.
DatasetHolds(d) ==
  /\ Home(ds[d].uri, d)
  /\ ds[d].applied # 0 => VersionHolds(ds[d].uri, ds[d].ver, ds[d].applied)
  /\ ds[d].applied <= Contents(ds[d].uri)
  /\ Contents(ds[d].uri) > ds[d].applied => Started(d, Contents(ds[d].uri))
  /\ ds[d].pub # None => pubs[ds[d].pub] # None
  /\ ds[d].uri.key # None =>
       pubs[deterministic_rebuild_work_id(d, ds[d].uri.key)].seq <= ds[d].applied

\* A worker on an ingest, superseded or not.
IngestClaim(c) ==
  c.work.kind = "INGEST" =>
    /\ Started(c.work.ds, c.work.key)
    /\ Home(c.uri, c.work.ds)
    /\ c.stage \in {"claimed", "running", "writing", "written", "done"}
    /\ work[c.work].token = c.token /\ work[c.work].state = "RUNNING" => c.uri = work[c.work].exp.uri
    /\ c.stage \in {"written", "done"} => c.work.key <= Contents(c.uri)
    /\ c.stage = "done" /\ c.work.key > ds[c.work.ds].applied /\ c.uri = ds[c.work.ds].uri
         => VersionHolds(c.uri, c.out, c.work.key)
    /\ \A w \in WorkIds : Live(w) /\ w.ds = c.work.ds => c.work.key <= ds[w.ds].applied

\* A worker on a publication or a rebuild.
PublishClaim(c) ==
  c.work.kind # "INGEST" =>
    /\ Present(c.work)
    /\ c.uri = work[c.work].exp.uri /\ c.ver = work[c.work].exp.ver
    /\ c.stage \in {"claimed", "running", "building", "built", "pinned", "done"}
    /\ c.stage \in {"built", "pinned", "done"} =>
         /\ c.out \in DOMAIN lance[Build(c.work)]
         /\ Live(c.work) => lance[Build(c.work)][c.out] = work[c.work].seq
    /\ c.stage \in {"pinned", "done"} => pin[c.work] = c.out

\* A completion marker never runs ahead of the rows.
MarkersHold == \A u \in Uris : marker[u] <= Contents(u)

ServingInvariant ==
  /\ \A w \in WorkIds : RowHolds(w)
  /\ \A d \in Datasets : DatasetHolds(d)
  /\ \A c \in claims : IngestClaim(c) /\ PublishClaim(c)
  /\ MarkersHold

-----------------------------------------------------------------------------
(* Shapes.                                                                 *)

\* What the types say of a claim.
LEMMA ClaimShape ==
  ASSUME TypeOK, NEW c \in claims
  PROVE  /\ c \in Claim /\ c.work \in WorkIds /\ c.work.ds \in Datasets
         /\ c.uri \in Uris /\ c.out \in Nat /\ c.ver \in Nat /\ c.token \in Nat
         /\ c.work.kind = "INGEST" => c.work.key \in Seqs
                /\ c.work = deterministic_ingest_work_id(c.work.ds, c.work.key)
<1>1. c \in Claim /\ c.work \in WorkIds /\ c.uri \in Uris /\ c.out \in Nat /\ c.ver \in Nat /\ c.token \in Nat
  BY DEF TypeOK, Claim
<1>2. c.work.ds \in Datasets /\ (c.work.kind = "INGEST" => c.work.key \in Seqs)
  BY <1>1, WorkIdShape, IngestKey
<1>3. c.work.kind = "INGEST" => c.work = deterministic_ingest_work_id(c.work.ds, c.work.key)
  BY <1>1 DEF WorkIds, deterministic_ingest_work_id
<1> QED BY <1>1, <1>2, <1>3

\* The applied snapshot is a number.
LEMMA AppliedShape ==
  ASSUME TypeOK, NEW d \in Datasets
  PROVE  ds[d].applied \in Nat /\ ds[d].applied \in 0..MaxSeq /\ ds[d].uri \in Uris /\ ds[d].ver \in Nat
BY ConstantsAssumption DEF ConstantsAssumption, TypeOK, DatasetRow

\* The URI of a rebuild determines the rebuild, and is never a first URI.
LEMMA RebuildUri ==
  ASSUME NEW w \in WorkIds, w.kind = "REBUILD"
  PROVE  /\ rebuild_uri(w) \in Uris /\ rebuild_uri(w).ds = w.ds
         /\ rebuild_uri(w).key = w.key /\ w.key # None /\ w.ds \in Datasets
         /\ deterministic_rebuild_work_id(w.ds, w.key) = w
<1>1. w.key \in RebuildKeys /\ w.ds \in Datasets
  BY WorkIdShape
<1>2. w.key # None
  BY <1>1, ConstantsAssumption DEF ConstantsAssumption, RebuildKeys
<1>3. deterministic_rebuild_work_id(w.ds, w.key) = w
  BY DEF WorkIds, deterministic_rebuild_work_id
<1>4. rebuild_uri(w) \in Uris /\ rebuild_uri(w).ds = w.ds /\ rebuild_uri(w).key = w.key
  BY <1>1 DEF rebuild_uri, Uris
<1> QED BY <1>1, <1>2, <1>3, <1>4

\* A URI that is not a dataset's first one belongs to a rebuild.
LEMMA UriOwner ==
  ASSUME NEW u \in Uris, u.key # None
  PROVE  LET w == deterministic_rebuild_work_id(u.ds, u.key) IN
         w \in WorkIds /\ w.kind = "REBUILD" /\ rebuild_uri(w) = u
BY DEF Uris, WorkIds, deterministic_rebuild_work_id, rebuild_uri

\* A URI that nobody has published is no dataset's home.
LEMMA HomeIsOpen ==
  ASSUME NEW w \in WorkIds, w.kind = "REBUILD", pubs[w] = None, NEW d
  PROVE  ~Home(rebuild_uri(w), d)
BY RebuildUri DEF Home

\* The numbers of a store.
LEMMA StoreShape ==
  ASSUME TypeOK, NEW u \in Uris
  PROVE  /\ lance[u] \in Seq(0..MaxSeq) /\ DOMAIN lance[u] = 1..Len(lance[u])
         /\ Latest(u) \in Nat /\ Latest(u) = Len(lance[u]) /\ Contents(u) \in 0..MaxSeq
         /\ Contents(u) \in Nat /\ marker[u] \in Nat
         /\ Contents(u) # 0 => VersionHolds(u, Latest(u), Contents(u))
         /\ DOMAIN lance[u] # {} => VersionHolds(u, Latest(u), Contents(u))
         /\ Latest(u) > 0 => VersionHolds(u, Latest(u), Contents(u))
<1>1. lance[u] \in Seq(0..MaxSeq) /\ marker[u] \in 0..MaxSeq
  BY DEF TypeOK
<1>2. Contents(u) \in 0..MaxSeq /\ Latest(u) \in Nat
  BY ContentsType DEF TypeOK
<1>3. DOMAIN lance[u] = 1..Len(lance[u]) /\ Latest(u) = Len(lance[u])
  BY <1>1 DEF Latest
<1>4. marker[u] \in Nat /\ Contents(u) \in Nat
  BY <1>1, <1>2, ConstantsAssumption DEF ConstantsAssumption
<1>5. lance[u] # <<>> => VersionHolds(u, Latest(u), Contents(u))
  <2> SUFFICES ASSUME lance[u] # <<>> PROVE VersionHolds(u, Latest(u), Contents(u))
    OBVIOUS
  <2>1. Len(lance[u]) \in 1..Len(lance[u])
    BY <1>1
  <2> QED BY <1>3, <2>1 DEF VersionHolds, Contents
<1>6. lance[u] = <<>> => Contents(u) = 0 /\ DOMAIN lance[u] = {} /\ Latest(u) = 0
  BY <1>3 DEF Contents
<1> QED BY <1>1, <1>2, <1>3, <1>4, <1>5, <1>6

-----------------------------------------------------------------------------
(* Lance only grows.                                                       *)

\* No version is rewritten, and the latest one never loses a snapshot.
StoreGrows ==
  \A u \in Uris :
    /\ \A i \in DOMAIN lance[u] : i \in DOMAIN lance'[u] /\ lance'[u][i] = lance[u][i]
    /\ Contents(u) <= Contents(u)'

\* A commit adds one version to one URI.
LEMMA CommitEffect ==
  ASSUME TypeOK, NEW u \in Uris, NEW x \in 0..MaxSeq, Commit(u, x)
  PROVE  /\ \A v \in Uris : v # u => lance'[v] = lance[v] /\ Contents(v)' = Contents(v)
         /\ Contents(u)' = x /\ Latest(u)' = Latest(u) + 1
         /\ \A i \in DOMAIN lance[u] : i \in DOMAIN lance'[u] /\ lance'[u][i] = lance[u][i]
         /\ \A i \in DOMAIN lance'[u] : i \in DOMAIN lance[u] \/ lance'[u][i] = x
         /\ (Latest(u) + 1) \in DOMAIN lance'[u] /\ lance'[u][Latest(u) + 1] = x
<1> DEFINE old == lance[u]
           new == Append(old, x)
<1>1. old \in Seq(0..MaxSeq) /\ Len(old) \in Nat /\ DOMAIN old = 1..Len(old)
  BY DEF TypeOK
<1>2. /\ new \in Seq(0..MaxSeq) /\ Len(new) = Len(old) + 1 /\ DOMAIN new = 1..(Len(old) + 1)
      /\ new[Len(old) + 1] = x /\ \A i \in 1..Len(old) : new[i] = old[i]
  BY <1>1
<1>3. lance'[u] = new /\ \A v \in Uris : v # u => lance'[v] = lance[v]
  BY DEF Commit, TypeOK
<1>4. new # <<>>
  BY <1>1, <1>2
<1>5. Latest(u)' = Len(old) + 1 /\ Latest(u) = Len(old)
  BY <1>2, <1>3 DEF Latest
<1>6. Contents(u)' = x
  BY <1>2, <1>3, <1>4, <1>5 DEF Contents
<1>7. \A v \in Uris : v # u => Contents(v)' = Contents(v)
  BY <1>3 DEF Contents, Latest
<1> HIDE DEF new
<1>8. \A i \in DOMAIN new : i \in DOMAIN old \/ new[i] = x
  BY <1>1, <1>2
<1> QED BY <1>1, <1>2, <1>3, <1>5, <1>6, <1>7, <1>8

\* A commit that keeps what was there grows the store.
LEMMA CommitGrows ==
  ASSUME TypeOK, NEW u \in Uris, NEW x \in 0..MaxSeq, Commit(u, x), Contents(u) <= x
  PROVE  StoreGrows
<1> SUFFICES ASSUME NEW v \in Uris
             PROVE  /\ \A i \in DOMAIN lance[v] : i \in DOMAIN lance'[v] /\ lance'[v][i] = lance[v][i]
                    /\ Contents(v) <= Contents(v)'
  BY DEF StoreGrows
<1>1. CASE v = u
  BY <1>1, CommitEffect
<1>2. CASE v # u
  BY <1>2, CommitEffect, StoreShape
<1> QED BY <1>1, <1>2

\* An unchanged store grows, trivially.
LEMMA SameStoreGrows ==
  ASSUME TypeOK, UNCHANGED lance
  PROVE  StoreGrows /\ \A u \in Uris : Contents(u)' = Contents(u)
<1>1. \A u \in Uris : Contents(u)' = Contents(u)
  BY DEF Contents, Latest
<1> QED BY <1>1, StoreShape DEF StoreGrows

\* A version that holds a sequence holds it for ever.
LEMMA VersionStays ==
  ASSUME StoreGrows, NEW u \in Uris, NEW v, NEW s, VersionHolds(u, v, s)
  PROVE  VersionHolds(u, v, s)'
BY DEF StoreGrows, VersionHolds

-----------------------------------------------------------------------------
(* Steps outside any transaction.                                          *)

\* Lance steps leave every table, and with it every identity and status, alone.
LEMMA TableFrame ==
  ASSUME UNCHANGED tables
  PROVE  /\ \A w : (Present(w)' <=> Present(w)) /\ (Settled(w)' <=> Settled(w))
         /\ \A w : (Matches(w)' <=> Matches(w)) /\ (Live(w)' <=> Live(w)) /\ Build(w)' = Build(w)
         /\ \A d, k : Started(d, k)' <=> Started(d, k)
         /\ \A u, d : Home(u, d)' <=> Home(u, d)
<1>1. /\ \A w : (Present(w)' <=> Present(w)) /\ (Settled(w)' <=> Settled(w))
      /\ \A w : (Matches(w)' <=> Matches(w)) /\ Build(w)' = Build(w)
      /\ \A u, d : Home(u, d)' <=> Home(u, d)
  BY DEF tables, Present, Settled, Matches, Build, Home
<1>2. \A w : Live(w)' <=> Live(w)
  BY <1>1 DEF Live
<1>3. \A d, k : Started(d, k)' <=> Started(d, k)
  BY <1>1 DEF Started
<1> QED BY <1>1, <1>2, <1>3

\* ContentsType of the state after a step.
LEMMA ContentsTypeNext ==
  ASSUME lance' \in [Uris -> Seq(0..MaxSeq)], NEW u \in Uris
  PROVE  Contents(u)' \in 0..MaxSeq
<1>1. lance'[u] \in Seq(0..MaxSeq)
  OBVIOUS
<1>2. CASE lance'[u] = <<>>
  BY <1>1, <1>2, ConstantsAssumption DEF ConstantsAssumption, Contents, Latest
<1>3. CASE lance'[u] # <<>>
  <2>1. Len(lance'[u]) \in 1..Len(lance'[u]) /\ Len(lance'[u]) \in Nat
    BY <1>1, <1>3
  <2>2. lance'[u][Len(lance'[u])] \in 0..MaxSeq
    BY <1>1, <2>1, ElementOfSeq
  <2> QED BY <1>3, <2>1, <2>2 DEF Contents, Latest
<1> QED BY <1>2, <1>3

\* What a URI contains only grows, as a number.
LEMMA GrowingContents ==
  ASSUME LaneInvariant, LaneInvariant', StoreGrows, NEW u \in Uris
  PROVE  Contents(u) \in Nat /\ Contents(u)' \in Nat /\ Contents(u) <= Contents(u)'
<1>1. Contents(u) \in Nat
  BY StoreShape DEF LaneInvariant
<1>2. Contents(u)' \in 0..MaxSeq
  <2>1. lance' \in [Uris -> Seq(0..MaxSeq)]
    BY DEF LaneInvariant, TypeOK
  <2> QED BY <2>1, ContentsTypeNext
<1> QED BY <1>1, <1>2, ConstantsAssumption DEF ConstantsAssumption, StoreGrows

\* What a commit to a dataset's URI must respect: it adds no snapshot, or it adds one
\* that was let through while no publication can be swapped in.
HeadsHold ==
  \A d \in Datasets :
    LET u == ds[d].uri IN
    \/ Contents(u)' = Contents(u)
    \/ Started(d, Contents(u)') /\ \A w \in WorkIds : Live(w) => w.ds # d

\* A growing store keeps the promises of the rows.
LEMMA GrowthKeepsRows ==
  ASSUME LaneInvariant, LaneInvariant', ServingInvariant,
         UNCHANGED tables, UNCHANGED pin, StoreGrows, HeadsHold,
         NEW w \in WorkIds, Candidate(w)'
  PROVE  RowHolds(w)'
<1>1. FrozenInputs(w) /\ Unborn(w) /\ Pinned(w) /\ LiveHolds(w) /\ Published(w) /\ Succeeds(w)
  BY DEF ServingInvariant, RowHolds
<1>2. w.ds \in Datasets /\ DatasetHolds(w.ds) /\ ds[w.ds] \in DatasetRow
  BY WorkIdShape DEF ServingInvariant, LaneInvariant, TypeOK
<1>3. UNCHANGED work /\ UNCHANGED ds /\ UNCHANGED pubs /\ UNCHANGED pin
  BY DEF tables
<1>4. /\ Present(w)' <=> Present(w)
      /\ Matches(w)' <=> Matches(w)
      /\ Live(w)' <=> Live(w)
      /\ Build(w)' = Build(w)
      /\ \A u, d : Home(u, d)' <=> Home(u, d)
  BY TableFrame
<1>5. FrozenInputs(w)'
  <2> SUFFICES ASSUME w.kind # "INGEST", Present(w)
               PROVE  VersionHolds(work[w].exp.uri, work[w].exp.ver, work[w].seq)'
    BY <1>1, <1>3, <1>4 DEF FrozenInputs
  <2>1. work[w].exp.uri \in Uris /\ VersionHolds(work[w].exp.uri, work[w].exp.ver, work[w].seq)
    BY <1>1 DEF FrozenInputs, Home
  <2>2. VersionHolds(work[w].exp.uri, work[w].exp.ver, work[w].seq)'
    BY <1>3, <2>1 DEF StoreGrows, VersionHolds
  <2> QED BY <2>2
<1>6. Unborn(w)'
  BY <1>1, <1>3, <1>4 DEF Unborn
<1>7. Build(w) \in Uris \/ ~Present(w) \/ w.kind = "INGEST"
  BY <1>1, RebuildUri DEF Build, FrozenInputs, Home
<1>8. Pinned(w)'
  <2> SUFFICES ASSUME pin[w] # 0
               PROVE  pin[w] \in DOMAIN lance'[Build(w)]
    BY <1>1, <1>3, <1>4 DEF Pinned
  <2>1. pin[w] \in DOMAIN lance[Build(w)] /\ Build(w) \in Uris
    BY <1>1, <1>7 DEF Pinned, Unborn
  <2> QED BY <2>1 DEF StoreGrows
<1>9. LiveHolds(w)'
  <2> SUFFICES ASSUME Live(w)
               PROVE  /\ Contents(ds[w.ds].uri)' = ds[w.ds].applied
                      /\ pin[w] # 0 => lance'[ds[w.ds].uri][pin[w]] = work[w].seq
    BY <1>3, <1>4 DEF LiveHolds
  <2>1. Contents(ds[w.ds].uri)' = Contents(ds[w.ds].uri)
    BY <1>2 DEF HeadsHold
  <2>2. Build(w) = ds[w.ds].uri /\ ds[w.ds].uri \in Uris
    BY <1>2 DEF Live, Build, Matches, Pointer, DatasetHolds, Home
  <2> QED BY <1>1, <2>1, <2>2 DEF LiveHolds, Pinned, StoreGrows
<1>10. Published(w)'
  <2> SUFFICES ASSUME pubs[w] # None
               PROVE  /\ VersionHolds(pubs[w].uri, pubs[w].ver, pubs[w].seq)'
                      /\ w.kind = "REBUILD" => pubs[w].seq <= Contents(pubs[w].uri)'
    BY <1>1, <1>3, <1>4 DEF Published
  <2>1. pubs[w].uri \in Uris /\ pubs[w].seq \in Nat
    BY ConstantsAssumption DEF ConstantsAssumption, LaneInvariant, TypeOK, PublicationRow
  <2>2. VersionHolds(pubs[w].uri, pubs[w].ver, pubs[w].seq)'
    BY <1>1, <1>3, <2>1 DEF StoreGrows, VersionHolds, Published
  <2>3. \A u \in Uris : Contents(u) \in Nat /\ Contents(u)' \in Nat /\ Contents(u) <= Contents(u)'
    BY GrowingContents
  <2>4. w.kind = "REBUILD" => pubs[w].seq <= Contents(pubs[w].uri)
    BY <1>1 DEF Published
  <2>5. ASSUME w.kind = "REBUILD"
        PROVE  pubs[w].seq <= Contents(pubs[w].uri)'
    <3>1. PICK u \in Uris : u = pubs[w].uri /\ u = pubs'[w].uri
      BY <1>3, <2>1
    <3>2. pubs[w].seq <= Contents(u)
      BY <2>4, <2>5, <3>1 DEF Contents, Latest
    <3>3. pubs[w].seq <= Contents(u)'
      BY <2>1, <2>3, <3>2
    <3> QED BY <3>1, <3>3 DEF Contents, Latest
  <2> QED BY <1>3, <2>2, <2>5
<1>11. Succeeds(w)'
  BY <1>1, <1>3, <1>4 DEF Succeeds
<1> QED BY <1>5, <1>6, <1>8, <1>9, <1>10, <1>11 DEF RowHolds

\* It keeps the promises of the datasets.
LEMMA GrowthKeepsDatasets ==
  ASSUME LaneInvariant, LaneInvariant', ServingInvariant, UNCHANGED tables, StoreGrows, HeadsHold,
         NEW d \in Datasets
  PROVE  DatasetHolds(d)'
<1>1. DatasetHolds(d) /\ ds[d] \in DatasetRow
  BY DEF ServingInvariant, LaneInvariant, TypeOK
<1>2. ds'[d] = ds[d] /\ UNCHANGED pubs
  BY DEF tables
<1>3. PICK u \in Uris : u = ds[d].uri /\ u = ds'[d].uri
  BY <1>1, <1>2 DEF DatasetRow
<1>4. /\ Home(u, d) /\ (ds[d].applied # 0 => VersionHolds(u, ds[d].ver, ds[d].applied))
      /\ ds[d].applied <= Contents(u)
      /\ Contents(u) > ds[d].applied => Started(d, Contents(u))
  BY <1>1, <1>3 DEF DatasetHolds
<1>5. Contents(u) \in Nat /\ Contents(u)' \in Nat /\ Contents(u) <= Contents(u)' /\ ds[d].applied \in Nat
  BY <1>1, GrowingContents, ConstantsAssumption DEF ConstantsAssumption, DatasetRow
<1>6. Contents(u)' = Contents(u) \/ Started(d, Contents(u)')
  BY <1>3 DEF HeadsHold, Contents, Latest
<1>7. Home(u, d)'
  BY <1>2, <1>4, TableFrame
<1>8. ds[d].applied # 0 => VersionHolds(u, ds[d].ver, ds[d].applied)'
  BY <1>2, <1>4 DEF StoreGrows, VersionHolds
<1>9. ds[d].applied <= Contents(u)'
  BY <1>4, <1>5
<1>10. Contents(u)' > ds[d].applied => Started(d, Contents(u)')
  BY <1>4, <1>5, <1>6
<1>11. \A k : Started(d, k)' <=> Started(d, k)
  BY TableFrame
<1>12. Contents(u)' > ds[d].applied => Started(d, Contents(u))'
  <2>1. PICK k : k = Contents(u)'
    OBVIOUS
  <2>2. k > ds[d].applied => Started(d, k)'
    BY <1>10, <1>11, <2>1
  <2> QED BY <2>1, <2>2 DEF Started
<1>13. Home(ds[d].uri, d)' /\ Contents(ds[d].uri)' = Contents(u)'
  BY <1>3, <1>7 DEF Home, Contents, Latest
<1>14. ds'[d].applied # 0 => VersionHolds(ds[d].uri, ds[d].ver, ds[d].applied)'
  BY <1>2, <1>3, <1>8 DEF VersionHolds
<1>15. Contents(ds[d].uri)' > ds'[d].applied => Started(d, Contents(ds[d].uri))'
  BY <1>2, <1>12, <1>13 DEF Started
<1>16. /\ ds'[d].pub # None => pubs'[ds'[d].pub] # None
       /\ ds'[d].uri.key # None =>
            pubs'[deterministic_rebuild_work_id(d, ds'[d].uri.key)].seq <= ds'[d].applied
  BY <1>1, <1>2 DEF DatasetHolds
<1> QED BY <1>2, <1>9, <1>13, <1>14, <1>15, <1>16 DEF DatasetHolds

\* It keeps the promises of the workers that do not move.
LEMMA GrowthKeepsClaims ==
  ASSUME LaneInvariant, LaneInvariant', ServingInvariant, UNCHANGED tables, StoreGrows,
         NEW c \in claims, pin'[c.work] = pin[c.work] \/ pin[c.work] = 0
  PROVE  IngestClaim(c)' /\ PublishClaim(c)'
<1>1. IngestClaim(c) /\ PublishClaim(c)
  BY DEF ServingInvariant
<1>2. c.work \in WorkIds /\ c.uri \in Uris /\ c.work.ds \in Datasets /\ c.out \in Nat
      /\ (c.work.kind = "INGEST" => c.work.key \in Nat)
  BY ClaimShape, ConstantsAssumption DEF ConstantsAssumption, LaneInvariant, Seqs
<1>3. UNCHANGED work /\ UNCHANGED ds
  BY DEF tables
<1>4. /\ \A w : (Present(w)' <=> Present(w)) /\ (Live(w)' <=> Live(w)) /\ Build(w)' = Build(w)
      /\ \A d, k : Started(d, k)' <=> Started(d, k)
      /\ \A u, d : Home(u, d)' <=> Home(u, d)
  BY TableFrame
<1>5. IngestClaim(c)'
  <2> SUFFICES ASSUME c.work.kind = "INGEST" PROVE IngestClaim(c)'
    BY DEF IngestClaim
  <2>1. c.stage \in {"written", "done"} => c.work.key <= Contents(c.uri)'
    BY <1>1, <1>2, GrowingContents DEF IngestClaim
  <2>2. VersionHolds(c.uri, c.out, c.work.key) => VersionHolds(c.uri, c.out, c.work.key)'
    BY <1>2, VersionStays
  <2> QED BY <1>1, <1>3, <1>4, <2>1, <2>2 DEF IngestClaim
<1>6. PublishClaim(c)'
  <2> SUFFICES ASSUME c.work.kind # "INGEST" PROVE PublishClaim(c)'
    BY DEF PublishClaim
  <2>1. RowHolds(c.work)
    BY <1>2 DEF ServingInvariant
  <2>2. Present(c.work) /\ Build(c.work) \in Uris
    BY <1>1, <1>2, <2>1, RebuildUri DEF PublishClaim, Build, RowHolds, FrozenInputs, Home
  <2>3. c.stage \in {"built", "pinned", "done"} =>
          /\ c.out \in DOMAIN lance'[Build(c.work)]
          /\ Live(c.work) => lance'[Build(c.work)][c.out] = work[c.work].seq
    BY <1>1, <2>2 DEF PublishClaim, StoreGrows
  <2>4. c.stage \in {"built", "pinned", "done"} => c.out # 0
    <3>1. DOMAIN lance[Build(c.work)] = 1..Len(lance[Build(c.work)])
      BY <2>2, StoreShape DEF LaneInvariant
    <3> QED BY <1>1, <3>1 DEF PublishClaim
  <2>5. c.stage \in {"pinned", "done"} => pin'[c.work] = c.out
    BY <1>1, <2>4 DEF PublishClaim
  <2> QED BY <1>1, <1>3, <1>4, <2>3, <2>5 DEF PublishClaim
<1> QED BY <1>5, <1>6

\* A Lance step in which one worker moves on or stops.
LEMMA StoreStep ==
  ASSUME LaneInvariant, LaneInvariant', ServingInvariant, UNCHANGED tables, UNCHANGED pin,
         StoreGrows, HeadsHold, MarkersHold', \A w \in WorkIds : Candidate(w)',
         \A e \in claims' : e \in claims \/ (IngestClaim(e)' /\ PublishClaim(e)')
  PROVE  ServingInvariant'
<1>1. \A w \in WorkIds : RowHolds(w)'
  BY GrowthKeepsRows
<1>2. \A d \in Datasets : DatasetHolds(d)'
  BY GrowthKeepsDatasets
<1>3. \A e \in claims' : IngestClaim(e)' /\ PublishClaim(e)'
  BY GrowthKeepsClaims
<1> QED BY <1>1, <1>2, <1>3 DEF ServingInvariant

\* A step that leaves Lance alone.
LEMMA IdleStore ==
  ASSUME LaneInvariant, ServingInvariant, UNCHANGED tables, UNCHANGED lance
  PROVE  /\ StoreGrows /\ HeadsHold
         /\ UNCHANGED marker => MarkersHold'
         /\ \A w \in WorkIds : Candidate(w)'
<1>1. StoreGrows /\ \A u \in Uris : Contents(u)' = Contents(u)
  BY SameStoreGrows DEF LaneInvariant
<1>2. HeadsHold
  BY DEF HeadsHold, Contents, Latest, tables
<1>3. UNCHANGED marker => MarkersHold'
  BY <1>1 DEF MarkersHold, ServingInvariant
<1>4. \A w \in WorkIds : Candidate(w)'
  BY TableFrame DEF ServingInvariant, RowHolds, Candidate, tables
<1> QED BY <1>1, <1>2, <1>3, <1>4

\* The progress of a worker on an ingest.
LEMMA HeldIngest ==
  ASSUME LaneInvariant, ServingInvariant, UNCHANGED tables,
         NEW c \in claims, c.work.kind = "INGEST", NEW held,
         held.work = c.work, held.uri = c.uri, held.token = c.token,
         held.stage \in {"running", "writing", "written", "done"},
         held.stage \in {"written", "done"} => c.work.key <= Contents(c.uri)',
         held.stage = "done" /\ c.work.key > ds[c.work.ds].applied /\ c.uri = ds[c.work.ds].uri
           => VersionHolds(c.uri, held.out, c.work.key)'
  PROVE  IngestClaim(held)' /\ PublishClaim(held)'
<1>1. IngestClaim(c)
  BY DEF ServingInvariant
<1>2. UNCHANGED work /\ UNCHANGED ds
  BY DEF tables
<1>3. /\ \A w : Live(w)' <=> Live(w)
      /\ \A d, k : Started(d, k)' <=> Started(d, k)
      /\ \A u, d : Home(u, d)' <=> Home(u, d)
  BY TableFrame
<1>4. IngestClaim(held)'
  <2>1. Started(held.work.ds, held.work.key)' /\ Home(held.uri, held.work.ds)'
    BY <1>1, <1>3 DEF IngestClaim
  <2>2. held.stage \in {"written", "done"} => held.work.key <= Contents(held.uri)'
    OBVIOUS
  <2>3. held.stage = "done" /\ held.work.key > ds'[held.work.ds].applied /\ held.uri = ds'[held.work.ds].uri
          => VersionHolds(held.uri, held.out, held.work.key)'
    BY <1>2
  <2>4. \A w \in WorkIds : Live(w)' /\ w.ds = held.work.ds => held.work.key <= ds'[w.ds].applied
    BY <1>1, <1>2, <1>3 DEF IngestClaim
  <2>5. work'[held.work].token = held.token /\ work'[held.work].state = "RUNNING" => held.uri = work'[held.work].exp.uri
    BY <1>1, <1>2 DEF IngestClaim
  <2> QED BY <2>1, <2>2, <2>3, <2>4, <2>5 DEF IngestClaim
<1> QED BY <1>4 DEF PublishClaim

\* The progress of a worker on a publication or a rebuild.
LEMMA HeldPublish ==
  ASSUME LaneInvariant, ServingInvariant, UNCHANGED tables,
         NEW c \in claims, c.work.kind # "INGEST", NEW held,
         held.work = c.work, held.uri = c.uri, held.ver = c.ver,
         held.stage \in {"running", "building", "built", "pinned", "done"},
         held.stage \in {"built", "pinned", "done"} =>
           /\ held.out \in DOMAIN lance'[Build(c.work)]
           /\ Live(c.work) => lance'[Build(c.work)][held.out] = work[c.work].seq,
         held.stage \in {"pinned", "done"} => pin'[c.work] = held.out
  PROVE  IngestClaim(held)' /\ PublishClaim(held)'
<1>1. PublishClaim(c)
  BY DEF ServingInvariant
<1>2. UNCHANGED work
  BY DEF tables
<1>3. \A w : (Live(w)' <=> Live(w)) /\ (Present(w)' <=> Present(w)) /\ Build(w)' = Build(w)
  BY TableFrame
<1>4. PublishClaim(held)'
  <2>1. Present(held.work)' /\ held.uri = work'[held.work].exp.uri /\ held.ver = work'[held.work].exp.ver
    BY <1>1, <1>2, <1>3 DEF PublishClaim
  <2>2. held.stage \in {"built", "pinned", "done"} =>
          /\ held.out \in DOMAIN lance'[Build(held.work)']
          /\ Live(held.work)' => lance'[Build(held.work)'][held.out] = work'[held.work].seq
    BY <1>2, <1>3
  <2> QED BY <2>1, <2>2 DEF PublishClaim
<1> QED BY <1>4 DEF IngestClaim

\* What an unfinished ingest finds in its dataset's URI is at most its own snapshot:
\* anything newer would have needed this ingest to be done.
LEMMA NothingAhead ==
  ASSUME LaneInvariant, ServingInvariant, NEW c \in claims, c.work.kind = "INGEST",
         c.uri = ds[c.work.ds].uri, c.work.key > ds[c.work.ds].applied,
         c.work.key <= Contents(c.uri)
  PROVE  Contents(c.uri) = c.work.key
<1> DEFINE d == c.work.ds
           k == c.work.key
           x == Contents(c.uri)
<1>1. d \in Datasets /\ k \in Seqs /\ c.uri \in Uris /\ c.work = deterministic_ingest_work_id(d, k)
  BY ClaimShape DEF LaneInvariant
<1>2. x \in Nat /\ k \in Nat /\ ds[d].applied \in Nat /\ k \in 1..MaxSeq
  <2>1. x \in Nat
    BY <1>1, StoreShape DEF LaneInvariant
  <2>2. ds[d].applied \in Nat
    BY <1>1, AppliedShape DEF LaneInvariant
  <2>3. k \in Nat /\ k \in 1..MaxSeq
    BY <1>1, ConstantsAssumption DEF ConstantsAssumption, Seqs
  <2> QED BY <2>1, <2>2, <2>3
<1>3. Present(c.work)
  BY <1>1 DEF ServingInvariant, IngestClaim, Started
<1>4. x > ds[d].applied
  BY <1>2
<1>5. Started(d, x)
  BY <1>1, <1>4 DEF ServingInvariant, DatasetHolds
<1>6. SUFFICES ASSUME x # k PROVE FALSE
  OBVIOUS
<1>7. k \in 1..(x - 1)
  BY <1>2, <1>6
<1>8. work[c.work].state = "SUCCEEDED"
  BY <1>1, <1>3, <1>5, <1>7 DEF Started, Settled, Present
<1>9. k <= ds[d].applied
  BY <1>1, <1>3, <1>8 DEF LaneInvariant, AppliedPrefix, Present
<1> QED BY <1>2, <1>9

\* A commit of an ingest respects rebuild candidates and live publications: it goes
\* to a home URI, and brings a snapshot that was let through or nothing new.
LEMMA IngestCommit ==
  ASSUME LaneInvariant, LaneInvariant', ServingInvariant, UNCHANGED tables,
         NEW c \in claims, c.work.kind = "INGEST",
         NEW x, x = Contents(c.uri) \/ (x = c.work.key /\ Contents(c.uri) < x), Commit(c.uri, x)
  PROVE  /\ StoreGrows /\ HeadsHold /\ \A w \in WorkIds : Candidate(w)'
         /\ Contents(c.uri)' = x
<1>1. c.work.ds \in Datasets /\ c.work.key \in Seqs /\ c.uri \in Uris
  BY ClaimShape DEF LaneInvariant
<1>2. IngestClaim(c)
  BY DEF ServingInvariant
<1>3. Contents(c.uri) \in 0..MaxSeq /\ c.work.key \in 0..MaxSeq /\ Contents(c.uri) \in Nat /\ c.work.key \in Nat
  BY <1>1, StoreShape, ConstantsAssumption DEF ConstantsAssumption, LaneInvariant, Seqs
<1>4. x \in 0..MaxSeq /\ Contents(c.uri) <= x
  BY <1>3
<1>5. TypeOK
  BY DEF LaneInvariant
<1>6. StoreGrows
  BY <1>1, <1>4, <1>5, CommitGrows
<1>7. /\ \A v \in Uris : v # c.uri => lance'[v] = lance[v] /\ Contents(v)' = Contents(v)
      /\ Contents(c.uri)' = x
  BY <1>1, <1>4, <1>5, CommitEffect
<1>8. \A w \in WorkIds : Candidate(w)'
  <2> SUFFICES ASSUME NEW w \in WorkIds, w.kind = "REBUILD", pubs[w] = None
               PROVE  Candidate(w)'
    BY DEF Candidate, tables
  <2>1. rebuild_uri(w) # c.uri /\ rebuild_uri(w) \in Uris
    BY <1>2, HomeIsOpen, RebuildUri DEF IngestClaim
  <2>2. Candidate(w)
    BY DEF ServingInvariant, RowHolds
  <2> QED BY <1>7, <2>1, <2>2, TableFrame DEF Candidate, tables
<1>9. HeadsHold
  <2> SUFFICES ASSUME NEW d \in Datasets, Contents(ds[d].uri)' # Contents(ds[d].uri)
               PROVE  /\ Started(d, Contents(ds[d].uri)')
                      /\ \A w \in WorkIds : Live(w) => w.ds # d
    BY DEF HeadsHold
  <2>1. PICK u \in Uris : u = ds[d].uri /\ u = ds'[d].uri /\ u.ds = d
    BY AppliedShape DEF LaneInvariant, tables, ServingInvariant, DatasetHolds, Home
  <2>2. Contents(u)' # Contents(u) /\ Contents(ds[d].uri)' = Contents(u)'
    BY <2>1 DEF Contents, Latest
  <2>3. u = c.uri
    BY <1>7, <2>2
  <2>4. x = c.work.key /\ Contents(c.uri) < x /\ d = c.work.ds
    BY <1>2, <1>7, <2>1, <2>2, <2>3 DEF IngestClaim, Home
  <2>5. Started(d, Contents(ds[d].uri)')
    BY <1>2, <1>7, <2>2, <2>3, <2>4 DEF IngestClaim
  <2>6. ASSUME NEW w \in WorkIds, Live(w), w.ds = d
        PROVE  FALSE
    <3>1. c.work.key <= ds[d].applied
      BY <1>2, <2>4, <2>6 DEF IngestClaim
    <3>2. ds[d].applied <= Contents(c.uri)
      BY <2>1, <2>3 DEF ServingInvariant, DatasetHolds
    <3>3. ds[d].applied \in Nat
      BY AppliedShape DEF LaneInvariant
    <3> QED BY <1>3, <2>4, <3>1, <3>2, <3>3
  <2> QED BY <2>5, <2>6
<1> QED BY <1>6, <1>7, <1>8, <1>9

\* An ingest worker that finds its window applied, or goes on to write it.
LEMMA MarkerReadServes ==
  ASSUME LaneInvariant, LaneInvariant', ServingInvariant, NEW c \in claims, applied_completion_marker(c)
  PROVE  ServingInvariant'
<1>1. c.work.kind = "INGEST" /\ UNCHANGED tables /\ UNCHANGED lance /\ UNCHANGED marker /\ UNCHANGED pin
  BY DEF applied_completion_marker, store
<1>2. StoreGrows /\ HeadsHold /\ MarkersHold' /\ \A w \in WorkIds : Candidate(w)'
  BY <1>1, IdleStore
<1>3. c \in Claim /\ c.work.key \in Nat /\ c.uri \in Uris /\ c.work.ds \in Datasets
  BY <1>1, ClaimShape, ConstantsAssumption DEF ConstantsAssumption, LaneInvariant, Seqs
<1>4. PICK held : /\ claims' = (claims \ {c}) \cup {held}
                  /\ held = IF marker[c.uri] >= c.work.key
                            THEN [c EXCEPT !.stage = "done", !.out = Latest(c.uri)]
                            ELSE [c EXCEPT !.stage = "writing"]
  BY DEF applied_completion_marker, Hold
<1>5. /\ held.work = c.work /\ held.uri = c.uri /\ held.token = c.token
      /\ held.stage \in {"writing", "done"}
      /\ held.stage = "done" => held.out = Latest(c.uri) /\ marker[c.uri] >= c.work.key
  BY <1>3, <1>4 DEF Claim
<1>6. Contents(c.uri)' = Contents(c.uri) /\ Contents(c.uri) \in Nat /\ marker[c.uri] \in Nat
  BY <1>1, <1>3, StoreShape DEF LaneInvariant, Contents, Latest
<1>7. held.stage = "done" => c.work.key <= Contents(c.uri) /\ c.work.key <= Contents(c.uri)'
  BY <1>3, <1>5, <1>6 DEF ServingInvariant, MarkersHold
<1>8. held.stage = "done" /\ c.work.key > ds[c.work.ds].applied /\ c.uri = ds[c.work.ds].uri
        => VersionHolds(c.uri, held.out, c.work.key)'
  <2> SUFFICES ASSUME held.stage = "done", c.work.key > ds[c.work.ds].applied, c.uri = ds[c.work.ds].uri
               PROVE  VersionHolds(c.uri, held.out, c.work.key)'
    OBVIOUS
  <2>1. Contents(c.uri) = c.work.key
    BY <1>1, <1>7, NothingAhead
  <2>2. c.work.key > 0
    BY <1>3, AppliedShape DEF LaneInvariant
  <2>3. VersionHolds(c.uri, Latest(c.uri), c.work.key)
    BY <1>3, <2>1, <2>2, StoreShape DEF LaneInvariant
  <2> QED BY <1>1, <1>5, <2>3 DEF VersionHolds
<1>9. IngestClaim(held)' /\ PublishClaim(held)'
  BY <1>1, <1>5, <1>7, <1>8, HeldIngest
<1> QED BY <1>1, <1>2, <1>4, <1>9, StoreStep

\* The terminal write of a window.
LEMMA WriteServes ==
  ASSUME LaneInvariant, LaneInvariant', ServingInvariant, NEW c \in claims, write_terminal(c)
  PROVE  ServingInvariant'
<1>1. c.work.kind = "INGEST" /\ UNCHANGED tables /\ UNCHANGED marker /\ UNCHANGED pin
  BY DEF write_terminal
<1>2. c \in Claim /\ c.work.key \in Nat /\ c.uri \in Uris
  BY <1>1, ClaimShape, ConstantsAssumption DEF ConstantsAssumption, LaneInvariant, Seqs
<1>3. PICK held : claims' = (claims \ {c}) \cup {held} /\ held = [c EXCEPT !.stage = "written"]
  BY DEF write_terminal, Hold
<1>4. held.work = c.work /\ held.uri = c.uri /\ held.token = c.token /\ held.stage = "written"
  BY <1>2, <1>3 DEF Claim
<1>5. /\ StoreGrows /\ HeadsHold /\ \A w \in WorkIds : Candidate(w)'
      /\ c.work.key <= Contents(c.uri)'
  <2>1. CASE Contents(c.uri) < c.work.key
    BY <1>1, <1>2, <2>1, IngestCommit DEF write_terminal
  <2>2. CASE ~(Contents(c.uri) < c.work.key)
    <3>1. UNCHANGED lance
      BY <2>2 DEF write_terminal
    <3>2. Contents(c.uri)' = Contents(c.uri) /\ Contents(c.uri) \in Nat
      BY <1>2, <3>1, StoreShape DEF LaneInvariant, Contents, Latest
    <3>3. c.work.key <= Contents(c.uri)'
      BY <1>2, <2>2, <3>2
    <3> QED BY <1>1, <3>1, <3>3, IdleStore
  <2> QED BY <2>1, <2>2
<1>6. MarkersHold'
  <2>1. \A u \in Uris : Contents(u) \in Nat /\ Contents(u)' \in Nat /\ Contents(u) <= Contents(u)' /\ marker[u] \in Nat
    BY <1>5, GrowingContents, StoreShape DEF LaneInvariant
  <2> QED BY <1>1, <2>1 DEF MarkersHold, ServingInvariant
<1>7. IngestClaim(held)' /\ PublishClaim(held)'
  BY <1>1, <1>4, <1>5, HeldIngest
<1> QED BY <1>1, <1>3, <1>5, <1>6, <1>7, StoreStep

\* The completion marker of a window.
LEMMA FinalizeServes ==
  ASSUME LaneInvariant, LaneInvariant', ServingInvariant, NEW c \in claims, finalize_completion_marker(c)
  PROVE  ServingInvariant'
<1>1. c.work.kind = "INGEST" /\ UNCHANGED tables /\ UNCHANGED pin /\ c.stage = "written"
  BY DEF finalize_completion_marker
<1>2. c \in Claim /\ c.work.key \in Nat /\ c.uri \in Uris /\ c.work.ds \in Datasets
  BY <1>1, ClaimShape, ConstantsAssumption DEF ConstantsAssumption, LaneInvariant, Seqs
<1>3. c.work.key <= Contents(c.uri) /\ Contents(c.uri) \in Nat /\ marker[c.uri] \in Nat
  BY <1>1, <1>2, StoreShape DEF ServingInvariant, IngestClaim, LaneInvariant
<1>4. \E out : /\ claims' = (claims \ {c}) \cup {[c EXCEPT !.stage = "done", !.out = out]}
               /\ StoreGrows /\ HeadsHold /\ MarkersHold' /\ (\A w \in WorkIds : Candidate(w)')
               /\ Contents(c.uri)' = Contents(c.uri)
               /\ Contents(c.uri) # 0 => VersionHolds(c.uri, out, Contents(c.uri))'
  <2>1. CASE marker[c.uri] >= c.work.key
    <3>1. UNCHANGED lance /\ UNCHANGED marker
      BY <2>1 DEF finalize_completion_marker
    <3>2. claims' = (claims \ {c}) \cup {[c EXCEPT !.stage = "done", !.out = Latest(c.uri)]}
      BY <2>1 DEF finalize_completion_marker, Hold
    <3>3. Contents(c.uri)' = Contents(c.uri)
      BY <3>1 DEF Contents, Latest
    <3>4. Contents(c.uri) # 0 => VersionHolds(c.uri, Latest(c.uri), Contents(c.uri))
      BY <1>2, StoreShape DEF LaneInvariant
    <3>6. PICK out : out = Latest(c.uri)
      OBVIOUS
    <3>7. Contents(c.uri) # 0 => VersionHolds(c.uri, out, Contents(c.uri))'
      BY <3>1, <3>3, <3>4, <3>6 DEF VersionHolds
    <3>8. StoreGrows /\ HeadsHold /\ MarkersHold' /\ \A w \in WorkIds : Candidate(w)'
      BY <1>1, <3>1, IdleStore
    <3> QED BY <3>2, <3>3, <3>6, <3>7, <3>8
  <2>2. CASE ~(marker[c.uri] >= c.work.key)
    <3>1. /\ Commit(c.uri, Contents(c.uri)) /\ marker' = [marker EXCEPT ![c.uri] = c.work.key]
          /\ claims' = (claims \ {c}) \cup {[c EXCEPT !.stage = "done", !.out = Latest(c.uri) + 1]}
      BY <2>2 DEF finalize_completion_marker, Hold
    <3>2. PICK x : x = Contents(c.uri)
      OBVIOUS
    <3>3. StoreGrows /\ HeadsHold /\ (\A w \in WorkIds : Candidate(w)') /\ Contents(c.uri)' = x
      BY <1>1, <3>1, <3>2, IngestCommit
    <3>4. x \in 0..MaxSeq /\ Commit(c.uri, x) /\ TypeOK
      BY <1>2, <3>1, <3>2, StoreShape DEF LaneInvariant
    <3>5. PICK out : out = Latest(c.uri) + 1
      OBVIOUS
    <3>6. out \in DOMAIN lance'[c.uri] /\ lance'[c.uri][out] = x
      BY <1>2, <3>4, <3>5, CommitEffect
    <3>7. VersionHolds(c.uri, out, Contents(c.uri))'
      BY <3>3, <3>6 DEF VersionHolds
    <3>8. MarkersHold'
      <4> SUFFICES ASSUME NEW u \in Uris PROVE marker'[u] <= Contents(u)'
        BY DEF MarkersHold
      <4>1. CASE u = c.uri
        BY <1>2, <1>3, <3>1, <3>2, <3>3, <4>1 DEF LaneInvariant, TypeOK
      <4>2. CASE u # c.uri
        <5>1. marker'[u] = marker[u] /\ marker[u] <= Contents(u)
          BY <1>2, <3>1, <4>2 DEF LaneInvariant, TypeOK, ServingInvariant, MarkersHold
        <5>2. Contents(u)' = Contents(u)
          BY <1>2, <3>4, <4>2, CommitEffect
        <5> QED BY <5>1, <5>2
      <4> QED BY <4>1, <4>2
    <3> QED BY <3>1, <3>2, <3>3, <3>5, <3>7, <3>8
  <2> QED BY <2>1, <2>2
<1>5. PICK out : /\ claims' = (claims \ {c}) \cup {[c EXCEPT !.stage = "done", !.out = out]}
                 /\ StoreGrows /\ HeadsHold /\ MarkersHold' /\ (\A w \in WorkIds : Candidate(w)')
                 /\ Contents(c.uri)' = Contents(c.uri)
                 /\ Contents(c.uri) # 0 => VersionHolds(c.uri, out, Contents(c.uri))'
  BY <1>4
<1>6. PICK held : held = [c EXCEPT !.stage = "done", !.out = out]
  OBVIOUS
<1>7. held.work = c.work /\ held.uri = c.uri /\ held.token = c.token /\ held.stage = "done" /\ held.out = out
  BY <1>2, <1>6 DEF Claim
<1>8. c.work.key > ds[c.work.ds].applied /\ c.uri = ds[c.work.ds].uri => VersionHolds(c.uri, out, c.work.key)'
  <2> SUFFICES ASSUME c.work.key > ds[c.work.ds].applied, c.uri = ds[c.work.ds].uri
               PROVE  VersionHolds(c.uri, out, c.work.key)'
    OBVIOUS
  <2>1. Contents(c.uri) = c.work.key
    BY <1>1, <1>3, NothingAhead
  <2>2. c.work.key # 0
    BY <1>2, AppliedShape DEF LaneInvariant
  <2>3. Contents(c.uri)' = c.work.key /\ VersionHolds(c.uri, out, Contents(c.uri))'
    BY <1>5, <2>1, <2>2
  <2> QED BY <2>3 DEF VersionHolds
<1>9. IngestClaim(held)' /\ PublishClaim(held)'
  BY <1>1, <1>3, <1>5, <1>7, <1>8, HeldIngest
<1> QED BY <1>1, <1>5, <1>6, <1>9, StoreStep

\* Where a worker builds the candidate of its row, and what it reads there.
LEMMA CandidateShape ==
  ASSUME LaneInvariant, ServingInvariant, NEW c \in claims, c.work.kind # "INGEST"
  PROVE  LET w == c.work IN
         /\ CandidateUri(c) = Build(w) /\ Build(w) \in Uris /\ Present(w)
         /\ VersionHolds(c.uri, c.ver, work[w].seq) /\ work[w].seq \in Nat /\ work[w].seq >= 1
         /\ w.kind # "REBUILD" => Home(Build(w), w.ds)
         /\ Live(w) => Build(w) = ds[w.ds].uri /\ Contents(Build(w)) = work[w].seq
<1> DEFINE w == c.work
<1>1. w \in WorkIds /\ w.ds \in Datasets /\ w.kind # "INGEST"
  BY ClaimShape DEF LaneInvariant
<1>2. PublishClaim(c) /\ RowHolds(w)
  BY <1>1 DEF ServingInvariant
<1>3. Present(w) /\ c.uri = work[w].exp.uri /\ c.ver = work[w].exp.ver
  BY <1>2 DEF PublishClaim
<1>4. FrozenInputs(w) /\ LiveHolds(w)
  BY <1>2 DEF RowHolds
<1>5. CandidateUri(c) = Build(w)
  BY <1>3 DEF CandidateUri, Build
<1>6. /\ Home(work[w].exp.uri, w.ds) /\ VersionHolds(c.uri, c.ver, work[w].seq)
      /\ work[w].seq \in 1..ds[w.ds].applied
  BY <1>1, <1>3, <1>4 DEF FrozenInputs
<1>7. work[w].seq \in Nat /\ work[w].seq >= 1
  BY <1>1, <1>6, AppliedShape DEF LaneInvariant
<1>8. Build(w) \in Uris /\ (w.kind # "REBUILD" => Home(Build(w), w.ds))
  BY <1>1, <1>6, RebuildUri DEF Build, Home
<1>9. Live(w) => Build(w) = ds[w.ds].uri /\ Contents(Build(w)) = work[w].seq
  BY <1>1, <1>3, <1>4 DEF Live, Build, Matches, Pointer, LiveHolds, FrozenInputs
<1> QED BY <1>3, <1>5, <1>6, <1>7, <1>8, <1>9

\* A rebuild brings its candidate exactly the frozen sequence while it is unpublished,
\* and nothing new afterwards; a publication compacts what is there.
LEMMA CandidateContentsExact ==
  ASSUME LaneInvariant, ServingInvariant, NEW c \in claims, c.work.kind # "INGEST"
  PROVE  LET w == c.work
             u == Build(w) IN
         /\ CandidateContents(c) \in 0..MaxSeq /\ Contents(u) <= CandidateContents(c)
         /\ w.kind = "REBUILD" /\ pubs[w] = None => CandidateContents(c) = work[w].seq
         /\ ~(w.kind = "REBUILD" /\ pubs[w] = None) => CandidateContents(c) = Contents(u)
<1> DEFINE w == c.work
           u == Build(w)
           s == work[w].seq
<1>1. w \in WorkIds /\ c.uri \in Uris
  BY ClaimShape DEF LaneInvariant
<1>2. /\ CandidateUri(c) = u /\ u \in Uris /\ Present(w)
      /\ lance[c.uri][c.ver] = s /\ s \in Nat /\ s >= 1
  BY CandidateShape DEF VersionHolds
<1>3. /\ Contents(u) \in Nat /\ Contents(u) \in 0..MaxSeq
      /\ Contents(u) # 0 => VersionHolds(u, Latest(u), Contents(u))
  BY <1>2, StoreShape DEF LaneInvariant
<1>4. s \in 0..MaxSeq
  BY <1>1 DEF LaneInvariant, TypeOK, WorkRow
<1>5. CandidateContents(c) = IF w.kind = "REBUILD" /\ s > Contents(u) THEN s ELSE Contents(u)
  BY <1>2 DEF CandidateContents
<1>6. CandidateContents(c) \in 0..MaxSeq /\ Contents(u) <= CandidateContents(c)
  BY <1>2, <1>3, <1>4, <1>5
<1>7. RowHolds(w)
  BY <1>1 DEF ServingInvariant
<1>8. ASSUME w.kind = "REBUILD", pubs[w] = None
      PROVE  CandidateContents(c) = s
  <2>1. Contents(u) # 0 => Contents(u) = s
    BY <1>3, <1>7, <1>8 DEF RowHolds, Candidate, VersionHolds, Build
  <2> QED BY <1>2, <1>3, <1>5, <1>8, <2>1
<1>9. ASSUME ~(w.kind = "REBUILD" /\ pubs[w] = None)
      PROVE  CandidateContents(c) = Contents(u)
  <2>1. CASE w.kind = "REBUILD"
    <3>1. pubs[w].seq = s /\ pubs[w].uri = u /\ pubs[w].seq <= Contents(pubs[w].uri)
      BY <1>7, <1>9, <2>1 DEF RowHolds, Published
    <3>2. s <= Contents(u)
      BY <3>1
    <3>3. ~(s > Contents(u))
      BY <1>2, <1>3, <3>2
    <3> QED BY <1>5, <3>3
  <2>2. CASE w.kind # "REBUILD"
    BY <1>5, <2>2
  <2> QED BY <2>1, <2>2
<1> QED BY <1>6, <1>8, <1>9

\* A commit of a candidate respects the other candidates and the datasets' URIs.
LEMMA CandidateCommit ==
  ASSUME LaneInvariant, LaneInvariant', ServingInvariant, UNCHANGED tables,
         NEW c \in claims, c.work.kind # "INGEST", Commit(Build(c.work), CandidateContents(c))
  PROVE  /\ StoreGrows /\ HeadsHold /\ \A v \in WorkIds : Candidate(v)'
         /\ (Latest(Build(c.work)) + 1) \in DOMAIN lance'[Build(c.work)]
         /\ Live(c.work) => lance'[Build(c.work)][Latest(Build(c.work)) + 1] = work[c.work].seq
<1> DEFINE w == c.work
<1>0. PICK u, x : u = Build(w) /\ x = CandidateContents(c)
  OBVIOUS
<1>1. w \in WorkIds /\ w.ds \in Datasets
  BY ClaimShape DEF LaneInvariant
<1>2. /\ u \in Uris /\ Present(w) /\ (w.kind # "REBUILD" => Home(u, w.ds))
      /\ Live(w) => Contents(u) = work[w].seq
  BY <1>0, CandidateShape
<1>3. /\ x \in 0..MaxSeq /\ Contents(u) <= x
      /\ w.kind = "REBUILD" /\ pubs[w] = None => x = work[w].seq
      /\ ~(w.kind = "REBUILD" /\ pubs[w] = None) => x = Contents(u)
  BY <1>0, CandidateContentsExact
<1>4. TypeOK
  BY DEF LaneInvariant
<1>5. Commit(u, x)
  BY <1>0
<1>6. StoreGrows
  BY <1>2, <1>3, <1>4, <1>5, CommitGrows
<1>7. /\ \A v \in Uris : v # u => lance'[v] = lance[v] /\ Contents(v)' = Contents(v)
      /\ Contents(u)' = x
      /\ \A i \in DOMAIN lance'[u] : (i \in DOMAIN lance[u] /\ lance'[u][i] = lance[u][i]) \/ lance'[u][i] = x
      /\ (Latest(u) + 1) \in DOMAIN lance'[u] /\ lance'[u][Latest(u) + 1] = x
  BY <1>2, <1>3, <1>4, <1>5, CommitEffect
<1>8. ASSUME NEW v \in WorkIds
      PROVE  Candidate(v)'
  <2> SUFFICES ASSUME v.kind = "REBUILD", pubs[v] = None
               PROVE  Candidate(v)'
    BY DEF Candidate, tables
  <2>1. Candidate(v) /\ rebuild_uri(v) \in Uris
    BY RebuildUri DEF ServingInvariant, RowHolds
  <2>2. CASE rebuild_uri(v) # u
    BY <1>7, <2>1, <2>2, TableFrame DEF Candidate, tables
  <2>3. CASE rebuild_uri(v) = u
    <3>1. w.kind = "REBUILD"
      BY <1>2, <2>3, HomeIsOpen
    <3>2. v = w
      BY <1>0, <1>1, <2>3, <3>1, RebuildUri DEF Build
    <3>3. \A i \in DOMAIN lance'[u] : lance'[u][i] = work[w].seq
      BY <1>3, <1>7, <2>1, <2>3, <3>1, <3>2 DEF Candidate
    <3> QED BY <1>2, <2>3, <3>2, <3>3, TableFrame DEF Candidate, tables
  <2> QED BY <2>2, <2>3
<1>9. HeadsHold
  <2> SUFFICES ASSUME NEW d \in Datasets, Contents(ds[d].uri)' # Contents(ds[d].uri)
               PROVE  FALSE
    BY DEF HeadsHold
  <2>1. PICK h \in Uris : h = ds[d].uri /\ h = ds'[d].uri /\ Home(h, d)
    BY AppliedShape DEF LaneInvariant, tables, ServingInvariant, DatasetHolds
  <2>2. Contents(h)' # Contents(h)
    BY <2>1 DEF Contents, Latest
  <2>3. h = u /\ x # Contents(u)
    BY <1>7, <2>2
  <2>4. w.kind = "REBUILD" /\ pubs[w] = None
    BY <1>3, <2>3
  <2> QED BY <1>0, <1>1, <2>1, <2>3, <2>4, HomeIsOpen DEF Build
<1>10. Live(w) => x = work[w].seq
  BY <1>2, <1>3
<1> QED BY <1>0, <1>6, <1>7, <1>8, <1>9, <1>10

\* A worker that has built version out of its candidate.
LEMMA BuiltServes ==
  ASSUME LaneInvariant, LaneInvariant', ServingInvariant,
         UNCHANGED tables, UNCHANGED marker, UNCHANGED pin,
         StoreGrows, HeadsHold, \A v \in WorkIds : Candidate(v)',
         NEW c \in claims, c.work.kind # "INGEST", NEW out,
         claims' = (claims \ {c}) \cup {[c EXCEPT !.stage = "built", !.out = out]},
         out \in DOMAIN lance'[Build(c.work)],
         Live(c.work) => lance'[Build(c.work)][out] = work[c.work].seq
  PROVE  ServingInvariant'
<1>1. c \in Claim
  BY ClaimShape DEF LaneInvariant
<1>2. PICK held : held = [c EXCEPT !.stage = "built", !.out = out]
  OBVIOUS
<1>3. held.work = c.work /\ held.uri = c.uri /\ held.ver = c.ver /\ held.stage = "built" /\ held.out = out
  BY <1>1, <1>2 DEF Claim
<1>4. IngestClaim(held)' /\ PublishClaim(held)'
  BY <1>3, HeldPublish
<1>5. MarkersHold'
  <2>1. \A u \in Uris : Contents(u) \in Nat /\ Contents(u)' \in Nat /\ Contents(u) <= Contents(u)' /\ marker[u] \in Nat
    BY GrowingContents, StoreShape DEF LaneInvariant
  <2> QED BY <2>1 DEF MarkersHold, ServingInvariant
<1> QED BY <1>2, <1>4, <1>5, StoreStep

\* Building a candidate: canonical_rebuild, maintenance and indexing.
LEMMA BuildServes ==
  ASSUME LaneInvariant, LaneInvariant', ServingInvariant, NEW c \in claims, build_candidate(c)
  PROVE  ServingInvariant'
<1> DEFINE u == Build(c.work)
<1>1. UNCHANGED tables /\ UNCHANGED marker /\ UNCHANGED pin /\ c.stage = "building"
  BY DEF build_candidate
<1>2. c.work.kind # "INGEST"
  BY <1>1 DEF ServingInvariant, IngestClaim
<1>3. CandidateUri(c) = u /\ u \in Uris /\ (Live(c.work) => Contents(u) = work[c.work].seq)
  BY <1>2, CandidateShape
<1>4. CASE /\ Commit(u, CandidateContents(c))
           /\ Hold(c, [c EXCEPT !.stage = "built", !.out = Latest(u) + 1])
  <2>1. PICK out : out = Latest(u) + 1
    OBVIOUS
  <2>2. claims' = (claims \ {c}) \cup {[c EXCEPT !.stage = "built", !.out = out]}
    BY <1>4, <2>1 DEF Hold
  <2> QED BY <1>1, <1>2, <1>4, <2>1, <2>2, CandidateCommit, BuiltServes
<1>5. CASE Latest(u) > 0 /\ Hold(c, [c EXCEPT !.stage = "built", !.out = Latest(u)]) /\ UNCHANGED lance
  <2>1. PICK out : out = Latest(u)
    OBVIOUS
  <2>2. claims' = (claims \ {c}) \cup {[c EXCEPT !.stage = "built", !.out = out]}
    BY <1>5, <2>1 DEF Hold
  <2>3. out \in DOMAIN lance[u] /\ lance[u][out] = Contents(u)
    BY <1>3, <1>5, <2>1, StoreShape DEF LaneInvariant, VersionHolds
  <2>4. out \in DOMAIN lance'[u] /\ (Live(c.work) => lance'[u][out] = work[c.work].seq)
    BY <1>3, <1>5, <2>3
  <2>5. StoreGrows /\ HeadsHold /\ \A v \in WorkIds : Candidate(v)'
    BY <1>1, <1>5, IdleStore
  <2> QED BY <1>1, <1>2, <2>2, <2>4, <2>5, BuiltServes
<1> QED BY <1>3, <1>4, <1>5 DEF build_candidate

\* Loading the context, or finding the lease gone.
LEMMA ExecuteServes ==
  ASSUME LaneInvariant, LaneInvariant', ServingInvariant, NEW c \in claims, execute(c)
  PROVE  ServingInvariant'
<1>1. UNCHANGED tables /\ UNCHANGED lance /\ UNCHANGED marker /\ UNCHANGED pin
  BY DEF execute, store
<1>2. StoreGrows /\ HeadsHold /\ MarkersHold' /\ \A w \in WorkIds : Candidate(w)'
  BY <1>1, IdleStore
<1>3. CASE lease_is_current(c)
  <2>1. PICK held : claims' = (claims \ {c}) \cup {held} /\ held = [c EXCEPT !.stage = "running"]
    BY <1>3 DEF execute, Hold
  <2>2. /\ held.work = c.work /\ held.uri = c.uri /\ held.ver = c.ver /\ held.token = c.token
        /\ held.stage = "running"
    BY <2>1, ClaimShape DEF Claim, LaneInvariant
  <2>3. IngestClaim(held)' /\ PublishClaim(held)'
    BY <1>1, <2>2, HeldIngest, HeldPublish
  <2> QED BY <1>1, <1>2, <2>1, <2>3, StoreStep
<1>4. CASE ~lease_is_current(c)
  <2>1. \A e \in claims' : e \in claims
    BY <1>4 DEF execute, Drop
  <2> QED BY <1>1, <1>2, <2>1, StoreStep
<1> QED BY <1>3, <1>4

\* Finding the pin of an earlier attempt, or going on to build.
LEMMA PinReadServes ==
  ASSUME LaneInvariant, LaneInvariant', ServingInvariant, NEW c \in claims, candidate_pin_version(c)
  PROVE  ServingInvariant'
<1>1. /\ UNCHANGED tables /\ UNCHANGED lance /\ UNCHANGED marker /\ UNCHANGED pin
      /\ c.work.kind # "INGEST" /\ c.work \in WorkIds
  BY ClaimShape DEF candidate_pin_version, store, LaneInvariant
<1>2. StoreGrows /\ HeadsHold /\ MarkersHold' /\ \A w \in WorkIds : Candidate(w)'
  BY <1>1, IdleStore
<1>3. PICK held : /\ claims' = (claims \ {c}) \cup {held}
                  /\ held = IF pin[c.work] # 0
                            THEN [c EXCEPT !.stage = "pinned", !.out = pin[c.work]]
                            ELSE [c EXCEPT !.stage = "building"]
  BY DEF candidate_pin_version, Hold
<1>4. /\ held.work = c.work /\ held.uri = c.uri /\ held.ver = c.ver
      /\ held.stage \in {"pinned", "building"}
      /\ held.stage = "pinned" => held.out = pin[c.work] /\ pin[c.work] # 0
  BY <1>3, ClaimShape DEF Claim, LaneInvariant
<1>5. RowHolds(c.work) /\ (Live(c.work) => Build(c.work) = ds[c.work.ds].uri)
  BY <1>1, CandidateShape DEF ServingInvariant
<1>6. held.stage = "pinned" => /\ held.out \in DOMAIN lance[Build(c.work)]
                               /\ Live(c.work) => lance[Build(c.work)][held.out] = work[c.work].seq
  BY <1>4, <1>5 DEF RowHolds, Pinned, LiveHolds
<1>7. IngestClaim(held)' /\ PublishClaim(held)'
  BY <1>1, <1>4, <1>6, HeldPublish
<1> QED BY <1>1, <1>2, <1>3, <1>7, StoreStep

\* Qualifying the pinned version.
LEMMA QualifyServes ==
  ASSUME LaneInvariant, LaneInvariant', ServingInvariant, NEW c \in claims, qualify_candidate(c)
  PROVE  ServingInvariant'
<1>1. UNCHANGED tables /\ UNCHANGED lance /\ UNCHANGED marker /\ UNCHANGED pin /\ c.stage = "pinned"
  BY DEF qualify_candidate, store
<1>2. StoreGrows /\ HeadsHold /\ MarkersHold' /\ \A w \in WorkIds : Candidate(w)'
  BY <1>1, IdleStore
<1>3. c.work.kind # "INGEST" /\ PublishClaim(c)
  BY <1>1 DEF ServingInvariant, IngestClaim
<1>4. PICK held : claims' = (claims \ {c}) \cup {held} /\ held = [c EXCEPT !.stage = "done"]
  BY DEF qualify_candidate, Hold
<1>5. held.work = c.work /\ held.uri = c.uri /\ held.ver = c.ver /\ held.stage = "done" /\ held.out = c.out
  BY <1>4, ClaimShape DEF Claim, LaneInvariant
<1>6. IngestClaim(held)' /\ PublishClaim(held)'
  BY <1>1, <1>3, <1>5, HeldPublish DEF PublishClaim
<1> QED BY <1>1, <1>2, <1>4, <1>6, StoreStep

\* Pinning a candidate: the first pin of a work item wins.
LEMMA PinServes ==
  ASSUME LaneInvariant, LaneInvariant', ServingInvariant, NEW c \in claims, pin_candidate(c),
         pin[c.work] \in {0, c.out}
  PROVE  ServingInvariant'
<1> DEFINE w == c.work
<1>1. /\ UNCHANGED tables /\ UNCHANGED lance /\ UNCHANGED marker /\ c.stage = "built"
      /\ pin' = [pin EXCEPT ![w] = c.out]
  BY DEF pin_candidate
<1>2. StoreGrows /\ HeadsHold /\ MarkersHold' /\ \A v \in WorkIds : Candidate(v)'
  BY <1>1, IdleStore
<1>3. w.kind # "INGEST" /\ PublishClaim(c) /\ w \in WorkIds /\ c \in Claim
  BY <1>1, ClaimShape DEF ServingInvariant, IngestClaim, LaneInvariant
<1>4. /\ pin'[w] = c.out
      /\ \A v \in WorkIds : v # w => pin'[v] = pin[v]
  BY <1>1, <1>3 DEF LaneInvariant, TypeOK
<1>5. /\ Present(w) /\ c.out \in DOMAIN lance[Build(w)]
      /\ Live(w) => lance[Build(w)][c.out] = work[w].seq
  BY <1>1, <1>3 DEF PublishClaim
<1>6. Live(w) => Build(w) = ds[w.ds].uri
  BY <1>3, CandidateShape
<1>7. PICK held : claims' = (claims \ {c}) \cup {held} /\ held = [c EXCEPT !.stage = "pinned"]
  BY DEF pin_candidate, Hold
<1>8. held.work = c.work /\ held.uri = c.uri /\ held.ver = c.ver /\ held.stage = "pinned" /\ held.out = c.out
  BY <1>3, <1>7 DEF Claim
<1>9. IngestClaim(held)' /\ PublishClaim(held)'
  BY <1>1, <1>3, <1>4, <1>5, <1>8, HeldPublish
<1>10. \A e \in claims : IngestClaim(e)' /\ PublishClaim(e)'
  <2> SUFFICES ASSUME NEW e \in claims PROVE IngestClaim(e)' /\ PublishClaim(e)'
    OBVIOUS
  <2>1. e.work \in WorkIds
    BY ClaimShape DEF LaneInvariant
  <2>2. pin'[e.work] = pin[e.work] \/ pin[e.work] = 0
    BY <1>4, <2>1
  <2> QED BY <1>1, <1>2, <2>2, GrowthKeepsClaims
<1>11. \A d \in Datasets : DatasetHolds(d)'
  BY <1>1, <1>2, GrowthKeepsDatasets
<1>12. ASSUME NEW v \in WorkIds PROVE RowHolds(v)'
  <2>1. RowHolds(v)
    BY DEF ServingInvariant
  <2>2. /\ (Present(v)' <=> Present(v)) /\ (Matches(v)' <=> Matches(v)) /\ (Live(v)' <=> Live(v))
        /\ Build(v)' = Build(v) /\ \A u, d : Home(u, d)' <=> Home(u, d)
    BY <1>1, TableFrame
  <2>3. UNCHANGED work /\ UNCHANGED ds /\ UNCHANGED pubs /\ UNCHANGED lance
    BY <1>1 DEF tables
  <2>4. FrozenInputs(v)' /\ Candidate(v)' /\ Succeeds(v)'
    BY <1>2, <2>1, <2>2, <2>3 DEF RowHolds, FrozenInputs, Succeeds, VersionHolds
  <2>5. Unborn(v)'
    BY <1>4, <1>5, <2>1, <2>2, <2>3 DEF RowHolds, Unborn
  <2>6. Pinned(v)'
    BY <1>3, <1>4, <1>5, <2>1, <2>2, <2>3 DEF RowHolds, Pinned
  <2>7. LiveHolds(v)'
    BY <1>4, <1>5, <1>6, <2>1, <2>2, <2>3 DEF RowHolds, LiveHolds, Contents, Latest
  <2>8. pubs[v] # None => pin'[v] = pin[v]
    <3> SUFFICES ASSUME v = w, pubs[w] # None PROVE c.out = pin[w]
      BY <1>4
    <3>1. pubs[w].uri \in Uris
      BY <1>3 DEF LaneInvariant, TypeOK, PublicationRow
    <3>2. pin[w] \in DOMAIN lance[pubs[w].uri]
      BY <2>1 DEF RowHolds, Published, VersionHolds
    <3>3. pin[w] # 0
      BY <3>1, <3>2, StoreShape DEF LaneInvariant
    <3> QED BY <3>3
  <2>9. Published(v)'
    BY <2>1, <2>2, <2>3, <2>8 DEF RowHolds, Published, VersionHolds, Contents, Latest
  <2> QED BY <2>4, <2>5, <2>6, <2>7, <2>9 DEF RowHolds
<1> QED BY <1>2, <1>7, <1>9, <1>10, <1>11, <1>12 DEF ServingInvariant

-----------------------------------------------------------------------------
(* Transactions that neither apply nor publish.                            *)

\* A row keeps its identity, its frozen inputs and whether it is done.
Kept(w) ==
  /\ work'[w].seq = work[w].seq
  /\ work'[w].state = "ABSENT" <=> work[w].state = "ABSENT"
  /\ work'[w].state = "SUCCEEDED" <=> work[w].state = "SUCCEEDED"
  /\ w.kind # "INGEST" => work'[w].exp = work[w].exp

\* A rebuild row is inserted with the dataset's pointer as its frozen inputs.
Opens(w) ==
  /\ w.kind = "REBUILD" /\ work[w].state = "ABSENT" /\ work'[w].state = "PENDING"
  /\ work'[w].seq = ds[w.ds].applied /\ ds[w.ds].applied # 0
  /\ work'[w].exp = Pointer(ds[w.ds])

\* A claim taken before, with its row leased as before or to somebody else.
Continues(c) ==
  /\ \E b \in claims : /\ b.work = c.work /\ b.uri = c.uri /\ b.ver = c.ver
                       /\ b.token = c.token /\ b.stage = c.stage /\ b.out = c.out
  /\ c.work.kind = "INGEST" /\ work'[c.work].token = c.token /\ work'[c.work].state = "RUNNING" =>
       /\ work[c.work].token = c.token /\ work[c.work].state = "RUNNING"
       /\ work'[c.work].exp = work[c.work].exp

\* A claim taken by this step.
Fresh(c) ==
  /\ c.work \in WorkIds /\ c.stage = "claimed"
  /\ c.uri = ds[c.work.ds].uri /\ c.ver = ds[c.work.ds].ver
  /\ c.work.kind = "INGEST" =>
       /\ Started(c.work.ds, c.work.key) /\ work'[c.work].exp.uri = c.uri
       /\ \A w \in WorkIds : Live(w) /\ w.ds = c.work.ds => c.work.key <= ds[w.ds].applied
  /\ c.work.kind # "INGEST" => Present(c.work) /\ Matches(c.work)

QuietStep ==
  /\ UNCHANGED <<pubs, lance, marker, pin>>
  /\ \A d \in Datasets : /\ ds'[d].uri = ds[d].uri /\ ds'[d].ver = ds[d].ver
                         /\ ds'[d].pub = ds[d].pub /\ ds'[d].applied = ds[d].applied
  /\ \A w \in WorkIds : w.kind # "INGEST" => Kept(w) \/ Opens(w)
  /\ \A d \in Datasets, k \in Seqs : Started(d, k) => Started(d, k)'
  /\ \A c \in claims' : Continues(c) \/ Fresh(c)

\* Such a step keeps what every row promises.
LEMMA QuietRow ==
  ASSUME LaneInvariant, LaneInvariant', ServingInvariant, QuietStep, NEW w \in WorkIds
  PROVE  RowHolds(w)' /\ (Live(w)' => Live(w))
<1>1. /\ UNCHANGED pubs /\ UNCHANGED lance /\ UNCHANGED pin
      /\ w.ds \in Datasets
      /\ ds'[w.ds].uri = ds[w.ds].uri /\ ds'[w.ds].ver = ds[w.ds].ver
      /\ ds'[w.ds].pub = ds[w.ds].pub /\ ds'[w.ds].applied = ds[w.ds].applied
  BY WorkIdShape DEF QuietStep
<1>2. RowHolds(w) /\ DatasetHolds(w.ds)
  BY <1>1 DEF ServingInvariant
<1>3. Pointer(ds[w.ds])' = Pointer(ds[w.ds])
  BY <1>1 DEF Pointer
<1>4. \A u, d : Home(u, d)' <=> Home(u, d)
  BY <1>1 DEF Home
<1>5. CASE w.kind = "INGEST"
  <2>1. pubs[w] = None /\ pin[w] = 0
    BY <1>2, <1>5 DEF RowHolds, Published, Pinned
  <2> QED BY <1>1, <1>5, <2>1 DEF RowHolds, FrozenInputs, Unborn, Candidate, Pinned, LiveHolds, Live,
                              Published, Succeeds
<1>6. CASE w.kind # "INGEST" /\ Kept(w)
  <2>1. work'[w].seq = work[w].seq /\ work'[w].exp = work[w].exp
    BY <1>6 DEF Kept
  <2>2. /\ Present(w)' <=> Present(w)
        /\ Settled(w)' <=> Settled(w)
        /\ Matches(w)' <=> Matches(w)
        /\ Build(w)' = Build(w)
    BY <1>3, <1>6, <2>1 DEF Kept, Present, Settled, Matches, Build
  <2>3. Live(w)' <=> Live(w)
    BY <2>2 DEF Live
  <2>4. FrozenInputs(w)'
    BY <1>1, <1>2, <1>4, <2>1, <2>2 DEF RowHolds, FrozenInputs, VersionHolds
  <2>5. Unborn(w)' /\ Candidate(w)' /\ Pinned(w)' /\ Succeeds(w)'
    BY <1>1, <1>2, <2>1, <2>2 DEF RowHolds, Unborn, Candidate, Pinned, Succeeds
  <2>6. LiveHolds(w)'
    BY <1>1, <1>2, <2>1, <2>3 DEF RowHolds, LiveHolds, Contents, Latest
  <2>7. Published(w)'
    BY <1>1, <1>2, <1>6, <2>1, <2>2 DEF RowHolds, Published, VersionHolds, Contents, Latest, Kept
  <2> QED BY <2>3, <2>4, <2>5, <2>6, <2>7 DEF RowHolds
<1>7. CASE Opens(w)
  <2>1. /\ w.kind = "REBUILD" /\ ~Present(w) /\ Present(w)' /\ work'[w].seq = ds[w.ds].applied
        /\ ds[w.ds].applied # 0 /\ work'[w].exp = Pointer(ds[w.ds])
    BY <1>7 DEF Opens, Present
  <2>2. /\ work'[w].exp.uri = ds[w.ds].uri /\ work'[w].exp.ver = ds[w.ds].ver
        /\ work'[w].exp.pub = ds[w.ds].pub
    BY <2>1 DEF Pointer
  <2>3. pubs[w] = None /\ pin[w] = 0 /\ \A i \in DOMAIN lance[rebuild_uri(w)] : FALSE
    BY <1>2, <2>1 DEF RowHolds, Unborn, Candidate
  <2>4. FrozenInputs(w)'
    <3>1. Home(work[w].exp.uri, w.ds)'
      BY <1>1, <1>2, <2>2 DEF DatasetHolds, Home
    <3>2. VersionHolds(work[w].exp.uri, work[w].exp.ver, work[w].seq)'
      BY <1>1, <1>2, <2>1, <2>2 DEF DatasetHolds, VersionHolds
    <3>3. work'[w].seq \in 1..ds'[w.ds].applied
      BY <1>1, <2>1, AppliedShape DEF LaneInvariant
    <3> QED BY <1>1, <1>2, <2>1, <2>2, <3>1, <3>2, <3>3 DEF DatasetHolds, FrozenInputs
  <2> QED BY <1>1, <2>1, <2>3, <2>4 DEF RowHolds, Unborn, Candidate, Pinned, LiveHolds, Live, Published, Succeeds
<1> QED BY <1>5, <1>6, <1>7 DEF QuietStep

\* It keeps what every dataset promises.
LEMMA QuietDataset ==
  ASSUME LaneInvariant, ServingInvariant, QuietStep, NEW d \in Datasets
  PROVE  DatasetHolds(d)'
<1>1. /\ UNCHANGED pubs /\ UNCHANGED lance
      /\ ds'[d].uri = ds[d].uri /\ ds'[d].ver = ds[d].ver
      /\ ds'[d].pub = ds[d].pub /\ ds'[d].applied = ds[d].applied
  BY DEF QuietStep
<1>2. DatasetHolds(d) /\ ds[d].uri \in Uris
  BY AppliedShape DEF ServingInvariant, LaneInvariant
<1>3. Contents(ds[d].uri)' = Contents(ds[d].uri)
  BY <1>1 DEF Contents, Latest
<1>4. Contents(ds[d].uri)' > ds'[d].applied => Started(d, Contents(ds[d].uri))'
  <2> SUFFICES ASSUME Contents(ds[d].uri) > ds[d].applied PROVE Started(d, Contents(ds[d].uri))'
    BY <1>1, <1>3
  <2>1. Contents(ds[d].uri) \in 0..MaxSeq /\ ds[d].applied \in Nat
    BY <1>2, StoreShape, AppliedShape DEF LaneInvariant
  <2>2. PICK k \in Seqs : k = Contents(ds[d].uri)
    BY <2>1, ConstantsAssumption DEF ConstantsAssumption, Seqs
  <2>3. Started(d, k)'
    BY <1>2, <2>2 DEF DatasetHolds, QuietStep
  <2> QED BY <1>3, <2>2, <2>3 DEF Started
<1>5. Home(ds[d].uri, d)' /\ (ds'[d].applied # 0 => VersionHolds(ds[d].uri, ds[d].ver, ds[d].applied)')
  BY <1>1, <1>2 DEF DatasetHolds, Home, VersionHolds
<1> QED BY <1>1, <1>2, <1>3, <1>4, <1>5 DEF DatasetHolds

\* It keeps what every worker promises, the new ones included.
LEMMA QuietClaim ==
  ASSUME LaneInvariant, LaneInvariant', ServingInvariant, QuietStep, NEW c \in claims'
  PROVE  IngestClaim(c)' /\ PublishClaim(c)'
<1>1. UNCHANGED pubs /\ UNCHANGED lance /\ UNCHANGED pin
  BY DEF QuietStep
<1>2. \A w \in WorkIds : Live(w)' => Live(w)
  BY QuietRow
<1>3. \A u, d : Home(u, d)' <=> Home(u, d)
  BY <1>1 DEF Home
<1>4. \A d \in Datasets : /\ ds'[d].uri = ds[d].uri /\ ds'[d].ver = ds[d].ver
                          /\ ds'[d].pub = ds[d].pub /\ ds'[d].applied = ds[d].applied
  BY DEF QuietStep
<1>5. c.work \in WorkIds /\ c.work.ds \in Datasets /\ (c.work.kind = "INGEST" => c.work.key \in Seqs)
  <2>1. c.work \in WorkIds
    BY DEF LaneInvariant, TypeOK, Claim
  <2> QED BY <2>1, WorkIdShape, IngestKey
<1>6. CASE c.work.kind = "INGEST" /\ Continues(c)
  <2>1. PICK b \in claims : /\ b.work = c.work /\ b.uri = c.uri /\ b.ver = c.ver
                            /\ b.token = c.token /\ b.stage = c.stage /\ b.out = c.out
    BY <1>6 DEF Continues
  <2>2. IngestClaim(b)
    BY DEF ServingInvariant
  <2>3. Started(c.work.ds, c.work.key)' /\ Home(c.uri, c.work.ds)'
    BY <1>3, <1>5, <1>6, <2>1, <2>2 DEF IngestClaim, QuietStep
  <2>4. Contents(c.uri)' = Contents(c.uri)
    BY <1>1 DEF Contents, Latest
  <2>5. VersionHolds(c.uri, c.out, c.work.key)' <=> VersionHolds(c.uri, c.out, c.work.key)
    BY <1>1 DEF VersionHolds
  <2>6. \A w \in WorkIds : Live(w)' /\ w.ds = c.work.ds => c.work.key <= ds'[w.ds].applied
    BY <1>2, <1>4, <1>5, <1>6, <2>1, <2>2 DEF IngestClaim
  <2>7. work'[c.work].token = c.token /\ work'[c.work].state = "RUNNING" => c.uri = work'[c.work].exp.uri
    BY <1>6, <2>1, <2>2 DEF IngestClaim, Continues
  <2>8. IngestClaim(c)'
    BY <1>4, <1>5, <1>6, <2>1, <2>2, <2>3, <2>4, <2>5, <2>6, <2>7 DEF IngestClaim
  <2> QED BY <1>6, <2>8 DEF PublishClaim
<1>7. CASE c.work.kind = "INGEST" /\ Fresh(c)
  <2>1. Started(c.work.ds, c.work.key)'
    BY <1>5, <1>7 DEF Fresh, QuietStep
  <2>2. Home(c.uri, c.work.ds)'
    BY <1>3, <1>5, <1>7 DEF Fresh, ServingInvariant, DatasetHolds
  <2>3. \A w \in WorkIds : Live(w)' /\ w.ds = c.work.ds => c.work.key <= ds'[w.ds].applied
    BY <1>2, <1>4, <1>5, <1>7 DEF Fresh
  <2>4. IngestClaim(c)'
    BY <1>7, <2>1, <2>2, <2>3 DEF IngestClaim, Fresh
  <2> QED BY <1>7, <2>4 DEF PublishClaim
<1>8. CASE c.work.kind # "INGEST" /\ Continues(c)
  <2>1. PICK b \in claims : /\ b.work = c.work /\ b.uri = c.uri /\ b.ver = c.ver
                            /\ b.token = c.token /\ b.stage = c.stage /\ b.out = c.out
    BY <1>8 DEF Continues
  <2>2. PublishClaim(b)
    BY DEF ServingInvariant
  <2>3. Present(c.work)
    BY <1>8, <2>1, <2>2 DEF PublishClaim
  <2>4. Kept(c.work)
    BY <1>5, <1>8, <2>3 DEF QuietStep, Opens, Present
  <2>5. /\ Present(c.work)' /\ work'[c.work].exp = work[c.work].exp /\ work'[c.work].seq = work[c.work].seq
        /\ Build(c.work)' = Build(c.work)
    BY <1>8, <2>3, <2>4 DEF Kept, Present, Build
  <2>6. PublishClaim(c)'
    BY <1>1, <1>2, <1>5, <1>8, <2>1, <2>2, <2>5 DEF PublishClaim
  <2> QED BY <1>8, <2>6 DEF IngestClaim
<1>9. CASE c.work.kind # "INGEST" /\ Fresh(c)
  <2>1. Present(c.work) /\ Matches(c.work) /\ c.stage = "claimed"
    BY <1>9 DEF Fresh
  <2>2. Kept(c.work)
    BY <1>5, <1>9, <2>1 DEF QuietStep, Opens, Present
  <2>3. Present(c.work)' /\ work'[c.work].exp = Pointer(ds[c.work.ds])
    BY <1>9, <2>1, <2>2 DEF Kept, Present, Matches
  <2>4. PublishClaim(c)'
    BY <1>9, <2>1, <2>3 DEF PublishClaim, Fresh, Pointer
  <2> QED BY <1>9, <2>4 DEF IngestClaim
<1> QED BY <1>6, <1>7, <1>8, <1>9 DEF QuietStep

\* A transaction that neither applies nor publishes keeps the invariant.
LEMMA QuietServes ==
  ASSUME LaneInvariant, LaneInvariant', ServingInvariant, QuietStep
  PROVE  ServingInvariant'
<1>1. MarkersHold'
  BY DEF QuietStep, MarkersHold, ServingInvariant, Contents, Latest
<1> QED BY <1>1, QuietRow, QuietDataset, QuietClaim DEF ServingInvariant

\* INGEST rows never come and go: once sealed, a snapshot gains no row, and what has
\* succeeded stays so.
IngestStays ==
  \A w \in WorkIds : w.kind = "INGEST" =>
    /\ Present(w) => Present(w)'
    /\ work[w].state = "SUCCEEDED" => work'[w].state = "SUCCEEDED"
    /\ work[w].state = "ABSENT" /\ snap[w.key].state # "ABSENT" => work'[w].state = "ABSENT"

\* An ingest that was let through stays so: nothing is sealed behind it.
LEMMA StartedStays ==
  ASSUME LaneInvariant, IngestStays, NEW d \in Datasets, NEW k \in Seqs, Started(d, k)
  PROVE  Started(d, k)'
<1> DEFINE id(j) == deterministic_ingest_work_id(d, j)
<1>1. \A j \in Seqs : id(j) \in WorkIds /\ id(j).kind = "INGEST" /\ id(j).key = j
  BY DerivedIds DEF deterministic_ingest_work_id
<1>2. Present(id(k))
  BY DEF Started
<1>3. snap[k].state # "ABSENT"
  BY <1>1, <1>2 DEF LaneInvariant, SourceOrder, Present
<1>4. \A j \in 1..(k - 1) : j \in Seqs /\ snap[j].state # "ABSENT"
  BY <1>3, ConstantsAssumption DEF ConstantsAssumption, LaneInvariant, SourceOrder, Seqs
<1>5. \A j \in 1..(k - 1) : work[id(j)].state \in {"ABSENT", "SUCCEEDED"}
  BY DEF Started, Settled
<1> HIDE DEF id
<1>6. \A j \in 1..(k - 1) : work'[id(j)].state \in {"ABSENT", "SUCCEEDED"}
  BY <1>1, <1>4, <1>5 DEF IngestStays
<1>7. Present(id(k))'
  BY <1>1, <1>2 DEF IngestStays
<1> QED BY <1>6, <1>7 DEF Started, Settled, id

\* A row moves within its unfinished states, with its lease or without one.
Updated(row, new) ==
  /\ new.seq = row.seq /\ new.exp = row.exp
  /\ \/ new.state = row.state /\ new.token = row.token
     \/ row.state \notin {"ABSENT", "SUCCEEDED"} /\ new.state \in {"PENDING", "RETRY_WAIT", "BLOCKED"}

\* Such moves make a quiet step.
LEMMA UpdatesAreQuiet ==
  ASSUME LaneInvariant, UNCHANGED <<pubs, lance, marker, pin>>, UNCHANGED ds,
         \A w \in WorkIds : Updated(work[w], work'[w]),
         \A c \in claims' : \E b \in claims :
           /\ b.work = c.work /\ b.uri = c.uri /\ b.ver = c.ver
           /\ b.token = c.token /\ b.stage = c.stage /\ b.out = c.out
  PROVE  QuietStep
<1>1. \A w \in WorkIds : Kept(w)
  BY DEF Updated, Kept
<1>2. \A w \in WorkIds : work'[w].state = "RUNNING" =>
        /\ work[w].state = "RUNNING" /\ work'[w].token = work[w].token /\ work'[w].exp = work[w].exp
  BY DEF Updated
<1>3. IngestStays
  BY <1>1 DEF IngestStays, Kept, Present
<1>4. \A c \in claims' : c.work \in WorkIds
  BY ClaimShape DEF LaneInvariant
<1>5. \A c \in claims' : Continues(c)
  BY <1>2, <1>4 DEF Continues
<1> QED BY <1>1, <1>3, <1>5, StartedStays DEF QuietStep

\* Releasing a row is such a move.
LEMMA ReleaseUpdates ==
  ASSUME NEW row \in WorkRow, row.state \notin {"ABSENT", "SUCCEEDED"},
         NEW state \in {"PENDING", "RETRY_WAIT", "BLOCKED"}
  PROVE  Updated(row, Released(row, state))
<1>1. LET f == Released(row, state) IN f.state = state /\ f.seq = row.seq /\ f.exp = row.exp
  BY DEF Released, WorkRow
<1> QED BY <1>1 DEF Updated

\* A transition a worker's fence admits or rejects.
LEMMA ReleaseServes ==
  ASSUME LaneInvariant, LaneInvariant', ServingInvariant, NEW c \in claims,
         NEW state \in {"BLOCKED", "RETRY_WAIT"}, FencedRelease(c, state)
  PROVE  ServingInvariant'
<1>1. claims' \subseteq claims /\ UNCHANGED ds /\ UNCHANGED <<pubs, lance, marker, pin>>
  BY DEF FencedRelease, Drop, store
<1>2. \A w \in WorkIds : Updated(work[w], work[w])
  BY DEF Updated
<1>3. \A w \in WorkIds : Updated(work[w], work'[w])
  <2>1. CASE lease_is_current(c)
    <3>1. c.work \in WorkIds /\ work[c.work] \in WorkRow /\ work[c.work].state = "RUNNING"
      BY <2>1, CurrentLease DEF LaneInvariant
    <3>2. \A w \in WorkIds : IF w = c.work THEN work'[w] = Released(work[c.work], state) ELSE work'[w] = work[w]
      BY <2>1, <3>1 DEF FencedRelease, LaneInvariant, TypeOK
    <3>3. Updated(work[c.work], Released(work[c.work], state))
      BY <3>1, ReleaseUpdates
    <3> QED BY <1>2, <3>2, <3>3
  <2>2. CASE ~lease_is_current(c)
    BY <1>2, <2>2 DEF FencedRelease
  <2> QED BY <2>1, <2>2
<1> QED BY <1>1, <1>3, UpdatesAreQuiet, QuietServes

\* Steps that change no row and start no claim: stale results, crashes, stuttering.
LEMMA DropServes ==
  ASSUME LaneInvariant, LaneInvariant', ServingInvariant, claims' \subseteq claims,
         UNCHANGED work, UNCHANGED ds, UNCHANGED <<pubs, lance, marker, pin>>
  PROVE  ServingInvariant'
<1>1. \A w \in WorkIds : Updated(work[w], work'[w])
  BY DEF Updated
<1> QED BY <1>1, UpdatesAreQuiet, QuietServes

\* Failures, crashes and expiring leases.
LEMMA FaultServes ==
  ASSUME LaneInvariant, LaneInvariant', ServingInvariant, FaultStep
  PROVE  ServingInvariant'
<1>1. CASE \E c \in claims : retry_work(c) \/ block_work(c)
  BY <1>1, ReleaseServes DEF retry_work, block_work
<1>2. CASE \E c \in claims : WorkerCrash(c)
  BY <1>2, DropServes DEF WorkerCrash, Drop, tables, store
<1>3. ASSUME NEW w \in WorkIds, LeaseExpires(w)
      PROVE  ServingInvariant'
  <2>1. /\ UNCHANGED claims /\ UNCHANGED ds /\ UNCHANGED <<pubs, lance, marker, pin>>
        /\ work' = [work EXCEPT ![w].lapsed = TRUE]
    BY <1>3 DEF LeaseExpires, store
  <2>2. \A v \in WorkIds : /\ work'[v].state = work[v].state /\ work'[v].seq = work[v].seq
                           /\ work'[v].exp = work[v].exp /\ work'[v].token = work[v].token
    BY <2>1 DEF LaneInvariant, TypeOK, WorkRow
  <2>3. \A v \in WorkIds : Updated(work[v], work'[v])
    BY <2>2 DEF Updated
  <2> QED BY <2>1, <2>3, UpdatesAreQuiet, QuietServes
<1> QED BY <1>1, <1>2, <1>3 DEF FaultStep

\* A checkpoint of a publication.
LEMMA AdvanceServes ==
  ASSUME LaneInvariant, LaneInvariant', ServingInvariant, NEW c \in claims, advance_phase(c)
  PROVE  ServingInvariant'
<1>1. CASE StaleResult(c)
  BY <1>1, DropServes DEF StaleResult, Drop, tables, store
<1>2. CASE ~StaleResult(c)
  <2> DEFINE cand == [uri |-> CandidateUri(c), ver |-> c.out]
             row  == [work[c.work] EXCEPT !.phase = c.at + 1, !.cand = cand]
  <2>1. /\ work' = [work EXCEPT ![c.work] = row]
        /\ Hold(c, [c EXCEPT !.at = @ + 1])
        /\ UNCHANGED ds /\ UNCHANGED <<pubs, lance, marker, pin>>
    BY <1>2 DEF advance_phase, store
  <2>2. c.work \in WorkIds /\ work[c.work] \in WorkRow /\ c \in Claim
    BY ClaimShape DEF LaneInvariant, TypeOK
  <2>3. /\ row.state = work[c.work].state /\ row.exp = work[c.work].exp
        /\ row.seq = work[c.work].seq /\ row.token = work[c.work].token
    <3> HIDE DEF cand
    <3> QED BY <2>2 DEF WorkRow
  <2> HIDE DEF row
  <2>4. \A w \in WorkIds : Updated(work[w], work'[w])
    BY <2>1, <2>2, <2>3 DEF Updated, LaneInvariant, TypeOK
  <2>5. PICK held : held = [c EXCEPT !.at = @ + 1]
    OBVIOUS
  <2>6. /\ held.work = c.work /\ held.uri = c.uri /\ held.ver = c.ver
        /\ held.token = c.token /\ held.stage = c.stage /\ held.out = c.out
    BY <2>2, <2>5 DEF Claim
  <2>7. \A e \in claims' : \E b \in claims :
           /\ b.work = e.work /\ b.uri = e.uri /\ b.ver = e.ver
           /\ b.token = e.token /\ b.stage = e.stage /\ b.out = e.out
    BY <2>1, <2>5, <2>6 DEF Hold
  <2> QED BY <2>1, <2>4, <2>7, UpdatesAreQuiet, QuietServes
<1> QED BY <1>1, <1>2

\* Closing and reopening the source gate, and sealing a rejected snapshot.
LEMMA GateServes ==
  ASSUME LaneInvariant, LaneInvariant', ServingInvariant, NEW s \in Seqs,
         \/ enqueue_blocked_source_snapshot(s)
         \/ block_source_snapshot(s)
         \/ retry_blocked_source_snapshot(s)
  PROVE  ServingInvariant'
<1>1. UNCHANGED claims /\ UNCHANGED ds /\ UNCHANGED <<pubs, lance, marker, pin>>
  BY DEF enqueue_blocked_source_snapshot, block_source_snapshot, retry_blocked_source_snapshot, store
<1>2. \A w \in WorkIds : \/ work'[w] = work[w]
                         \/ work[w].state \in Waiting /\ work'[w] = Released(work[w], "BLOCKED")
  BY DEF enqueue_blocked_source_snapshot, block_source_snapshot, retry_blocked_source_snapshot
<1>3. \A w \in WorkIds : work[w] \in WorkRow
  BY DEF LaneInvariant, TypeOK
<1>4. \A w \in WorkIds : Updated(work[w], work'[w])
  <2> SUFFICES ASSUME NEW w \in WorkIds PROVE Updated(work[w], work'[w])
    OBVIOUS
  <2>1. CASE work'[w] = work[w]
    BY <2>1 DEF Updated
  <2>2. CASE work[w].state \in Waiting /\ work'[w] = Released(work[w], "BLOCKED")
    BY <1>3, <2>2, ReleaseUpdates DEF Waiting
  <2> QED BY <1>2, <2>1, <2>2
<1> QED BY <1>1, <1>4, UpdatesAreQuiet, QuietServes

\* An operator reopens a blocked row.
LEMMA RetryBlockedServes ==
  ASSUME LaneInvariant, LaneInvariant', ServingInvariant, NEW w \in WorkIds, retry_blocked_work(w)
  PROVE  ServingInvariant'
<1>1. /\ UNCHANGED claims /\ UNCHANGED ds /\ UNCHANGED <<pubs, lance, marker, pin>>
      /\ work' = [work EXCEPT ![w] = Released(work[w], "PENDING")]
      /\ work[w].state = "BLOCKED" /\ work[w] \in WorkRow
  BY DEF retry_blocked_work, store, LaneInvariant, TypeOK
<1>2. Updated(work[w], Released(work[w], "PENDING"))
  BY <1>1, ReleaseUpdates
<1>3. \A v \in WorkIds : IF v = w THEN work'[v] = Released(work[w], "PENDING") ELSE work'[v] = work[v]
  BY <1>1 DEF LaneInvariant, TypeOK
<1>4. \A v \in WorkIds : Updated(work[v], work[v])
  BY DEF Updated
<1>5. \A v \in WorkIds : Updated(work[v], work'[v])
  BY <1>2, <1>3, <1>4
<1> QED BY <1>1, <1>5, UpdatesAreQuiet, QuietServes

\* What a new rebuild row holds.
LEMMA NewRebuildRow ==
  ASSUME TypeOK, NEW d \in Datasets, NEW k \in RebuildKeys, NEW r
  PROVE  LET w == deterministic_rebuild_work_id(d, k)
             new == NewRebuild(w, r) IN
         /\ w \in WorkIds /\ w.kind = "REBUILD" /\ w.ds = d
         /\ new.state = "PENDING" /\ new.seq = ds[d].applied /\ new.exp = Pointer(ds[d])
<1> DEFINE w == deterministic_rebuild_work_id(d, k)
<1>1. w \in WorkIds /\ w.kind = "REBUILD" /\ w.ds = d
  BY DerivedIds DEF deterministic_rebuild_work_id
<1>2. \A a, b, f, x, g : LET n == NewWork(a, b, f, x, g) IN n.state = "PENDING" /\ n.seq = b /\ n.exp = x
  BY DEF NewWork, AbsentWork
<1> HIDE DEF w
<1>3. LET new == NewRebuild(w, r) IN
      new.state = "PENDING" /\ new.seq = ds[d].applied /\ new.exp = Pointer(ds[d])
  BY <1>1, <1>2 DEF NewRebuild
<1> QED BY <1>1, <1>3 DEF w

\* Inserting a rebuild row, with or without a change of the desired revision.
LEMMA OpeningIsQuiet ==
  ASSUME LaneInvariant, UNCHANGED claims, UNCHANGED <<pubs, lance, marker, pin>>,
         \A x \in Datasets : /\ ds'[x].uri = ds[x].uri /\ ds'[x].ver = ds[x].ver
                             /\ ds'[x].pub = ds[x].pub /\ ds'[x].applied = ds[x].applied,
         NEW d \in Datasets, NEW k \in RebuildKeys, NEW r, Materialized(d),
         LET w == deterministic_rebuild_work_id(d, k) IN
         UNCHANGED work \/ (work[w].state = "ABSENT" /\ work' = [work EXCEPT ![w] = NewRebuild(w, r)])
  PROVE  QuietStep
<1>1. PICK w, new : w = deterministic_rebuild_work_id(d, k) /\ new = NewRebuild(w, r)
  OBVIOUS
<1>2. /\ w \in WorkIds /\ w.kind = "REBUILD" /\ w.ds = d
      /\ new.state = "PENDING" /\ new.seq = ds[d].applied /\ new.exp = Pointer(ds[d])
  BY <1>1, NewRebuildRow DEF LaneInvariant
<1>3. \A v \in WorkIds : work'[v] = work[v] \/ (v = w /\ work[w].state = "ABSENT" /\ work'[w] = new)
  BY <1>1 DEF LaneInvariant, TypeOK
<1>4. ds[d].applied # 0
  BY DEF Materialized
<1>5. \A v \in WorkIds : Kept(v) \/ Opens(v)
  BY <1>2, <1>3, <1>4 DEF Kept, Opens
<1>6. \A v \in WorkIds : v.kind = "INGEST" => work'[v] = work[v]
  BY <1>2, <1>3
<1>7. IngestStays
  BY <1>6 DEF IngestStays, Present
<1>8. \A c \in claims' : c \in claims /\ c.work \in WorkIds
  BY ClaimShape DEF LaneInvariant
<1>9. \A c \in claims' : Continues(c)
  BY <1>6, <1>8 DEF Continues
<1> QED BY <1>5, <1>7, <1>9, StartedStays DEF QuietStep

\* An operator asks for a rebuild.
LEMMA RebuildServes ==
  ASSUME LaneInvariant, LaneInvariant', ServingInvariant,
         NEW d \in Datasets, NEW q \in Requests, enqueue_rebuild(d, q)
  PROVE  ServingInvariant'
<1>1. q \in RebuildKeys
  BY DEF RebuildKeys
<1>2. QuietStep
  BY <1>1, OpeningIsQuiet DEF enqueue_rebuild, store
<1> QED BY <1>2, QuietServes

\* An operator assigns a revision.
LEMMA AssignServes ==
  ASSUME LaneInvariant, LaneInvariant', ServingInvariant,
         NEW d \in Datasets, NEW r \in Revisions, assign_dataset_spec_revision(d, r)
  PROVE  ServingInvariant'
<1>1. r \in RebuildKeys
  BY DEF RebuildKeys
<1>2. /\ UNCHANGED claims /\ UNCHANGED <<pubs, lance, marker, pin>>
      /\ ds' = [ds EXCEPT ![d].desired = r]
  BY DEF assign_dataset_spec_revision, store
<1>3. \A x \in Datasets : /\ ds'[x].uri = ds[x].uri /\ ds'[x].ver = ds[x].ver
                          /\ ds'[x].pub = ds[x].pub /\ ds'[x].applied = ds[x].applied
  BY <1>2 DEF LaneInvariant, TypeOK, DatasetRow
<1>4. CASE UNCHANGED work
  <2>1. \A w \in WorkIds : Kept(w)
    BY <1>4 DEF Kept
  <2>2. IngestStays
    BY <1>4 DEF IngestStays, Present
  <2>3. \A c \in claims' : Continues(c)
    BY <1>2, <1>4 DEF Continues
  <2>4. QuietStep
    BY <1>2, <1>3, <2>1, <2>2, <2>3, StartedStays DEF QuietStep
  <2> QED BY <2>4, QuietServes
<1>5. CASE ~UNCHANGED work
  <2>1. /\ Materialized(d)
        /\ LET w == deterministic_rebuild_work_id(d, r) IN
           work[w].state = "ABSENT" /\ work' = [work EXCEPT ![w] = NewRebuild(w, r)]
    BY <1>5 DEF assign_dataset_spec_revision
  <2>2. QuietStep
    BY <1>1, <1>2, <1>3, <2>1, OpeningIsQuiet
  <2> QED BY <2>2, QuietServes
<1> QED BY <1>4, <1>5

\* Sealing a snapshot inserts INGEST rows of that snapshot only.
LEMMA SealServes ==
  ASSUME LaneInvariant, LaneInvariant', ServingInvariant,
         NEW s \in Seqs, NEW D \in SUBSET Datasets, enqueue_source_snapshot(s, D)
  PROVE  ServingInvariant'
<1>1. /\ ExtendsLatest(s) /\ ds' = Discovered(D) /\ work' = insert_ingest_work(D, s)
      /\ UNCHANGED claims /\ UNCHANGED <<pubs, lance, marker, pin>>
  BY DEF enqueue_source_snapshot, store
<1>2. snap[s].state = "ABSENT"
  BY <1>1 DEF ExtendsLatest
<1>3. \A w \in WorkIds : \/ work'[w] = work[w]
                         \/ w.kind = "INGEST" /\ w.key = s /\ work'[w].state = "PENDING"
  <2>1. \A a, b, f, x, g : NewWork(a, b, f, x, g).state = "PENDING"
    BY DEF NewWork, AbsentWork
  <2> QED BY <1>1, <2>1 DEF insert_ingest_work
<1>4. \A d \in Datasets : /\ ds'[d].uri = ds[d].uri /\ ds'[d].ver = ds[d].ver
                          /\ ds'[d].pub = ds[d].pub /\ ds'[d].applied = ds[d].applied
  <2>1. \A x \in DatasetRow : LET y == [x EXCEPT !.desired = DefaultRevision] IN
          y.uri = x.uri /\ y.ver = x.ver /\ y.pub = x.pub /\ y.applied = x.applied
    BY DEF DatasetRow
  <2>2. \A d \in Datasets : /\ ds[d] \in DatasetRow
                            /\ ds'[d] = ds[d] \/ ds'[d] = [ds[d] EXCEPT !.desired = DefaultRevision]
    BY <1>1 DEF Discovered, LaneInvariant, TypeOK
  <2> QED BY <2>1, <2>2
<1>5. \A w \in WorkIds : w.kind = "INGEST" /\ w.key = s => work[w].state = "ABSENT"
  BY <1>2 DEF LaneInvariant, SourceOrder
<1>6. IngestStays
  BY <1>2, <1>3, <1>5 DEF IngestStays, Present
<1>7. \A w \in WorkIds : w.kind # "INGEST" => Kept(w)
  BY <1>3 DEF Kept
<1>8. \A c \in claims' : c \in claims /\ c.work \in WorkIds
  BY <1>1, ClaimShape DEF LaneInvariant
<1>9. \A c \in claims' : Continues(c)
  BY <1>3, <1>8 DEF Continues
<1>10. QuietStep
  BY <1>1, <1>4, <1>6, <1>7, <1>9, StartedStays DEF QuietStep
<1> QED BY <1>10, QuietServes

\* Releasing and sweeping leave the rows alone that keep running.
LEMMA SweptRunning ==
  ASSUME TypeOK, NEW w \in WorkIds, sweep_stale_work(release_expired_leases)[w].state = "RUNNING"
  PROVE  sweep_stale_work(release_expired_leases)[w] = work[w]
<1> DEFINE freed == release_expired_leases
           row == sweep_stale_work(freed)[w]
<1>1. \A r \in WorkRow : \A x \in {"RETRY_WAIT", "BLOCKED"} : Released(r, x).state = x
  BY DEF Released, WorkRow
<1>2. work[w] \in WorkRow /\ freed[w] \in WorkRow
  BY ReleaseAndSweepType DEF TypeOK
<1>3. freed[w] = work[w] \/ freed[w] = Released(work[w], "RETRY_WAIT")
  BY DEF release_expired_leases
<1>4. row = freed[w] \/ row = Released(freed[w], "BLOCKED")
  BY DEF sweep_stale_work
<1> HIDE DEF freed, row
<1>5. row = freed[w]
  <2>1. row.state = "RUNNING"
    BY DEF row, freed
  <2> QED BY <1>1, <1>2, <1>4, <2>1
<1>6. freed[w] = work[w]
  <2>1. row.state = "RUNNING"
    BY DEF row, freed
  <2> QED BY <1>1, <1>2, <1>3, <1>5, <2>1
<1> QED BY <1>5, <1>6 DEF row, freed

\* A claimed row matches its dataset, an INGEST only when everything before it is done
\* and no publication can still be swapped in.
LEMMA ClaimServes ==
  ASSUME LaneInvariant, LaneInvariant', ServingInvariant, claim_due_work
  PROVE  ServingInvariant'
<1> DEFINE swept == sweep_stale_work(release_expired_leases)
<1>1. PICK S \in SUBSET {w \in WorkIds : Claimable(swept, w)} :
        /\ work' = [w \in WorkIds |-> IF w \in S THEN claim_locked_row(swept, w) ELSE swept[w]]
        /\ ds' = [d \in Datasets |-> IF \E w \in S : w.ds = d
                                    THEN [ds[d] EXCEPT !.fence = @ + 1] ELSE ds[d]]
        /\ claims' = claims \cup {WorkClaim(swept, w) : w \in S}
        /\ UNCHANGED <<pubs, lance, marker, pin>>
  BY DEF claim_due_work, store
<1>2. \A w \in WorkIds :
         /\ swept[w] \in WorkRow /\ swept[w].seq = work[w].seq /\ swept[w].exp = work[w].exp
         /\ swept[w].state = "ABSENT" <=> work[w].state = "ABSENT"
         /\ swept[w].state = "SUCCEEDED" <=> work[w].state = "SUCCEEDED"
         /\ swept[w].state = "RUNNING" => swept[w] = work[w]
  BY SweptRow, SweptRunning DEF LaneInvariant
<1> HIDE DEF swept
<1>3. \A w \in S : /\ w \in WorkIds /\ swept[w].state \in Waiting
                   /\ lane_order_predicate(swept, w) /\ expected_state_predicate(swept, w)
  BY <1>1 DEF Claimable
<1>4. \A w \in WorkIds : LET row == claim_locked_row(swept, w) IN
         /\ row.state = "RUNNING" /\ row.seq = swept[w].seq /\ row.token = ds[w.ds].fence + 1
         /\ row.exp = IF w.kind = "INGEST" THEN Pointer(ds[w.ds]) ELSE swept[w].exp
  <2> SUFFICES ASSUME NEW w \in WorkIds
               PROVE  LET row == claim_locked_row(swept, w) IN
                      /\ row.state = "RUNNING" /\ row.seq = swept[w].seq /\ row.token = ds[w.ds].fence + 1
                      /\ row.exp = IF w.kind = "INGEST" THEN Pointer(ds[w.ds]) ELSE swept[w].exp
    OBVIOUS
  <2>1. PICK old \in WorkRow : old = swept[w]
    BY <1>2
  <2>2. PICK t, a, e : /\ t = ds[w.ds].fence + 1 /\ a = old.attempt + 1
                       /\ e = IF w.kind = "INGEST" THEN Pointer(ds[w.ds]) ELSE swept[w].exp
    OBVIOUS
  <2>3. claim_locked_row(swept, w) = [old EXCEPT !.state = "RUNNING", !.token = t, !.lapsed = FALSE,
                                                 !.attempt = a, !.exp = e]
    BY <2>1, <2>2 DEF claim_locked_row
  <2>4. LET row == claim_locked_row(swept, w) IN
        row.state = "RUNNING" /\ row.seq = old.seq /\ row.token = t /\ row.exp = e
    BY <2>3 DEF WorkRow
  <2> QED BY <2>1, <2>2, <2>4
<1>5. \A w \in WorkIds : IF w \in S THEN work'[w] = claim_locked_row(swept, w) ELSE work'[w] = swept[w]
  BY <1>1
<1>6. \A w \in WorkIds : Kept(w)
  BY <1>2, <1>3, <1>4, <1>5 DEF Kept, Waiting
<1>7. \A d \in Datasets : /\ ds'[d].uri = ds[d].uri /\ ds'[d].ver = ds[d].ver
                          /\ ds'[d].pub = ds[d].pub /\ ds'[d].applied = ds[d].applied
  <2>1. \A x \in DatasetRow : LET y == [x EXCEPT !.fence = @ + 1] IN
          y.uri = x.uri /\ y.ver = x.ver /\ y.pub = x.pub /\ y.applied = x.applied
    BY DEF DatasetRow
  <2>2. \A d \in Datasets : /\ ds[d] \in DatasetRow
                            /\ ds'[d] = ds[d] \/ ds'[d] = [ds[d] EXCEPT !.fence = @ + 1]
    BY <1>1 DEF LaneInvariant, TypeOK
  <2> QED BY <2>1, <2>2
<1>8. IngestStays
  BY <1>6 DEF IngestStays, Kept, Present
<1>9. \A c \in claims : Continues(c)
  <2> SUFFICES ASSUME NEW c \in claims PROVE Continues(c)
    OBVIOUS
  <2>1. c.work \in WorkIds /\ c.work.ds \in Datasets /\ c.token \in Nat
    BY ClaimShape DEF LaneInvariant
  <2>2. c.token <= ds[c.work.ds].fence /\ ds[c.work.ds].fence \in Nat
    BY <2>1 DEF LaneInvariant, Fenced, TypeOK, DatasetRow
  <2>3. c.token # ds[c.work.ds].fence + 1
    BY <2>1, <2>2
  <2>4. work'[c.work].token = c.token /\ work'[c.work].state = "RUNNING" => work'[c.work] = work[c.work]
    BY <1>2, <1>4, <1>5, <2>1, <2>3
  <2> QED BY <2>4 DEF Continues
<1>10. ASSUME NEW w \in S
       PROVE  Fresh(WorkClaim(swept, w))
  <2>1. /\ w \in WorkIds /\ w.ds \in Datasets /\ Present(w)
        /\ lane_order_predicate(swept, w) /\ expected_state_predicate(swept, w)
    BY <1>2, <1>3, <1>10, WorkIdShape DEF Waiting, Present
  <2>2. PICK c : c = WorkClaim(swept, w)
    OBVIOUS
  <2>3. c.work = w /\ c.stage = "claimed" /\ c.uri = ds[w.ds].uri /\ c.ver = ds[w.ds].ver
    BY <2>2 DEF WorkClaim
  <2>4. w.kind # "INGEST" => Matches(w)
    BY <1>2, <2>1 DEF expected_state_predicate, frozen_expectations_match_dataset, Matches
  <2>5. ASSUME w.kind = "INGEST"
        PROVE  /\ Started(w.ds, w.key) /\ work'[w].exp.uri = ds[w.ds].uri
               /\ \A v \in WorkIds : Live(v) /\ v.ds = w.ds => w.key <= ds[v.ds].applied
    <3>1. /\ w.key \in Seqs /\ w.key \in Nat /\ w = deterministic_ingest_work_id(w.ds, w.key)
          /\ swept[w].seq = w.key
      <4>1. w.key \in Seqs /\ w.key \in Nat
        BY <2>1, <2>5, IngestKey, ConstantsAssumption DEF ConstantsAssumption, Seqs
      <4>2. w = deterministic_ingest_work_id(w.ds, w.key)
        BY <2>1, <2>5 DEF WorkIds, deterministic_ingest_work_id
      <4>3. swept[w].seq = w.key
        BY <1>2, <2>1, <2>5 DEF LaneInvariant, SourceOrder, Present
      <4> QED BY <4>1, <4>2, <4>3
    <3>2. ASSUME NEW j \in 1..(w.key - 1)
          PROVE  Settled(deterministic_ingest_work_id(w.ds, j))
      <4>1. PICK v : v = deterministic_ingest_work_id(w.ds, j)
        OBVIOUS
      <4>2. j \in Seqs /\ j < w.key /\ j # w.key
        BY <3>1, <3>2, ConstantsAssumption DEF ConstantsAssumption, Seqs
      <4>3. v \in WorkIds /\ v.kind = "INGEST" /\ v.ds = w.ds /\ v.key = j /\ v # w
        BY <2>1, <4>1, <4>2, DerivedIds DEF deterministic_ingest_work_id
      <4>4. Present(v) => Precedes(swept, v, w)
        BY <1>2, <3>1, <4>2, <4>3 DEF LaneInvariant, SourceOrder, Precedes, Present
      <4>5. swept[v].state \in {"ABSENT", "SUCCEEDED"}
        BY <1>2, <2>1, <4>3, <4>4 DEF lane_order_predicate, Present
      <4> QED BY <1>2, <4>1, <4>3, <4>5 DEF Settled
    <3>3. Started(w.ds, w.key)
      BY <2>1, <3>1, <3>2 DEF Started
    <3>4. work'[w].exp.uri = ds[w.ds].uri
      <4>1. work'[w] = claim_locked_row(swept, w)
        BY <1>5, <2>1
      <4>2. work'[w].exp = Pointer(ds[w.ds])
        BY <1>4, <2>1, <2>5, <4>1
      <4> QED BY <4>2 DEF Pointer
    <3>5. ASSUME NEW v \in WorkIds, Live(v), v.ds = w.ds, ~(w.key <= ds[v.ds].applied)
          PROVE  FALSE
      <4>1. v.kind = "PUBLISH" /\ v # w /\ Matches(v) /\ ~Settled(v)
        BY <2>5, <3>5 DEF Live
      <4>2. work[v].seq = ds[v.ds].applied
        BY <4>1 DEF ServingInvariant, RowHolds, FrozenInputs, Settled, Present
      <4>3. ds[v.ds].applied \in Nat
        BY <2>1, <3>5, AppliedShape DEF LaneInvariant
      <4>4. swept[v].seq < swept[w].seq
        BY <1>2, <3>1, <3>5, <4>2, <4>3
      <4>5. swept[v].state \notin {"ABSENT", "SUCCEEDED"} /\ frozen_expectations_match_dataset(swept, v)
        BY <1>2, <4>1 DEF Settled, Matches, frozen_expectations_match_dataset
      <4> QED BY <2>1, <3>5, <4>1, <4>4, <4>5 DEF lane_order_predicate, Precedes
    <3> QED BY <3>3, <3>4, <3>5
  <2> QED BY <2>1, <2>2, <2>3, <2>4, <2>5 DEF Fresh
<1>11. \A c \in claims' : Continues(c) \/ Fresh(c)
  BY <1>1, <1>9, <1>10
<1>12. QuietStep
  BY <1>1, <1>6, <1>7, <1>8, <1>11, StartedStays DEF QuietStep
<1> QED BY <1>12, QuietServes

-----------------------------------------------------------------------------
(* Applying an ingest.                                                     *)

\* What an admitted completion finds: its own snapshot on top of the dataset's URI, in
\* the version it reports, ahead of the applied one, and no publication of it yet.
LEMMA ApplyFinds ==
  ASSUME LaneInvariant, ServingInvariant, NEW c \in claims,
         c.work.kind = "INGEST", c.stage = "done", lease_is_current(c), assert_expectations_match(c.work)
  PROVE  LET d == c.work.ds
             k == c.work.key
             p == deterministic_publish_work_id(d, k) IN
         /\ d \in Datasets /\ k \in Seqs /\ c.work \in WorkIds
         /\ c.work = deterministic_ingest_work_id(d, k)
         /\ p \in WorkIds /\ p.kind = "PUBLISH" /\ p.ds = d /\ p.key = k
         /\ work[c.work].state = "RUNNING" /\ work[c.work].seq = k
         /\ work[c.work].exp.uri = ds[d].uri /\ c.uri = ds[d].uri
         /\ ds[d].applied < k /\ ds[d].applied \in Nat /\ k \in Nat
         /\ Contents(c.uri) = k /\ VersionHolds(c.uri, c.out, k)
         /\ work[p].state = "ABSENT"
<1> DEFINE d == c.work.ds
           k == c.work.key
           p == deterministic_publish_work_id(d, k)
<1>1. /\ d \in Datasets /\ k \in Seqs /\ c.work \in WorkIds /\ c.work = deterministic_ingest_work_id(d, k)
      /\ c.uri \in Uris
  BY ClaimShape DEF LaneInvariant
<1>2. work[c.work].state = "RUNNING" /\ work[c.work].token = c.token /\ work[c.work].seq = k
  BY <1>1 DEF lease_is_current, LaneInvariant, SourceOrder
<1>3. work[c.work].exp.uri = ds[d].uri
  BY DEF assert_expectations_match, frozen_expectations_match_dataset, Pointer
<1>4. IngestClaim(c)
  BY DEF ServingInvariant
<1>5. c.uri = ds[d].uri /\ k <= Contents(c.uri)
  BY <1>2, <1>3, <1>4 DEF IngestClaim
<1>6. ds[d].applied \in Nat /\ k \in Nat
  BY <1>1, AppliedShape, ConstantsAssumption DEF ConstantsAssumption, LaneInvariant, Seqs
<1>7. ~(k <= ds[d].applied)
  BY <1>1, <1>2 DEF LaneInvariant, AppliedPrefix
<1>8. ds[d].applied < k
  BY <1>6, <1>7
<1>9. Contents(c.uri) = k
  BY <1>5, <1>6, <1>8, NothingAhead
<1>10. VersionHolds(c.uri, c.out, k)
  BY <1>4, <1>5, <1>6, <1>8 DEF IngestClaim
<1>11. p \in WorkIds /\ p.kind = "PUBLISH" /\ p.ds = d /\ p.key = k
  BY <1>1, DerivedIds DEF deterministic_publish_work_id
<1> HIDE DEF p
<1>12. work[p].state = "ABSENT"
  <2> SUFFICES ASSUME Present(p) PROVE FALSE
    BY DEF Present
  <2>1. work[p].seq = k /\ work[p].seq \in 1..ds[d].applied
    BY <1>11 DEF ServingInvariant, RowHolds, FrozenInputs
  <2> QED BY <1>6, <1>8, <2>1
<1> QED BY <1>1, <1>2, <1>3, <1>5, <1>6, <1>8, <1>9, <1>10, <1>11, <1>12 DEF p

\* What it writes.
LEMMA ApplyWrites ==
  ASSUME LaneInvariant, ServingInvariant, NEW c \in claims,
         c.work.kind = "INGEST", c.stage = "done", lease_is_current(c), assert_expectations_match(c.work),
         ApplyIngest(c)
  PROVE  LET d == c.work.ds
             k == c.work.key
             p == deterministic_publish_work_id(d, k) IN
         /\ claims' \subseteq claims /\ UNCHANGED <<pubs, lance, marker, pin>>
         /\ work'[p].state = "PENDING" /\ work'[p].seq = k
         /\ work'[p].exp = [uri |-> c.uri, ver |-> c.out, pub |-> ds[d].pub]
         /\ work'[c.work].state = "SUCCEEDED"
         /\ \A v \in WorkIds : v # p /\ v # c.work => work'[v] = work[v]
         /\ ds'[d].applied = k /\ ds'[d].uri = c.uri /\ ds'[d].ver = c.out /\ ds'[d].pub = ds[d].pub
         /\ \A x \in Datasets : x # d => ds'[x] = ds[x]
<1>1. PICK w, d, k, p : /\ w = c.work /\ d = w.ds /\ k = w.key
                        /\ p = deterministic_publish_work_id(d, k)
  OBVIOUS
<1>2. /\ d \in Datasets /\ k \in Seqs /\ w \in WorkIds /\ w.kind = "INGEST"
      /\ p \in WorkIds /\ p.kind = "PUBLISH"
      /\ work[w].state = "RUNNING" /\ work[w].seq = k /\ work[w].exp.uri = c.uri
      /\ work[p].state = "ABSENT"
  BY <1>1, ApplyFinds
<1>3. PICK row, cand, exp : /\ row = work[w] /\ cand = [uri |-> c.uri, ver |-> c.out]
                            /\ exp = [uri |-> c.uri, ver |-> c.out, pub |-> ds[d].pub]
  OBVIOUS
<1>4. PICK fin, new : /\ fin = [Released(row, "SUCCEEDED") EXCEPT !.cand = cand]
                      /\ new = NewWork(COMPACT, k, row.rev, exp, cand)
  OBVIOUS
<1>5. row \in WorkRow
  BY <1>2, <1>3 DEF LaneInvariant, TypeOK
<1>6. fin.state = "SUCCEEDED"
  BY <1>4, <1>5 DEF Released, WorkRow
<1>7. new.state = "PENDING" /\ new.seq = k /\ new.exp = exp
  <2>1. \A a, b, f, x, g : LET n == NewWork(a, b, f, x, g) IN n.state = "PENDING" /\ n.seq = b /\ n.exp = x
    BY DEF NewWork, AbsentWork
  <2> QED BY <1>4, <2>1
<1>8. PICK done : done = [work EXCEPT ![w] = fin]
  OBVIOUS
<1>9. work' = enqueue_publish_work(done, w, c.out)
  BY <1>1, <1>2, <1>3, <1>4, <1>8 DEF ApplyIngest
<1>10. p # w /\ done[p] = work[p] /\ done[w] = fin /\ \A v \in WorkIds : v # w => done[v] = work[v]
  BY <1>2, <1>8 DEF LaneInvariant, TypeOK
<1>11. work' = [done EXCEPT ![p] = new]
  BY <1>1, <1>2, <1>3, <1>4, <1>9, <1>10 DEF enqueue_publish_work
<1>12. DOMAIN done = WorkIds
  BY <1>8 DEF LaneInvariant, TypeOK
<1>13. work'[p] = new /\ work'[w] = fin /\ \A v \in WorkIds : v # p /\ v # w => work'[v] = work[v]
  BY <1>2, <1>10, <1>11, <1>12
<1>14. PICK moved : moved = [ds[d] EXCEPT !.materialized = row.rev, !.applied = k, !.uri = c.uri, !.ver = c.out]
  OBVIOUS
<1>15. ds' = [ds EXCEPT ![d] = moved]
  BY <1>1, <1>2, <1>3, <1>14 DEF ApplyIngest
<1>16. moved.applied = k /\ moved.uri = c.uri /\ moved.ver = c.out /\ moved.pub = ds[d].pub
  BY <1>2, <1>14 DEF LaneInvariant, TypeOK, DatasetRow
<1>17. ds'[d] = moved /\ \A x \in Datasets : x # d => ds'[x] = ds[x]
  BY <1>2, <1>15 DEF LaneInvariant, TypeOK
<1>18. claims' \subseteq claims /\ UNCHANGED <<pubs, lance, marker, pin>>
  BY DEF ApplyIngest, Drop, store
<1> QED BY <1>1, <1>3, <1>6, <1>7, <1>13, <1>16, <1>17, <1>18

\* Applying an ingest keeps the invariant: the new publication is frozen over exactly the
\* version just applied, and every other one of the dataset goes stale for good.
LEMMA ApplyServes ==
  ASSUME LaneInvariant, LaneInvariant', ServingInvariant, NEW c \in claims,
         c.work.kind = "INGEST", c.stage = "done", lease_is_current(c), assert_expectations_match(c.work),
         ApplyIngest(c)
  PROVE  ServingInvariant'
<1>1. PICK w, d, k, p, u : /\ w = c.work /\ d = w.ds /\ k = w.key /\ u = c.uri
                           /\ p = deterministic_publish_work_id(d, k)
  OBVIOUS
<1>2. /\ d \in Datasets /\ k \in Seqs /\ k \in Nat /\ w \in WorkIds /\ w.kind = "INGEST"
      /\ w = deterministic_ingest_work_id(d, k)
      /\ p \in WorkIds /\ p.kind = "PUBLISH" /\ p.ds = d /\ p.key = k
      /\ work[w].state = "RUNNING" /\ work[p].state = "ABSENT"
      /\ u = ds[d].uri /\ ds[d].applied < k /\ ds[d].applied \in Nat
      /\ Contents(u) = k /\ VersionHolds(u, c.out, k)
  BY <1>1, ApplyFinds
<1>3. /\ claims' \subseteq claims /\ UNCHANGED pubs /\ UNCHANGED lance /\ UNCHANGED marker /\ UNCHANGED pin
      /\ work'[p].state = "PENDING" /\ work'[p].seq = k
      /\ work'[p].exp = [uri |-> u, ver |-> c.out, pub |-> ds[d].pub]
      /\ work'[w].state = "SUCCEEDED"
      /\ \A v \in WorkIds : v # p /\ v # w => work'[v] = work[v]
      /\ ds'[d].applied = k /\ ds'[d].uri = u /\ ds'[d].ver = c.out /\ ds'[d].pub = ds[d].pub
      /\ \A x \in Datasets : x # d => ds'[x] = ds[x]
  BY <1>1, ApplyWrites
<1>4. u \in Uris /\ DatasetHolds(d) /\ Home(u, d)
  BY <1>2, AppliedShape DEF ServingInvariant, DatasetHolds, LaneInvariant
<1>5. \A x, y : Home(x, y)' <=> Home(x, y)
  BY <1>3 DEF Home
<1>6. \A x \in Uris : Contents(x)' = Contents(x)
  BY <1>3 DEF Contents, Latest
<1>7. \A x, y, z : VersionHolds(x, y, z)' <=> VersionHolds(x, y, z)
  BY <1>3 DEF VersionHolds
<1>8. IngestStays
  BY <1>2, <1>3 DEF IngestStays, Present
<1>9. RowHolds(p)'
  <2>1. Present(p)' /\ pubs[p] = None /\ pin[p] = 0
    BY <1>2, <1>3 DEF Present, ServingInvariant, RowHolds, Unborn
  <2>2. work'[p].exp.uri = u /\ work'[p].exp.ver = c.out /\ work'[p].exp.pub = ds[d].pub
    BY <1>3
  <2>3. FrozenInputs(p)'
    <3>1. Home(work[p].exp.uri, p.ds)'
      BY <1>2, <1>4, <1>5, <2>2 DEF Home
    <3>2. VersionHolds(work[p].exp.uri, work[p].exp.ver, work[p].seq)'
      BY <1>2, <1>3, <2>2 DEF VersionHolds
    <3>3. work'[p].seq \in 1..ds'[p.ds].applied /\ work'[p].seq = ds'[p.ds].applied /\ work'[p].seq = p.key
      BY <1>2, <1>3
    <3>4. work'[p].exp.pub # None => pubs'[work'[p].exp.pub] # None
      BY <1>3, <1>4, <2>2 DEF DatasetHolds
    <3> QED BY <3>1, <3>2, <3>3, <3>4 DEF FrozenInputs
  <2>4. LiveHolds(p)'
    BY <1>2, <1>3, <2>1 DEF LiveHolds, Contents, Latest
  <2>5. Succeeds(p)'
    <3> SUFFICES ASSUME u.key # None
                 PROVE  pubs[deterministic_rebuild_work_id(d, u.key)].seq < k
      BY <1>2, <1>3, <2>2 DEF Succeeds
    <3>1. PICK q : q = pubs[deterministic_rebuild_work_id(d, u.key)]
      OBVIOUS
    <3>2. q.seq <= ds[d].applied
      BY <1>2, <1>4, <3>1 DEF DatasetHolds
    <3>3. deterministic_rebuild_work_id(d, u.key) \in WorkIds /\ q # None
      BY <1>4, <3>1, UriOwner DEF Home
    <3>4. q.seq \in Nat
      BY <3>1, <3>3, ConstantsAssumption DEF ConstantsAssumption, LaneInvariant, TypeOK, PublicationRow
    <3> QED BY <1>2, <3>1, <3>2, <3>4
  <2> QED BY <1>2, <1>3, <2>1, <2>3, <2>4, <2>5 DEF RowHolds, Unborn, Candidate, Pinned, Published
<1>10. RowHolds(w)'
  <2>1. pubs[w] = None /\ pin[w] = 0
    BY <1>2 DEF ServingInvariant, RowHolds, Published, Pinned
  <2> QED BY <1>2, <1>3, <2>1 DEF RowHolds, FrozenInputs, Unborn, Candidate, Pinned, LiveHolds, Live,
                                  Published, Succeeds
<1>11. ASSUME NEW v \in WorkIds, v # p, v # w
       PROVE  /\ RowHolds(v)'
              /\ Live(v)' => v.ds # d /\ Live(v)
  <2>1. work'[v] = work[v] /\ v.ds \in Datasets
    BY <1>3, <1>11, WorkIdShape
  <2>2. RowHolds(v)
    BY DEF ServingInvariant
  <2>3. /\ Present(v)' <=> Present(v)
        /\ Settled(v)' <=> Settled(v)
        /\ Build(v)' = Build(v)
    BY <2>1 DEF Present, Settled, Build
  <2>4. v.ds # d => (Matches(v)' <=> Matches(v))
    BY <1>3, <2>1 DEF Matches, Pointer
  <2>5. ASSUME v.ds = d, v.kind # "INGEST", Present(v), Matches(v)'
        PROVE  FALSE
    <3>1. work[v].exp.uri = u /\ work[v].exp.ver = c.out
      BY <1>3, <2>1, <2>5 DEF Matches, Pointer
    <3>2. VersionHolds(work[v].exp.uri, work[v].exp.ver, work[v].seq) /\ work[v].seq \in 1..ds[d].applied
      BY <2>2, <2>5 DEF RowHolds, FrozenInputs
    <3>3. work[v].seq = k
      BY <1>2, <3>1, <3>2 DEF VersionHolds
    <3> QED BY <1>2, <3>2, <3>3
  <2>6. Live(v)' => v.ds # d /\ Live(v)
    BY <2>3, <2>4, <2>5 DEF Live, Settled, Present
  <2>7. FrozenInputs(v)'
    <3> SUFFICES ASSUME v.kind # "INGEST", Present(v)
                 PROVE  FrozenInputs(v)'
      BY <2>3 DEF FrozenInputs
    <3>1. /\ Home(work[v].exp.uri, v.ds) /\ VersionHolds(work[v].exp.uri, work[v].exp.ver, work[v].seq)
          /\ work[v].seq \in 1..ds[v.ds].applied
          /\ work[v].exp.pub # None => pubs[work[v].exp.pub] # None
          /\ Matches(v) => work[v].seq = ds[v.ds].applied
          /\ v.kind = "PUBLISH" => work[v].seq = v.key
      BY <2>2 DEF RowHolds, FrozenInputs
    <3>2. Home(work[v].exp.uri, v.ds)' /\ VersionHolds(work[v].exp.uri, work[v].exp.ver, work[v].seq)'
      BY <1>3, <2>1, <3>1 DEF Home, VersionHolds
    <3>3. work'[v].seq \in 1..ds'[v.ds].applied
      <4>1. CASE v.ds = d
        BY <1>2, <1>3, <2>1, <3>1, <4>1
      <4>2. CASE v.ds # d
        BY <1>3, <2>1, <3>1, <4>2
      <4> QED BY <4>1, <4>2
    <3>4. Matches(v)' => work'[v].seq = ds'[v.ds].applied
      BY <1>3, <2>1, <2>4, <2>5, <3>1
    <3> QED BY <1>3, <2>1, <3>1, <3>2, <3>3, <3>4 DEF FrozenInputs
  <2>8. Unborn(v)' /\ Candidate(v)' /\ Pinned(v)' /\ Succeeds(v)'
    BY <1>3, <2>1, <2>2, <2>3 DEF RowHolds, Unborn, Candidate, Pinned, Succeeds
  <2>9. LiveHolds(v)'
    <3> SUFFICES ASSUME Live(v)'
                 PROVE  /\ Contents(ds[v.ds].uri)' = ds'[v.ds].applied
                        /\ pin'[v] # 0 => lance'[ds'[v.ds].uri][pin'[v]] = work'[v].seq
      BY DEF LiveHolds
    <3>1. v.ds # d /\ ds'[v.ds] = ds[v.ds] /\ LiveHolds(v) /\ Live(v)
      BY <1>3, <2>1, <2>2, <2>6 DEF RowHolds
    <3> QED BY <1>3, <2>1, <3>1 DEF LiveHolds, Contents, Latest
  <2>10. Published(v)'
    BY <1>3, <2>1, <2>2, <2>3 DEF RowHolds, Published, VersionHolds, Contents, Latest
  <2> QED BY <2>6, <2>7, <2>8, <2>9, <2>10 DEF RowHolds
<1>12. ASSUME NEW x \in Datasets
       PROVE  DatasetHolds(x)'
  <2>1. CASE x = d
    <3>1. Home(ds[x].uri, x)' /\ VersionHolds(ds[x].uri, ds[x].ver, ds[x].applied)' /\ Contents(ds[x].uri)' = k
      BY <1>2, <1>3, <1>4, <2>1 DEF Home, VersionHolds, Contents, Latest
    <3>2. ~(k > k)
      BY <1>2
    <3>3. ds'[x].uri.key # None =>
            pubs'[deterministic_rebuild_work_id(x, ds'[x].uri.key)].seq <= ds'[x].applied
      <4> SUFFICES ASSUME u.key # None
                   PROVE  pubs[deterministic_rebuild_work_id(d, u.key)].seq <= k
        BY <1>3, <2>1
      <4>1. PICK q : q = pubs[deterministic_rebuild_work_id(d, u.key)]
        OBVIOUS
      <4>2. q.seq <= ds[d].applied
        BY <1>2, <1>4, <4>1 DEF DatasetHolds
      <4>3. deterministic_rebuild_work_id(d, u.key) \in WorkIds /\ q # None
        BY <1>4, <4>1, UriOwner DEF Home
      <4>4. q.seq \in Nat
        BY <4>1, <4>3, ConstantsAssumption DEF ConstantsAssumption, LaneInvariant, TypeOK, PublicationRow
      <4> QED BY <1>2, <4>1, <4>2, <4>4
    <3>4. ds'[x].pub # None => pubs'[ds'[x].pub] # None
      BY <1>3, <1>4, <2>1 DEF DatasetHolds
    <3>5. ds'[x].applied <= Contents(ds[x].uri)' /\ ~(Contents(ds[x].uri)' > ds'[x].applied)
      BY <1>2, <1>3, <2>1, <3>1, <3>2
    <3> QED BY <3>1, <3>3, <3>4, <3>5 DEF DatasetHolds
  <2>2. CASE x # d
    <3>1. ds'[x] = ds[x] /\ DatasetHolds(x) /\ ds[x].uri \in Uris
      BY <1>3, <2>2, AppliedShape DEF ServingInvariant, LaneInvariant
    <3>2. Home(ds[x].uri, x)' /\ Contents(ds[x].uri)' = Contents(ds[x].uri)
      BY <1>3, <3>1 DEF DatasetHolds, Home, Contents, Latest
    <3>3. ds[x].applied # 0 => VersionHolds(ds[x].uri, ds[x].ver, ds[x].applied)'
      BY <1>3, <3>1 DEF DatasetHolds, VersionHolds
    <3>4. Contents(ds[x].uri) > ds[x].applied => Started(x, Contents(ds[x].uri))'
      <4> SUFFICES ASSUME Contents(ds[x].uri) > ds[x].applied PROVE Started(x, Contents(ds[x].uri))'
        OBVIOUS
      <4>1. Contents(ds[x].uri) \in 0..MaxSeq /\ ds[x].applied \in Nat
        BY <3>1, StoreShape, AppliedShape DEF LaneInvariant
      <4>2. PICK j \in Seqs : j = Contents(ds[x].uri)
        BY <4>1, ConstantsAssumption DEF ConstantsAssumption, Seqs
      <4>3. Started(x, j)'
        BY <1>8, <3>1, <4>2, StartedStays DEF DatasetHolds
      <4> QED BY <3>2, <4>2, <4>3 DEF Started
    <3> QED BY <1>3, <3>1, <3>2, <3>3, <3>4 DEF DatasetHolds
  <2> QED BY <2>1, <2>2
<1>13. ASSUME NEW e \in claims
       PROVE  IngestClaim(e)' /\ PublishClaim(e)'
  <2>1. /\ e.work \in WorkIds /\ e.work.ds \in Datasets /\ e.uri \in Uris
        /\ e.work.kind = "INGEST" => e.work.key \in Seqs /\ e.work.key \in Nat
    BY ClaimShape, ConstantsAssumption DEF ConstantsAssumption, LaneInvariant, Seqs
  <2>2. IngestClaim(e) /\ PublishClaim(e)
    BY DEF ServingInvariant
  <2>3. ASSUME e.work.kind = "INGEST"
        PROVE  IngestClaim(e)'
    <3>1. Started(e.work.ds, e.work.key)' /\ Home(e.uri, e.work.ds)'
      BY <1>5, <1>8, <2>1, <2>2, <2>3, StartedStays DEF IngestClaim
    <3>2. work'[e.work].state = "RUNNING" => work'[e.work] = work[e.work]
      BY <1>2, <1>3, <2>1, <2>3
    <3>3. e.stage = "done" /\ e.work.key > ds'[e.work.ds].applied /\ e.uri = ds'[e.work.ds].uri
            => VersionHolds(e.uri, e.out, e.work.key)'
      <4> SUFFICES ASSUME e.stage = "done", e.work.key > ds'[e.work.ds].applied, e.uri = ds'[e.work.ds].uri
                   PROVE  VersionHolds(e.uri, e.out, e.work.key)
        BY <1>7
      <4>1. e.work.key > ds[e.work.ds].applied /\ e.uri = ds[e.work.ds].uri
        BY <1>2, <1>3, <2>1, <2>3
      <4> QED BY <2>2, <2>3, <4>1 DEF IngestClaim
    <3>4. ASSUME NEW v \in WorkIds, Live(v)', v.ds = e.work.ds
          PROVE  e.work.key <= ds'[v.ds].applied
      <4>1. CASE v = p
        <5>1. SUFFICES ASSUME ~(e.work.key <= k) PROVE FALSE
          BY <1>2, <1>3, <4>1
        <5>2. k \in 1..(e.work.key - 1)
          BY <1>2, <2>1, <2>3, <5>1, ConstantsAssumption DEF ConstantsAssumption, Seqs
        <5>3. Settled(w)
          BY <1>2, <2>2, <2>3, <3>4, <4>1, <5>2 DEF IngestClaim, Started
        <5> QED BY <1>2, <5>3 DEF Settled
      <4>2. CASE v # p
        <5>1. v # w /\ v.ds # d /\ Live(v)
          BY <1>2, <1>11, <3>4, <4>2 DEF Live
        <5> QED BY <1>3, <2>1, <2>2, <2>3, <3>4, <5>1 DEF IngestClaim
      <4> QED BY <4>1, <4>2
    <3> QED BY <1>6, <2>1, <2>2, <2>3, <3>1, <3>2, <3>3, <3>4 DEF IngestClaim
  <2>4. ASSUME e.work.kind # "INGEST"
        PROVE  PublishClaim(e)'
    <3>1. e.work # p /\ e.work # w
      BY <1>2, <2>2, <2>4 DEF PublishClaim, Present
    <3>2. work'[e.work] = work[e.work] /\ (Live(e.work)' => Live(e.work))
      BY <1>3, <1>11, <2>1, <3>1
    <3>3. Build(e.work)' = Build(e.work) /\ (Present(e.work)' <=> Present(e.work))
      BY <3>2 DEF Build, Present
    <3> QED BY <1>3, <2>2, <2>4, <3>2, <3>3 DEF PublishClaim
  <2> QED BY <2>3, <2>4 DEF IngestClaim, PublishClaim
<1>14. MarkersHold'
  BY <1>3, <1>6 DEF MarkersHold, ServingInvariant
<1> QED BY <1>3, <1>9, <1>10, <1>11, <1>12, <1>13, <1>14 DEF ServingInvariant

-----------------------------------------------------------------------------
(* publish_dataset.                                                        *)

\* What publish_dataset finds when it swaps the pointer: the pinned candidate holds
\* exactly the applied snapshot.
LEMMA SwapFinds ==
  ASSUME LaneInvariant, ServingInvariant, NEW c \in claims, c.work.kind # "INGEST",
         c.stage = "done", lease_is_current(c), pubs[c.work] = None, assert_expectations_match(c.work)
  PROVE  LET w == c.work
             d == w.ds
             u == Build(w) IN
         /\ w \in WorkIds /\ d \in Datasets /\ work[w] \in WorkRow /\ work[w].state = "RUNNING"
         /\ CandidateUri(c) = u /\ u \in Uris /\ pin[w] = c.out /\ c.out \in Nat
         /\ Matches(w) /\ work[w].seq = ds[d].applied /\ work[w].seq \in Nat
         /\ VersionHolds(u, c.out, work[w].seq)
         /\ w.kind = "PUBLISH" => u = ds[d].uri
         /\ w.kind = "REBUILD" => Contents(u) = work[w].seq
<1>1. PICK w, d, u : w = c.work /\ d = w.ds /\ u = Build(w)
  OBVIOUS
<1>2. /\ w \in WorkIds /\ d \in Datasets /\ work[w] \in WorkRow /\ work[w].state = "RUNNING"
      /\ c.out \in Nat
  BY <1>1, CurrentLease, ClaimShape DEF LaneInvariant
<1>3. CandidateUri(c) = u /\ u \in Uris /\ Present(w) /\ work[w].seq \in Nat
  BY <1>1, CandidateShape
<1>4. Matches(w)
  BY <1>1 DEF assert_expectations_match, frozen_expectations_match_dataset, Matches
<1>5. RowHolds(w) /\ PublishClaim(c)
  BY <1>2 DEF ServingInvariant
<1>6. work[w].seq = ds[d].applied
  BY <1>1, <1>3, <1>4, <1>5 DEF RowHolds, FrozenInputs
<1>7. pin[w] = c.out /\ c.out \in DOMAIN lance[u] /\ (Live(w) => lance[u][c.out] = work[w].seq)
  BY <1>1, <1>5 DEF PublishClaim
<1>8. CASE w.kind = "PUBLISH"
  <2>1. Live(w)
    BY <1>2, <1>4, <1>8 DEF Live, Settled
  <2>2. u = ds[d].uri
    BY <1>1, <2>1, CandidateShape
  <2> QED BY <1>1, <1>2, <1>3, <1>4, <1>6, <1>7, <1>8, <2>1, <2>2 DEF VersionHolds
<1>9. CASE w.kind = "REBUILD"
  <2>1. u = rebuild_uri(w)
    BY <1>1, <1>9 DEF Build
  <2>2. \A i \in DOMAIN lance[u] : lance[u][i] = work[w].seq
    BY <1>1, <1>5, <1>9, <2>1 DEF RowHolds, Candidate
  <2>3. VersionHolds(u, Latest(u), Contents(u))
    BY <1>3, <1>7, StoreShape DEF LaneInvariant
  <2>4. Contents(u) = work[w].seq
    BY <2>2, <2>3 DEF VersionHolds
  <2> QED BY <1>1, <1>2, <1>3, <1>4, <1>6, <1>7, <1>9, <2>2, <2>4 DEF VersionHolds
<1>10. w.kind = "PUBLISH" \/ w.kind = "REBUILD"
  BY <1>1, <1>2 DEF WorkIds
<1> QED BY <1>8, <1>9, <1>10

\* What it writes.
LEMMA SwapWrites ==
  ASSUME LaneInvariant, ServingInvariant, NEW c \in claims, c.work.kind # "INGEST",
         c.stage = "done", lease_is_current(c), pubs[c.work] = None, assert_expectations_match(c.work),
         SwapServingPointer(c)
  PROVE  LET w == c.work
             d == w.ds
             u == Build(w) IN
         /\ claims' \subseteq claims /\ UNCHANGED <<snap, lance, marker, pin>>
         /\ work'[w].state = "SUCCEEDED" /\ work'[w].seq = work[w].seq /\ work'[w].exp = work[w].exp
         /\ \A v \in WorkIds : v # w => work'[v] = work[v]
         /\ ds'[d].pub = w /\ ds'[d].applied = ds[d].applied /\ ds'[d].uri = u
         /\ w.kind = "REBUILD" => ds'[d].ver = c.out
         /\ w.kind = "PUBLISH" => ds'[d].ver = ds[d].ver
         /\ \A x \in Datasets : x # d => ds'[x] = ds[x]
         /\ pubs'[w] # None /\ pubs'[w].seq = work[w].seq /\ pubs'[w].uri = u /\ pubs'[w].ver = c.out
         /\ pubs'[w].retired = FALSE
         /\ \A v \in WorkIds : v # w =>
              /\ v # ds[d].pub => pubs'[v] = pubs[v]
              /\ v = ds[d].pub => pubs[v] # None /\ pubs'[v] # None /\ pubs'[v].retired = TRUE
              /\ pubs'[v] # None <=> pubs[v] # None
              /\ pubs[v] # None => /\ pubs'[v].seq = pubs[v].seq /\ pubs'[v].uri = pubs[v].uri
                                   /\ pubs'[v].ver = pubs[v].ver
<1>1. PICK w, d, u, former, row, old, cand :
        /\ w = c.work /\ d = w.ds /\ u = Build(w) /\ former = ds[d].pub
        /\ row = work[w] /\ old = ds[d] /\ cand = [uri |-> u, ver |-> c.out]
  OBVIOUS
<1>2. /\ w \in WorkIds /\ d \in Datasets /\ row \in WorkRow /\ CandidateUri(c) = u /\ u \in Uris
      /\ c.out \in Nat
      /\ w.kind = "PUBLISH" => u = ds[d].uri
  BY <1>1, SwapFinds
<1>3. old \in DatasetRow
  BY <1>1, <1>2 DEF LaneInvariant, TypeOK
<1>4. PICK fresh, fin, moved :
        /\ fresh = [seq |-> row.seq, rev |-> row.rev, uri |-> u, ver |-> c.out, retired |-> FALSE]
        /\ fin = [Released(row, "SUCCEEDED") EXCEPT !.phase = PUBLISH, !.cand = cand]
        /\ moved = IF w.kind = "REBUILD"
                   THEN [old EXCEPT !.pub = w, !.uri = u, !.ver = c.out, !.materialized = row.rev]
                   ELSE [old EXCEPT !.pub = w]
  OBVIOUS
<1>5. /\ pubs' = [Retire(former) EXCEPT ![w] = fresh]
      /\ ds' = [ds EXCEPT ![d] = moved]
      /\ work' = [work EXCEPT ![w] = fin]
  BY <1>1, <1>2, <1>4 DEF SwapServingPointer
<1>6. claims' \subseteq claims /\ UNCHANGED <<snap, lance, marker, pin>>
  BY DEF SwapServingPointer, Drop, store
<1>7. fin.state = "SUCCEEDED" /\ fin.seq = row.seq /\ fin.exp = row.exp
  <2>1. PICK r : r = Released(row, "SUCCEEDED")
    OBVIOUS
  <2>2. r \in WorkRow /\ r.state = "SUCCEEDED" /\ r.seq = row.seq /\ r.exp = row.exp
    <3>1. r.state = "SUCCEEDED" /\ r.seq = row.seq /\ r.exp = row.exp
      BY <1>2, <2>1 DEF Released, WorkRow
    <3> QED BY <1>2, <2>1, <3>1, ReleasedType DEF WorkState
  <2>3. fin = [r EXCEPT !.phase = PUBLISH, !.cand = cand]
    BY <1>4, <2>1
  <2> QED BY <2>2, <2>3 DEF WorkRow
<1>8. /\ moved.pub = w /\ moved.applied = old.applied
      /\ w.kind = "REBUILD" => moved.uri = u /\ moved.ver = c.out
      /\ w.kind # "REBUILD" => moved.uri = old.uri /\ moved.ver = old.ver
  BY <1>3, <1>4 DEF DatasetRow
<1>9. w.kind # "INGEST" /\ (w.kind # "REBUILD" => w.kind = "PUBLISH")
  BY <1>1, <1>2 DEF WorkIds
<1>10. /\ ds'[d] = moved /\ \A x \in Datasets : x # d => ds'[x] = ds[x]
       /\ work'[w] = fin /\ \A v \in WorkIds : v # w => work'[v] = work[v]
  BY <1>2, <1>5 DEF LaneInvariant, TypeOK
<1>11. ds'[d].uri = u
  BY <1>1, <1>2, <1>8, <1>9, <1>10
<1>12. /\ pubs'[w] = fresh
       /\ \A v \in WorkIds : v # w => pubs'[v] = IF v = former THEN [pubs[v] EXCEPT !.retired = TRUE] ELSE pubs[v]
  BY <1>2, <1>5 DEF Retire
<1>13. /\ fresh # None /\ fresh.seq = row.seq /\ fresh.uri = u /\ fresh.ver = c.out /\ fresh.retired = FALSE
  <2>1. fresh \in PublicationRow
    BY <1>2, <1>4 DEF PublicationRow, WorkRow
  <2> QED BY <1>4, <2>1, NullColumns DEF NullColumns
<1>14. ASSUME NEW v \in WorkIds, v # w
       PROVE  /\ v # former => pubs'[v] = pubs[v]
              /\ v = former => pubs[v] # None /\ pubs'[v] # None /\ pubs'[v].retired = TRUE
              /\ pubs'[v] # None <=> pubs[v] # None
              /\ pubs[v] # None => /\ pubs'[v].seq = pubs[v].seq /\ pubs'[v].uri = pubs[v].uri
                                   /\ pubs'[v].ver = pubs[v].ver
  <2>1. CASE v # former
    BY <1>12, <1>14, <2>1
  <2>2. CASE v = former
    <3>1. pubs[v] \in PublicationRow
      BY <1>1, <1>2, <2>2, NullAssumption DEF NullAssumption, LaneInvariant, RowsWellFormed
    <3>2. PICK p \in PublicationRow : p = pubs[v]
      BY <3>1
    <3>3. PICK q : q = [p EXCEPT !.retired = TRUE]
      OBVIOUS
    <3>4. q \in PublicationRow /\ q.retired = TRUE /\ q.seq = p.seq /\ q.uri = p.uri /\ q.ver = p.ver
      BY <3>3 DEF PublicationRow
    <3>5. pubs'[v] = q
      BY <1>12, <1>14, <2>2, <3>2, <3>3
    <3>6. q # None /\ p # None
      BY <3>2, <3>4, NullColumns DEF NullColumns
    <3> QED BY <2>2, <3>2, <3>4, <3>5, <3>6
  <2> QED BY <2>1, <2>2
<1>15. work'[w].state = "SUCCEEDED" /\ work'[w].seq = work[w].seq /\ work'[w].exp = work[w].exp
  BY <1>1, <1>7, <1>10
<1>16. /\ ds'[d].pub = w /\ ds'[d].applied = ds[d].applied
       /\ w.kind = "REBUILD" => ds'[d].ver = c.out
       /\ w.kind = "PUBLISH" => ds'[d].ver = ds[d].ver
  BY <1>1, <1>8, <1>9, <1>10
<1>17. /\ pubs'[w] # None /\ pubs'[w].seq = work[w].seq /\ pubs'[w].uri = u /\ pubs'[w].ver = c.out
       /\ pubs'[w].retired = FALSE
  BY <1>1, <1>12, <1>13
<1> QED BY <1>1, <1>6, <1>10, <1>11, <1>14, <1>15, <1>16, <1>17

\* Swapping the pointer keeps the invariant: the new publication serves exactly the applied
\* snapshot, and every other publication or rebuild of the dataset goes stale for good.
LEMMA SwapServes ==
  ASSUME LaneInvariant, LaneInvariant', ServingInvariant, NEW c \in claims, c.work.kind # "INGEST",
         c.stage = "done", lease_is_current(c), pubs[c.work] = None, assert_expectations_match(c.work),
         SwapServingPointer(c)
  PROVE  ServingInvariant'
<1>1. PICK w, d, u : w = c.work /\ d = w.ds /\ u = Build(w)
  OBVIOUS
<1>2. /\ w \in WorkIds /\ d \in Datasets /\ work[w].state = "RUNNING"
      /\ u \in Uris /\ pin[w] = c.out /\ pubs[w] = None /\ w.kind # "INGEST"
      /\ Matches(w) /\ work[w].seq = ds[d].applied /\ work[w].seq \in Nat
      /\ VersionHolds(u, c.out, work[w].seq)
      /\ w.kind = "PUBLISH" => u = ds[d].uri
      /\ w.kind = "REBUILD" => Contents(u) = work[w].seq
  BY <1>1, SwapFinds
<1>3. /\ claims' \subseteq claims /\ UNCHANGED snap /\ UNCHANGED lance /\ UNCHANGED marker /\ UNCHANGED pin
      /\ work'[w].state = "SUCCEEDED" /\ work'[w].seq = work[w].seq /\ work'[w].exp = work[w].exp
      /\ \A v \in WorkIds : v # w => work'[v] = work[v]
      /\ ds'[d].pub = w /\ ds'[d].applied = ds[d].applied /\ ds'[d].uri = u
      /\ w.kind = "REBUILD" => ds'[d].ver = c.out
      /\ w.kind = "PUBLISH" => ds'[d].ver = ds[d].ver
      /\ \A x \in Datasets : x # d => ds'[x] = ds[x]
      /\ pubs'[w] # None /\ pubs'[w].seq = work[w].seq /\ pubs'[w].uri = u /\ pubs'[w].ver = c.out
      /\ \A v \in WorkIds : v # w =>
           /\ pubs'[v] # None <=> pubs[v] # None
           /\ pubs[v] # None => /\ pubs'[v].seq = pubs[v].seq /\ pubs'[v].uri = pubs[v].uri
                                /\ pubs'[v].ver = pubs[v].ver
  BY <1>1, <1>2, SwapWrites
<1>4. w.kind = "PUBLISH" \/ w.kind = "REBUILD"
  BY <1>2 DEF WorkIds
<1>5. \A v \in WorkIds : pubs[v] # None => pubs'[v] # None
  BY <1>3
<1>6. \A x, y : Home(x, y) => Home(x, y)'
  <2> SUFFICES ASSUME NEW x, NEW y, Home(x, y) PROVE Home(x, y)'
    OBVIOUS
  <2>1. x.key # None => deterministic_rebuild_work_id(y, x.key) \in WorkIds
    BY UriOwner DEF Home
  <2> QED BY <1>5, <2>1 DEF Home
<1>7. \A x \in Uris : Contents(x)' = Contents(x)
  BY <1>3 DEF Contents, Latest
<1>8. \A x, y, z : VersionHolds(x, y, z)' <=> VersionHolds(x, y, z)
  BY <1>3 DEF VersionHolds
<1>9. IngestStays
  BY <1>2, <1>3 DEF IngestStays, Present
<1>10. \A v \in WorkIds : /\ Present(v)' <=> Present(v)
                          /\ work'[v].seq = work[v].seq /\ work'[v].exp = work[v].exp
  BY <1>2, <1>3 DEF Present
<1>11. \A v \in WorkIds : Build(v)' = Build(v)
  BY <1>10 DEF Build
<1>12. ASSUME NEW v \in WorkIds, v.ds = d, v.kind # "INGEST", Present(v)
       PROVE  ~Matches(v)'
  <2>1. work[v].exp.pub # None => pubs[work[v].exp.pub] # None
    BY <1>12 DEF ServingInvariant, RowHolds, FrozenInputs
  <2>2. work[v].exp.pub # w
    BY <1>2, <2>1, NullAssumption DEF NullAssumption
  <2>3. Pointer(ds'[d]).pub = w
    BY <1>3 DEF Pointer
  <2> QED BY <1>10, <1>12, <2>2, <2>3 DEF Matches
<1>13. ASSUME NEW v \in WorkIds
       PROVE  /\ Live(v)' => v.ds # d /\ Live(v)
              /\ Matches(v)' /\ Present(v) /\ v.kind # "INGEST" => v.ds # d /\ Matches(v)
  <2>1. v.ds \in Datasets
    BY WorkIdShape
  <2>2. v.ds # d => v # w /\ work'[v] = work[v] /\ ds'[v.ds] = ds[v.ds]
    BY <1>1, <1>3, <2>1
  <2>3. v.ds # d => (Matches(v)' <=> Matches(v)) /\ (Live(v)' <=> Live(v))
    BY <2>2 DEF Matches, Live, Settled
  <2>4. Live(v)' => Present(v) /\ v.kind # "INGEST" /\ Matches(v)'
    BY <1>10 DEF Live, Settled, Present
  <2> QED BY <1>12, <2>3, <2>4
<1>14. ASSUME NEW v \in WorkIds
       PROVE  RowHolds(v)'
  <2>1. RowHolds(v) /\ v.ds \in Datasets
    BY WorkIdShape DEF ServingInvariant
  <2>2. FrozenInputs(v)'
    <3> SUFFICES ASSUME v.kind # "INGEST", Present(v)
                 PROVE  FrozenInputs(v)'
      BY <1>10 DEF FrozenInputs
    <3>1. /\ Home(work[v].exp.uri, v.ds) /\ VersionHolds(work[v].exp.uri, work[v].exp.ver, work[v].seq)
          /\ work[v].seq \in 1..ds[v.ds].applied
          /\ work[v].exp.pub # None => pubs[work[v].exp.pub] # None
          /\ Matches(v) => work[v].seq = ds[v.ds].applied
          /\ v.kind = "PUBLISH" => work[v].seq = v.key
      BY <2>1 DEF RowHolds, FrozenInputs
    <3>2. Home(work[v].exp.uri, v.ds)'
      BY <1>6, <1>10, <3>1 DEF Home
    <3>3. VersionHolds(work[v].exp.uri, work[v].exp.ver, work[v].seq)'
      BY <1>3, <1>10, <3>1 DEF VersionHolds
    <3>4. ds'[v.ds].applied = ds[v.ds].applied
      BY <1>3, <2>1
    <3>5. Matches(v)' => work'[v].seq = ds'[v.ds].applied
      BY <1>10, <1>13, <3>1, <3>4
    <3>6. work[v].exp.pub # None => work[v].exp.pub \in WorkIds
      BY DEF LaneInvariant, TypeOK, WorkRow, Publication
    <3>7. work'[v].exp.pub # None => pubs'[work'[v].exp.pub] # None
      BY <1>5, <1>10, <3>1, <3>6
    <3> QED BY <1>10, <3>1, <3>2, <3>3, <3>4, <3>5, <3>7 DEF FrozenInputs
  <2>3. Unborn(v)' /\ Pinned(v)'
    BY <1>2, <1>3, <1>10, <1>11, <2>1 DEF RowHolds, Unborn, Pinned, Present
  <2>4. Candidate(v)'
    <3>1. pubs'[v] = None => pubs[v] = None
      BY <1>5
    <3> QED BY <1>3, <1>10, <2>1, <3>1 DEF RowHolds, Candidate
  <2>5. LiveHolds(v)'
    <3> SUFFICES ASSUME Live(v)'
                 PROVE  /\ Contents(ds[v.ds].uri)' = ds'[v.ds].applied
                        /\ pin'[v] # 0 => lance'[ds'[v.ds].uri][pin'[v]] = work'[v].seq
      BY DEF LiveHolds
    <3>1. v.ds # d /\ ds'[v.ds] = ds[v.ds] /\ LiveHolds(v) /\ Live(v)
      BY <1>3, <1>13, <2>1 DEF RowHolds
    <3> QED BY <1>3, <1>10, <3>1 DEF LiveHolds, Contents, Latest
  <2>6. Succeeds(v)'
    <3> SUFFICES ASSUME v.kind = "PUBLISH", Present(v), work[v].exp.uri.key # None
                 PROVE  pubs'[deterministic_rebuild_work_id(v.ds, work[v].exp.uri.key)].seq < work[v].seq
      BY <1>10 DEF Succeeds
    <3>1. PICK r : r = deterministic_rebuild_work_id(v.ds, work[v].exp.uri.key)
      OBVIOUS
    <3>2. Home(work[v].exp.uri, v.ds)
      BY <2>1 DEF RowHolds, FrozenInputs
    <3>3. r \in WorkIds /\ pubs[r] # None
      BY <3>1, <3>2, UriOwner DEF Home
    <3>4. pubs'[r].seq = pubs[r].seq
      BY <1>2, <1>3, <3>3
    <3>5. pubs[r].seq < work[v].seq
      BY <2>1, <3>1 DEF RowHolds, Succeeds
    <3> QED BY <3>1, <3>4, <3>5
  <2>7. Published(v)'
    <3>1. CASE v = w
      <4>1. pubs'[v].uri = Build(v)' /\ pubs'[v].ver = pin'[v] /\ pubs'[v].seq = work'[v].seq
        BY <1>1, <1>2, <1>3, <1>11, <3>1
      <4>2. VersionHolds(pubs[v].uri, pubs[v].ver, pubs[v].seq)'
        BY <1>2, <1>3, <3>1 DEF VersionHolds
      <4>3. v.kind = "REBUILD" => pubs'[v].seq <= Contents(pubs[v].uri)'
        <5> SUFFICES ASSUME v.kind = "REBUILD" PROVE pubs'[v].seq <= Contents(pubs[v].uri)'
          OBVIOUS
        <5>1. Contents(pubs[v].uri)' = Contents(u)
          BY <1>3, <3>1 DEF Contents, Latest
        <5>2. pubs'[v].seq = work[w].seq /\ Contents(u) = work[w].seq
          BY <1>2, <1>3, <3>1
        <5> QED BY <1>2, <5>1, <5>2
      <4> QED BY <1>2, <1>3, <3>1, <4>1, <4>2, <4>3 DEF Published
    <3>2. CASE v # w
      <4> SUFFICES ASSUME pubs'[v] # None PROVE Published(v)'
        BY DEF Published
      <4>1. /\ pubs[v] # None /\ pubs'[v].seq = pubs[v].seq /\ pubs'[v].uri = pubs[v].uri
            /\ pubs'[v].ver = pubs[v].ver /\ work'[v] = work[v]
        BY <1>3, <3>2
      <4>2. /\ v.kind # "INGEST" /\ work[v].state = "SUCCEEDED"
            /\ pubs[v].seq = work[v].seq /\ pubs[v].uri = Build(v) /\ pubs[v].ver = pin[v]
            /\ VersionHolds(pubs[v].uri, pubs[v].ver, pubs[v].seq)
            /\ v.kind = "REBUILD" => pubs[v].seq <= Contents(pubs[v].uri)
        BY <2>1, <4>1 DEF RowHolds, Published
      <4>3. Contents(pubs[v].uri)' = Contents(pubs[v].uri)
        BY <1>3, <4>1 DEF Contents, Latest
      <4>4. VersionHolds(pubs[v].uri, pubs[v].ver, pubs[v].seq)'
        BY <1>3, <4>1, <4>2 DEF VersionHolds
      <4> QED BY <1>3, <1>11, <4>1, <4>2, <4>3, <4>4 DEF Published
    <3> QED BY <3>1, <3>2
  <2> QED BY <2>2, <2>3, <2>4, <2>5, <2>6, <2>7 DEF RowHolds
<1>15. ASSUME NEW x \in Datasets
       PROVE  DatasetHolds(x)'
  <2>1. DatasetHolds(x) /\ ds[x].uri \in Uris /\ ds[x].applied \in Nat
    BY AppliedShape DEF ServingInvariant, LaneInvariant
  <2>2. ASSUME ds'[x].uri = ds[x].uri, ds'[x].ver = ds[x].ver, ds'[x].applied = ds[x].applied,
               ds'[x].pub # None => pubs'[ds'[x].pub] # None
        PROVE  DatasetHolds(x)'
    <3>1. Home(ds[x].uri, x)' /\ Contents(ds[x].uri)' = Contents(ds[x].uri)
      BY <1>3, <1>6, <2>1, <2>2 DEF DatasetHolds, Home, Contents, Latest
    <3>2. ds'[x].applied # 0 => VersionHolds(ds[x].uri, ds[x].ver, ds[x].applied)'
      BY <1>3, <2>1, <2>2 DEF DatasetHolds, VersionHolds
    <3>3. Contents(ds[x].uri) > ds[x].applied => Started(x, Contents(ds[x].uri))'
      <4> SUFFICES ASSUME Contents(ds[x].uri) > ds[x].applied PROVE Started(x, Contents(ds[x].uri))'
        OBVIOUS
      <4>1. Contents(ds[x].uri) \in 0..MaxSeq
        BY <2>1, StoreShape DEF LaneInvariant
      <4>2. PICK j \in Seqs : j = Contents(ds[x].uri)
        BY <2>1, <4>1, ConstantsAssumption DEF ConstantsAssumption, Seqs
      <4>3. Started(x, j)'
        BY <1>9, <2>1, <4>2, StartedStays DEF DatasetHolds
      <4> QED BY <3>1, <4>2, <4>3 DEF Started
    <3>4. ds[x].uri.key # None =>
            pubs'[deterministic_rebuild_work_id(x, ds[x].uri.key)].seq <= ds[x].applied
      <4> SUFFICES ASSUME ds[x].uri.key # None
                   PROVE  pubs'[deterministic_rebuild_work_id(x, ds[x].uri.key)].seq <= ds[x].applied
        OBVIOUS
      <4>1. PICK r : r = deterministic_rebuild_work_id(x, ds[x].uri.key)
        OBVIOUS
      <4>2. r \in WorkIds /\ pubs[r] # None
        BY <2>1, <4>1, UriOwner DEF DatasetHolds, Home
      <4>3. pubs'[r].seq = pubs[r].seq
        BY <1>2, <1>3, <4>2
      <4> QED BY <2>1, <4>1, <4>3 DEF DatasetHolds
    <3> QED BY <2>1, <2>2, <3>1, <3>2, <3>3, <3>4 DEF DatasetHolds
  <2>3. CASE x # d
    <3>1. ds'[x] = ds[x]
      BY <1>3, <2>3
    <3>2. ds[x].pub # None => ds[x].pub \in WorkIds /\ pubs[ds[x].pub] # None
      BY <2>1 DEF DatasetHolds, LaneInvariant, TypeOK, DatasetRow, Publication
    <3>3. ds'[x].pub # None => pubs'[ds'[x].pub] # None
      BY <1>5, <3>1, <3>2
    <3> QED BY <2>2, <3>1, <3>3
  <2>4. CASE x = d /\ w.kind = "PUBLISH"
    BY <1>2, <1>3, <2>2, <2>4
  <2>5. CASE x = d /\ w.kind = "REBUILD"
    <3>1. /\ ds'[x].uri = u /\ ds'[x].ver = c.out /\ ds'[x].applied = work[w].seq /\ ds'[x].pub = w
          /\ u = rebuild_uri(w)
      BY <1>1, <1>2, <1>3, <2>5 DEF Build
    <3>2. u.ds = d /\ u.key = w.key /\ deterministic_rebuild_work_id(d, w.key) = w
      BY <1>1, <1>2, <2>5, <3>1, RebuildUri
    <3>3. Home(ds[x].uri, x)'
      BY <1>2, <1>3, <2>5, <3>1, <3>2 DEF Home
    <3>4. VersionHolds(ds[x].uri, ds[x].ver, ds[x].applied)'
      BY <1>2, <1>3, <3>1 DEF VersionHolds
    <3>5. Contents(ds[x].uri)' = work[w].seq
      BY <1>2, <1>3, <2>5, <3>1 DEF Contents, Latest
    <3>6. work[w].seq <= work[w].seq /\ ~(work[w].seq > work[w].seq)
      BY <1>2
    <3>7. pubs'[ds'[x].pub] # None
      BY <1>3, <3>1
    <3>8. pubs'[deterministic_rebuild_work_id(x, ds'[x].uri.key)].seq = work[w].seq
      BY <1>3, <2>5, <3>1, <3>2
    <3> QED BY <3>1, <3>3, <3>4, <3>5, <3>6, <3>7, <3>8 DEF DatasetHolds
  <2> QED BY <1>4, <2>3, <2>4, <2>5
<1>16. ASSUME NEW e \in claims
       PROVE  IngestClaim(e)' /\ PublishClaim(e)'
  <2>1. /\ e.work \in WorkIds /\ e.work.ds \in Datasets /\ e.uri \in Uris
        /\ e.work.kind = "INGEST" => e.work.key \in Seqs
    BY ClaimShape DEF LaneInvariant
  <2>2. IngestClaim(e) /\ PublishClaim(e)
    BY DEF ServingInvariant
  <2>3. ds'[e.work.ds].applied = ds[e.work.ds].applied
    BY <1>3, <2>1
  <2>4. ASSUME e.work.kind = "INGEST"
        PROVE  IngestClaim(e)'
    <3>1. Started(e.work.ds, e.work.key)' /\ Home(e.uri, e.work.ds)' /\ Home(e.uri, e.work.ds)
      BY <1>6, <1>9, <2>1, <2>2, <2>4, StartedStays DEF IngestClaim
    <3>2. work'[e.work] = work[e.work]
      BY <1>2, <1>3, <2>1, <2>4
    <3>3. e.uri = ds'[e.work.ds].uri => e.uri = ds[e.work.ds].uri
      <4> SUFFICES ASSUME e.uri = ds'[e.work.ds].uri, e.work.ds = d, w.kind = "REBUILD" PROVE FALSE
        BY <1>2, <1>3, <1>4, <2>1
      <4>1. e.uri = rebuild_uri(w)
        BY <1>1, <1>3 DEF Build
      <4> QED BY <1>2, <3>1, <4>1, HomeIsOpen
    <3>4. e.stage = "done" /\ e.work.key > ds'[e.work.ds].applied /\ e.uri = ds'[e.work.ds].uri
            => VersionHolds(e.uri, e.out, e.work.key)'
      BY <1>8, <2>2, <2>3, <2>4, <3>3 DEF IngestClaim
    <3>5. \A v \in WorkIds : Live(v)' /\ v.ds = e.work.ds => e.work.key <= ds'[v.ds].applied
      BY <1>13, <2>2, <2>3, <2>4 DEF IngestClaim
    <3> QED BY <1>7, <2>1, <2>2, <2>4, <3>1, <3>2, <3>4, <3>5 DEF IngestClaim
  <2>5. ASSUME e.work.kind # "INGEST"
        PROVE  PublishClaim(e)'
    BY <1>3, <1>10, <1>11, <1>13, <2>1, <2>2, <2>5 DEF PublishClaim
  <2> QED BY <2>4, <2>5 DEF IngestClaim, PublishClaim
<1>17. MarkersHold'
  BY <1>3, <1>7 DEF MarkersHold, ServingInvariant
<1> QED BY <1>3, <1>14, <1>15, <1>16, <1>17 DEF ServingInvariant

-----------------------------------------------------------------------------
(* Every step.                                                             *)

\* A step that leaves the tables and the store alone, and at most loses claims.
LEMMA StaleServes ==
  ASSUME LaneInvariant, LaneInvariant', ServingInvariant, NEW c \in claims, StaleResult(c)
  PROVE  ServingInvariant'
BY DropServes DEF StaleResult, Drop, tables, store

\* complete_ingest applies, answers a stale claim or diverges.
LEMMA CompleteServes ==
  ASSUME LaneInvariant, LaneInvariant', ServingInvariant, NEW c \in claims, complete_ingest(c)
  PROVE  ServingInvariant'
BY StaleServes, ApplyServes, ReleaseServes DEF complete_ingest, block_diverged_claim

\* publish_dataset swaps, answers a stale claim or diverges.
LEMMA PublishServes ==
  ASSUME LaneInvariant, LaneInvariant', ServingInvariant, NEW c \in claims, publish_dataset(c)
  PROVE  ServingInvariant'
BY StaleServes, SwapServes, ReleaseServes
   DEF publish_dataset, block_diverged_claim, validate_live_publication

\* A worker's own steps outside any transaction.
LEMMA RunServes ==
  ASSUME LaneInvariant, LaneInvariant', ServingInvariant, NEW c \in claims, RunStep(c)
  PROVE  ServingInvariant'
<1>1. pin_candidate(c) /\ pin[c.work] \notin {0, c.out} => ServingInvariant'
  BY ReleaseServes DEF pin_candidate
<1> QED BY <1>1, ExecuteServes, MarkerReadServes, WriteServes, FinalizeServes, PinReadServes,
           BuildServes, PinServes, QualifyServes DEF RunStep

\* Before anything happened nothing is served.
LEMMA InitServes ==
  ASSUME Init
  PROVE  ServingInvariant
<1>1. LaneInvariant
  BY InitInvariant
<1>2. /\ work = [w \in WorkIds |-> AbsentWork] /\ pubs = [w \in WorkIds |-> None] /\ claims = {}
      /\ lance = [u \in Uris |-> <<>>] /\ marker = [u \in Uris |-> 0] /\ pin = [w \in WorkIds |-> 0]
      /\ ds = [d \in Datasets |-> AbsentDataset(d)]
  BY DEF Init
<1>3. \A w \in WorkIds : work[w].state = "ABSENT" /\ pubs[w] = None /\ pin[w] = 0
  BY <1>2 DEF AbsentWork
<1>4. \A u \in Uris : lance[u] = <<>> /\ Contents(u) = 0 /\ marker[u] = 0
  BY <1>2 DEF Contents
<1>5. ASSUME NEW w \in WorkIds PROVE RowHolds(w)
  <2>1. w.kind = "REBUILD" => DOMAIN lance[rebuild_uri(w)] = {}
    BY <1>4, RebuildUri
  <2> QED BY <1>3, <2>1 DEF RowHolds, FrozenInputs, Unborn, Candidate, Pinned, LiveHolds, Live, Published,
                            Succeeds, Present, Settled
<1>6. ASSUME NEW d \in Datasets PROVE DatasetHolds(d)
  <2>1. ds[d] = AbsentDataset(d)
    BY <1>2
  <2>2. ds[d].uri = ingest_uri(d) /\ ds[d].applied = 0 /\ ds[d].pub = None
    BY <2>1 DEF AbsentDataset
  <2>3. ds[d].uri \in Uris /\ ds[d].uri.ds = d /\ ds[d].uri.key = None
    BY <2>2 DEF ingest_uri, Uris
  <2> QED BY <1>4, <2>2, <2>3 DEF DatasetHolds, Home
<1> QED BY <1>2, <1>4, <1>5, <1>6 DEF ServingInvariant, MarkersHold

\* Every step keeps both invariants.
LEMMA NextServes ==
  ASSUME LaneInvariant, ServingInvariant, [Next]_vars
  PROVE  LaneInvariant' /\ ServingInvariant'
<1>1. LaneInvariant'
  BY NextPreserves
<1>2. CASE claim_due_work
  BY <1>1, <1>2, ClaimServes
<1>3. CASE \E c \in claims : RunStep(c) \/ ReconcileStep(c)
  BY <1>1, <1>3, RunServes, CompleteServes, AdvanceServes, PublishServes DEF ReconcileStep
<1>4. CASE FaultStep
  BY <1>1, <1>4, FaultServes
<1>5. CASE PlanStep
  BY <1>1, <1>5, SealServes, GateServes DEF PlanStep
<1>6. CASE OperatorStep
  BY <1>1, <1>6, RetryBlockedServes, RebuildServes, AssignServes DEF OperatorStep
<1>7. CASE UNCHANGED vars
  BY <1>1, <1>7, DropServes DEF vars
<1> QED BY <1>1, <1>2, <1>3, <1>4, <1>5, <1>6, <1>7 DEF Next

-----------------------------------------------------------------------------
(* Theorems.                                                               *)

\* Whatever superseded workers, crashes, gates and repairs do, every publication,
\* ingest pointer, candidate, pin and completion marker stays truthful about the
\* source snapshots its Lance version contains.
THEOREM ServingSafety == Spec => [](LaneInvariant /\ ServingInvariant)
<1>1. Init => LaneInvariant /\ ServingInvariant
  BY InitInvariant, InitServes
<1>2. (LaneInvariant /\ ServingInvariant) /\ [Next]_vars => (LaneInvariant /\ ServingInvariant)'
  BY NextServes
<1> QED BY <1>1, <1>2, PTL DEF Spec

\* A publication serves exactly the source snapshots of its sequence and the ingest
\* pointer exactly the applied ones (publish_dataset, complete_ingest).
THEOREM ServesExactlyHolds == Spec => []ServesExactly
<1>1. LaneInvariant /\ ServingInvariant => ServesExactly
  BY DEF ServingInvariant, RowHolds, Published, DatasetHolds, ServesExactly
<1> QED BY <1>1, ServingSafety, PTL

\* A publication serves the version its work item pinned first (pin_candidate,
\* candidate_pin_version, publish_dataset).
THEOREM PublishedIsPinnedHolds == Spec => []PublishedIsPinned
<1>1. LaneInvariant /\ ServingInvariant => PublishedIsPinned
  BY DEF ServingInvariant, RowHolds, Published, PublishedIsPinned
<1> QED BY <1>1, ServingSafety, PTL

-----------------------------------------------------------------------------
(* The lanes implement the serving catalog.                                *)

\* A step that moves neither applied snapshots nor publications is invisible there.
CatalogStays ==
  /\ UNCHANGED pubs
  /\ \A d \in Datasets : ds'[d].applied = ds[d].applied /\ ds'[d].pub = ds[d].pub

\* It stutters.
LEMMA StaysStutters ==
  ASSUME CatalogStays
  PROVE  UNCHANGED <<LaneApplied, LaneActive, LaneRetired>>
<1>1. LaneApplied' = LaneApplied
  BY DEF CatalogStays, LaneApplied
<1>2. LaneActive' = LaneActive
  BY DEF CatalogStays, LaneActive, Located
<1>3. LaneRetired' = LaneRetired
  BY DEF CatalogStays, LaneRetired, Located
<1> QED BY <1>1, <1>2, <1>3

\* Only complete_ingest and publish_dataset move the catalog.
LEMMA OtherStepsStay ==
  ASSUME LaneInvariant, [Next]_vars,
         ~ \E c \in claims : complete_ingest(c) /\ ApplyIngest(c),
         ~ \E c \in claims : publish_dataset(c) /\ SwapServingPointer(c)
  PROVE  CatalogStays
<1>1. UNCHANGED ds /\ UNCHANGED pubs => CatalogStays
  BY DEF CatalogStays
<1>2. CASE claim_due_work
  <2>1. PICK S : ds' = [d \in Datasets |-> IF \E w \in S : w.ds = d
                                         THEN [ds[d] EXCEPT !.fence = @ + 1] ELSE ds[d]]
    BY <1>2 DEF claim_due_work
  <2>2. ASSUME NEW d \in Datasets
        PROVE  ds'[d].applied = ds[d].applied /\ ds'[d].pub = ds[d].pub
    <3>1. PICK r \in DatasetRow : r = ds[d]
      BY DEF LaneInvariant, TypeOK
    <3>2. ds'[d] = r \/ ds'[d] = [r EXCEPT !.fence = @ + 1]
      BY <2>1, <3>1
    <3> QED BY <3>1, <3>2 DEF DatasetRow
  <2>3. UNCHANGED pubs
    BY <1>2 DEF claim_due_work
  <2> QED BY <2>2, <2>3 DEF CatalogStays
<1>3. ASSUME NEW c \in claims, RunStep(c)
      PROVE  CatalogStays
  <2>1. CASE pin_candidate(c)
    BY <1>1, <2>1 DEF pin_candidate, FencedRelease, tables
  <2>2. CASE ~pin_candidate(c)
    BY <1>1, <1>3, <2>2 DEF RunStep, execute, applied_completion_marker, write_terminal,
         finalize_completion_marker, candidate_pin_version, build_candidate, qualify_candidate, tables
  <2> QED BY <2>1, <2>2
<1>4. ASSUME NEW c \in claims, ReconcileStep(c)
      PROVE  CatalogStays
  <2>1. CASE complete_ingest(c)
    BY <1>1, <2>1 DEF complete_ingest, StaleResult, block_diverged_claim, FencedRelease, tables
  <2>2. CASE publish_dataset(c)
    BY <1>1, <2>2 DEF publish_dataset, StaleResult, block_diverged_claim, FencedRelease, tables
  <2>3. CASE advance_phase(c)
    BY <1>1, <2>3 DEF advance_phase, StaleResult, tables
  <2> QED BY <1>4, <2>1, <2>2, <2>3 DEF ReconcileStep
<1>5. CASE FaultStep
  BY <1>1, <1>5 DEF FaultStep, retry_work, block_work, FencedRelease, WorkerCrash, LeaseExpires, tables
<1>6. CASE PlanStep
  <2>1. CASE \E s \in Seqs : \/ enqueue_blocked_source_snapshot(s) \/ block_source_snapshot(s)
                             \/ retry_blocked_source_snapshot(s)
    BY <1>1, <2>1 DEF enqueue_blocked_source_snapshot, block_source_snapshot, retry_blocked_source_snapshot
  <2>2. ASSUME NEW s \in Seqs, NEW D \in SUBSET Datasets, enqueue_source_snapshot(s, D)
        PROVE  CatalogStays
    <3>1. ds' = Discovered(D) /\ UNCHANGED pubs
      BY <2>2 DEF enqueue_source_snapshot
    <3>2. ASSUME NEW d \in Datasets
          PROVE  ds'[d].applied = ds[d].applied /\ ds'[d].pub = ds[d].pub
      <4>1. PICK r \in DatasetRow : r = ds[d]
        BY DEF LaneInvariant, TypeOK
      <4>2. ds'[d] = r \/ ds'[d] = [r EXCEPT !.desired = DefaultRevision]
        BY <3>1, <4>1 DEF Discovered
      <4> QED BY <4>1, <4>2 DEF DatasetRow
    <3> QED BY <3>1, <3>2 DEF CatalogStays
  <2> QED BY <1>6, <2>1, <2>2 DEF PlanStep
<1>7. CASE OperatorStep
  <2>1. CASE \/ \E w \in WorkIds : retry_blocked_work(w)
             \/ \E d \in Datasets, q \in Requests : enqueue_rebuild(d, q)
    BY <1>1, <2>1 DEF retry_blocked_work, enqueue_rebuild
  <2>2. ASSUME NEW d \in Datasets, NEW r \in Revisions, assign_dataset_spec_revision(d, r)
        PROVE  CatalogStays
    <3>1. ds' = [ds EXCEPT ![d].desired = r] /\ UNCHANGED pubs
      BY <2>2 DEF assign_dataset_spec_revision
    <3> QED BY <3>1 DEF CatalogStays, LaneInvariant, TypeOK, DatasetRow
  <2> QED BY <1>7, <2>1, <2>2 DEF OperatorStep
<1>8. CASE UNCHANGED vars
  BY <1>1, <1>8 DEF vars
<1> QED BY <1>2, <1>3, <1>4, <1>5, <1>6, <1>7, <1>8 DEF Next

\* An admitted completion moves one dataset to a later snapshot, and nothing else.
LEMMA ApplyIsApply ==
  ASSUME LaneInvariant, ServingInvariant, NEW c \in claims, complete_ingest(c), ApplyIngest(c),
         lease_is_current(c), assert_expectations_match(c.work)
  PROVE  Catalog!Apply(c.work.ds)
<1>1. PICK d, k : d = c.work.ds /\ k = c.work.key
  OBVIOUS
<1>2. c.work.kind = "INGEST" /\ c.stage = "done"
  BY DEF complete_ingest
<1>3. d \in Datasets /\ k \in Seqs /\ ds[d].applied < k /\ ds[d].applied \in Nat /\ k \in Nat
  BY <1>1, <1>2, ApplyFinds
<1>4. /\ UNCHANGED pubs /\ ds'[d].applied = k /\ ds'[d].pub = ds[d].pub
      /\ \A x \in Datasets : x # d => ds'[x] = ds[x]
  BY <1>1, <1>2, ApplyWrites
<1>5. LaneApplied' = [LaneApplied EXCEPT ![d] = k]
  BY <1>3, <1>4 DEF LaneApplied
<1>6. LaneActive' = LaneActive
  BY <1>4 DEF LaneActive, Located
<1>7. LaneRetired' = LaneRetired
  BY <1>4 DEF LaneRetired, Located
<1>8. LaneApplied[d] = ds[d].applied
  BY <1>3 DEF LaneApplied
<1>9. k \in (LaneApplied[d] + 1)..MaxSeq
  BY <1>3, <1>8, ConstantsAssumption DEF ConstantsAssumption, Seqs
<1> QED BY <1>1, <1>5, <1>6, <1>7, <1>9 DEF Catalog!Apply

\* No publication of the history names the version about to be served: a rebuild has its own
\* URI, and two publications made in one URI hold different snapshots.
LEMMA FreshLocation ==
  ASSUME LaneInvariant, ServingInvariant, NEW c \in claims, c.work.kind # "INGEST",
         c.stage = "done", lease_is_current(c), pubs[c.work] = None, assert_expectations_match(c.work),
         NEW v \in WorkIds, pubs[v] # None, pubs[v].uri = Build(c.work), pubs[v].ver = c.out
  PROVE  FALSE
<1>1. PICK w, d, u : w = c.work /\ d = w.ds /\ u = Build(w)
  OBVIOUS
<1>2. /\ w \in WorkIds /\ d \in Datasets /\ work[w].state = "RUNNING" /\ work[w].seq \in Nat
      /\ VersionHolds(u, c.out, work[w].seq) /\ pubs[w] = None /\ v # w /\ w.kind # "INGEST"
  BY <1>1, SwapFinds
<1>3. RowHolds(v) /\ RowHolds(w)
  BY <1>2 DEF ServingInvariant
<1>4. /\ v.kind # "INGEST" /\ work[v].state = "SUCCEEDED" /\ pubs[v].seq = work[v].seq
      /\ u = Build(v) /\ VersionHolds(u, c.out, pubs[v].seq)
  BY <1>1, <1>3 DEF RowHolds, Published
<1>5. pubs[v].seq = work[w].seq
  BY <1>2, <1>4 DEF VersionHolds
<1>6. Present(v) /\ Present(w)
  BY <1>2, <1>4 DEF Present
<1>7. \A x \in {v, w} : x.kind = "PUBLISH" \/ x.kind = "REBUILD"
  BY <1>2, <1>4 DEF WorkIds
<1>8. CASE v.kind = "REBUILD" /\ w.kind = "REBUILD"
  BY <1>1, <1>2, <1>4, <1>8, RebuildUri DEF Build
<1>9. CASE v.kind = "PUBLISH" /\ w.kind = "REBUILD"
  <2>1. Home(u, v.ds)
    BY <1>3, <1>4, <1>6, <1>9 DEF RowHolds, FrozenInputs, Build
  <2> QED BY <1>1, <1>2, <1>9, <2>1, HomeIsOpen DEF Build
<1>10. CASE v.kind = "REBUILD" /\ w.kind = "PUBLISH"
  <2>1. u = rebuild_uri(v) /\ u = work[w].exp.uri
    BY <1>1, <1>4, <1>10 DEF Build
  <2>2. Home(u, d)
    BY <1>1, <1>3, <1>6, <1>10, <2>1 DEF RowHolds, FrozenInputs
  <2>3. u.key # None /\ deterministic_rebuild_work_id(d, u.key) = v
    BY <1>10, <2>1, <2>2, RebuildUri DEF Home
  <2>4. pubs[v].seq < work[w].seq
    BY <1>1, <1>3, <1>6, <1>10, <2>1, <2>3 DEF RowHolds, Succeeds
  <2> QED BY <1>2, <1>5, <2>4
<1>11. CASE v.kind = "PUBLISH" /\ w.kind = "PUBLISH"
  <2>1. Home(u, v.ds) /\ Home(u, w.ds)
    BY <1>1, <1>3, <1>4, <1>6, <1>11 DEF RowHolds, FrozenInputs, Build
  <2>2. v.ds = w.ds
    BY <2>1 DEF Home
  <2>3. v.key = w.key
    BY <1>3, <1>4, <1>5, <1>6, <1>11 DEF RowHolds, FrozenInputs
  <2>4. v = w
    BY <1>2, <1>11, <2>2, <2>3 DEF WorkIds
  <2> QED BY <1>2, <2>4
<1> QED BY <1>7, <1>8, <1>9, <1>10, <1>11

\* A location is a version of a URI.
LEMMA LocatedShape ==
  ASSUME TypeOK, NEW v \in WorkIds, pubs[v] # None
  PROVE  /\ Located[v] # None /\ Located[v].at = <<pubs[v].uri, pubs[v].ver>>
         /\ Located[v].seq = pubs[v].seq
<1>1. PICK p \in PublicationRow : p = pubs[v]
  BY DEF TypeOK
<1>2. [seq |-> p.seq, at |-> <<p.uri, p.ver>>] \in [seq : 0..MaxSeq, at : Uris \X Nat]
  BY DEF PublicationRow
<1> QED BY <1>1, <1>2, NullPublication DEF Located, NullPublication

\* The active publication of a dataset is one of the table.
LEMMA ActiveShape ==
  ASSUME LaneInvariant, ServingInvariant, NEW d \in Datasets, ds[d].pub # None
  PROVE  ds[d].pub \in WorkIds /\ pubs[ds[d].pub] # None /\ LaneActive[d] = Located[ds[d].pub]
<1>1. ds[d].pub \in WorkIds
  BY DEF LaneInvariant, TypeOK, DatasetRow, Publication
<1>2. pubs[ds[d].pub] # None
  BY DEF ServingInvariant, DatasetHolds
<1> QED BY <1>1, <1>2 DEF LaneActive

\* A swap puts the fresh publication where its predecessor was and retires that one.
LEMMA SwapIsSwap ==
  ASSUME LaneInvariant, LaneInvariant', ServingInvariant, ServingInvariant',
         NEW c \in claims, c.work.kind # "INGEST",
         c.stage = "done", lease_is_current(c), pubs[c.work] = None, assert_expectations_match(c.work),
         SwapServingPointer(c)
  PROVE  LET d == c.work.ds IN
         LaneActive'[d] # LaneActive[d] /\ Catalog!Swap(d, LaneActive'[d])
<1>1. PICK w, d, u, former : w = c.work /\ d = w.ds /\ u = Build(w) /\ former = ds[d].pub
  OBVIOUS
<1>2. w \in WorkIds /\ d \in Datasets /\ pubs[w] = None /\ work[w].seq = ds[d].applied
  BY <1>1, SwapFinds
<1>3. /\ ds'[d].pub = w /\ ds'[d].applied = ds[d].applied
      /\ \A x \in Datasets : x # d => ds'[x] = ds[x]
      /\ pubs'[w] # None /\ pubs'[w].seq = work[w].seq /\ pubs'[w].uri = u /\ pubs'[w].ver = c.out
      /\ pubs'[w].retired = FALSE
      /\ \A v \in WorkIds : v # w =>
           /\ v # former => pubs'[v] = pubs[v]
           /\ v = former => pubs[v] # None /\ pubs'[v] # None /\ pubs'[v].retired = TRUE
           /\ pubs'[v] # None <=> pubs[v] # None
           /\ pubs[v] # None => /\ pubs'[v].seq = pubs[v].seq /\ pubs'[v].uri = pubs[v].uri
                                /\ pubs'[v].ver = pubs[v].ver
  BY <1>1, <1>2, SwapWrites
<1>4. PICK p : p = [seq |-> work[w].seq, at |-> <<u, c.out>>]
  OBVIOUS
<1>5. Located'[w] = p
  BY <1>2, <1>3, <1>4 DEF Located
<1>6. \A v \in WorkIds : pubs[v] # None => Located'[v] = Located[v]
  BY <1>2, <1>3 DEF Located
<1>7. LaneActive'[d] = p
  <2>1. w # None
    BY <1>2, NullAssumption DEF NullAssumption
  <2> QED BY <1>2, <1>3, <1>5, <2>1 DEF LaneActive
<1>8. p # None /\ p.seq = LaneApplied[d]
  <2>1. TypeOK'
    BY DEF LaneInvariant
  <2>2. PICK q \in PublicationRow : q = pubs'[w]
    BY <1>2, <1>3, <2>1 DEF TypeOK
  <2>3. p \in [seq : 0..MaxSeq, at : Uris \X Nat]
    BY <1>3, <1>4, <2>2 DEF PublicationRow
  <2> QED BY <1>2, <1>4, <2>3, NullPublication DEF NullPublication, LaneApplied
<1>9. ASSUME NEW v \in WorkIds, pubs[v] # None
      PROVE  Located[v].at # p.at
  <2>1. SUFFICES ASSUME Located[v].at = p.at PROVE FALSE
    OBVIOUS
  <2>2. Located[v].at = <<pubs[v].uri, pubs[v].ver>>
    BY <1>9, LocatedShape DEF LaneInvariant
  <2>3. pubs[v].uri = u /\ pubs[v].ver = c.out
    BY <1>4, <2>1, <2>2
  <2> QED BY <1>1, <1>2, <1>9, <2>3, FreshLocation
<1>10. \A x \in Datasets : LaneActive[x] # None => LaneActive[x].at # p.at
  <2> SUFFICES ASSUME NEW x \in Datasets, LaneActive[x] # None
               PROVE  LaneActive[x].at # p.at
    OBVIOUS
  <2>1. ds[x].pub # None
    BY DEF LaneActive
  <2> QED BY <1>9, <2>1, ActiveShape
<1>11. \A q \in LaneRetired : q.at # p.at
  BY <1>9 DEF LaneRetired
<1>12. p.at \notin Catalog!Locations
  BY <1>10, <1>11 DEF Catalog!Locations, Catalog!History, Catalog!Served
<1>13. LaneActive' = [LaneActive EXCEPT ![d] = p]
  <2>1. ASSUME NEW x \in Datasets, x # d
        PROVE  LaneActive'[x] = LaneActive[x]
    <3>1. ds'[x] = ds[x]
      BY <1>3, <2>1
    <3>2. CASE ds[x].pub = None
      BY <3>1, <3>2 DEF LaneActive
    <3>3. CASE ds[x].pub # None
      <4>1. ds[x].pub \in WorkIds /\ pubs[ds[x].pub] # None
        BY <3>3, ActiveShape
      <4>2. Located'[ds[x].pub] = Located[ds[x].pub]
        BY <1>6, <4>1
      <4> QED BY <3>1, <3>3, <4>2 DEF LaneActive
    <3> QED BY <3>2, <3>3
  <2>2. LaneActive' = [x \in Datasets |-> LaneActive'[x]] /\ LaneActive = [x \in Datasets |-> LaneActive[x]]
    BY DEF LaneActive
  <2> QED BY <1>2, <1>7, <2>1, <2>2
<1>14. LaneRetired' = LaneRetired \cup ({LaneActive[d]} \ {None})
  <2>1. former # None => former \in WorkIds /\ pubs[former] # None /\ LaneActive[d] = Located[former]
                         /\ former # w /\ Located[former] # None
    BY <1>1, <1>2, ActiveShape, LocatedShape DEF LaneInvariant
  <2>2. former = None => LaneActive[d] = None
    BY <1>1, <1>2 DEF LaneActive
  <2>3. ASSUME NEW q \in LaneRetired'
        PROVE  q \in LaneRetired \/ (q = LaneActive[d] /\ q # None)
    <3>1. PICK v \in WorkIds : pubs'[v] # None /\ pubs'[v].retired /\ q = Located'[v]
      BY <2>3 DEF LaneRetired
    <3>2. v # w
      BY <1>3, <3>1
    <3>3. pubs[v] # None /\ q = Located[v]
      BY <1>3, <1>6, <3>1, <3>2
    <3>4. CASE v = former
      BY <2>1, <3>3, <3>4, NullAssumption DEF NullAssumption
    <3>5. CASE v # former
      BY <1>3, <3>1, <3>2, <3>3, <3>5 DEF LaneRetired
    <3> QED BY <3>4, <3>5
  <2>4. ASSUME NEW v \in WorkIds, pubs[v] # None, pubs[v].retired \/ v = former
        PROVE  Located[v] \in LaneRetired'
    <3>1. v # w
      BY <1>2, <2>4
    <3>2. pubs'[v] # None /\ pubs'[v].retired
      BY <1>3, <2>4, <3>1
    <3> QED BY <1>6, <2>4, <3>2 DEF LaneRetired
  <2>5. \A q \in LaneRetired : q \in LaneRetired'
    BY <2>4 DEF LaneRetired
  <2>6. LaneActive[d] # None => LaneActive[d] \in LaneRetired'
    BY <2>1, <2>2, <2>4
  <2> QED BY <2>3, <2>5, <2>6
<1>15. LaneApplied' = LaneApplied
  BY <1>3 DEF LaneApplied
<1>16. LaneActive'[d] # LaneActive[d]
  BY <1>2, <1>7, <1>8, <1>10
<1>17. Catalog!Swap(d, p)
  BY <1>8, <1>12, <1>13, <1>14, <1>15 DEF Catalog!Swap
<1> QED BY <1>1, <1>7, <1>16, <1>17

\* The lanes implement the serving catalog: a reader sees one publication at a time, in source
\* order, at a version nothing else ever served, each swap atomic with the retirement of its
\* predecessor (publish_dataset, complete_ingest, resolve_serving_dataset).
THEOREM LanesImplementCatalog == Spec => ImplementsCatalog
<1>1. Init => Catalog!Init
  <2> SUFFICES ASSUME Init PROVE Catalog!Init
    OBVIOUS
  <2>1. /\ ds = [d \in Datasets |-> AbsentDataset(d)] /\ pubs = [w \in WorkIds |-> None]
    BY DEF Init
  <2>2. LaneApplied = [d \in Datasets |-> 0] /\ LaneActive = [d \in Datasets |-> None]
    BY <2>1 DEF AbsentDataset, LaneApplied, LaneActive
  <2>3. LaneRetired = {}
    BY <2>1 DEF LaneRetired
  <2> QED BY <2>2, <2>3 DEF Catalog!Init
<1>2. /\ LaneInvariant /\ ServingInvariant
      /\ (LaneInvariant /\ ServingInvariant)'
      /\ [Next]_vars
      => [Catalog!Next]_(Catalog!catalog)
  <2> SUFFICES ASSUME LaneInvariant, ServingInvariant, LaneInvariant', ServingInvariant', [Next]_vars
               PROVE  Catalog!Next \/ UNCHANGED Catalog!catalog
    OBVIOUS
  <2>1. ASSUME NEW c \in claims, complete_ingest(c), ApplyIngest(c)
        PROVE  Catalog!Next \/ UNCHANGED Catalog!catalog
    <3>1. CASE lease_is_current(c) /\ assert_expectations_match(c.work)
      <4>1. Catalog!Apply(c.work.ds) /\ c.work.ds \in Datasets
        BY <2>1, <3>1, ApplyIsApply, ClaimShape DEF LaneInvariant
      <4> QED BY <4>1 DEF Catalog!Next
    <3>2. CASE ~(lease_is_current(c) /\ assert_expectations_match(c.work))
      <4>1. UNCHANGED ds /\ UNCHANGED pubs
        BY <2>1, <3>2 DEF complete_ingest, StaleResult, block_diverged_claim, FencedRelease, tables
      <4> QED BY <4>1, StaysStutters DEF CatalogStays, Catalog!catalog
    <3> QED BY <3>1, <3>2
  <2>2. ASSUME NEW c \in claims, publish_dataset(c), SwapServingPointer(c)
        PROVE  Catalog!Next \/ UNCHANGED Catalog!catalog
    <3>1. CASE lease_is_current(c) /\ assert_expectations_match(c.work) /\ pubs[c.work] = None
      <4>1. c.work.kind # "INGEST" /\ c.stage = "done"
        BY <2>2 DEF publish_dataset
      <4>2. /\ LaneActive'[c.work.ds] # LaneActive[c.work.ds]
            /\ Catalog!Swap(c.work.ds, LaneActive'[c.work.ds]) /\ c.work.ds \in Datasets
        BY <2>2, <3>1, <4>1, SwapIsSwap, ClaimShape DEF LaneInvariant
      <4> QED BY <4>2 DEF Catalog!Next
    <3>2. CASE ~(lease_is_current(c) /\ assert_expectations_match(c.work) /\ pubs[c.work] = None)
      <4>1. UNCHANGED ds /\ UNCHANGED pubs
        BY <2>2, <3>2 DEF publish_dataset, StaleResult, block_diverged_claim, FencedRelease, tables,
             validate_live_publication
      <4> QED BY <4>1, StaysStutters DEF CatalogStays, Catalog!catalog
    <3> QED BY <3>1, <3>2
  <2>3. CASE CatalogStays
    BY <2>3, StaysStutters DEF Catalog!catalog
  <2> QED BY <2>1, <2>2, <2>3, OtherStepsStay
<1> QED BY <1>1, <1>2, ServingSafety, PTL DEF Spec, ImplementsCatalog, Catalog!Spec

=============================================================================
