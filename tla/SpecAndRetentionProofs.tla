------------------------ MODULE SpecAndRetentionProofs ------------------------
(***************************************************************************)
(* Proofs about the revisions of dataset specifications, for any number of *)
(* specifications, revisions and operator sessions; about the drafts that  *)
(* become revisions, for any edits; and about the removal of the           *)
(* publications made under them, for any number of publications and        *)
(* sweepers, any retention settings and any clock skew.                    *)
(***************************************************************************)
EXTENDS PublicationRetention, SpecLifecycle, SpecValidation, FiniteSetTheorems, TLAPS

-----------------------------------------------------------------------------
(* The inductive invariant.                                                *)

Stages == {"pin", "manifest", "removed", "failed", "finalized"}

PublicationRow == [row : {"absent", "live", "deleted"}, published : Nat, retired : Nat]

\* The shape of the state; a sweep holds stages of publications.
RetentionType ==
  /\ clock \in Skew..(MaxClock + Skew)
  /\ pub \in [Publications -> PublicationRow]
  /\ active \in 0..MaxPublications
  /\ late \in 0..MaxPublications
  /\ pins \subseteq Publications /\ manifests \subseteq Publications
  /\ DOMAIN sweep = Sweepers
  /\ reader \in [at : Nat, holds : 0..MaxPublications]

\* Rows exist up to the served one, which is live; those before it are retired.
Ordered ==
  /\ reader.holds <= active
  /\ \A w \in Publications :
       /\ pub[w].row = "absent" <=> w > active
       /\ w = active => pub[w].row = "live" /\ pub[w].retired = Never
       /\ w < active => pub[w].retired # Never

\* The publications published since.
Followers(w) == {v \in Publications \ {w} : pub[v].row # "absent" /\ pub[v].published >= pub[w].published}

\* What a cleanup may take: retired for its grace by some clock, and followed by as many
\* as its specification retains.  Once a publication has expired it stays so.
Expired(w) ==
  /\ w < active
  /\ pub[w].retired + Grace[w] <= clock + Skew
  /\ Cardinality(Followers(w)) >= RetainedCount[w]

\* Sweeps hold expired publications only, and nothing else has lost anything.
Claims == \A s \in Sweepers : \A w \in DOMAIN sweep[s] : w \in Publications /\ Expired(w)
Kept   == \A w \in Publications : w <= active /\ ~Expired(w) => Intact(w)

\* The stages a sweep has passed have had their effect, but for late writes.
Removed ==
  \A s \in Sweepers : \A w \in DOMAIN sweep[s] :
    w # late =>
      /\ sweep[s][w] \in {"manifest", "removed", "finalized"} => w \notin pins
      /\ sweep[s][w] \in {"removed", "finalized"} => w \notin manifests

\* A resolved location was the served one: it was not retired before.
Resolved == reader.holds # 0 /\ reader.holds < active => reader.at <= pub[reader.holds].retired + Skew
Past     == reader.holds # 0 => reader.at <= clock

RetentionInvariant ==
  RetentionType /\ Ordered /\ Claims /\ Kept /\ Removed /\ NothingLeaks /\ Resolved /\ Past

-----------------------------------------------------------------------------
(* Facts about expiry.                                                     *)

\* The sets that are counted are finite.
LEMMA FollowersFinite ==
  ASSUME RetentionType, NEW w \in Publications
  PROVE  /\ IsFiniteSet(Followers(w)) /\ IsFiniteSet(Followers(w)')
         /\ Cardinality(Followers(w)) \in Nat
<1>1. IsFiniteSet(Publications)
  BY FS_Interval, RetentionAssumption DEF RetentionAssumption, Publications
<1>2. Followers(w) \subseteq Publications /\ Followers(w)' \subseteq Publications
  BY DEF Followers
<1>3. IsFiniteSet(Followers(w)) /\ IsFiniteSet(Followers(w)')
  BY <1>1, <1>2, FS_Subset
<1> QED BY <1>3, FS_CardinalityType

\* Time and publications only add to what expires; rows never change their stamps.
LEMMA ExpiryIsStable ==
  ASSUME RetentionType, NEW w \in Publications, Expired(w),
         active' \in Nat, active' >= active, clock' \in Nat, clock' >= clock,
         pub'[w].retired = pub[w].retired,
         \A v \in Publications : pub[v].row # "absent" =>
           pub'[v].row # "absent" /\ pub'[v].published = pub[v].published,
         pub[w].row # "absent"
  PROVE  Expired(w)'
<1> USE RetentionAssumption DEF RetentionAssumption
<1>1. Followers(w) \subseteq Followers(w)'
  BY DEF Followers
<1>2. /\ Cardinality(Followers(w)) <= Cardinality(Followers(w)')
      /\ Cardinality(Followers(w)) \in Nat /\ Cardinality(Followers(w)') \in Nat
  BY <1>1, FollowersFinite, FS_Subset, FS_CardinalityType
<1>3. Cardinality(Followers(w)') >= RetainedCount[w]
  BY <1>2 DEF Expired
<1>4. w < active' /\ pub'[w].retired + Grace[w] <= clock' + Skew
  <2>1. /\ w \in Nat /\ active \in Nat /\ clock \in Nat
        /\ pub[w].retired \in Nat /\ Grace[w] \in Nat
    BY DEF RetentionType, PublicationRow, Publications
  <2> QED BY <2>1 DEF Expired
<1>5. Cardinality(Followers(w))' = Cardinality(Followers(w)')
  OBVIOUS
<1> QED BY <1>3, <1>4, <1>5 DEF Expired

\* Steps that leave the rows and the served publication alone leave expiry alone,
\* or bring it nearer.
LEMMA ExpirySteady ==
  ASSUME RetentionInvariant, NEW w \in Publications,
         UNCHANGED <<pub, active>>, clock' \in Nat, clock' >= clock
  PROVE  /\ Expired(w) => Expired(w)'
         /\ clock' = clock => (Expired(w)' <=> Expired(w))
<1>1. ASSUME clock' = clock PROVE Expired(w)' <=> Expired(w)
  BY <1>1 DEF Expired, Followers
<1>2. ASSUME Expired(w) PROVE Expired(w)'
  <2>1. pub[w].row # "absent" /\ active' \in Nat /\ active' >= active
    BY <1>2 DEF RetentionInvariant, RetentionType, Ordered, Expired, Publications
  <2> QED BY <1>2, <2>1, ExpiryIsStable DEF RetentionInvariant
<1> QED BY <1>1, <1>2

-----------------------------------------------------------------------------
(* One lemma per action.                                                   *)

\* Nothing is published, retired or claimed at first.
LEMMA RetentionInitially == RetentionInit => RetentionInvariant
<1> SUFFICES ASSUME RetentionInit PROVE RetentionInvariant
  OBVIOUS
<1> USE RetentionAssumption DEF RetentionAssumption, RetentionInit
<1>1. RetentionType
  BY DEF RetentionType, PublicationRow, Never, Publications
<1>2. Ordered /\ NothingLeaks /\ Resolved /\ Past
  BY DEF Ordered, NothingLeaks, Resolved, Past, Publications
<1>3. Claims /\ Removed
  BY DEF Claims, Removed
<1>4. Kept
  BY DEF Kept, Publications
<1> QED BY <1>1, <1>2, <1>3, <1>4 DEF RetentionInvariant

\* Time passes.
LEMMA TickPreserves ==
  ASSUME RetentionInvariant, RetentionTick
  PROVE  RetentionInvariant'
<1> USE RetentionAssumption DEF RetentionAssumption, RetentionInvariant
<1>1. /\ clock \in Nat /\ clock < MaxClock /\ clock' = clock + 1 /\ clock' \in Nat /\ clock' >= clock
      /\ UNCHANGED <<pub, active, audit, pins, manifests, late, sweep, reader>>
  BY DEF RetentionTick, RetentionType
<1>2. RetentionType' /\ Ordered' /\ Removed' /\ NothingLeaks' /\ Resolved' /\ Past'
  BY <1>1 DEF RetentionType, Ordered, Removed, NothingLeaks, Resolved, Past, Never
<1>3. \A w \in Publications : Expired(w) => Expired(w)'
  BY <1>1, ExpirySteady
<1>4. Claims' /\ Kept'
  BY <1>1, <1>3 DEF Claims, Kept, Intact
<1> QED BY <1>2, <1>4

\* A location is resolved while it is served.
LEMMA ResolvePreserves ==
  ASSUME RetentionInvariant, Resolve
  PROVE  RetentionInvariant'
<1> USE RetentionAssumption DEF RetentionAssumption, RetentionInvariant
<1>1. /\ active # 0 /\ reader' = [at |-> clock, holds |-> active]
      /\ UNCHANGED <<clock, pub, active, audit, pins, manifests, late, sweep>>
  BY DEF Resolve
<1>2. RetentionType' /\ Ordered' /\ Removed' /\ NothingLeaks' /\ Resolved' /\ Past'
  BY <1>1 DEF RetentionType, Ordered, Removed, NothingLeaks, Resolved, Past
<1>3. Claims' /\ Kept'
  BY <1>1 DEF Claims, Kept, Intact, Expired, Followers
<1> QED BY <1>2, <1>3

\* The publisher, and the attempt that comes late, only add artifacts.
LEMMA WritePreserves ==
  ASSUME RetentionInvariant, NEW w \in Publications,
         persist_manifest(w) \/ pin_candidate(w) \/ LateAttempt(w)
  PROVE  RetentionInvariant'
<1> USE DEF RetentionInvariant
<1>1. /\ UNCHANGED <<clock, pub, active, sweep, reader>>
      /\ pins \subseteq pins' /\ pins' \subseteq pins \union {w}
      /\ manifests \subseteq manifests' /\ manifests' \subseteq manifests \union {w}
      /\ \/ UNCHANGED late /\ w = active + 1
         \/ late = 0 /\ late' = w
  BY DEF persist_manifest, pin_candidate, LateAttempt, NextToPublish
<1>2. RetentionType' /\ Ordered' /\ Resolved' /\ Past'
  BY <1>1 DEF RetentionType, Ordered, Resolved, Past, Publications, Never
<1>3. Claims' /\ Kept'
  BY <1>1 DEF Claims, Kept, Intact, Expired, Followers
<1>4. active \in Nat /\ Publications \subseteq Nat
  BY DEF RetentionType, Publications
<1>5. Removed'
  BY <1>1, <1>4 DEF Removed, Claims, Expired, Publications
<1>6. NothingLeaks'
  BY <1>1, <1>4 DEF NothingLeaks, Ordered, Publications
<1> QED BY <1>2, <1>3, <1>5, <1>6

\* A publication retires the served one with its own stamp, not before it was resolved.
LEMMA PublishPreserves ==
  ASSUME RetentionInvariant, NEW w \in Publications, publish_dataset(w)
  PROVE  RetentionInvariant'
<1> USE RetentionAssumption DEF RetentionAssumption, RetentionInvariant
<1>1. PICK current \in Stamps :
        /\ w = active + 1 /\ w \in pins /\ w \in manifests
        /\ pub' = [v \in Publications |->
                     CASE v = w      -> [row |-> "live", published |-> current, retired |-> Never]
                       [] v = active -> [pub[v] EXCEPT !.retired = current]
                       [] OTHER      -> pub[v]]
        /\ active' = w
        /\ UNCHANGED <<clock, pins, manifests, late, sweep, reader>>
  BY DEF publish_dataset, NextToPublish
<1>2. /\ active \in Nat /\ w \in Nat /\ clock \in Nat /\ Never \in Nat
      /\ current \in Nat /\ current # Never /\ clock <= current + Skew
  <2>1. /\ active \in Nat /\ w \in Nat /\ clock \in Int /\ Skew <= clock /\ clock <= MaxClock + Skew
        /\ current \in Int /\ clock - Skew <= current /\ current <= clock + Skew
        /\ Skew \in Nat /\ MaxClock \in Nat
    BY DEF RetentionType, Stamps, Publications
  <2> QED BY <2>1 DEF Never
<1>3. /\ pub'[w] = [row |-> "live", published |-> current, retired |-> Never]
      /\ active \in Publications => pub'[active] = [pub[active] EXCEPT !.retired = current]
      /\ \A v \in Publications : v # w /\ v # active => pub'[v] = pub[v]
  BY <1>1, <1>2
<1>4. \A v \in Publications : pub[v] \in PublicationRow /\ v \in Nat
  BY DEF RetentionType, Publications
<1>5. RetentionType'
  <2>1. \A v \in Publications : pub'[v] \in PublicationRow
    BY <1>2, <1>3, <1>4 DEF PublicationRow
  <2>2. pub' = [v \in Publications |-> pub'[v]]
    BY <1>1
  <2>3. pub' \in [Publications -> PublicationRow]
    BY <2>1, <2>2
  <2>4. active' \in 0..MaxPublications
    BY <1>1 DEF Publications
  <2> QED BY <1>1, <2>3, <2>4 DEF RetentionType
<1>6. \A v \in Publications : v # w =>
        /\ pub'[v].row = pub[v].row /\ pub'[v].published = pub[v].published
        /\ v # active => pub'[v].retired = pub[v].retired
        /\ v = active => pub'[v].retired = current
  BY <1>3, <1>4 DEF PublicationRow
<1>7. pub'[w].row = "live" /\ pub'[w].retired = Never
  BY <1>3
<1>8. Ordered'
  <2>1. reader'.holds <= active'
    BY <1>1, <1>2 DEF Ordered, RetentionType
  <2>2. ASSUME NEW v \in Publications
        PROVE  /\ pub'[v].row = "absent" <=> v > active'
               /\ v = active' => pub'[v].row = "live" /\ pub'[v].retired = Never
               /\ v < active' => pub'[v].retired # Never
    <3>1. CASE v = w
      BY <1>1, <1>2, <1>7, <3>1
    <3>2. CASE v # w
      BY <1>1, <1>2, <1>4, <1>6, <3>2 DEF Ordered
    <3> QED BY <3>1, <3>2
  <2> QED BY <2>1, <2>2 DEF Ordered
<1>9. ASSUME NEW v \in Publications, Expired(v)
      PROVE  Expired(v)'
  <2>1. v < active /\ pub[v].row # "absent" /\ pub'[v].retired = pub[v].retired
    BY <1>1, <1>2, <1>4, <1>6, <1>9 DEF Expired, Ordered
  <2>2. \A x \in Publications : pub[x].row # "absent" =>
          pub'[x].row # "absent" /\ pub'[x].published = pub[x].published
    BY <1>1, <1>2, <1>4, <1>6 DEF Ordered
  <2> QED BY <1>1, <1>2, <1>9, <2>1, <2>2, ExpiryIsStable
<1>10. Claims'
  BY <1>1, <1>9 DEF Claims
<1>11. Kept'
  <2>1. ASSUME NEW v \in Publications, v <= active', ~Expired(v)'
        PROVE  Intact(v)'
    <3>1. CASE v = w
      BY <1>1, <1>7, <3>1 DEF Intact
    <3>2. CASE v # w
      <4>1. v <= active /\ ~Expired(v)
        BY <1>1, <1>2, <1>4, <1>9, <2>1, <3>2
      <4> QED BY <1>1, <1>6, <3>2, <4>1 DEF Kept, Intact
    <3> QED BY <3>1, <3>2
  <2> QED BY <2>1 DEF Kept
<1>12. Removed' /\ Past'
  BY <1>1 DEF Removed, Past
<1>13. NothingLeaks'
  BY <1>1, <1>6, <1>7 DEF NothingLeaks
<1>14. Resolved'
  <2>1. ASSUME reader.holds # 0
        PROVE  /\ reader.holds \in Publications /\ reader.holds <= active /\ reader.at \in Nat
               /\ reader.at <= clock
    BY <2>1 DEF RetentionType, Ordered, Past, Publications
  <2>2. CASE reader.holds # 0 /\ reader.holds = active
    BY <1>1, <1>2, <1>6, <2>1, <2>2 DEF Resolved
  <2>3. CASE reader.holds # 0 /\ reader.holds # active
    BY <1>1, <1>2, <1>4, <1>6, <2>1, <2>3 DEF Resolved
  <2> QED BY <1>1, <2>2, <2>3 DEF Resolved
<1> QED BY <1>5, <1>8, <1>10, <1>11, <1>12, <1>13, <1>14

\* What the query of a sweep finds due has expired: the rows it ranks are among those
\* published since, and its clock is at most Skew ahead.
LEMMA DueHasExpired ==
  ASSUME RetentionInvariant, NEW current \in Stamps, NEW w \in PublicationRows, CleanupDue(w, current)
  PROVE  w \in Publications /\ Expired(w)
<1> USE RetentionAssumption DEF RetentionAssumption, RetentionInvariant
<1> DEFINE ranked == {v \in PublicationRows \ {w} : pub[v].published >= pub[w].published}
<1>1. w \in Publications /\ w \in Nat /\ active \in Nat /\ clock \in Nat
      /\ pub[w].retired \in Nat /\ Grace[w] \in Nat /\ RetainedCount[w] \in Nat
      /\ current \in Int /\ current <= clock + Skew
  BY DEF PublicationRows, RetentionType, PublicationRow, Publications, Stamps
<1>2. w < active
  BY <1>1 DEF CleanupDue, PublicationRows, Ordered
<1>3. pub[w].retired + Grace[w] <= clock + Skew
  BY <1>1 DEF CleanupDue
<1>4. ranked \subseteq Followers(w)
  BY DEF PublicationRows, Followers
<1>5. IsFiniteSet(ranked) /\ Cardinality(ranked) <= Cardinality(Followers(w))
      /\ Cardinality(ranked) \in Nat /\ Cardinality(Followers(w)) \in Nat
  BY <1>1, <1>4, FollowersFinite, FS_Subset, FS_CardinalityType
<1>6. 1 + Cardinality(ranked) > RetainedCount[w]
  BY DEF CleanupDue, publication_rank
<1>7. Cardinality(Followers(w)) >= RetainedCount[w]
  BY <1>1, <1>5, <1>6
<1> QED BY <1>1, <1>2, <1>3, <1>7 DEF Expired

\* A sweep claims what is due and has removed nothing of it yet.
LEMMA ClaimCleanupPreserves ==
  ASSUME RetentionInvariant, NEW s \in Sweepers, claim_publication_cleanup(s)
  PROVE  RetentionInvariant'
<1> USE DEF RetentionInvariant
<1>1. PICK current \in Stamps :
        \E batch \in SUBSET {w \in PublicationRows : CleanupDue(w, current)} :
          sweep' = [sweep EXCEPT ![s] = [w \in batch |-> "pin"]]
  BY DEF claim_publication_cleanup, kSubset
<1>2. PICK batch \in SUBSET {w \in PublicationRows : CleanupDue(w, current)} :
        sweep' = [sweep EXCEPT ![s] = [w \in batch |-> "pin"]]
  BY <1>1
<1>3. UNCHANGED <<clock, pub, active, audit, pins, manifests, late, reader>>
  BY DEF claim_publication_cleanup
<1>4. \A w \in batch : w \in Publications /\ Expired(w)
  BY <1>2, DueHasExpired
<1>5. /\ DOMAIN sweep' = Sweepers
      /\ DOMAIN sweep'[s] = batch /\ \A w \in batch : sweep'[s][w] = "pin"
      /\ \A t \in Sweepers : t # s => sweep'[t] = sweep[t]
  BY <1>2 DEF RetentionType
<1>6. RetentionType' /\ Ordered' /\ Kept' /\ NothingLeaks' /\ Resolved' /\ Past'
  BY <1>3, <1>5 DEF RetentionType, Ordered, Kept, Intact, Expired, Followers, NothingLeaks, Resolved, Past
<1>7. \A w \in Publications : Expired(w)' <=> Expired(w)
  BY <1>3 DEF Expired, Followers
<1>8. Claims'
  BY <1>4, <1>5, <1>7 DEF Claims
<1>9. Removed'
  BY <1>3, <1>5 DEF Removed
<1> QED BY <1>6, <1>8, <1>9

\* A sweep that has an artifact removed, or fails to, has an expired publication's.
LEMMA RemovePreserves ==
  ASSUME RetentionInvariant, NEW s \in Sweepers, NEW w \in Publications,
         RemovePin(s, w) \/ RemoveManifest(s, w)
  PROVE  RetentionInvariant'
<1> USE DEF RetentionInvariant
<1>1. PICK stage \in {"manifest", "removed", "failed"} :
        /\ sweep' = [sweep EXCEPT ![s][w] = stage]
        /\ stage = "manifest" => w \notin pins'
        /\ stage = "removed" => sweep[s][w] = "manifest" /\ w \notin manifests' /\ UNCHANGED pins
  BY DEF RemovePin, RemoveManifest, Cleanups
<1>2. /\ w \in DOMAIN sweep[s]
      /\ pins \ {w} \subseteq pins' /\ pins' \subseteq pins
      /\ manifests \ {w} \subseteq manifests' /\ manifests' \subseteq manifests
      /\ UNCHANGED <<clock, pub, active, late, reader>>
  BY DEF RemovePin, RemoveManifest, Cleanups
<1>3. /\ DOMAIN sweep' = Sweepers
      /\ \A t \in Sweepers : t # s => sweep'[t] = sweep[t]
      /\ DOMAIN sweep'[s] = DOMAIN sweep[s] /\ sweep'[s][w] = stage
      /\ \A v \in DOMAIN sweep[s] : v # w => sweep'[s][v] = sweep[s][v]
  BY <1>1, <1>2 DEF RetentionType
<1>4. \A v \in Publications : Expired(v)' <=> Expired(v)
  BY <1>2 DEF Expired, Followers
<1>5. Expired(w)
  BY <1>2 DEF Claims
<1>6. RetentionType' /\ Ordered' /\ NothingLeaks' /\ Resolved' /\ Past'
  BY <1>2, <1>3 DEF RetentionType, Ordered, NothingLeaks, Resolved, Past
<1>7. Claims'
  BY <1>3, <1>4 DEF Claims
<1>8. Kept'
  <2>1. ASSUME NEW v \in Publications, v <= active, ~Expired(v)
        PROVE  v \in pins' /\ v \in manifests' /\ pub[v].row = "live"
    BY <1>2, <1>5, <2>1 DEF Kept, Intact
  <2> QED BY <1>2, <1>4, <2>1 DEF Kept, Intact
<1>9. Removed'
  <2>1. ASSUME NEW t \in Sweepers, NEW v \in DOMAIN sweep'[t], v # late'
        PROVE  /\ sweep'[t][v] \in {"manifest", "removed", "finalized"} => v \notin pins'
               /\ sweep'[t][v] \in {"removed", "finalized"} => v \notin manifests'
    <3>1. CASE t = s /\ v = w
      BY <1>1, <1>2, <1>3, <2>1, <3>1 DEF Removed
    <3>2. CASE ~(t = s /\ v = w)
      BY <1>2, <1>3, <2>1, <3>2 DEF Removed
    <3> QED BY <3>1, <3>2
  <2> QED BY <2>1 DEF Removed
<1> QED BY <1>6, <1>7, <1>8, <1>9

\* The row goes last: the artifacts are gone by then, and it has expired.
LEMMA FinalizePreserves ==
  ASSUME RetentionInvariant, NEW s \in Sweepers, NEW w \in Publications,
         finalize_publication_cleanup(s, w)
  PROVE  RetentionInvariant'
<1> USE DEF RetentionInvariant
<1>1. /\ w \in DOMAIN sweep[s] /\ sweep[s][w] = "removed"
      /\ sweep' = [sweep EXCEPT ![s][w] = "finalized"]
      /\ pub' = IF w \in PublicationRows /\ w # active THEN [pub EXCEPT ![w].row = "deleted"] ELSE pub
      /\ UNCHANGED <<clock, active, pins, manifests, late, reader>>
  BY DEF finalize_publication_cleanup, Finalizable, Cleanups
<1>2. /\ DOMAIN sweep' = Sweepers
      /\ \A t \in Sweepers : t # s => sweep'[t] = sweep[t]
      /\ DOMAIN sweep'[s] = DOMAIN sweep[s] /\ sweep'[s][w] = "finalized"
      /\ \A v \in DOMAIN sweep[s] : v # w => sweep'[s][v] = sweep[s][v]
  BY <1>1 DEF RetentionType
<1>3. /\ pub' \in [Publications -> PublicationRow]
      /\ \A v \in Publications :
           /\ pub'[v].published = pub[v].published /\ pub'[v].retired = pub[v].retired
           /\ pub'[v].row = "absent" <=> pub[v].row = "absent"
           /\ v # w \/ v = active => pub'[v].row = pub[v].row
  BY <1>1 DEF RetentionType, PublicationRow, PublicationRows
<1>4. Expired(w) /\ (w # late => w \notin pins /\ w \notin manifests)
  BY <1>1 DEF Claims, Removed
<1>5. \A v \in Publications : Followers(v)' = Followers(v)
  BY <1>3 DEF Followers
<1>6. \A v \in Publications : Expired(v)' <=> Expired(v)
  BY <1>1, <1>3, <1>5 DEF Expired
<1>7. RetentionType' /\ Ordered'
  BY <1>1, <1>2, <1>3 DEF RetentionType, Ordered
<1>8. NothingLeaks'
  BY <1>1, <1>3, <1>4 DEF NothingLeaks
<1>9. Resolved' /\ Past'
  <2>1. reader.holds # 0 => reader.holds \in Publications
    BY DEF RetentionType, Publications
  <2> QED BY <1>1, <1>3, <2>1 DEF Resolved, Past
<1>10. Claims'
  BY <1>2, <1>6 DEF Claims
<1>11. Kept'
  BY <1>1, <1>3, <1>4, <1>6 DEF Kept, Intact
<1>12. Removed'
  BY <1>1, <1>2 DEF Removed
<1> QED BY <1>7, <1>8, <1>9, <1>10, <1>11, <1>12

\* A sweep that ends, or crashes, forgets its cleanups.
LEMMA ForgetPreserves ==
  ASSUME RetentionInvariant, NEW s \in Sweepers, delete_completed_audit(s) \/ SweepCrash(s)
  PROVE  RetentionInvariant'
<1> USE DEF RetentionInvariant
<1>1. /\ sweep' = [sweep EXCEPT ![s] = <<>>]
      /\ UNCHANGED <<clock, pub, active, pins, manifests, late, reader>>
  BY DEF delete_completed_audit, SweepCrash
<1>2. /\ DOMAIN sweep' = Sweepers /\ DOMAIN sweep'[s] = {}
      /\ \A t \in Sweepers : t # s => sweep'[t] = sweep[t]
  BY <1>1 DEF RetentionType
<1>3. \A v \in Publications : Expired(v)' <=> Expired(v)
  BY <1>1 DEF Expired, Followers
<1>4. RetentionType' /\ Ordered' /\ NothingLeaks' /\ Resolved' /\ Past'
  BY <1>1, <1>2 DEF RetentionType, Ordered, NothingLeaks, Resolved, Past
<1>5. Claims' /\ Kept' /\ Removed'
  BY <1>1, <1>2, <1>3 DEF Claims, Kept, Intact, Removed
<1> QED BY <1>4, <1>5

-----------------------------------------------------------------------------
(* The theorems.                                                           *)

\* Sweeps hold expired publications only, and whatever has not expired is whole:
\* the invariant of retention.py and of the cleanup half of state/repository.py.
THEOREM RetentionHolds == RetentionSpec => []RetentionInvariant
<1>1. ASSUME RetentionInvariant, [RetentionNext]_retentionVars
      PROVE  RetentionInvariant'
  <2>1. CASE RetentionTick \/ Resolve
    BY <1>1, <2>1, TickPreserves, ResolvePreserves
  <2>2. ASSUME NEW w \in Publications, PublisherStep(w)
        PROVE  RetentionInvariant'
    BY <1>1, <2>2, WritePreserves, PublishPreserves DEF PublisherStep
  <2>3. ASSUME NEW s \in Sweepers, SweepStep(s)
        PROVE  RetentionInvariant'
    BY <1>1, <2>3, ClaimCleanupPreserves, RemovePreserves, FinalizePreserves, ForgetPreserves DEF SweepStep
  <2>4. CASE UNCHANGED retentionVars
    <3>1. \A v \in Publications : Expired(v)' <=> Expired(v)
      BY <2>4 DEF retentionVars, Expired, Followers
    <3> QED BY <1>1, <2>4, <3>1 DEF retentionVars, RetentionInvariant, RetentionType, Ordered, Claims, Kept,
                                    Intact, Removed, NothingLeaks, Resolved, Past
  <2> QED BY <1>1, <2>1, <2>2, <2>3, <2>4 DEF RetentionNext
<1> QED BY <1>1, RetentionInitially, PTL DEF RetentionSpec

\* The served publication and those a specification retains keep their row, pin and
\* manifest for any number of concurrent sweeps (claim_publication_cleanup).
THEOREM RetainedStayIntactHolds == RetentionSpec => []RetainedStayIntact
<1>1. RetentionInvariant => RetainedStayIntact
  <2> SUFFICES ASSUME RetentionInvariant, NEW w \in Publications, pub[w].row # "absent",
                      w = active \/ Cardinality(Followers(w)) < RetainedCount[w]
               PROVE  Intact(w)
    BY DEF RetainedStayIntact, Followers
  <2>1. w \in Nat /\ active \in Nat /\ w <= active
    BY DEF RetentionInvariant, RetentionType, Ordered, Publications
  <2>2. Cardinality(Followers(w)) \in Nat /\ RetainedCount[w] \in Nat
    BY FollowersFinite, RetentionAssumption DEF RetentionInvariant, RetentionAssumption
  <2>3. ~Expired(w)
    BY <2>1, <2>2 DEF Expired
  <2> QED BY <2>1, <2>3 DEF RetentionInvariant, Kept
<1> QED BY <1>1, RetentionHolds, PTL

\* A reader opens the location it resolved for the whole retention period less the
\* difference of two clocks, whatever is published and swept meanwhile.
THEOREM ReaderHasGraceHolds == RetentionSpec => []ReaderHasGrace
<1>1. RetentionInvariant => ReaderHasGrace
  <2> SUFFICES ASSUME RetentionInvariant, reader.holds # 0,
                      clock + 2 * Skew < reader.at + Grace[reader.holds]
               PROVE  Intact(reader.holds)
    BY DEF ReaderHasGrace
  <2> DEFINE w == reader.holds
  <2>1. /\ w \in Publications /\ w \in Nat /\ active \in Nat /\ w <= active /\ reader.at \in Nat
        /\ pub[w].retired \in Nat
    BY DEF RetentionInvariant, RetentionType, PublicationRow, Ordered, Publications
  <2>2. Grace[w] \in Nat /\ Skew \in Nat /\ clock \in Nat
    BY <2>1, RetentionAssumption DEF RetentionInvariant, RetentionAssumption, RetentionType
  <2>3. ~Expired(w)
    BY <2>1, <2>2 DEF RetentionInvariant, Expired, Resolved
  <2> QED BY <2>1, <2>3 DEF RetentionInvariant, Kept
<1> QED BY <1>1, RetentionHolds, PTL

\* A publication without a row has left no artifact, but for a late attempt's: a sweep
\* that crashes between its steps is always resumed (finalize_publication_cleanup).
THEOREM NothingLeaksHolds == RetentionSpec => []NothingLeaks
<1>1. RetentionInvariant => NothingLeaks
  BY DEF RetentionInvariant
<1> QED BY <1>1, RetentionHolds, PTL

-----------------------------------------------------------------------------
(* Revisions of specifications.                                            *)

-----------------------------------------------------------------------------
(* The inductive invariant.                                                *)

Activating == {"select", "lock", "swap"}
Sharing    == {"assign", "commit"}

SessionRow ==
  [pc : {"idle", "share"} \cup Activating \cup Sharing, r : SpecRevisions, todo : SUBSET SpecRevisions]

DatasetRow ==
  [desired : SpecRevisions, materialized : SpecRevisions, version : Nat, open : SpecRevisions \cup {NoRow},
   lock : Sessions \cup {Free}]

\* The rows, their locks and the transactions have the shape the code gives them.
LifecycleType ==
  /\ revision \in [SpecRevisions -> {"ABSENT", "DRAFT", "ACTIVE", "RETIRED"}]
  /\ exclusive \in [SpecRevisions -> Sessions \cup {Free}]
  /\ shared \in [SpecRevisions -> SUBSET Sessions]
  /\ lane \in DatasetRow
  /\ rebuilds \in [SpecRevisions -> [frozen : Nat, done : BOOLEAN]]
  /\ session \in [Sessions -> SessionRow]

\* FOR UPDATE excludes the FOR SHARE of every other session.
LocksExclude == \A r \in SpecRevisions : exclusive[r] # Free => shared[r] \subseteq {exclusive[r]}

\* A transaction that activates holds its draft, one that assigns shares an ACTIVE row.
LocksHeld ==
  \A s \in Sessions :
    /\ session[s].pc \in Activating => exclusive[session[s].r] = s /\ revision[session[s].r] = "DRAFT"
    /\ session[s].pc \in Sharing => s \in shared[session[s].r] /\ revision[session[s].r] = "ACTIVE"

\* Of two activations of one specification the later to select waits for the other's draft.
Queued ==
  \A s, t \in Sessions :
    /\ s # t /\ SpecOf[session[s].r] = SpecOf[session[t].r]
    /\ session[s].pc \in {"lock", "swap"} /\ session[t].pc \in {"lock", "swap"}
    => \/ session[t].pc = "lock" /\ session[s].r \in session[t].todo
       \/ session[s].pc = "lock" /\ session[t].r \in session[s].todo

\* An activation has locked, or will, every ACTIVE row of its specification; the rows it
\* is about to retire are exactly those.
Sees ==
  \A s \in Sessions, i \in SpecRevisions :
    LET found == SpecOf[i] = SpecOf[session[s].r] /\ revision[i] = "ACTIVE" IN
    /\ session[s].pc = "lock" /\ found => i \in session[s].todo \/ exclusive[i] = s
    /\ session[s].pc = "swap" => (i \in session[s].todo <=> found)
    /\ session[s].pc = "swap" /\ found => exclusive[i] = s

\* A specification has at most one ACTIVE revision, and the default one.
Unique ==
  /\ \A i, j \in SpecRevisions :
       SpecOf[i] = SpecOf[j] /\ revision[i] = "ACTIVE" /\ revision[j] = "ACTIVE" => i = j
  /\ source # NoRow => HasActive(source)

LifecycleInvariant == LifecycleType /\ LocksExclude /\ LocksHeld /\ Queued /\ Sees /\ Unique

-----------------------------------------------------------------------------
(* One lemma per action.                                                   *)

\* The invariant's parts, for the leaves.
LEMMA LifecycleInitially == LifecycleInit => LifecycleInvariant
<1> SUFFICES ASSUME LifecycleInit PROVE LifecycleInvariant
  OBVIOUS
<1> USE LifecycleAssumption DEF LifecycleAssumption, LifecycleInit, Idle, NoRow
<1>1. LifecycleType
  BY DEF LifecycleType, DatasetRow, SessionRow
<1>2. LocksExclude /\ LocksHeld /\ Queued /\ Sees
  BY DEF LocksExclude, LocksHeld, Queued, Sees, Activating, Sharing
<1>3. Unique
  BY DEF Unique
<1> QED BY <1>1, <1>2, <1>3 DEF LifecycleInvariant

\* A transaction that ends leaves the others what they hold.
LEMMA ReleasePreserves ==
  ASSUME LifecycleInvariant, NEW s \in Sessions, Release(s), UNCHANGED <<revision, source>>
  PROVE  /\ exclusive' \in [SpecRevisions -> Sessions \cup {Free}]
         /\ shared' \in [SpecRevisions -> SUBSET Sessions]
         /\ session' \in [Sessions -> SessionRow]
         /\ LocksExclude' /\ LocksHeld' /\ Queued' /\ Sees' /\ Unique'
<1> USE LifecycleAssumption DEF LifecycleAssumption, LifecycleInvariant
<1>1. /\ exclusive' = [r \in SpecRevisions |-> IF exclusive[r] = s THEN Free ELSE exclusive[r]]
      /\ shared' = [r \in SpecRevisions |-> shared[r] \ {s}]
      /\ session' = [session EXCEPT ![s] = Idle]
  BY DEF Release
<1>2. /\ exclusive' \in [SpecRevisions -> Sessions \cup {Free}]
      /\ shared' \in [SpecRevisions -> SUBSET Sessions]
      /\ session' \in [Sessions -> SessionRow]
  BY <1>1 DEF LifecycleType, SessionRow, Idle
<1>3. LocksExclude'
  BY <1>1 DEF LocksExclude, LifecycleType
<1>4. /\ session'[s].pc = "idle"
      /\ \A t \in Sessions : t # s => session'[t] = session[t]
      /\ \A t \in Sessions, i \in SpecRevisions : t # s /\ exclusive[i] = t => exclusive'[i] = t
  BY <1>1 DEF LifecycleType, Idle
<1>5. LocksHeld'
  BY <1>1, <1>4 DEF LocksHeld, LifecycleType, Activating, Sharing, SessionRow
<1>6. Queued' /\ Sees'
  BY <1>4 DEF Queued, Sees
<1>7. Unique'
  BY DEF Unique, HasActive
<1> QED BY <1>2, <1>3, <1>5, <1>6, <1>7

\* Rolled back, it has written nothing either.
LEMMA RollbackPreserves ==
  ASSUME LifecycleInvariant, NEW s \in Sessions, Rollback(s)
  PROVE  LifecycleInvariant' /\ lane'.desired = lane.desired
<1>1. /\ Release(s) /\ UNCHANGED <<revision, rebuilds, source>>
      /\ lane' = IF lane.lock = s THEN [lane EXCEPT !.lock = Free] ELSE lane
  BY DEF Rollback
<1>2. /\ lane' \in DatasetRow
      /\ lane'.desired = lane.desired
  BY <1>1 DEF LifecycleInvariant, LifecycleType, DatasetRow
<1> QED BY <1>1, <1>2, ReleasePreserves DEF LifecycleInvariant, LifecycleType

\* A new draft is neither ACTIVE nor held by a transaction.
LEMMA CreatePreserves ==
  ASSUME LifecycleInvariant, NEW r \in SpecRevisions, create_draft_spec_revision(r)
  PROVE  LifecycleInvariant'
<1> USE DEF LifecycleInvariant
<1>1. /\ revision[r] = "ABSENT" /\ revision' = [revision EXCEPT ![r] = "DRAFT"]
      /\ UNCHANGED <<exclusive, shared, lane, rebuilds, source, session>>
  BY DEF create_draft_spec_revision
<1>2. LifecycleType' /\ LocksExclude' /\ Queued'
  BY <1>1 DEF LifecycleType, LocksExclude, Queued
<1>3. \A i \in SpecRevisions : /\ revision'[i] = "ACTIVE" <=> revision[i] = "ACTIVE"
                              /\ revision[i] = "DRAFT" => revision'[i] = "DRAFT"
  BY <1>1 DEF LifecycleType
<1>4. LocksHeld' /\ Sees'
  BY <1>1, <1>3 DEF LocksHeld, Sees, LifecycleType, SessionRow
<1>5. Unique'
  BY <1>1, <1>3 DEF Unique, HasActive
<1> QED BY <1>2, <1>4, <1>5

\* A source's default is one of the specifications that have an ACTIVE revision.
LEMMA DefaultPreserves ==
  ASSUME LifecycleInvariant,
         ensure_source_registration \/ \E r \in SpecRevisions : set_source_default_spec(SpecOf[r])
  PROVE  LifecycleInvariant'
<1>1. /\ HasActive(source')
      /\ UNCHANGED <<revision, exclusive, shared, lane, rebuilds, session>>
  BY DEF ensure_source_registration, set_source_default_spec
<1>2. Unique'
  BY <1>1 DEF LifecycleInvariant, Unique, HasActive
<1> QED BY <1>1, <1>2 DEF LifecycleInvariant, LifecycleType, LocksExclude, LocksHeld, Queued, Sees

\* The lane writes versions and materializes rebuilds; it locks no revision.
LEMMA LanePreserves ==
  ASSUME LifecycleInvariant, LaneAdvances
  PROVE  LifecycleInvariant'
<1> USE DEF LifecycleInvariant
<1>1. UNCHANGED <<revision, exclusive, shared, source, session>>
  BY DEF LaneAdvances
<1>2. LifecycleType'
  <2>1. lane \in DatasetRow /\ rebuilds \in [SpecRevisions -> [frozen : Nat, done : BOOLEAN]]
    BY DEF LifecycleType
  <2>2. ASSUME NEW r \in SpecRevisions, NEW v \in Nat, NEW open \in SpecRevisions \cup {NoRow},
               lane' = [lane EXCEPT !.version = v, !.materialized = r, !.open = open]
        PROVE  lane' \in DatasetRow
    BY <2>1, <2>2 DEF DatasetRow
  <2>3. /\ lane.materialized \in SpecRevisions /\ lane.desired \in SpecRevisions /\ lane.version + 1 \in Nat
        /\ lane.version \in Nat /\ lane.open \in SpecRevisions \cup {NoRow}
    BY <2>1 DEF DatasetRow
  <2>4. PICK v \in Nat : v = lane.version + 1
    BY <2>3
  <2>5. ASSUME NEW r \in SpecRevisions, lane' = [lane EXCEPT !.version = lane.version + 1, !.open = r]
        PROVE  lane' \in DatasetRow
    <3>1. lane' = [lane EXCEPT !.version = v, !.materialized = lane.materialized, !.open = r]
      BY <2>1, <2>4, <2>5 DEF DatasetRow
    <3> QED BY <2>2, <2>3, <3>1
  <2>6. ASSUME lane.open # NoRow,
               lane' = [lane EXCEPT !.version = lane.version + 1, !.materialized = lane.open, !.open = NoRow]
        PROVE  lane' \in DatasetRow
    <3>1. lane' = [lane EXCEPT !.version = v, !.materialized = lane.open, !.open = NoRow]
      BY <2>4, <2>6
    <3> QED BY <2>2, <2>3, <2>6, <3>1
  <2>7. ASSUME lane' = [lane EXCEPT !.open = NoRow]
        PROVE  lane' \in DatasetRow
    BY <2>1, <2>7 DEF DatasetRow
  <2>8. ASSUME NEW r \in SpecRevisions,
               lane' = [lane EXCEPT !.version = lane.version + 1, !.materialized = r],
               rebuilds' = [rebuilds EXCEPT ![r].done = TRUE]
        PROVE  lane' \in DatasetRow /\ rebuilds' \in [SpecRevisions -> [frozen : Nat, done : BOOLEAN]]
    <3>1. [rebuilds[r] EXCEPT !.done = TRUE] \in [frozen : Nat, done : BOOLEAN]
      BY <2>1
    <3>2. rebuilds' \in [SpecRevisions -> [frozen : Nat, done : BOOLEAN]]
      BY <2>1, <2>8, <3>1
    <3>3. lane' = [lane EXCEPT !.version = v, !.materialized = r, !.open = lane.open]
      BY <2>1, <2>4, <2>8 DEF DatasetRow
    <3> QED BY <2>2, <2>3, <3>2, <3>3
  <2>9. lane' \in DatasetRow /\ rebuilds' \in [SpecRevisions -> [frozen : Nat, done : BOOLEAN]]
    BY <2>1, <2>3, <2>5, <2>6, <2>7, <2>8 DEF LaneAdvances
  <2> QED BY <1>1, <2>9 DEF LifecycleType
<1> QED BY <1>1, <1>2 DEF LocksExclude, LocksHeld, Queued, Sees, Unique, HasActive

-----------------------------------------------------------------------------
(* The statements of an activation.                                        *)

\* A transaction's row after a statement.
LEMMA RowUpdate ==
  ASSUME NEW x \in SessionRow, NEW rows \in SUBSET SpecRevisions,
         NEW pc \in {"idle", "share"} \cup Activating \cup Sharing
  PROVE  /\ [x EXCEPT !.pc = pc, !.todo = rows] \in SessionRow
         /\ [x EXCEPT !.todo = rows] \in SessionRow
         /\ [x EXCEPT !.pc = pc] \in SessionRow
BY DEF SessionRow

\* The candidate was nobody's: it becomes a draft this transaction holds.
LEMMA CandidatePreserves ==
  ASSUME LifecycleInvariant, NEW s \in Sessions, NEW r \in SpecRevisions, LockCandidate(s, r)
  PROVE  LifecycleInvariant'
<1> USE LifecycleAssumption DEF LifecycleAssumption, LifecycleInvariant
<1>1. /\ session[s].pc = "idle" /\ revision[r] = "DRAFT"
      /\ exclusive[r] \in {Free, s} /\ shared[r] \subseteq {s}
      /\ exclusive' = [exclusive EXCEPT ![r] = s]
      /\ session' = [session EXCEPT ![s] = [pc |-> "select", r |-> r, todo |-> {}]]
      /\ UNCHANGED <<revision, shared, lane, rebuilds, source>>
  BY DEF LockCandidate, Begin, FreeForUpdate, At
<1>2. LifecycleType'
  BY <1>1 DEF LifecycleType, SessionRow, Activating
<1>3. LocksExclude'
  BY <1>1 DEF LocksExclude, LifecycleType
<1>4. /\ session'[s].pc = "select" /\ session'[s].r = r /\ exclusive'[r] = s
      /\ \A t \in Sessions : t # s => session'[t] = session[t]
      /\ \A i \in SpecRevisions, t \in Sessions : t # s /\ exclusive[i] = t => exclusive'[i] = t
  BY <1>1 DEF LifecycleType
<1>5. LocksHeld'
  BY <1>1, <1>4 DEF LocksHeld, LifecycleType, Activating, Sharing, SessionRow
<1>6. Queued' /\ Sees'
  BY <1>1, <1>4 DEF Queued, Sees
<1>7. Unique'
  BY <1>1 DEF Unique, HasActive
<1> QED BY <1>2, <1>3, <1>5, <1>6, <1>7

\* The rows selected include the drafts of the other activations under way.
LEMMA SelectPreserves ==
  ASSUME LifecycleInvariant, NEW s \in Sessions, SelectSiblings(s)
  PROVE  LifecycleInvariant'
<1> USE DEF LifecycleInvariant
<1> DEFINE r == session[s].r
<1>1. PICK rows \in SUBSET SpecRevisions :
        /\ rows = SpecRows(r)
        /\ session' = [session EXCEPT ![s].pc = "lock", ![s].todo = rows]
  BY DEF SelectSiblings, SpecRows
<1>2. /\ session[s].pc = "select"
      /\ UNCHANGED <<revision, exclusive, shared, lane, rebuilds, source>>
  BY DEF SelectSiblings, At
<1>3. /\ session'[s].pc = "lock" /\ session'[s].r = r /\ session'[s].todo = rows
      /\ \A t \in Sessions : t # s => session'[t] = session[t]
      /\ r \in SpecRevisions
  BY <1>1 DEF LifecycleType, SessionRow
<1>4. LifecycleType'
  <2>1. [session[s] EXCEPT !.pc = "lock", !.todo = rows] \in SessionRow
    BY RowUpdate DEF LifecycleType, Activating
  <2>2. session' \in [Sessions -> SessionRow]
    BY <1>1, <2>1 DEF LifecycleType
  <2> QED BY <1>2, <2>2 DEF LifecycleType
<1>5. LocksExclude' /\ LocksHeld' /\ Unique'
  BY <1>2, <1>3 DEF LocksExclude, LocksHeld, Unique, HasActive, Activating, Sharing
<1>6. Queued'
  <2>1. ASSUME NEW t \in Sessions, t # s, session[t].pc \in {"lock", "swap"},
               SpecOf[session[t].r] = SpecOf[r]
        PROVE  session[t].r \in rows
    BY <1>1, <2>1 DEF SpecRows, LocksHeld, LifecycleType, SessionRow, Activating
  <2> QED BY <1>3, <2>1 DEF Queued
<1>7. Sees'
  <2>1. ASSUME NEW i \in SpecRevisions, SpecOf[i] = SpecOf[r], revision[i] = "ACTIVE"
        PROVE  i \in rows
    BY <1>1, <2>1 DEF SpecRows
  <2> QED BY <1>2, <1>3, <2>1 DEF Sees
<1> QED BY <1>4, <1>5, <1>6, <1>7

\* A row another activation's draft is cannot be locked: it stays among those to lock.
LEMMA SiblingPreserves ==
  ASSUME LifecycleInvariant, NEW s \in Sessions, LockSibling(s)
  PROVE  LifecycleInvariant'
<1> USE LifecycleAssumption DEF LifecycleAssumption, LifecycleInvariant
<1>1. PICK next \in session[s].todo :
        /\ FreeForUpdate(s, next)
        /\ exclusive' = [exclusive EXCEPT ![next] = s]
        /\ session' = [session EXCEPT ![s].todo = @ \ {next}]
  BY DEF LockSibling
<1>2. /\ session[s].pc = "lock" /\ next \in SpecRevisions
      /\ exclusive[next] \in {Free, s} /\ shared[next] \subseteq {s}
      /\ UNCHANGED <<revision, shared, lane, rebuilds, source>>
  BY <1>1 DEF LockSibling, FreeForUpdate, At, LifecycleType, SessionRow
<1>3. /\ session'[s].pc = "lock" /\ session'[s].r = session[s].r
      /\ session'[s].todo = session[s].todo \ {next}
      /\ \A t \in Sessions : t # s => session'[t] = session[t]
  BY <1>1, <1>2 DEF LifecycleType, SessionRow
<1>4. /\ exclusive'[next] = s
      /\ \A i \in SpecRevisions : i # next => exclusive'[i] = exclusive[i]
      /\ \A i \in SpecRevisions, t \in Sessions : exclusive[i] = t => exclusive'[i] = t
  BY <1>1, <1>2 DEF LifecycleType
<1>5. LifecycleType'
  <2>1. session[s] \in SessionRow /\ session[s].todo \ {next} \in SUBSET SpecRevisions
    BY DEF LifecycleType, SessionRow
  <2>3. [session[s] EXCEPT !.todo = session[s].todo \ {next}] \in SessionRow
    BY <2>1, RowUpdate DEF Activating
  <2>2. session' \in [Sessions -> SessionRow]
    BY <1>1, <2>3 DEF LifecycleType
  <2> QED BY <1>1, <1>2, <2>2 DEF LifecycleType
<1>6. LocksExclude' /\ LocksHeld'
  <2>1. LocksExclude'
    BY <1>2, <1>4 DEF LocksExclude
  <2>2. \A t \in Sessions : session[t].r \in SpecRevisions /\ session'[t].r = session[t].r
                            /\ session'[t].pc = session[t].pc
    BY <1>2, <1>3 DEF LifecycleType, SessionRow
  <2>3. LocksHeld'
    BY <1>2, <1>4, <2>2 DEF LocksHeld
  <2> QED BY <2>1, <2>3
<1>7. \A t \in Sessions : t # s /\ session[t].pc \in {"lock", "swap"} => session[t].r # next
  BY <1>2 DEF LocksHeld, Activating
<1>8. Queued'
  BY <1>2, <1>3, <1>7 DEF Queued
<1>9. Sees'
  BY <1>2, <1>3, <1>4 DEF Sees
<1>10. Unique'
  BY <1>2 DEF Unique, HasActive
<1> QED BY <1>5, <1>6, <1>8, <1>9, <1>10

\* With every row locked no other activation of the specification can have got here.
LEMMA RetirePreserves ==
  ASSUME LifecycleInvariant, NEW s \in Sessions, RetireActive(s)
  PROVE  LifecycleInvariant'
<1> USE LifecycleAssumption DEF LifecycleAssumption, LifecycleInvariant
<1> DEFINE r == session[s].r
<1>1. PICK current \in SUBSET SpecRevisions :
        /\ current = {i \in SpecRows(r) : revision[i] = "ACTIVE"}
        /\ session' = [session EXCEPT ![s].pc = "swap", ![s].todo = current]
  BY DEF RetireActive, SpecRows
<1>2. /\ session[s].pc = "lock" /\ session[s].todo = {}
      /\ UNCHANGED <<revision, exclusive, shared, lane, rebuilds, source>>
  BY DEF RetireActive, At
<1>7. /\ session'[s].pc = "swap" /\ session'[s].r = r /\ session'[s].todo = current
      /\ \A t \in Sessions : t # s => session'[t] = session[t]
  BY <1>1 DEF LifecycleType, SessionRow
<1>3. LifecycleType'
  <2>1. [session[s] EXCEPT !.pc = "swap", !.todo = current] \in SessionRow
    BY RowUpdate DEF LifecycleType, Activating
  <2>2. session' \in [Sessions -> SessionRow]
    BY <1>1, <2>1 DEF LifecycleType
  <2> QED BY <1>2, <2>2 DEF LifecycleType
<1>4. LocksExclude' /\ LocksHeld' /\ Unique'
  BY <1>2, <1>7 DEF LocksExclude, LocksHeld, Unique, HasActive, Activating, Sharing
<1>5. Queued'
  BY <1>2, <1>7 DEF Queued
<1>6. Sees'
  <2>1. ASSUME NEW i \in SpecRevisions
        PROVE  i \in current <=> SpecOf[i] = SpecOf[r] /\ revision[i] = "ACTIVE"
    BY <1>1, <2>1 DEF SpecRows
  <2> QED BY <1>2, <1>7, <2>1 DEF Sees
<1> QED BY <1>3, <1>4, <1>5, <1>6

\* The swap retires every ACTIVE revision of the specification: none is shared, no
\* other activation of it is about to swap.
LEMMA ActivatePreserves ==
  ASSUME LifecycleInvariant, NEW s \in Sessions, activate_spec_revision(s)
  PROVE  LifecycleInvariant'
<1> USE LifecycleAssumption DEF LifecycleAssumption, LifecycleInvariant
<1> DEFINE r == session[s].r
           todo == session[s].todo
<1>1. /\ session[s].pc = "swap"
      /\ revision' = [i \in SpecRevisions |->
                        CASE i = r -> "ACTIVE" [] i \in todo -> "RETIRED" [] OTHER -> revision[i]]
      /\ exclusive' = [i \in SpecRevisions |-> IF exclusive[i] = s THEN Free ELSE exclusive[i]]
      /\ shared' = [i \in SpecRevisions |-> shared[i] \ {s}]
      /\ session' = [session EXCEPT ![s] = Idle]
      /\ UNCHANGED <<lane, rebuilds, source>>
  BY DEF activate_spec_revision, Release, At
<1>2. /\ r \in SpecRevisions /\ exclusive[r] = s /\ revision[r] = "DRAFT"
      /\ \A i \in SpecRevisions : i \in todo <=> SpecOf[i] = SpecOf[r] /\ revision[i] = "ACTIVE"
      /\ \A i \in SpecRevisions : i \in todo => exclusive[i] = s
  BY <1>1 DEF LocksHeld, Sees, Activating, LifecycleType, SessionRow
<1>3. /\ session'[s].pc = "idle"
      /\ \A t \in Sessions : t # s => session'[t] = session[t]
      /\ \A t \in Sessions, i \in SpecRevisions : t # s /\ exclusive[i] = t => exclusive'[i] = t
  BY <1>1 DEF LifecycleType, Idle
<1>4. LifecycleType'
  <2>1. revision' \in [SpecRevisions -> {"ABSENT", "DRAFT", "ACTIVE", "RETIRED"}]
    BY <1>1 DEF LifecycleType
  <2>2. session' \in [Sessions -> SessionRow]
    BY <1>1 DEF LifecycleType, SessionRow, Idle
  <2> QED BY <1>1, <2>1, <2>2 DEF LifecycleType
<1>5. LocksExclude'
  BY <1>1 DEF LocksExclude, LifecycleType
<1>6. /\ revision'[r] = "ACTIVE"
      /\ \A i \in SpecRevisions : i \in todo => revision'[i] = "RETIRED"
      /\ \A i \in SpecRevisions : i # r /\ i \notin todo => revision'[i] = revision[i]
  BY <1>1, <1>2
<1>7. LocksHeld'
  <2>1. ASSUME NEW t \in Sessions, t # s, session[t].pc \in Activating
        PROVE  exclusive'[session[t].r] = t /\ revision'[session[t].r] = "DRAFT"
    <3>1. session[t].r \in SpecRevisions /\ exclusive[session[t].r] = t /\ revision[session[t].r] = "DRAFT"
      BY <2>1 DEF LocksHeld, LifecycleType, SessionRow
    <3> QED BY <1>2, <1>3, <1>6, <2>1, <3>1
  <2>2. ASSUME NEW t \in Sessions, t # s, session[t].pc \in Sharing
        PROVE  t \in shared'[session[t].r] /\ revision'[session[t].r] = "ACTIVE"
    <3>1. session[t].r \in SpecRevisions /\ t \in shared[session[t].r] /\ revision[session[t].r] = "ACTIVE"
      BY <2>2 DEF LocksHeld, LifecycleType, SessionRow
    <3>2. session[t].r \notin todo
      BY <1>2, <2>2, <3>1 DEF LocksExclude
    <3> QED BY <1>1, <1>2, <1>6, <2>2, <3>1, <3>2
  <2> QED BY <1>3, <2>1, <2>2 DEF LocksHeld, Activating, Sharing
<1>8. Queued'
  BY <1>3 DEF Queued
<1>9. Sees'
  <2> SUFFICES ASSUME NEW t \in Sessions, NEW i \in SpecRevisions, t # s,
                      session[t].pc \in {"lock", "swap"}
               PROVE  LET found == SpecOf[i] = SpecOf[session[t].r] /\ revision'[i] = "ACTIVE" IN
                      /\ session[t].pc = "lock" /\ found => i \in session[t].todo \/ exclusive'[i] = t
                      /\ session[t].pc = "swap" => (i \in session[t].todo <=> found)
                      /\ session[t].pc = "swap" /\ found => exclusive'[i] = t
    BY <1>3 DEF Sees
  <2>1. CASE SpecOf[session[t].r] = SpecOf[r]
    <3>1. session[t].pc = "lock" /\ r \in session[t].todo
      BY <1>1, <2>1 DEF Queued
    <3>2. revision'[i] = "ACTIVE" /\ SpecOf[i] = SpecOf[r] => i = r
      BY <1>2, <1>6
    <3> QED BY <2>1, <3>1, <3>2
  <2>2. CASE SpecOf[session[t].r] # SpecOf[r]
    BY <1>2, <1>3, <1>6, <2>2 DEF Sees
  <2> QED BY <2>1, <2>2
<1>10. Unique'
  <2>1. \A i, j \in SpecRevisions :
          SpecOf[i] = SpecOf[j] /\ revision'[i] = "ACTIVE" /\ revision'[j] = "ACTIVE" => i = j
    BY <1>2, <1>6 DEF Unique
  <2>2. ASSUME source # NoRow
        PROVE  \E i \in SpecRevisions : SpecOf[i] = source /\ revision'[i] = "ACTIVE"
    BY <1>2, <1>6, <2>2 DEF Unique, HasActive
  <2> QED BY <1>1, <2>1, <2>2 DEF Unique, HasActive
<1> QED BY <1>4, <1>5, <1>7, <1>8, <1>9, <1>10

-----------------------------------------------------------------------------
(* The statements of an assignment.                                        *)

\* The dataset's row is locked; no revision is held yet.
LEMMA DatasetPreserves ==
  ASSUME LifecycleInvariant, NEW s \in Sessions, NEW r \in SpecRevisions, LockDataset(s, r)
  PROVE  LifecycleInvariant'
<1> USE DEF LifecycleInvariant
<1>1. /\ session[s].pc = "idle"
      /\ lane' = [lane EXCEPT !.lock = s]
      /\ session' = [session EXCEPT ![s] = [pc |-> "share", r |-> r, todo |-> {}]]
      /\ UNCHANGED <<revision, exclusive, shared, rebuilds, source>>
  BY DEF LockDataset, Begin, At
<1>2. /\ session'[s].pc = "share"
      /\ \A t \in Sessions : t # s => session'[t] = session[t]
  BY <1>1 DEF LifecycleType
<1>3. LifecycleType'
  BY <1>1 DEF LifecycleType, DatasetRow, SessionRow
<1>4. LocksExclude' /\ LocksHeld' /\ Queued' /\ Sees' /\ Unique'
  BY <1>1, <1>2 DEF LocksExclude, LocksHeld, Queued, Sees, Unique, HasActive, Activating, Sharing
<1> QED BY <1>3, <1>4

\* The revision is shared while it is ACTIVE, by the assignment and by its trigger.
LEMMA SharePreserves ==
  ASSUME LifecycleInvariant, NEW s \in Sessions, NEW pc \in Sharing,
         session[s].pc \in {"share", "assign"}, revision[session[s].r] = "ACTIVE",
         LockShared(s, session[s].r), Goto(s, pc),
         UNCHANGED <<revision, exclusive, lane, rebuilds, source>>
  PROVE  LifecycleInvariant'
<1> USE LifecycleAssumption DEF LifecycleAssumption, LifecycleInvariant
<1> DEFINE r == session[s].r
<1>1. /\ exclusive[r] \in {Free, s} /\ shared' = [shared EXCEPT ![r] = @ \union {s}]
      /\ session' = [session EXCEPT ![s].pc = pc]
      /\ r \in SpecRevisions
  BY DEF LockShared, Goto, LifecycleType, SessionRow
<1>2. /\ session'[s].pc = pc /\ session'[s].r = r
      /\ \A t \in Sessions : t # s => session'[t] = session[t]
  BY <1>1 DEF LifecycleType, SessionRow
<1>3. LifecycleType'
  <2>1. [session[s] EXCEPT !.pc = pc] \in SessionRow
    BY RowUpdate DEF LifecycleType
  <2>2. session' \in [Sessions -> SessionRow]
    BY <1>1, <2>1 DEF LifecycleType
  <2>3. shared' \in [SpecRevisions -> SUBSET Sessions]
    BY <1>1 DEF LifecycleType
  <2> QED BY <2>2, <2>3 DEF LifecycleType
<1>4. LocksExclude'
  BY <1>1 DEF LocksExclude, LifecycleType
<1>5. LocksHeld'
  <2>1. s \in shared'[r] /\ \A t \in Sessions, i \in SpecRevisions : t \in shared[i] => t \in shared'[i]
    BY <1>1 DEF LifecycleType
  <2>2. \A t \in Sessions : session[t].r \in SpecRevisions
    BY DEF LifecycleType, SessionRow
  <2> QED BY <1>2, <2>1, <2>2 DEF LocksHeld, Activating, Sharing
<1>6. Queued' /\ Sees'
  BY <1>2 DEF Queued, Sees, Sharing
<1>7. Unique'
  BY DEF Unique, HasActive
<1> QED BY <1>3, <1>4, <1>5, <1>6, <1>7

\* A committed assignment points the lane at the revision it shares.
LEMMA AssignPreserves ==
  ASSUME LifecycleInvariant, NEW s \in Sessions, assign_dataset_spec_revision(s)
  PROVE  /\ LifecycleInvariant'
         /\ lane'.desired # lane.desired => revision[lane'.desired] = "ACTIVE"
<1> USE LifecycleAssumption DEF LifecycleAssumption, LifecycleInvariant
<1> DEFINE r == session[s].r
<1>1. CASE Rollback(s)
  BY <1>1, RollbackPreserves
<1>2. CASE /\ lane' = [lane EXCEPT !.desired = r, !.lock = Free]
           /\ rebuilds' = IF lane.materialized # r /\ lane.open = NoRow /\ rebuilds[r].frozen = NoRow
                          THEN [rebuilds EXCEPT ![r] = [frozen |-> lane.version, done |-> FALSE]] ELSE rebuilds
           /\ Release(s)
           /\ UNCHANGED <<revision, source>>
  <2>1. r \in SpecRevisions /\ revision[r] = "ACTIVE"
    BY DEF assign_dataset_spec_revision, At, LocksHeld, Sharing, LifecycleType, SessionRow
  <2>2. rebuilds' \in [SpecRevisions -> [frozen : Nat, done : BOOLEAN]]
    BY <1>2, <2>1 DEF LifecycleType, DatasetRow
  <2>3. /\ lane' \in DatasetRow
        /\ lane'.desired = r
    BY <1>2, <2>1 DEF LifecycleType, DatasetRow
  <2>4. LifecycleInvariant'
    BY <1>2, <2>2, <2>3, ReleasePreserves DEF LifecycleType
  <2> QED BY <2>1, <2>3, <2>4
<1> QED BY <1>1, <1>2 DEF assign_dataset_spec_revision

-----------------------------------------------------------------------------
(* The theorems.                                                           *)

\* Every step of a session keeps the invariant and points the lane, if it does, at an
\* ACTIVE revision.
LEMMA SessionPreserves ==
  ASSUME LifecycleInvariant, NEW s \in Sessions, SessionStep(s)
  PROVE  /\ LifecycleInvariant'
         /\ lane'.desired # lane.desired => revision[lane'.desired] = "ACTIVE"
<1>1. CASE SelectSiblings(s) \/ LockSibling(s) \/ RetireActive(s) \/ activate_spec_revision(s)
  <2>1. UNCHANGED lane
    BY <1>1 DEF SelectSiblings, LockSibling, RetireActive, activate_spec_revision
  <2> QED BY <1>1, <2>1, SelectPreserves, SiblingPreserves, RetirePreserves, ActivatePreserves
<1>2. ASSUME NEW r \in SpecRevisions, LockCandidate(s, r) \/ LockDataset(s, r)
      PROVE  LifecycleInvariant' /\ lane'.desired = lane.desired
  <2>1. lane'.desired = lane.desired
    BY <1>2 DEF LockCandidate, LockDataset, LifecycleInvariant, LifecycleType, DatasetRow
  <2> QED BY <1>2, <2>1, CandidatePreserves, DatasetPreserves
<1>3. CASE RefuseInactive(s) \/ TransactionAborts(s)
  BY <1>3, RollbackPreserves DEF RefuseInactive, TransactionAborts
<1>4. CASE ShareRevision(s)
  <2>1. UNCHANGED lane
    BY <1>4 DEF ShareRevision
  <2> QED BY <1>4, <2>1, SharePreserves DEF ShareRevision, At, Sharing
<1>5. CASE UpdateDesired(s)
  <2>1. CASE Rollback(s)
    BY <2>1, RollbackPreserves
  <2>2. CASE ~Rollback(s)
    <3>1. UNCHANGED lane
      BY <1>5, <2>2 DEF UpdateDesired
    <3> QED BY <1>5, <2>2, <3>1, SharePreserves DEF UpdateDesired, At, Sharing
  <2> QED BY <2>1, <2>2
<1>6. CASE assign_dataset_spec_revision(s)
  BY <1>6, AssignPreserves
<1> QED BY <1>1, <1>2, <1>3, <1>4, <1>5, <1>6 DEF SessionStep

\* So does every step of the system.
LEMMA LifecycleStep ==
  ASSUME LifecycleInvariant, [LifecycleNext]_lifecycleVars
  PROVE  /\ LifecycleInvariant'
         /\ lane'.desired # lane.desired => revision[lane'.desired] = "ACTIVE"
<1>1. ASSUME NEW s \in Sessions, SessionStep(s)
      PROVE  /\ LifecycleInvariant'
             /\ lane'.desired # lane.desired => revision[lane'.desired] = "ACTIVE"
  BY <1>1, SessionPreserves
<1>2. ASSUME NEW r \in SpecRevisions, create_draft_spec_revision(r)
      PROVE  LifecycleInvariant' /\ UNCHANGED lane
  BY <1>2, CreatePreserves DEF create_draft_spec_revision
<1>3. CASE ensure_source_registration \/ \E r \in SpecRevisions : set_source_default_spec(SpecOf[r])
  <2>1. UNCHANGED lane
    BY <1>3 DEF ensure_source_registration, set_source_default_spec
  <2> QED BY <1>3, <2>1, DefaultPreserves
<1>4. CASE LaneAdvances
  <2>1. lane'.desired = lane.desired
    BY <1>4 DEF LaneAdvances, LifecycleInvariant, LifecycleType, DatasetRow
  <2> QED BY <1>4, <2>1, LanePreserves
<1>5. CASE UNCHANGED lifecycleVars
  BY <1>5 DEF lifecycleVars, LifecycleInvariant, LifecycleType, LocksExclude, LocksHeld, Queued, Sees, Unique, HasActive
<1> QED BY <1>1, <1>2, <1>3, <1>4, <1>5 DEF LifecycleNext

\* The locks and rows of overlapping activations and assignments are always as the
\* transactions of state/repository.py leave them.
THEOREM LifecycleHolds == LifecycleSpec => []LifecycleInvariant
<1>1. LifecycleInvariant /\ [LifecycleNext]_lifecycleVars => LifecycleInvariant'
  BY LifecycleStep
<1> QED BY <1>1, LifecycleInitially, PTL DEF LifecycleSpec

\* Planning always finds exactly one ACTIVE revision of the specification a source
\* defaults to, whatever the interleaving of activations (activate_spec_revision).
THEOREM OneActiveHolds == LifecycleSpec => []OneActiveRevision
<1>1. LifecycleInvariant => OneActiveRevision
  <2> SUFFICES ASSUME LifecycleInvariant, source # NoRow
               PROVE  Cardinality({r \in SpecRevisions : SpecOf[r] = source /\ revision[r] = "ACTIVE"}) = 1
    BY DEF OneActiveRevision
  <2>1. PICK r \in SpecRevisions : SpecOf[r] = source /\ revision[r] = "ACTIVE"
    BY DEF LifecycleInvariant, Unique, HasActive
  <2>2. {i \in SpecRevisions : SpecOf[i] = source /\ revision[i] = "ACTIVE"} = {r}
    BY <2>1 DEF LifecycleInvariant, Unique
  <2> QED BY <2>2, FS_Singleton
<1> QED BY <1>1, LifecycleHolds, PTL

\* A dataset is only ever pointed at a revision that is ACTIVE in that very step
\* (assign_dataset_spec_revision and its trigger), whatever activates meanwhile.
THEOREM AssignedWhileActiveHolds == LifecycleSpec => AssignedWhileActive
<1>1. LifecycleInvariant /\ [LifecycleNext]_lifecycleVars
        => [lane'.desired # lane.desired => revision[lane'.desired] = "ACTIVE"]_lifecycleVars
  BY LifecycleStep
<1> QED BY <1>1, LifecycleHolds, PTL DEF LifecycleSpec, AssignedWhileActive

-----------------------------------------------------------------------------
(* Drafts.                                                                 *)

RevisionParts ==
  {"number", "digest", "fields", "indexes", "required", "optional", "cleanup_older_than", "max_stale_replans", "threshold"}

IsRecord(x) == x = [k \in DOMAIN x |-> x[k]]

\* An index as far as its decimals are concerned.
IsIndex(x) ==
  /\ IsRecord(x) /\ "vector" \in DOMAIN x
  /\ x.vector \in VectorOptions \union {Null}

\* A revision as far as the database rounds or bounds it.
IsRevision(r) ==
  /\ IsRecord(r) /\ DOMAIN r = RevisionParts
  /\ r.number \in Int /\ r.threshold \in Decimal
  /\ \A s \in DOMAIN r.required : r.required[s] \in Int
  /\ \A s \in DOMAIN r.optional : r.optional[s] \in Int \union {Null}
  /\ \A i \in DOMAIN r.fields : IsRecord(r.fields[i]) /\ "role" \in DOMAIN r.fields[i] /\ r.fields[i].role \in FieldRole
  /\ IsRecord(r.indexes) /\ \A i \in DOMAIN r.indexes : IsIndex(r.indexes[i])

\* A decimal of four places that was written as a float is stored as it is.
LEMMA NumericExact ==
  ASSUME NEW d \in Decimal, d.float, d.units % 10 = 0
  PROVE  numeric(d) = d /\ numeric(d).units = d.units
<1>1. d = [units |-> d.units, float |-> d.float] /\ d.units \in Int
  BY DEF Decimal
<1>2. ((d.units + 5) \div 10) * 10 = d.units
  BY <1>1
<1> QED BY <1>1, <1>2 DEF numeric

\* Taking the digest changes nothing else.
LEMMA PreparedParts ==
  ASSUME NEW r, IsRevision(r)
  PROVE  /\ IsRevision(prepared(r))
         /\ \A k \in RevisionParts \ {"digest"} : prepared(r)[k] = r[k]
<1> DEFINE c == prepared(r)
<1>1. IsRecord(c) /\ DOMAIN c = RevisionParts /\ \A k \in RevisionParts \ {"digest"} : c[k] = r[k]
  BY DEF prepared, IsRevision, IsRecord
<1>2. /\ c.number = r.number /\ c.threshold = r.threshold /\ c.required = r.required /\ c.optional = r.optional
      /\ c.fields = r.fields /\ c.indexes = r.indexes
  BY <1>1 DEF RevisionParts
<1> HIDE DEF c
<1>3. IsRevision(c)
  BY <1>1, <1>2 DEF IsRevision
<1> QED BY <1>1, <1>3 DEF c

\* What the database stores of a revision with such decimals is the revision.
LEMMA RowsAsWritten ==
  ASSUME NEW c, IsRevision(c), \A d \in Decimals(c) : d.float /\ d.units % 10 = 0
  PROVE  row_values(c) = c
<1>1. numeric(c.threshold) = c.threshold
  BY NumericExact DEF Decimals, IsRevision
<1>2. ASSUME NEW i \in DOMAIN c.indexes PROVE index_row_values(c.indexes[i]) = c.indexes[i]
  <2> DEFINE x == c.indexes[i]
  <2>1. IsIndex(x)
    BY DEF IsRevision
  <2>2. CASE x.vector = Null
    BY <2>2 DEF index_row_values
  <2>3. CASE x.vector # Null
    <3>1. x.vector.retrain_growth_factor \in Decimals(c)
      BY <2>3 DEF Decimals
    <3>2. x.vector \in VectorOptions
      BY <2>1, <2>3 DEF IsIndex
    <3>3. x.vector.retrain_growth_factor \in Decimal
      BY <3>2 DEF VectorOptions
    <3>4. numeric(x.vector.retrain_growth_factor) = x.vector.retrain_growth_factor
      BY <3>1, <3>3, NumericExact
    <3> HIDE DEF x
    <3>5. [x.vector EXCEPT !.retrain_growth_factor = numeric(@)] = x.vector
      BY <3>2, <3>4 DEF VectorOptions
    <3>6. [x EXCEPT !.vector.retrain_growth_factor = numeric(@)] = x
      BY <2>1, <3>5 DEF IsIndex, IsRecord
    <3> QED BY <2>3, <3>6 DEF x, index_row_values
  <2> QED BY <2>2, <2>3
<1>3. [i \in DOMAIN c.indexes |-> index_row_values(c.indexes[i])] = c.indexes
  BY <1>2 DEF IsRevision, IsRecord
<1>4. row_values(c) = [c EXCEPT !.threshold = c.threshold, !.indexes = c.indexes]
  BY <1>1, <1>3 DEF row_values
<1>5. c = [k \in RevisionParts |-> c[k]]
  BY DEF IsRevision, IsRecord
<1> QED BY <1>4, <1>5

\* Read back by ordinal, a revision listed by ordinal is the revision.
LEMMA ReadBackInOrder ==
  ASSUME NEW c, IsRevision(c), InOrder(c)
  PROVE  load_spec_revision(c) = c
BY DEF load_spec_revision, InOrder, IsRevision, IsRecord

\* A field that passes the checks satisfies the constraints of its table.
LEMMA FieldConstraints ==
  ASSUME NEW f, f.role \in FieldRole, validate_field(f),
         f.role = "TOMBSTONE" => f.name = "is_deleted",
         f.role = "LINEAGE" => f.name \in DOMAIN canonical_lineage /\ f.type = canonical_lineage[f.name]
  PROVE  ck_dataset_fields(f)
<1>1. validate_source_mapping(f) /\ validate_role_type(f)
  BY DEF validate_field
<1>2. f.ordinal >= 0 /\ f.name \notin Malformed /\ f.column \notin Malformed
  BY Zenon DEF validate_field, validate_identifier
<1>3. (f.kind = "MAP_KEY") = (f.key # Null)
  BY <1>1, Zenon DEF validate_source_mapping
<1>4. f.kind = "MAP_KEY" => f.key = f.name
  BY <1>1, Zenon DEF validate_source_mapping
<1>5. f.role \in DOMAIN required_types => f.type = required_types[f.role]
  BY <1>1, Zenon DEF validate_role_type
<1>6. IF f.role = "VECTOR" THEN f.dim >= 8 /\ f.dim % 8 = 0 /\ f.type = VectorOf(f.dim) ELSE f.dim = Null
  BY <1>1, Zenon DEF validate_role_type
<1>7. f.flags = expected_flags[f.role]
  BY <1>1, Zenon DEF validate_role_type
<1>8. CASE f.role = "KEY"
  <2>1. f.kind = "DIRECT" /\ f.name = "record_id" /\ f.column = "record_id"
    BY <1>1, <1>8 DEF validate_source_mapping, canonical_direct_columns
  <2> QED BY <1>2, <1>3, <1>4, <1>5, <1>6, <1>7, <1>8, <2>1 DEF ck_dataset_fields
<1>9. CASE f.role = "EVENT_TIME"
  <2>1. f.kind = "DIRECT" /\ f.name = "ts" /\ f.column = "ts"
    BY <1>1, <1>9 DEF validate_source_mapping, canonical_direct_columns
  <2> QED BY <1>2, <1>3, <1>4, <1>5, <1>6, <1>7, <1>9, <2>1 DEF ck_dataset_fields
<1>10. CASE f.role = "TOMBSTONE"
  <2>1. f.kind = "DERIVED" /\ f.column = f.name
    BY <1>1, <1>10 DEF validate_source_mapping
  <2> QED BY <1>2, <1>3, <1>4, <1>5, <1>6, <1>7, <1>10, <2>1 DEF ck_dataset_fields
<1>11. CASE f.role = "LINEAGE"
  <2>1. f.kind = "DERIVED" /\ f.column = f.name
    BY <1>1, <1>11 DEF validate_source_mapping
  <2> QED BY <1>2, <1>3, <1>4, <1>5, <1>6, <1>7, <1>11, <2>1 DEF ck_dataset_fields
<1>12. CASE f.role \in {"VECTOR", "TEXT", "METADATA"}
  <2>1. f.role \in DOMAIN map_columns
    BY <1>12 DEF map_columns
  <2>2. f.kind = "MAP_KEY" /\ f.column = map_columns[f.role]
    BY <1>1, <2>1, Zenon DEF validate_source_mapping
  <2>3. f.role \notin {"KEY", "EVENT_TIME", "TOMBSTONE", "LINEAGE"}
    BY <1>12
  <2> QED BY <1>2, <1>3, <1>4, <1>5, <1>6, <1>7, <2>2, <2>3 DEF ck_dataset_fields
<1> QED BY <1>8, <1>9, <1>10, <1>11, <1>12 DEF FieldRole

\* And so does an index.
LEMMA IndexConstraints ==
  ASSUME NEW x, IsIndex(x), validate_index(x),
         x.vector # Null => /\ x.vector.retrain_growth_factor.float
                            /\ x.vector.retrain_growth_factor.units % 10 = 0
  PROVE  ck_index_definitions(x)
<1>1. ASSUME NEW o \in VectorOptions, validate_vector_options(o), o.retrain_growth_factor.float,
             o.retrain_growth_factor.units % 10 = 0
      PROVE  /\ o.num_partitions # Null => o.num_partitions > 0 /\ o.num_partitions \in o.minimum_partitions..o.maximum_partitions
             /\ o.minimum_partitions > 0 /\ o.maximum_partitions >= o.minimum_partitions
             /\ o.minimum_rows >= 0 /\ o.num_bits > 0
             /\ numeric(o.retrain_growth_factor).units > Unit
  <2>1. /\ o.retrain_growth_factor \in Decimal /\ o.minimum_partitions \in Int /\ o.maximum_partitions \in Int
        /\ o.num_partitions \in Int \union {Null} /\ o.num_bits \in Int /\ o.minimum_rows \in Int
    BY DEF VectorOptions
  <2>2. /\ o.minimum_partitions >= 1 /\ o.maximum_partitions >= o.minimum_partitions
        /\ o.num_partitions # Null => o.num_partitions \in o.minimum_partitions..o.maximum_partitions
        /\ o.minimum_rows >= 0 /\ o.num_bits \in 1..8 /\ o.retrain_growth_factor.units > Unit
    BY <1>1, Zenon DEF validate_vector_options
  <2>3. numeric(o.retrain_growth_factor).units = o.retrain_growth_factor.units
    BY <1>1, <2>1, NumericExact
  <2>4. numeric(o.retrain_growth_factor).units > Unit
    BY <2>2, <2>3, Zenon
  <2> QED BY <2>1, <2>2, <2>4, SMT
<1>2. x.vector # Null => x.vector \in VectorOptions /\ validate_vector_options(x.vector)
  BY DEF IsIndex, validate_index
<1>3. x.fts # Null => x.fts.base_tokenizer # "" /\ x.fts.max_unindexed_fragments >= 0
  BY DEF validate_index, validate_fts_options, validate_optional_text
<1>4. /\ x.ordinal >= 0 /\ x.name \notin Malformed
      /\ (x.type = "IVF_RQ") = (x.vector # Null) /\ (x.type = "INVERTED") = (x.fts # Null)
  BY Zenon DEF validate_index, validate_identifier
<1>5. CASE x.vector = Null
  BY <1>3, <1>4, <1>5, Zenon DEF ck_index_definitions
<1>6. CASE x.vector # Null
  <2> DEFINE o == x.vector
  <2>1. /\ o.num_partitions # Null => o.num_partitions > 0 /\ o.num_partitions \in o.minimum_partitions..o.maximum_partitions
        /\ o.minimum_partitions > 0 /\ o.maximum_partitions >= o.minimum_partitions
        /\ o.minimum_rows >= 0 /\ o.num_bits > 0
        /\ numeric(o.retrain_growth_factor).units > Unit
    BY <1>1, <1>2, <1>6, SMT
  <2> QED BY <1>3, <1>4, <2>1, Zenon DEF ck_index_definitions
<1> QED BY <1>5, <1>6

\* The settings of a revision.
LEMMA SettingConstraints ==
  ASSUME NEW c, IsRevision(c), validate_revision(c), c.threshold.float, c.threshold.units % 10 = 0
  PROVE  ck_dataset_spec_revisions(c)
<1>1. c.number >= 1 /\ validate_operational_settings(c)
  BY Zenon DEF validate_revision
<1>2. c.number \in Int /\ c.number > 0
  BY <1>1 DEF IsRevision
<1>3. ASSUME NEW s \in DOMAIN c.required PROVE c.required[s] > 0
  <2>1. c.required[s] >= 1
    BY <1>1, SMT DEF validate_operational_settings
  <2>2. c.required[s] \in Int
    BY DEF IsRevision
  <2> QED BY <2>1, <2>2
<1>4. ASSUME NEW s \in DOMAIN c.optional, c.optional[s] # Null PROVE c.optional[s] > 0
  <2>1. c.optional[s] >= 1
    BY <1>1, <1>4, SMT DEF validate_operational_settings, validate_optional_positive
  <2>2. c.optional[s] \in Int
    BY <1>4 DEF IsRevision
  <2> QED BY <2>1, <2>2
<1>5. numeric(c.threshold).units = c.threshold.units
  BY NumericExact DEF IsRevision
<1>6. numeric(c.threshold).units \in 0..Unit
  BY <1>1, <1>5, SMT DEF validate_operational_settings
<1>7. c.max_stale_replans >= 0 /\ (c.cleanup_older_than # Null => c.cleanup_older_than >= 21600)
  BY <1>1, SMT DEF validate_operational_settings
<1> QED BY <1>2, <1>3, <1>4, <1>6, <1>7, SMT DEF ck_dataset_spec_revisions

\* The constraints between the children of a revision.
LEMMA ChildConstraints ==
  ASSUME NEW c, validate_revision(c), IdentifiedFields(c)
  PROVE  unique_children(c)
<1>1. validate_fields(c) /\ validate_indexes(c)
  BY DEF validate_revision
<1>2. \A role \in {"KEY", "EVENT_TIME", "TOMBSTONE"} : Cardinality(role_places(c, role)) <= 1
  <2>1. \A role \in {"KEY", "EVENT_TIME", "TOMBSTONE"} : Cardinality(role_places(c, role)) = 1
    BY <1>1 DEF validate_fields
  <2> QED BY <2>1
<1>3. \A key \in {"id", "name", "ordinal"} : validate_unique(Column(c.fields, key))
  BY <1>1 DEF validate_fields
<1>4. /\ \A key \in {"id", "name", "ordinal"} : validate_unique(Column(c.indexes, key))
      /\ validate_unique([i \in DOMAIN c.indexes |-> <<c.indexes[i].field, c.indexes[i].type>>])
  BY <1>1 DEF validate_indexes
<1> QED BY <1>2, <1>3, <1>4 DEF unique_children

\* A draft that passes the checks in order, with floats and numbers its columns hold, is
\* stored as it is.
LEMMA PreparedIsStored ==
  ASSUME NEW r, IsRevision(r), InOrder(r), is_prepared(r),
         columns_hold(r), \A d \in Decimals(r) : d.float
  PROVE  Outcome(r) \in {"stored", "duplicate"}
<1> DEFINE c == prepared(r)
<1>1. IsRevision(c) /\ \A k \in RevisionParts \ {"digest"} : c[k] = r[k]
  BY PreparedParts
<1>2. validate_revision(c)
  BY DEF is_prepared
<1> HIDE DEF c
<1>3. /\ c.threshold = r.threshold /\ c.fields = r.fields /\ c.indexes = r.indexes
      /\ c.number = r.number /\ c.cleanup_older_than = r.cleanup_older_than
      /\ c.max_stale_replans = r.max_stale_replans /\ c.required = r.required /\ c.optional = r.optional
  BY <1>1 DEF RevisionParts
<1>4. Decimals(c) = Decimals(r) /\ InOrder(c) /\ IdentifiedFields(c)
  BY <1>3 DEF Decimals, InOrder, IdentifiedFields, is_prepared
<1>5. \A d \in Decimals(c) : d.float /\ d.units % 10 = 0
  BY <1>4 DEF is_prepared, validate_database_decimal
<1>6. row_values(c) = c /\ load_spec_revision(c) = c
  BY <1>1, <1>4, <1>5, RowsAsWritten, ReadBackInOrder
<1>7. ck_dataset_spec_revisions(c)
  <2>1. c.threshold \in Decimals(c)
    BY DEF Decimals
  <2> QED BY <1>1, <1>2, <1>5, <2>1, SettingConstraints
<1>8. ASSUME NEW i \in DOMAIN c.fields PROVE ck_dataset_fields(c.fields[i])
  <2>1. validate_fields(c)
    BY <1>2 DEF validate_revision
  <2>2. c.fields[i].role \in FieldRole
    BY <1>1 DEF IsRevision
  <2>3. validate_field(c.fields[i])
    BY <2>1 DEF validate_fields
  <2>4. c.fields[i].role = "TOMBSTONE" => c.fields[i].name = "is_deleted"
    BY <2>1 DEF validate_fields, role_places
  <2>5. c.fields[i].role = "LINEAGE" =>
          c.fields[i].name \in DOMAIN canonical_lineage /\ c.fields[i].type = canonical_lineage[c.fields[i].name]
    BY <2>1 DEF validate_fields, role_places
  <2> QED BY <2>2, <2>3, <2>4, <2>5, FieldConstraints
<1>9. ASSUME NEW i \in DOMAIN c.indexes PROVE ck_index_definitions(c.indexes[i])
  <2>1. IsIndex(c.indexes[i]) /\ validate_index(c.indexes[i])
    BY <1>1, <1>2 DEF IsRevision, validate_revision, validate_indexes
  <2>2. c.indexes[i].vector # Null => c.indexes[i].vector.retrain_growth_factor \in Decimals(c)
    BY DEF Decimals
  <2> QED BY <1>5, <2>1, <2>2, IndexConstraints
<1>10. ConstraintsHold(c)
  <2>1. columns_hold(c)
    BY <1>3 DEF columns_hold, revision_columns_hold
  <2> QED BY <1>2, <1>4, <1>7, <1>8, <1>9, <2>1, ChildConstraints DEF ConstraintsHold
<1>11. decode_dataset_spec_revision(load_spec_revision(row_values(c))) /\ Content(load_spec_revision(row_values(c))) = Content(c)
  BY <1>2, <1>6 DEF decode_dataset_spec_revision
<1> QED BY <1>10, <1>11 DEF Outcome, c

\* Changing some components of a record leaves the others.
LEMMA ChangedRecord ==
  ASSUME NEW x, NEW e
  PROVE  /\ IsRecord(Changed(x, e)) /\ DOMAIN Changed(x, e) = DOMAIN x
         /\ \A k \in DOMAIN x : Changed(x, e)[k] = IF k \in DOMAIN e THEN e[k] ELSE x[k]
BY DEF Changed, IsRecord

\* A revision with other fields, as long as their roles are roles.
LEMMA FieldsReplaced ==
  ASSUME NEW r, IsRevision(r), NEW s,
         \A i \in DOMAIN s : IsRecord(s[i]) /\ "role" \in DOMAIN s[i] /\ s[i].role \in FieldRole
  PROVE  IsRevision([r EXCEPT !.fields = s])
<1> DEFINE n == [r EXCEPT !.fields = s]
<1>1. IsRecord(n) /\ DOMAIN n = RevisionParts
  BY DEF IsRevision, IsRecord
<1>2. /\ n.number = r.number /\ n.threshold = r.threshold /\ n.required = r.required /\ n.optional = r.optional
      /\ n.fields = s /\ n.indexes = r.indexes
  BY DEF IsRevision, RevisionParts
<1> HIDE DEF n
<1>3. IsRevision(n)
  BY <1>1, <1>2 DEF IsRevision
<1> QED BY <1>3 DEF n

\* A revision with other indexes.
LEMMA IndexesReplaced ==
  ASSUME NEW r, IsRevision(r), NEW s, IsRecord(s), \A i \in DOMAIN s : IsIndex(s[i])
  PROVE  IsRevision([r EXCEPT !.indexes = s])
<1> DEFINE n == [r EXCEPT !.indexes = s]
<1>1. IsRecord(n) /\ DOMAIN n = RevisionParts
  BY DEF IsRevision, IsRecord
<1>2. /\ n.number = r.number /\ n.threshold = r.threshold /\ n.required = r.required /\ n.optional = r.optional
      /\ n.fields = r.fields /\ n.indexes = s
  BY DEF IsRevision, RevisionParts
<1> HIDE DEF n
<1>3. IsRevision(n)
  BY <1>1, <1>2 DEF IsRevision
<1> QED BY <1>3 DEF n

\* An edit of the settings.
LEMMA SettingsEdited ==
  ASSUME NEW r, IsRevision(r), NEW e \in RevisionEdits
  PROVE  IsRevision(Changed(r, e))
<1> DEFINE n == Changed(r, e)
<1>1. IsRecord(n) /\ DOMAIN n = RevisionParts
  BY ChangedRecord DEF IsRevision
<1>2. \A k \in RevisionParts : n[k] = IF k \in DOMAIN e THEN e[k] ELSE r[k]
  BY ChangedRecord DEF IsRevision
<1> HIDE DEF n
<1>3. DOMAIN e \intersect {"number", "digest", "fields", "indexes"} = {}
  BY EditsAreTyped
<1>4. n.number = r.number /\ n.fields = r.fields /\ n.indexes = r.indexes
  BY <1>2, <1>3 DEF RevisionParts
<1>5. n.threshold \in Decimal
  <2>1. "threshold" \in DOMAIN e => e.threshold \in Decimal
    BY EditsAreTyped
  <2> QED BY <1>2, <2>1 DEF RevisionParts, IsRevision
<1>6. \A s \in DOMAIN n.required : n.required[s] \in Int
  <2>1. "required" \in DOMAIN e => \A s \in DOMAIN e.required : e.required[s] \in Int
    BY EditsAreTyped
  <2>2. n.required = IF "required" \in DOMAIN e THEN e.required ELSE r.required
    BY <1>2 DEF RevisionParts
  <2>3. \A s \in DOMAIN r.required : r.required[s] \in Int
    BY DEF IsRevision
  <2> QED BY <2>1, <2>2, <2>3
<1>7. \A s \in DOMAIN n.optional : n.optional[s] \in Int \union {Null}
  <2>1. "optional" \in DOMAIN e => \A s \in DOMAIN e.optional : e.optional[s] \in Int \union {Null}
    BY EditsAreTyped
  <2>2. n.optional = IF "optional" \in DOMAIN e THEN e.optional ELSE r.optional
    BY <1>2 DEF RevisionParts
  <2>3. \A s \in DOMAIN r.optional : r.optional[s] \in Int \union {Null}
    BY DEF IsRevision
  <2> QED BY <2>1, <2>2, <2>3
<1>8. IsRevision(n)
  BY <1>1, <1>4, <1>5, <1>6, <1>7 DEF IsRevision
<1> QED BY <1>8 DEF n

\* An edit of a field.
LEMMA FieldEdited ==
  ASSUME NEW r, IsRevision(r), NEW i \in DOMAIN r.fields, NEW e \in FieldEdits
  PROVE  IsRevision([r EXCEPT !.fields[i] = Changed(@, e)])
<1> DEFINE f == Changed(r.fields[i], e)
           s == [r.fields EXCEPT ![i] = f]
<1>1. IsRecord(f) /\ "role" \in DOMAIN f /\ f.role \in FieldRole
  <2>1. IsRecord(r.fields[i]) /\ "role" \in DOMAIN r.fields[i] /\ r.fields[i].role \in FieldRole
    BY DEF IsRevision
  <2>2. "role" \in DOMAIN e => e.role \in FieldRole
    BY EditsAreTyped
  <2> QED BY <2>1, <2>2, ChangedRecord
<1> HIDE DEF f
<1>2. \A k \in DOMAIN s : IsRecord(s[k]) /\ "role" \in DOMAIN s[k] /\ s[k].role \in FieldRole
  BY <1>1 DEF IsRevision
<1>3. [r EXCEPT !.fields[i] = Changed(@, e)] = [r EXCEPT !.fields = s]
  BY DEF f
<1> HIDE DEF s
<1> QED BY <1>2, <1>3, FieldsReplaced

\* An edit of an index.
LEMMA IndexEdited ==
  ASSUME NEW r, IsRevision(r), NEW i \in DOMAIN r.indexes, NEW e \in IndexEdits
  PROVE  IsRevision([r EXCEPT !.indexes[i] = Changed(@, e)])
<1> DEFINE x == Changed(r.indexes[i], e)
           s == [r.indexes EXCEPT ![i] = x]
<1>1. IsIndex(x)
  <2>1. IsIndex(r.indexes[i])
    BY DEF IsRevision
  <2>2. "vector" \in DOMAIN e => e.vector \in VectorOptions \union {Null}
    BY EditsAreTyped
  <2> QED BY <2>1, <2>2, ChangedRecord DEF IsIndex
<1> HIDE DEF x
<1>2. IsRecord(s) /\ \A k \in DOMAIN s : IsIndex(s[k])
  BY <1>1 DEF IsRevision, IsRecord
<1>3. [r EXCEPT !.indexes[i] = Changed(@, e)] = [r EXCEPT !.indexes = s]
  BY DEF x
<1> HIDE DEF s
<1> QED BY <1>2, <1>3, IndexesReplaced

\* Children listed in another order.
LEMMA ChildrenExchanged ==
  ASSUME NEW r, IsRevision(r)
  PROVE  /\ \A i, j \in DOMAIN r.fields : IsRevision([r EXCEPT !.fields = Exchanged(@, i, j)])
         /\ \A i, j \in DOMAIN r.indexes : IsRevision([r EXCEPT !.indexes = Exchanged(@, i, j)])
<1>1. ASSUME NEW i \in DOMAIN r.fields, NEW j \in DOMAIN r.fields
      PROVE  IsRevision([r EXCEPT !.fields = Exchanged(@, i, j)])
  <2> DEFINE s == Exchanged(r.fields, i, j)
  <2>1. \A k \in DOMAIN s : IsRecord(s[k]) /\ "role" \in DOMAIN s[k] /\ s[k].role \in FieldRole
    BY DEF Exchanged, IsRevision
  <2> HIDE DEF s
  <2>2. IsRevision([r EXCEPT !.fields = s])
    BY <2>1, FieldsReplaced
  <2> QED BY <2>2 DEF s
<1>2. ASSUME NEW i \in DOMAIN r.indexes, NEW j \in DOMAIN r.indexes
      PROVE  IsRevision([r EXCEPT !.indexes = Exchanged(@, i, j)])
  <2> DEFINE s == Exchanged(r.indexes, i, j)
  <2>1. IsRecord(s) /\ \A k \in DOMAIN s : IsIndex(s[k])
    BY DEF Exchanged, IsRevision, IsRecord
  <2> HIDE DEF s
  <2>2. IsRevision([r EXCEPT !.indexes = s])
    BY <2>1, IndexesReplaced
  <2> QED BY <2>2 DEF s
<1> QED BY <1>1, <1>2

\* The revision migration 0001 stores.
LEMMA DefaultIsRevision == IsRevision([production_default_spec_revision EXCEPT !.number = 2])
<1> DEFINE p == production_default_spec_revision
           n == [p EXCEPT !.number = 2]
<1>1. DOMAIN p = RevisionParts /\ IsRecord(n) /\ DOMAIN n = RevisionParts
  BY SMT DEF production_default_spec_revision, RevisionParts, IsRecord
<1>2. /\ n.number = 2 /\ n.fields = p.fields /\ n.indexes = p.indexes /\ n.required = p.required
      /\ n.optional = p.optional /\ n.threshold = p.threshold
  BY <1>1 DEF RevisionParts
<1> HIDE DEF n
<1>3. p.threshold \in Decimal
  BY SMT DEF production_default_spec_revision, FloatDecimal, Decimal
<1>4. \A s \in DOMAIN p.required : p.required[s] \in Int
  BY SMT DEF production_default_spec_revision
<1>5. \A s \in DOMAIN p.optional : p.optional[s] \in Int \union {Null}
  BY SMT DEF production_default_spec_revision
<1>6. ASSUME NEW i \in DOMAIN p.fields
      PROVE  IsRecord(p.fields[i]) /\ "role" \in DOMAIN p.fields[i] /\ p.fields[i].role \in FieldRole
  <2> DEFINE Good(f) == IsRecord(f) /\ "role" \in DOMAIN f /\ f.role \in FieldRole
             q == production_default_fields
  <2>1. p.fields = q
    BY SMT DEF production_default_spec_revision
  <2>2. ASSUME NEW k, NEW name, NEW role \in FieldRole, NEW from, NEW column, NEW key, NEW type, NEW flags, NEW dim
        PROVE  Good(DatasetField(k, name, role, from, column, key, type, flags, dim))
    BY DEF DatasetField, IsRecord
  <2> HIDE DEF Good
  <2>3. DOMAIN q = 1..9
    BY DEF production_default_fields
  <2>4. Good(q[1])
    BY <2>2 DEF production_default_fields, FieldRole
  <2>5. Good(q[2])
    BY <2>2 DEF production_default_fields, FieldRole
  <2>6. Good(q[3])
    BY <2>2 DEF production_default_fields, FieldRole
  <2>7. Good(q[4])
    BY <2>2 DEF production_default_fields, FieldRole
  <2>8. Good(q[5])
    BY <2>2 DEF production_default_fields, FieldRole
  <2>9. Good(q[6])
    BY <2>2 DEF production_default_fields, FieldRole
  <2>10. Good(q[7])
    BY <2>2 DEF production_default_fields, FieldRole
  <2>11. Good(q[8])
    BY <2>2 DEF production_default_fields, FieldRole
  <2>12. Good(q[9])
    BY <2>2 DEF production_default_fields, FieldRole
  <2>13. i \in 1..9
    BY <2>1, <2>3
  <2>14. Good(q[i])
    BY <2>4, <2>5, <2>6, <2>7, <2>8, <2>9, <2>10, <2>11, <2>12, <2>13
  <2> QED BY <2>1, <2>14 DEF Good
<1>7. IsRecord(p.indexes) /\ DOMAIN p.indexes = 1..6
  BY SMT DEF production_default_spec_revision, IsRecord
<1>8. default_vector_options \in VectorOptions
  BY SMT DEF default_vector_options, VectorOptions, FloatDecimal, Decimal
<1>9. ASSUME NEW k, NEW name, NEW field, NEW type, NEW vector \in VectorOptions \union {Null}, NEW fts
      PROVE  IsIndex(IndexDefinition(k, name, field, type, vector, fts))
  BY DEF IsIndex, IsRecord, IndexDefinition
<1>10. ASSUME NEW i \in 1..6 PROVE IsIndex(p.indexes[i])
  <2>1. CASE i = 1
    BY <1>8, <1>9, <2>1, SMT DEF production_default_spec_revision
  <2>2. CASE i = 2
    BY <1>9, <2>2, SMT DEF production_default_spec_revision
  <2>3. CASE i = 3
    BY <1>9, <2>3, SMT DEF production_default_spec_revision
  <2>4. CASE i = 4
    BY <1>9, <2>4, SMT DEF production_default_spec_revision
  <2>5. CASE i = 5
    BY <1>9, <2>5, SMT DEF production_default_spec_revision
  <2>6. CASE i = 6
    BY <1>9, <2>6, SMT DEF production_default_spec_revision
  <2> QED BY <2>1, <2>2, <2>3, <2>4, <2>5, <2>6
<1>11. IsRevision(n)
  BY <1>1, <1>2, <1>3, <1>4, <1>5, <1>6, <1>7, <1>10 DEF IsRevision
<1> QED BY <1>11 DEF n

\* The draft stays a revision, and what became of it is what its content decides.
DraftsOK ==
  /\ drafting = [draft |-> drafting.draft, edits |-> drafting.edits, outcome |-> drafting.outcome]
  /\ IsRevision(drafting.draft)
  /\ drafting.outcome = "open" \/ drafting.outcome = Outcome(drafting.draft)

\* An edit that gives a revision keeps the invariant.
LEMMA EditKeeps ==
  ASSUME DraftsOK, NEW draft, IsRevision(draft), Edit(draft)
  PROVE  DraftsOK'
<1>1. drafting.outcome = "open" /\ drafting' = [drafting EXCEPT !.draft = draft, !.edits = @ + 1]
  BY DEF Edit
<1>2. drafting'.draft = draft /\ drafting'.outcome = "open"
  BY <1>1 DEF DraftsOK
<1>3. drafting' = [draft |-> drafting'.draft, edits |-> drafting'.edits, outcome |-> drafting'.outcome]
  BY <1>1 DEF DraftsOK
<1> QED BY <1>2, <1>3 DEF DraftsOK

\* DraftsOK is inductive.
LEMMA DraftsInductive ==
  ASSUME DraftsOK, [DraftNext]_drafting
  PROVE  DraftsOK'
<1> DEFINE r == drafting.draft
<1>0. IsRevision(r)
  BY DEF DraftsOK
<1>1. CASE EditDraft
  <2>1. CASE \E e \in RevisionEdits : Edit(Changed(r, e))
    BY <1>0, <2>1, SettingsEdited, EditKeeps
  <2>2. CASE \E i \in DOMAIN r.fields, e \in FieldEdits : Edit([r EXCEPT !.fields[i] = Changed(@, e)])
    BY <1>0, <2>2, FieldEdited, EditKeeps
  <2>3. CASE \E i \in DOMAIN r.indexes, e \in IndexEdits : Edit([r EXCEPT !.indexes[i] = Changed(@, e)])
    BY <1>0, <2>3, IndexEdited, EditKeeps
  <2>4. CASE \E i, j \in DOMAIN r.fields : Edit([r EXCEPT !.fields = Exchanged(@, i, j)])
    BY <1>0, <2>4, ChildrenExchanged, EditKeeps
  <2>5. CASE \E i, j \in DOMAIN r.indexes : Edit([r EXCEPT !.indexes = Exchanged(@, i, j)])
    BY <1>0, <2>5, ChildrenExchanged, EditKeeps
  <2> QED BY <1>1, <2>1, <2>2, <2>3, <2>4, <2>5 DEF EditDraft
<1>2. CASE SubmitDraft
  <2>1. drafting' = [drafting EXCEPT !.outcome = Outcome(r)]
    BY <1>2 DEF SubmitDraft
  <2>2. drafting'.draft = r /\ drafting'.outcome = Outcome(r)
    BY <2>1 DEF DraftsOK
  <2>3. drafting' = [draft |-> drafting'.draft, edits |-> drafting'.edits, outcome |-> drafting'.outcome]
    BY <2>1 DEF DraftsOK
  <2> QED BY <1>0, <2>2, <2>3 DEF DraftsOK
<1>3. CASE UNCHANGED drafting
  BY <1>3 DEF DraftsOK
<1> QED BY <1>1, <1>2, <1>3 DEF DraftNext

\* The checks of specs.py and the constraints of tables.py agree on every draft an operator
\* can edit, whatever the edits and the widths of the columns: one that passes in order, with
\* floats and no number too large for its column, is stored and read back as it was, or refused as a duplicate.
THEOREM PreparedDraftsPersistHolds == DraftSpec => []PreparedDraftsPersist
<1>1. DraftInit => DraftsOK
  <2> SUFFICES ASSUME DraftInit PROVE DraftsOK
    OBVIOUS
  <2>1. drafting.draft = [production_default_spec_revision EXCEPT !.number = 2] /\ drafting.outcome = "open"
    BY DEF DraftInit
  <2>2. drafting = [draft |-> drafting.draft, edits |-> drafting.edits, outcome |-> drafting.outcome]
    BY DEF DraftInit
  <2> QED BY <2>1, <2>2, DefaultIsRevision DEF DraftsOK
<1>2. DraftsOK /\ [DraftNext]_drafting => DraftsOK'
  BY DraftsInductive
<1>3. DraftsOK => PreparedDraftsPersist
  <2> SUFFICES ASSUME DraftsOK, drafting.outcome # "open", InOrder(drafting.draft), is_prepared(drafting.draft),
                      columns_hold(drafting.draft), \A d \in Decimals(drafting.draft) : d.float
               PROVE  drafting.outcome \in {"stored", "duplicate"}
    BY DEF PreparedDraftsPersist
  <2> QED BY PreparedIsStored DEF DraftsOK
<1> QED BY <1>1, <1>2, <1>3, PTL DEF DraftSpec

=============================================================================
