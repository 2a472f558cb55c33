------------------------ MODULE PublicationRetention ------------------------
(***************************************************************************)
(* Removal of old publications (reconciler/retention.py and the cleanup    *)
(* half of state/repository.py).  A sweep selects retired publications,    *)
(* deletes their pin and manifest outside the database, and only then the  *)
(* row that names them.  Sweeps of several processes overlap with each     *)
(* other, with the publisher and with readers that still hold a location.  *)
(*                                                                         *)
(* The publications of one dataset are numbered in the order of its lane;  *)
(* a publication shares the number of its PUBLISH work.  A transaction     *)
(* stamps rows with a clock read at most Skew away from the real time: the *)
(* processes' clocks differ and the lock waits come after the reading.     *)
(***************************************************************************)
EXTENDS Integers, FiniteSetsExt

CONSTANTS
  MaxPublications,   \* bound on publications of the dataset
  RetainedCount,     \* dataset_spec_revisions.retained_publications, by publication
  Grace,             \* artifact_retention_seconds, by publication
  AuditRetention,    \* settings.audit_retention
  CleanupBatch,      \* settings.cleanup_batch_size
  Sweepers,
  Skew,              \* bound on a stamp's distance from real time
  MaxClock           \* bound on time

Publications == 1..MaxPublications

ASSUME RetentionAssumption ==
  /\ MaxPublications \in Nat \ {0} /\ CleanupBatch \in Nat \ {0}
  /\ RetainedCount \in [Publications -> Nat \ {0}] /\ Grace \in [Publications -> Nat \ {0}]
  /\ AuditRetention \in Nat /\ Skew \in Nat /\ MaxClock \in Nat

VARIABLES
  clock,      \* real time
  pub,        \* dataset_publications: row state, published_at, retired_at
  active,     \* datasets.active_publication_id; 0 is none
  audit,      \* the PUBLISH work: state, updated_at
  pins,       \* publications whose candidate pin exists
  manifests,  \* publications whose artifact manifest exists
  late,       \* the publication an attempt that lost its lease wrote for again; 0 is none
  sweep,      \* each sweeper's cleanups: publication -> how far it got
  reader      \* a search process: the location it resolved, and when

retentionVars == <<clock, pub, active, audit, pins, manifests, late, sweep, reader>>

Never == MaxClock + 2 * Skew + 1

RetentionInit ==
  /\ clock = Skew
  /\ pub = [w \in Publications |-> [row |-> "absent", published |-> Never, retired |-> Never]]
  /\ active = 0
  /\ audit = [w \in Publications |-> [state |-> "open", updated |-> Never]]
  /\ pins = {} /\ manifests = {} /\ late = 0
  /\ sweep = [s \in Sweepers |-> <<>>]
  /\ reader = [at |-> 0, holds |-> 0]

Stamps == (clock - Skew)..(clock + Skew)

-----------------------------------------------------------------------------
(* The publisher.                                                          *)

\* The work of the lane that is next to publish.
NextToPublish(w) == w = active + 1

pin_candidate(w) ==
  /\ NextToPublish(w) /\ w \notin pins
  /\ pins' = pins \union {w}
  /\ UNCHANGED <<clock, pub, active, audit, manifests, late, sweep, reader>>

\* The manifest describes the pinned version.
persist_manifest(w) ==
  /\ NextToPublish(w) /\ w \in pins /\ w \notin manifests
  /\ manifests' = manifests \union {w}
  /\ UNCHANGED <<clock, pub, active, audit, pins, late, sweep, reader>>

\* An attempt that lost its lease makes its writes, or the last or the first of them,
\* after another one published.
LateAttempt(w) ==
  /\ late = 0 /\ w <= active
  /\ late' = w
  /\ manifests' \in {manifests, manifests \union {w}}
  /\ pins' \in {pins, pins \union {w}}
  /\ UNCHANGED <<clock, pub, active, audit, sweep, reader>>

\* Retires the served publication with the same stamp; a row may not be retired
\* before it was published, so an earlier stamp aborts the transaction.
publish_dataset(w) ==
  \E current \in Stamps :
    /\ NextToPublish(w)
    /\ w \in pins /\ w \in manifests
    /\ active # 0 => current >= pub[active].published
    /\ pub' = [v \in Publications |->
                 CASE v = w      -> [row |-> "live", published |-> current, retired |-> Never]
                   [] v = active -> [pub[v] EXCEPT !.retired = current]
                   [] OTHER      -> pub[v]]
    /\ active' = w
    /\ audit' = [audit EXCEPT ![w] = [state |-> "succeeded", updated |-> current]]
    /\ UNCHANGED <<clock, pins, manifests, late, sweep, reader>>

-----------------------------------------------------------------------------
(* The sweep.                                                              *)

PublicationRows == {w \in Publications : pub[w].row = "live"}

\* row_number() by published_at, newest first; of two equal stamps either may be first.
publication_rank(w) == 1 + Cardinality({v \in PublicationRows \ {w} : pub[v].published >= pub[w].published})

\* Mutant: the retained publications are counted one short.
cleanup_one_short(w, current) ==
  /\ pub[w].retired # Never /\ pub[w].retired + Grace[w] <= current
  /\ publication_rank(w) >= RetainedCount[w] /\ w # active

\* Mutant: age is counted from publication.
cleanup_by_age(w, current) ==
  /\ pub[w].retired # Never /\ pub[w].published + Grace[w] <= current
  /\ publication_rank(w) > RetainedCount[w] /\ w # active

CleanupDue(w, current) ==
  /\ pub[w].retired # Never
  /\ pub[w].retired + Grace[w] <= current
  /\ publication_rank(w) > RetainedCount[w]
  /\ w # active

\* The longest retired come first.
claim_publication_cleanup(s) ==
  \E current \in Stamps :
    LET due == {w \in PublicationRows : CleanupDue(w, current)} IN
    /\ sweep[s] = <<>> /\ due # {}
    /\ \E batch \in kSubset(Min({CleanupBatch, Cardinality(due)}), due) :
         /\ \A w \in batch, v \in due \ batch : pub[w].retired <= pub[v].retired
         /\ sweep' = [sweep EXCEPT ![s] = [w \in batch |-> "pin"]]
    /\ UNCHANGED <<clock, pub, active, audit, pins, manifests, late, reader>>

Cleanups(s, stage) == {w \in DOMAIN sweep[s] : sweep[s][w] = stage}

\* remove_publication_external, pin first; a pin that is gone already is no error.
RemovePin(s, w) ==
  /\ w \in Cleanups(s, "pin")
  /\ \/ pins' = pins \ {w} /\ sweep' = [sweep EXCEPT ![s][w] = "manifest"]
     \/ UNCHANGED pins /\ sweep' = [sweep EXCEPT ![s][w] = "failed"]
  /\ UNCHANGED <<clock, pub, active, audit, manifests, late, reader>>

RemoveManifest(s, w) ==
  /\ w \in Cleanups(s, "manifest")
  /\ \/ manifests' = manifests \ {w} /\ sweep' = [sweep EXCEPT ![s][w] = "removed"]
     \/ UNCHANGED manifests /\ sweep' = [sweep EXCEPT ![s][w] = "failed"]
  /\ UNCHANGED <<clock, pub, active, audit, pins, late, reader>>

\* Outcomes are collected once every removal has ended.
Collected(s) == Cleanups(s, "pin") \union Cleanups(s, "manifest") = {}

\* Mutant: the row goes whatever became of the artifacts.
finalize_any(s, w) == Collected(s) /\ w \in Cleanups(s, "removed") \union Cleanups(s, "failed")

Finalizable(s, w) == Collected(s) /\ w \in Cleanups(s, "removed")

\* Another sweep may have deleted the row first, and the served row is kept.
finalize_publication_cleanup(s, w) ==
  /\ Finalizable(s, w)
  /\ pub' = IF w \in PublicationRows /\ w # active THEN [pub EXCEPT ![w].row = "deleted"] ELSE pub
  /\ sweep' = [sweep EXCEPT ![s][w] = "finalized"]
  /\ UNCHANGED <<clock, active, audit, pins, manifests, late, reader>>

\* The end of a sweep, also of one that found nothing due: work rows no publication
\* refers to are deleted, oldest first; failed cleanups are left to the next sweep.
delete_completed_audit(s) ==
  \E current \in Stamps :
    LET old == {w \in Publications : /\ audit[w].state = "succeeded" /\ w \notin PublicationRows
                                     /\ audit[w].updated < current - AuditRetention} IN
    /\ Collected(s) /\ Cleanups(s, "removed") = {}
    /\ sweep[s] # <<>> \/ old # {}
    /\ \E batch \in kSubset(Min({CleanupBatch, Cardinality(old)}), old) :
         /\ \A w \in batch, v \in old \ batch : audit[w].updated <= audit[v].updated
         /\ audit' = [w \in Publications |-> IF w \in batch THEN [audit[w] EXCEPT !.state = "deleted"] ELSE audit[w]]
    /\ sweep' = [sweep EXCEPT ![s] = <<>>]
    /\ UNCHANGED <<clock, pub, active, pins, manifests, late, reader>>

\* A crash forgets the outcomes; a removal already done stays done.
SweepCrash(s) ==
  /\ sweep[s] # <<>>
  /\ sweep' = [sweep EXCEPT ![s] = <<>>]
  /\ UNCHANGED <<clock, pub, active, audit, pins, manifests, late, reader>>

-----------------------------------------------------------------------------

\* A search process resolves the serving location and opens it by its pin later.
Resolve ==
  /\ active # 0 /\ reader.holds # active
  /\ reader' = [at |-> clock, holds |-> active]
  /\ UNCHANGED <<clock, pub, active, audit, pins, manifests, late, sweep>>

RetentionTick ==
  /\ clock < MaxClock
  /\ clock' = clock + 1
  /\ UNCHANGED <<pub, active, audit, pins, manifests, late, sweep, reader>>

SweepStep(s) ==
  \/ claim_publication_cleanup(s) \/ delete_completed_audit(s) \/ SweepCrash(s)
  \/ \E w \in Publications : RemovePin(s, w) \/ RemoveManifest(s, w) \/ finalize_publication_cleanup(s, w)

PublisherStep(w) ==
  persist_manifest(w) \/ pin_candidate(w) \/ publish_dataset(w) \/ LateAttempt(w)

RetentionNext ==
  \/ RetentionTick \/ Resolve
  \/ \E w \in Publications : PublisherStep(w)
  \/ \E s \in Sweepers : SweepStep(s)

RetentionSpec == RetentionInit /\ [][RetentionNext]_retentionVars

-----------------------------------------------------------------------------

Intact(w) == pub[w].row = "live" /\ w \in pins /\ w \in manifests

\* What the specification retains (claim_publication_cleanup): the served publication
\* and any that fewer than retained_publications newer ones have followed keep their
\* row, pin and manifest, however sweeps, crashes and publications interleave.
RetainedStayIntact ==
  \A w \in Publications :
    /\ pub[w].row # "absent"
    /\ \/ w = active
       \/ Cardinality({v \in Publications \ {w} : pub[v].row # "absent" /\ pub[v].published >= pub[w].published})
            < RetainedCount[w]
    => Intact(w)

\* A search process that resolved a location can open it for the whole retention
\* period, less what two clocks may differ (artifact_retention counts from the
\* retirement, which cannot precede the resolution).
ReaderHasGrace ==
  reader.holds # 0 /\ clock + 2 * Skew < reader.at + Grace[reader.holds] => Intact(reader.holds)

\* The row is deleted last, so a sweep that crashes or fails is resumed: a publication
\* without a row has left no pin or manifest, but for those an attempt that lost its
\* lease writes again.
NothingLeaks ==
  \A w \in Publications : pub[w].row = "deleted" /\ w # late => w \notin pins /\ w \notin manifests

=============================================================================
