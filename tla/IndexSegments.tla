----------------------------- MODULE IndexSegments -----------------------------
(***************************************************************************)
(* The segment build and commit shared by the indexer and the clustered    *)
(* rewrite (indexing/segments.py, indexing/optimize.py).  A segment covers *)
(* a set of fragments and carries the model it was built with: centroids   *)
(* (c) and quantizer (q), both 0 for an index without a model.             *)
(***************************************************************************)
EXTENDS LanceTable

Segment(fragments, c, q) == [over |-> fragments, c |-> c, q |-> q]

(* split_evenly: round robin over the fragment ids in order, which deals a *)
(* fragment by the number of smaller ones; empty shards are left out.      *)
RankIn(ids, f) == Cardinality({g \in ids : g < f})

split_evenly(ids, shards) ==
    LET count == Max({1, Min({shards, Cardinality(ids)})})
    IN  {{f \in ids : RankIn(ids, f) % count = g} : g \in 0 .. count - 1} \ {{}}

(* commit_segments, before the commit: the segments whose fragments were   *)
(* rewritten since the build are dropped, the others merged into one.      *)
fresh_segments(t, segments) == {s \in segments : s.over \subseteq DOMAIN t.frags}

merge_segments(segments) ==
    IF Cardinality(segments) < 2 THEN segments
    ELSE LET one == CHOOSE s \in segments : TRUE
         IN  {Segment(UNION {s.over : s \in segments}, one.c, one.q)}

(* The action of commit_segments looks at the latest version again.        *)
segments_live(t, segments) == \A s \in segments : s.over \subseteq DOMAIN t.frags

(* commit_existing_index_segments, external: a committed segment that      *)
(* shares a fragment with a new one is replaced, and Lance refuses when    *)
(* that would leave one of its live fragments without cover.               *)
Replaced(t, segments) ==
    {old \in t.index : \E s \in segments : s.over \cap old.over # {}}

would_orphan(t, segments) ==
    \E old \in Replaced(t, segments) : ~ old.over \subseteq UNION {s.over : s \in segments}

WithSegments(t, segments) ==
    [t EXCEPT !.version = @ + 1, !.index = (t.index \ Replaced(t, segments)) \cup segments]

(* Mutant: the sidecar is not keyed by the training generation.            *)
resolve_any_centroids(t) ==
    LET cached == {sidecar[n] : n \in DOMAIN sidecar} \ {0}
    IN  IF cached # {} THEN Min(cached) ELSE (CHOOSE s \in t.index : TRUE).c

(* load_centroids, then the model of the committed index: the sidecar is   *)
(* keyed by the row count the stored configuration was trained at.         *)
resolve_centroids(t) ==
    IF sidecar[t.cfg.rows_at_train] # 0 THEN sidecar[t.cfg.rows_at_train]
    ELSE (CHOOSE s \in t.index : TRUE).c

(* A sidecar miss backfills the sidecar, best effort.                      *)
BackfillSidecar(t) ==
    \/ sidecar' = [sidecar EXCEPT ![t.cfg.rows_at_train] = resolve_centroids(t)]
    \/ sidecar' = sidecar

================================================================================
