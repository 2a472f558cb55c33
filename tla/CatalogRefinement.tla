-------------------------- MODULE CatalogRefinement --------------------------
(* The dataset lanes implement the serving catalog.                        *)
EXTENDS DatasetLanes

\* Every publication of the history, as a reader is given it.
Located ==
  [w \in {v \in WorkIds : pubs[v] # None} |->
     [seq |-> pubs[w].seq, at |-> <<pubs[w].uri, pubs[w].ver>>]]

\* NULL is not a served publication.
ASSUME NullPublication == None \notin [seq : 0..MaxSeq, at : Uris \X Nat]

LaneApplied == [d \in Datasets |-> ds[d].applied]
LaneActive  == [d \in Datasets |-> IF ds[d].pub = None THEN None ELSE Located[ds[d].pub]]
LaneRetired == {Located[w] : w \in {v \in WorkIds : pubs[v] # None /\ pubs[v].retired}}

Catalog == INSTANCE ServingCatalog WITH
  applied <- LaneApplied, active <- LaneActive, retired <- LaneRetired

\* Readers of the catalog see one publication at a time, in source order, each
\* swap atomic with the retirement of its predecessor (publish_dataset,
\* complete_ingest, resolve_serving_dataset).
ImplementsCatalog == Catalog!Spec

=============================================================================
