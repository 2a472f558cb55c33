------------------------------- MODULE MCLane -------------------------------
(* One lane: every kind of work of one dataset, with faults and repairs.   *)
EXTENDS CatalogRefinement

=============================================================================
