------------------------------- MODULE MCFleet -------------------------------
(***************************************************************************)
(* Two interchangeable datasets of one source.  The bounds of a behaviour  *)
(* are traded against each other: one dataset through two snapshots and    *)
(* two faults, or two datasets through one snapshot, one fault and two     *)
(* repairs.                                                                *)
(***************************************************************************)
EXTENDS DatasetLanes, TLC

Used   == {d \in Datasets : Known(d)}
Sealed == {s \in Seqs : snap[s].state # "ABSENT"}

WithinBounds ==
  /\ Cardinality(Used) + Cardinality(Sealed) <= 3
  /\ Cardinality(Used) + faults <= 3
  /\ Cardinality(Sealed) + faults + repairs <= 4
  /\ repairs <= 1 \/ Used = Datasets

FleetSpec == Init /\ [][Next /\ WithinBounds']_vars

Symmetry == Permutations(Datasets)

=============================================================================
