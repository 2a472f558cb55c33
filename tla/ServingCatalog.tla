---------------------------- MODULE ServingCatalog ----------------------------
(***************************************************************************)
(* What the control plane promises a reader of the serving catalog         *)
(* (resolve_serving_dataset): a dataset serves one immutable publication   *)
(* at a time.  A publication always carries the source snapshot applied    *)
(* when it is swapped in, so a reader never goes back in source order; it  *)
(* names a Lance version no other publication of the history names; and    *)
(* the publication it replaces is retired by the same step.                *)
(***************************************************************************)
EXTENDS Naturals

CONSTANTS
  Datasets,  \* routed datasets
  MaxSeq,    \* last source snapshot
  None       \* nothing published yet

VARIABLES
  applied,   \* dataset -> last source snapshot applied, 0 if none
  active,    \* dataset -> publication [seq, at] served, or None
  retired    \* publications served before

catalog == <<applied, active, retired>>

Init ==
  /\ applied = [d \in Datasets |-> 0]
  /\ active = [d \in Datasets |-> None]
  /\ retired = {}

Apply(d) ==
  /\ \E s \in (applied[d] + 1)..MaxSeq : applied' = [applied EXCEPT ![d] = s]
  /\ UNCHANGED <<active, retired>>

Served    == {active[d] : d \in Datasets} \ {None}
History   == Served \cup retired
Locations == {p.at : p \in History}

Swap(d, p) ==
  /\ p.seq = applied[d]
  /\ p.at \notin Locations
  /\ active' = [active EXCEPT ![d] = p]
  /\ retired' = retired \cup ({active[d]} \ {None})
  /\ UNCHANGED applied

Next == \E d \in Datasets : Apply(d) \/ (active'[d] # active[d] /\ Swap(d, active'[d]))

Spec == Init /\ [][Next]_catalog

=============================================================================
