------------------------------ MODULE MCOrdering ------------------------------
(***************************************************************************)
(* Instances of Ordering for TLC.                                          *)
(***************************************************************************)
EXTENDS Ordering, TLC

\* Slots are interchangeable: no action or property tells them apart.
Symmetry == Permutations(Slots)
==============================================================================
