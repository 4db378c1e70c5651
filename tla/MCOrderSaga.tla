----------------------------- MODULE MCOrderSaga -----------------------------
(***************************************************************************)
(* Instances of OrderSaga for TLC.                                         *)
(***************************************************************************)
EXTENDS OrderSaga, TLC

Symmetry == Permutations(Orders)
==============================================================================
