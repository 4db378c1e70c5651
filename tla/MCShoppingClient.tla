--------------------------- MODULE MCShoppingClient ---------------------------
(***************************************************************************)
(* ShoppingClient for TLC: the requests of a page and the presses of a     *)
(* button are interchangeable, in runs that check safety only.             *)
(***************************************************************************)
EXTENDS ShoppingClient, TLC

CallsAndSubmits == Permutations(Calls) \cup Permutations(Submits)
===============================================================================
