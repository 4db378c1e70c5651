------------------------------- MODULE Checkout -------------------------------
(***************************************************************************)
(* What the client promises about ordering, without pages, navigation,     *)
(* tokens, requests, retries or losses.  The user's basket goes from       *)
(* version to version.  A press of Submit comes to one order at most, and  *)
(* the order takes a basket with items that was current when the button    *)
(* was pressed or later.  The client acts on success only of an order, and *)
(* neither a version nor an order is ever taken back.                      *)
(***************************************************************************)
EXTENDS Naturals, Sequences

CONSTANTS Products, Submits

VARIABLES
  baskets,    \* every version of the user's basket
  pressed,    \* the version current when Submit was pressed; 0: not yet
  orders,     \* the orders as placed: whose submit, and the version they took
  confirmed   \* the submits whose success the client acted on

vars == <<baskets, pressed, orders, confirmed>>

Init ==
  /\ baskets   = <<{}>>
  /\ pressed   = [s \in Submits |-> 0]
  /\ orders    = << >>
  /\ confirmed = {}

Change(basket) ==
  /\ baskets' = Append(baskets, basket)
  /\ UNCHANGED <<pressed, orders, confirmed>>

Press(s) ==
  /\ pressed[s] = 0
  /\ pressed' = [pressed EXCEPT ![s] = Len(baskets)]
  /\ UNCHANGED <<baskets, orders, confirmed>>

Placed(s) == \E i \in 1..Len(orders) : orders[i].checkoutData = s

Place(s, v) ==
  /\ pressed[s] > 0 /\ ~Placed(s)
  /\ v \in pressed[s]..Len(baskets)
  /\ baskets[v] # {}
  /\ orders' = Append(orders, [checkoutData |-> s, orderItems |-> v])
  /\ UNCHANGED <<baskets, pressed, confirmed>>

Confirm(s) ==
  /\ Placed(s)
  /\ confirmed' = confirmed \cup {s}
  /\ UNCHANGED <<baskets, pressed, orders>>

Next ==
  \/ \E basket \in SUBSET Products : Change(basket)
  \/ \E s \in Submits :
       \/ Press(s) \/ Confirm(s)
       \/ \E v \in 1..Len(baskets) : Place(s, v)

Spec == Init /\ [][Next]_vars
===============================================================================
