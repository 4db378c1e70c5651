---------------------------- MODULE OrderLifecycle ----------------------------
(***************************************************************************)
(* What the saga promises of one order's life, without messages, retries   *)
(* or crashes: the recorded stage only moves forward, every stage that     *)
(* claims work is entered after that work was done, an order is shipped    *)
(* only after it was paid, and cancellation or billing failure is recorded *)
(* only while no payment has been.                                         *)
(***************************************************************************)
EXTENDS Naturals

CONSTANT Orders

VARIABLES
  stage,  \* what the orchestrator has on record
  paid,   \* orders Payment has billed
  sent    \* orders Delivery has dispatched

vars == <<stage, paid, sent>>

Init ==
  /\ stage = [o \in Orders |-> "None"]
  /\ paid  = {}
  /\ sent  = {}

Move(o, from, to) ==
  /\ stage[o] \in from
  /\ stage' = [stage EXCEPT ![o] = to]
  /\ UNCHANGED <<paid, sent>>

Start(o)   == Move(o, {"None"}, "OrderPlaced")
Request(o) == Move(o, {"OrderPlaced"}, "OrderSentForBilling")
Cancel(o)  == Move(o, {"OrderPlaced", "OrderSentForBilling"}, "OrderCanceled")
Fail(o)    == Move(o, {"OrderSentForBilling"}, "OrderFailedToBeBilled")

\* Billing runs on its own: it may end after the order was canceled.
Pay(o) ==
  /\ stage[o] # "None"
  /\ paid' = paid \cup {o}
  /\ UNCHANGED <<stage, sent>>

RecordPayment(o) == o \in paid /\ Move(o, {"OrderSentForBilling"}, "OrderPaid")

AwaitDispatch(o) == Move(o, {"OrderPaid"}, "OrderWaitingToBeDispatched")

Ship(o) ==
  /\ o \in paid
  /\ sent' = sent \cup {o}
  /\ UNCHANGED <<stage, paid>>

RecordDispatch(o) ==
  o \in sent /\ Move(o, {"OrderWaitingToBeDispatched"}, "OrderDispatched")

Next ==
  \E o \in Orders :
    \/ Start(o) \/ Request(o) \/ Cancel(o) \/ Fail(o)
    \/ Pay(o) \/ RecordPayment(o)
    \/ AwaitDispatch(o) \/ Ship(o) \/ RecordDispatch(o)

Spec == Init /\ [][Next]_vars
==============================================================================
