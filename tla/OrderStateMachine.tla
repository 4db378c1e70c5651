-------------------------- MODULE OrderStateMachine --------------------------
(***************************************************************************)
(* OrderStateMachine: the transition table of the saga, and what           *)
(* MassTransit does with an event the current state has no entry for.      *)
(*                                                                         *)
(* "None" is the absence of an instance: the instance of a correlation id  *)
(* nobody started a saga with, or one deleted by SetCompletedWhenFinalized.*)
(***************************************************************************)
EXTENDS Naturals

InstanceStates ==
  {"OrderPlaced", "OrderSentForBilling", "OrderFailedToBeBilled", "OrderPaid",
   "OrderWaitingToBeDispatched", "OrderDispatched", "OrderCanceled"}

SagaStates == InstanceStates \cup {"None"}

\* <<state, event, next state>>.  OrderDelivered and OrderNotDelivered are
\* left in the same step they are entered (Finalize), and a finalized
\* instance is removed.
Transitions ==
  { <<"None",                       "OrderPlaced",       "OrderPlaced">>,
    <<"OrderPlaced",                "BillOrder",         "OrderSentForBilling">>,
    <<"OrderPlaced",                "OrderCanceled",     "OrderCanceled">>,
    <<"OrderSentForBilling",        "OrderCanceled",     "OrderCanceled">>,
    <<"OrderSentForBilling",        "OrderPaid",         "OrderPaid">>,
    <<"OrderSentForBilling",        "BillOrderFault",    "OrderFailedToBeBilled">>,
    <<"OrderPaid",                  "DispatchOrder",     "OrderWaitingToBeDispatched">>,
    <<"OrderWaitingToBeDispatched", "OrderDispatched",   "OrderDispatched">>,
    <<"OrderDispatched",            "OrderNotDelivered", "None">>,
    <<"OrderDispatched",            "OrderDelivered",    "None">> }

\* <<state, event>> pairs declared with Ignore(...).
Ignored ==
  { <<"OrderPlaced",                "OrderPaid">>,
    <<"OrderSentForBilling",        "OrderDispatched">>,
    <<"OrderPaid",                  "OrderDispatched">>,
    <<"OrderWaitingToBeDispatched", "OrderPaid">> }

\* Deviation: cancellation is also accepted during OrderPaid.
Targets_CancelPaid(s, k) ==
  { t \in SagaStates : \/ <<s, k, t>> \in Transitions
                       \/ <<s, k, t>> = <<"OrderPaid", "OrderCanceled", "OrderCanceled">> }

Targets(s, k) == { t \in SagaStates : <<s, k, t>> \in Transitions }

Accepts(s, k) == Targets(s, k) # {}

\* Deviation: every unhandled event is ignored.
Tolerates_Everything(s, k) == ~Accepts(s, k)

\* Deviation: no Ignore(...) at all.
Tolerates_NoInstanceOnly(s, k) == s = "None" /\ ~Accepts(s, k)

\* Consumed without effect: ignored in this state, or no instance to find.
Tolerates(s, k) ==
  \/ <<s, k>> \in Ignored
  \/ s = "None" /\ ~Accepts(s, k)

\* UnhandledEventException: the delivery fails and is retried.
Rejects(s, k) == ~Accepts(s, k) /\ ~Tolerates(s, k)
==============================================================================
