----------------------------- MODULE OrderEvents -----------------------------
(***************************************************************************)
(* The vocabulary of the order workflow: the integration events of         *)
(* EventBus.Messages, the RabbitMQ queues the services bind to them, and   *)
(* what the consumer of each event publishes when it runs to its end.      *)
(*                                                                         *)
(* A message is one copy of an event waiting in one queue.  Of an event    *)
(* the workflow looks at the order it is about, at the correlation id the  *)
(* saga is looked up by, and at whether the access token it carries would  *)
(* pass validation; prices, dates and card numbers are only copied along.  *)
(* The saga started for an order is named by the order itself, so corr is  *)
(* an order, or Fresh for a correlation id that no saga was started with.  *)
(***************************************************************************)
EXTENDS Naturals, Bags

CONSTANTS
  Orders,    \* the orders of the shop, each with the saga started for it
  Fresh,     \* a correlation id generated for a later request
  Retries    \* redeliveries UseMessageRetry grants on the saga queue

ASSUME FreshAssumption   == Fresh \notin Orders
ASSUME RetriesAssumption == Retries \in Nat

(***************************************************************************)
(* Queues (EventBusConstants).                                             *)
(***************************************************************************)
SagaQueue            == "ordersaga-queue"
BillingQueue         == "orderbilling-queue"
BillingRollbackQueue == "orderbillingrollback-queue"
DeliveryQueue        == "orderdelivery-queue"
StatusNotifierQueue  == "orderstatusnotifier-queue"
RollbackOrderQueue   == "rollbackorder-queue"

WorkerQueues   == {BillingQueue, BillingRollbackQueue, DeliveryQueue}
OrderingQueues == {StatusNotifierQueue, RollbackOrderQueue}
Queues         == {SagaQueue} \cup WorkerQueues \cup OrderingQueues

(***************************************************************************)
(* Events, and the queues bound to each of them.                           *)
(***************************************************************************)
Subscribers ==
  [ OrderPlaced           |-> {SagaQueue},
    BillOrder             |-> {SagaQueue, BillingQueue},
    OrderPaid             |-> {SagaQueue},
    BillOrderFault        |-> {SagaQueue},
    DispatchOrder         |-> {SagaQueue, DeliveryQueue},
    OrderDispatched       |-> {SagaQueue},
    OrderDelivered        |-> {SagaQueue},
    OrderCanceled         |-> {SagaQueue},
    RollbackOrderPayment  |-> {BillingRollbackQueue},
    NotifyOrderPaid       |-> {StatusNotifierQueue},
    NotifyOrderDispatched |-> {StatusNotifierQueue},
    NotifyOrderDelivered  |-> {StatusNotifierQueue},
    OrderFailedToBeBilled |-> {RollbackOrderQueue} ]

Kinds == {"OrderPlaced", "BillOrder", "OrderPaid", "BillOrderFault",
          "DispatchOrder", "OrderDispatched", "OrderDelivered",
          "OrderCanceled", "RollbackOrderPayment", "NotifyOrderPaid",
          "NotifyOrderDispatched", "NotifyOrderDelivered",
          "OrderFailedToBeBilled"}

\* The events Ordering consumes.
Notified == {"NotifyOrderPaid", "NotifyOrderDispatched", "NotifyOrderDelivered",
             "OrderFailedToBeBilled"}

Message == [queue : Queues, kind : Kinds, order : Orders,
            corr : Orders \cup {Fresh}, valid : BOOLEAN, tries : 0..Retries]

\* Publishing an event puts a copy of it into every queue bound to its type.
Publish(k, o, c, v) ==
  { [queue |-> q, kind |-> k, order |-> o, corr |-> c, valid |-> v,
     tries |-> 0] : q \in Subscribers[k] }

(***************************************************************************)
(* Consumers: which kinds have one on which queue, which of them validate  *)
(* the access token of the message first, and what they publish.           *)
(***************************************************************************)
ConsumedAtSaga == {"OrderPlaced", "OrderCanceled", "OrderPaid",
                   "BillOrderFault", "OrderDispatched", "OrderDelivered"}

HasConsumer(m) == m.queue = SagaQueue => m.kind \in ConsumedAtSaga

\* BillOrderFaultConsumer goes straight to the token exchange.
Validates(m) == m.kind # "BillOrderFault"

\* Deviation: delivery is commanded together with billing.
OrderPlacedConsumer_DispatchUnpaid == {"BillOrder", "DispatchOrder"}

OrderPlacedConsumer     == {"BillOrder"}
BillOrderConsumer       == {"OrderPaid"}
OrderPaidConsumer       == {"NotifyOrderPaid", "DispatchOrder"}
DispatchOrderConsumer   == {"OrderDispatched"}
OrderDispatchedConsumer == {"NotifyOrderDispatched"}
OrderDeliveredConsumer  == {"NotifyOrderDelivered"}
OrderCanceledConsumer   == {"RollbackOrderPayment"}
BillOrderFaultConsumer  == {"OrderFailedToBeBilled"}

\* RollbackOrderPaymentConsumer publishes nothing; no other kind is consumed
\* by the queues of the workflow.
Continuations(k) ==
  CASE k = "OrderPlaced"     -> OrderPlacedConsumer
    [] k = "BillOrder"       -> BillOrderConsumer
    [] k = "OrderPaid"       -> OrderPaidConsumer
    [] k = "DispatchOrder"   -> DispatchOrderConsumer
    [] k = "OrderDispatched" -> OrderDispatchedConsumer
    [] k = "OrderDelivered"  -> OrderDeliveredConsumer
    [] k = "OrderCanceled"   -> OrderCanceledConsumer
    [] k = "BillOrderFault"  -> BillOrderFaultConsumer
    [] OTHER                 -> {}

\* The consumer exchanges the token it received for one of the next
\* service's scope, so what it publishes carries a token that validates.
Published(m) ==
  UNION { Publish(k, m.order, m.corr, TRUE) : k \in Continuations(m.kind) }

\* MassTransit publishes Fault<T> for a message it gives up on; of all
\* faults only Fault<BillOrder> has a subscriber that acts on it.
Faults(m) ==
  IF m.kind = "BillOrder"
  THEN Publish("BillOrderFault", m.order, m.corr, m.valid)
  ELSE {}

(***************************************************************************)
(* The broker: a bag of messages.  Taking one delivery off its queue and   *)
(* publishing what the outbox holds is one step of the bag.                *)
(***************************************************************************)
InFlight(net, q) == { m \in BagToSet(net) : m.queue = q }

Send(net, out) == net (+) SetToBag(out)

Replace(net, m, out) == Send(net (-) SetToBag({m}), out)
==============================================================================
