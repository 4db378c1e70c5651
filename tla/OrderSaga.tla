------------------------------ MODULE OrderSaga ------------------------------
(***************************************************************************)
(* The order saga: the orchestrator, Payment.API and Delivery.API, joined  *)
(* by RabbitMQ.                                                            *)
(*                                                                         *)
(* One delivery of ordersaga-queue runs the state machine and the consumer *)
(* of the event side by side, inside one retry filter and one in-memory    *)
(* outbox.  The saga commits to its database by itself, so an attempt may  *)
(* fail, and be repeated, after the saga has already moved: because the    *)
(* consumer failed, or because the answer to the commit was lost.  Queues  *)
(* are bags: deliveries run concurrently and a retried one is overtaken.   *)
(*                                                                         *)
(* What may fail costs one of MaxFailures (an unreachable identity server, *)
(* a failed token exchange, a saga save that hits the row version or the   *)
(* database, a commit whose answer is lost) or one of MaxCrashes (a        *)
(* process lost before its delivery was acknowledged, so that the broker   *)
(* delivers again).                                                        *)
(***************************************************************************)
EXTENDS OrderEvents, OrderStateMachine, FiniteSets

CONSTANTS
  Publishers,   \* who starts sagas: PlaceOrder (with the call in
                \* PlaceOrderCommandHandler enabled), ExecuteOrderTransaction
  CancelIds,    \* correlation ids cancel requests bring: "placed", "fresh"
  MaxFailures,  \* bound on failed external calls
  MaxCrashes    \* bound on redeliveries after a crash

ASSUME PublishersAssumption ==
  Publishers \subseteq {"PlaceOrder", "ExecuteOrderTransaction"}
ASSUME CancelIdsAssumption == CancelIds \subseteq {"placed", "fresh"}
ASSUME BudgetAssumption    == MaxFailures \in Nat /\ MaxCrashes \in Nat

VARIABLES
  net,         \* the bag of messages in the queues
  saga,        \* OrderStateData.CurrentState of each order's saga
  source,      \* who published OrderPlaced for the order, "none" so far
  canceled,    \* cancellations Ordering published: <<order, id>>
  billed,      \* how often Payment published OrderPaid for the order
  dispatched,  \* how often Delivery published OrderDispatched
  errorQueue,  \* messages moved to an _error queue: <<queue, kind, order>>
  skipped,     \* consumers that returned on a token: <<kind, order>>
  unsure,      \* history: orders whose own BillOrder moved the saga by a
               \* commit whose answer was lost
  failures,    \* failed external calls so far
  crashes      \* redeliveries after a crash so far

ledger == <<source, canceled>>
traces == <<errorQueue, skipped>>
vars == <<net, saga, ledger, billed, dispatched, traces, unsure, failures, crashes>>

Init ==
  /\ net = EmptyBag
  /\ saga       = [o \in Orders |-> "None"]
  /\ source     = [o \in Orders |-> "none"]
  /\ canceled   = {}
  /\ billed     = [o \in Orders |-> 0]
  /\ dispatched = [o \in Orders |-> 0]
  /\ errorQueue = {}
  /\ skipped    = {}
  /\ unsure     = {}
  /\ failures   = 0
  /\ crashes    = 0

(***************************************************************************)
(* Events that enter the workflow.                                         *)
(***************************************************************************)

\* OrderPlaced is published once per order.  ExecuteOrderTransaction leaves
\* the access token out.
PublishOrderPlaced(o, p) ==
  /\ source[o] = "none"
  /\ source' = [source EXCEPT ![o] = p]
  /\ net' = Send(net, Publish("OrderPlaced", o, o, p = "PlaceOrder"))
  /\ UNCHANGED <<saga, canceled, billed, dispatched, traces, unsure, failures, crashes>>

\* CancelOrder publishes the correlation id of its own request, which is the
\* saga's only if the client repeats it, and no access token.  It does not ask
\* whether a saga was started, and requests that race may both be granted.
PublishOrderCanceled(o, id) ==
  /\ <<o, id>> \notin canceled
  /\ canceled' = canceled \cup {<<o, id>>}
  /\ net' = Send(net, Publish("OrderCanceled", o,
                              IF id = "placed" THEN o ELSE Fresh, FALSE))
  /\ UNCHANGED <<saga, source, billed, dispatched, traces, unsure, failures, crashes>>

(***************************************************************************)
(* One run of a consumer.                                                  *)
(***************************************************************************)

\* "none": the queue has no consumer for the kind.  "skips": the token did
\* not validate, the consumer logs and returns.  "throws": the exchange failed.
Outcomes(m) ==
  IF ~HasConsumer(m) THEN {"none"}
  ELSE IF ~Validates(m) THEN {"publishes", "throws"}
  ELSE IF m.valid THEN {"publishes", "skips", "throws"}
  ELSE {"skips"}

\* The identity server failed: validation of a good token returned false, or
\* the exchange threw.
IsFailure(m, out) == out = "throws" \/ (out = "skips" /\ m.valid)

Outbox(m, out) == IF out = "publishes" THEN Published(m) ELSE {}

\* What a finished delivery leaves behind: the flushed outbox, or the fault.
Emits(m, ok, out) == IF ok THEN Outbox(m, out) ELSE Faults(m)

DeadLetter(m) == {<<m.queue, m.kind, m.order>>}

Skips(m, out) == IF out = "skips" THEN {<<m.kind, m.order>>} ELSE {}

(***************************************************************************)
(* A delivery of ordersaga-queue.                                          *)
(***************************************************************************)

StateOf(c) == IF c \in Orders THEN saga[c] ELSE "None"

\* What comes of the commit of a state change (EnableRetryOnFailure): it is
\* answered, nothing is stored, or the state is stored and the answer is lost.
\* After a lost answer the operation runs again and is rejected by the state it
\* has itself brought about.
Commits == {"answered", "failed", "unanswered"}

\* The state machine's part of an attempt.
MoveSaga(m, commit) ==
  IF commit # "failed" /\ Accepts(StateOf(m.corr), m.kind)
  THEN \E t \in Targets(StateOf(m.corr), m.kind) :
         saga' = [saga EXCEPT ![m.corr] = t]
  ELSE UNCHANGED saga

\* Only a state change is stored, so only a state change can fail to be.
Attempt(m, commit, out) ==
  /\ m \in InFlight(net, SagaQueue)
  /\ out \in Outcomes(m)
  /\ commit = "answered" \/ Accepts(StateOf(m.corr), m.kind)
  /\ failures' = failures + (IF commit = "answered" THEN 0 ELSE 1)
                          + (IF IsFailure(m, out) THEN 1 ELSE 0)
  /\ failures' <= MaxFailures
  /\ MoveSaga(m, commit)
  /\ unsure' = IF commit = "unanswered" /\ m.kind = "BillOrder"
               THEN unsure \cup {m.order} ELSE unsure
  /\ UNCHANGED <<ledger, billed, dispatched>>

\* Deviation: the consumer's outbox does not wait for the saga.
Succeeds_WithoutSaga(m, commit, out) == out # "throws"

Succeeds(m, commit, out) ==
  commit = "answered" /\ ~Rejects(StateOf(m.corr), m.kind) /\ out # "throws"

\* Both parts succeed: the outbox is flushed, the delivery acknowledged.
SagaAcknowledges(m, commit, out) ==
  /\ Attempt(m, commit, out)
  /\ Succeeds(m, commit, out)
  /\ net' = Replace(net, m, Outbox(m, out))
  /\ skipped' = skipped \cup Skips(m, out)
  /\ UNCHANGED <<errorQueue, crashes>>

\* Deviation: a failed delivery is retried for ever.
SagaRetries_Unlimited(m, commit, out) ==
  /\ Attempt(m, commit, out)
  /\ ~Succeeds(m, commit, out)
  /\ net' = Replace(net, m, {[m EXCEPT !.tries = @ + 1]})
  /\ UNCHANGED <<traces, crashes>>

\* Deviation: no outbox, what a failed attempt published is out.
SagaRetries_NoOutbox(m, commit, out) ==
  /\ Attempt(m, commit, out)
  /\ ~Succeeds(m, commit, out)
  /\ m.tries < Retries
  /\ net' = Replace(net, m, {[m EXCEPT !.tries = @ + 1]} \cup Outbox(m, out))
  /\ UNCHANGED <<traces, crashes>>

\* One part fails: the outbox is discarded, the saga is not, and the message
\* is tried again after the interval.
SagaRetries(m, commit, out) ==
  /\ Attempt(m, commit, out)
  /\ ~Succeeds(m, commit, out)
  /\ m.tries < Retries
  /\ net' = Replace(net, m, {[m EXCEPT !.tries = @ + 1]})
  /\ UNCHANGED <<traces, crashes>>

\* Deviation: the last failure puts the message back instead of aside.
SagaGivesUp_Requeues(m, commit, out) ==
  /\ Attempt(m, commit, out)
  /\ ~Succeeds(m, commit, out)
  /\ m.tries = Retries
  /\ net' = Replace(net, m, {[m EXCEPT !.tries = 0]})
  /\ UNCHANGED <<traces, crashes>>

\* The last retry fails: the message goes to ordersaga-queue_error.
SagaGivesUp(m, commit, out) ==
  /\ Attempt(m, commit, out)
  /\ ~Succeeds(m, commit, out)
  /\ m.tries = Retries
  /\ net' = Replace(net, m, Faults(m))
  /\ errorQueue' = errorQueue \cup DeadLetter(m)
  /\ UNCHANGED <<skipped, crashes>>

\* The process dies before it acknowledges, with the delivery finished in all
\* else or not, and the broker delivers the message anew.
SagaCrashes(m, commit, out, finished) ==
  LET ok == Succeeds(m, commit, out) IN
  /\ Attempt(m, commit, out)
  /\ finished => ok \/ m.tries = Retries
  /\ crashes < MaxCrashes
  /\ crashes' = crashes + 1
  /\ net' = Replace(net, m, {[m EXCEPT !.tries = 0]}
                            \cup (IF finished THEN Emits(m, ok, out) ELSE {}))
  /\ errorQueue' = IF finished /\ ~ok THEN errorQueue \cup DeadLetter(m)
                   ELSE errorQueue
  /\ UNCHANGED skipped

(***************************************************************************)
(* A delivery of a queue of Payment or Delivery.  The retry filter of these *)
(* queues handles InvalidOperationException only, which no consumer throws: *)
(* a failed exchange is a fault at once.                                   *)
(***************************************************************************)

\* One more run of the service's work for the order, if it published.
Record(m, published) ==
  /\ billed' = IF published /\ m.kind = "BillOrder"
               THEN [billed EXCEPT ![m.order] = @ + 1] ELSE billed
  /\ dispatched' = IF published /\ m.kind = "DispatchOrder"
                   THEN [dispatched EXCEPT ![m.order] = @ + 1] ELSE dispatched

Work(m, out) ==
  /\ \E q \in WorkerQueues : m \in InFlight(net, q)
  /\ out \in Outcomes(m)
  /\ failures' = failures + (IF IsFailure(m, out) THEN 1 ELSE 0)
  /\ failures' <= MaxFailures
  /\ UNCHANGED <<saga, ledger, unsure>>

WorkerAcknowledges(m, out) ==
  /\ Work(m, out)
  /\ out # "throws"
  /\ net' = Replace(net, m, Outbox(m, out))
  /\ skipped' = skipped \cup Skips(m, out)
  /\ Record(m, out = "publishes")
  /\ UNCHANGED <<errorQueue, crashes>>

\* Deviation: no outbox, and the call that fails comes after the publish.
WorkerFaults_NoOutbox(m, out) ==
  /\ Work(m, out)
  /\ out = "throws"
  /\ net' = Replace(net, m, Faults(m) \cup Published(m))
  /\ errorQueue' = errorQueue \cup DeadLetter(m)
  /\ Record(m, TRUE)
  /\ UNCHANGED <<skipped, crashes>>

WorkerFaults(m, out) ==
  /\ Work(m, out)
  /\ out = "throws"
  /\ net' = Replace(net, m, Faults(m))
  /\ errorQueue' = errorQueue \cup DeadLetter(m)
  /\ UNCHANGED <<skipped, billed, dispatched, crashes>>

WorkerCrashes(m, out, finished) ==
  LET ok == out # "throws" IN
  /\ Work(m, out)
  /\ crashes < MaxCrashes
  /\ crashes' = crashes + 1
  /\ net' = Send(net, IF finished THEN Emits(m, ok, out) ELSE {})
  /\ Record(m, finished /\ out = "publishes")
  /\ errorQueue' = IF finished /\ ~ok THEN errorQueue \cup DeadLetter(m)
                   ELSE errorQueue
  /\ UNCHANGED skipped

(***************************************************************************)
(* The queues of Ordering are read by another component; here their        *)
(* messages stay where the saga's consumers put them.                      *)
(***************************************************************************)
OutcomeNames == {"none", "publishes", "skips", "throws"}

SagaDelivers(m) ==
  \E commit \in Commits, out \in OutcomeNames :
    \/ SagaAcknowledges(m, commit, out)
    \/ SagaRetries(m, commit, out)
    \/ SagaGivesUp(m, commit, out)

WorkerDelivers(m) ==
  \E out \in OutcomeNames : WorkerAcknowledges(m, out) \/ WorkerFaults(m, out)

Crash(m) ==
  \E out \in OutcomeNames, finished \in BOOLEAN :
    \/ \E commit \in Commits : SagaCrashes(m, commit, out, finished)
    \/ WorkerCrashes(m, out, finished)

Deliver == \E m \in BagToSet(net) : SagaDelivers(m) \/ WorkerDelivers(m)

Next ==
  \/ \E o \in Orders : \/ \E p \in Publishers : PublishOrderPlaced(o, p)
                       \/ \E id \in CancelIds : PublishOrderCanceled(o, id)
  \/ Deliver
  \/ \E m \in BagToSet(net) : Crash(m)

Safety == Init /\ [][Next]_vars

\* The broker keeps delivering what its queues hold while consumers run.
Spec == Safety /\ WF_vars(Deliver)

(***************************************************************************)
(* Properties.                                                             *)
(***************************************************************************)

\* Every variable has its type; the budgets are never overdrawn.
TypeOK ==
  /\ IsABag(net) /\ BagToSet(net) \subseteq Message
  /\ saga \in [Orders -> SagaStates]
  /\ source \in [Orders -> Publishers \cup {"none"}]
  /\ canceled \subseteq Orders \X CancelIds
  /\ billed \in [Orders -> Nat]
  /\ dispatched \in [Orders -> Nat]
  /\ errorQueue \subseteq Queues \X Kinds \X Orders
  /\ skipped \subseteq Kinds \X Orders
  /\ unsure \subseteq Orders
  /\ failures \in 0..MaxFailures
  /\ crashes \in 0..MaxCrashes

\* Messages wait in queues bound to their kind, under their order's own
\* correlation id unless they stem from a cancel request.
MessagesAreRouted ==
  \A m \in BagToSet(net) :
    /\ m.queue \in Subscribers[m.kind]
    /\ m.kind \in {"OrderCanceled", "RollbackOrderPayment"} \/ m.corr = m.order

About(k, o) == \E m \in BagToSet(net) : m.kind = k /\ m.order = o

\* No message of the workflow is on its way before the work it reports or
\* presumes was done.
MessagesKeepOrder ==
  \A o \in Orders :
    /\ About("OrderPlaced", o) => source[o] # "none"
    /\ About("BillOrder", o) \/ About("BillOrderFault", o) => saga[o] # "None"
    /\ About("OrderPaid", o) \/ About("DispatchOrder", o) => billed[o] > 0
    /\ About("OrderDispatched", o) => dispatched[o] > 0
    /\ ~About("OrderDelivered", o)

\* Nothing hid what became of the order's billing: no process crashed, and
\* the saga was answered when it committed OrderSentForBilling.
Sure(o) == crashes = 0 /\ o \notin unsure

\* Ordering is told of a dispatch only after it was told of the payment, and
\* never of a payment and of a failure to bill, unless a process crashed or the
\* answer to the commit of the order's own BillOrder was lost.
OrderingIsToldInOrder ==
  \A o \in Orders :
    /\ About("NotifyOrderDispatched", o) => About("NotifyOrderPaid", o)
    /\ ~About("NotifyOrderDelivered", o)
    /\ Sure(o) => ~(About("NotifyOrderPaid", o) /\ About("OrderFailedToBeBilled", o))

\* The saga's record never runs ahead of Payment and Delivery, and no order is
\* dispatched that was not billed, whatever is retried, lost to a crash or
\* overtaken (OrderStateMachine, BillOrderConsumer, DispatchOrderConsumer).
SagaNeverAhead ==
  \A o \in Orders :
    /\ billed[o] > 0 => saga[o] # "None"
    /\ dispatched[o] > 0 => billed[o] > 0
    /\ saga[o] \in {"OrderPaid", "OrderWaitingToBeDispatched"} => billed[o] > 0
    /\ saga[o] = "OrderDispatched" => dispatched[o] > 0

\* The inductive invariant: the saga's record is safe because the messages
\* that move it are.
SagaInv == TypeOK /\ MessagesAreRouted /\ MessagesKeepOrder /\ SagaNeverAhead

\* Every second billing or dispatch of an order takes a crash of its own:
\* retries alone publish nothing twice (UseInMemoryOutbox).
DuplicatesTakeCrashes ==
  \A o \in Orders : billed[o] <= 1 + crashes /\ dispatched[o] <= 1 + crashes

\* An order is recorded or reported as failed to be billed only if it was not
\* billed, unless a process crashed or the answer to the commit of the order's
\* own BillOrder was lost: then the copy on the saga queue is given up although
\* it moved the saga, and its fault finds the state that accepts it.
FailedMeansUnbilled ==
  \A o \in Orders :
    Sure(o) /\ (saga[o] = "OrderFailedToBeBilled"
                \/ About("OrderFailedToBeBilled", o)) => billed[o] = 0

On(k, q, o) == [queue : {q}, kind : {k}, order : {o}, corr : Orders \cup {Fresh},
                valid : BOOLEAN, tries : 0..Retries]

\* The deliveries that lead to billing, those that lead to dispatching, and
\* those that only move the saga's record to OrderSentForBilling.
Billing(o) == On("OrderPlaced", SagaQueue, o) \cup On("BillOrder", BillingQueue, o)
Chain(o)   == Billing(o) \cup On("OrderPaid", SagaQueue, o)
                         \cup On("DispatchOrder", DeliveryQueue, o)
Notes(o)   == On("BillOrder", SagaQueue, o)

\* Each copy in the bag B of a message of K.
Copies(B, K) == UNION { {n} \X (1..B[n]) : n \in BagToSet(B) \cap K }

\* Work under way and work done: together one per order, and one per crash.
WorkIsCounted ==
  \A o \in Orders :
    /\ Cardinality(Copies(net, Billing(o))) + billed[o] <= 1 + crashes
    /\ Cardinality(Copies(net, Chain(o))) + dispatched[o] <= 1 + crashes
    /\ source[o] = "none" => Copies(net, Chain(o)) = {} /\ saga[o] = "None"

\* What Ordering is told of an order, and the work that stands behind it.
WorkIsTold ==
  \A o \in Orders :
    /\ About("DispatchOrder", o) \/ About("NotifyOrderDispatched", o) \/ dispatched[o] > 0
         => About("NotifyOrderPaid", o)
    /\ About("NotifyOrderPaid", o) => billed[o] > 0
    /\ ~About("NotifyOrderDelivered", o)

\* Nobody will bill the order any more, and nobody has.
Unbilled(o) ==
  source[o] # "none" /\ billed[o] = 0 /\ Copies(net, Billing(o)) = {}

\* A fault of BillOrder comes from Payment, which then has not billed and will
\* not, or from the saga's own copy, which then leaves the saga where it
\* rejects the fault.  So it is of every order whose billing nothing hid.
FaultsAreHarmless ==
  \A o \in {p \in Orders : Sure(p)} :
    /\ Cardinality(Copies(net, Notes(o))) <= 1
    /\ Copies(net, Notes(o)) # {} => saga[o] \in {"OrderPlaced", "OrderCanceled"}
    /\ About("BillOrderFault", o) =>
         \/ Unbilled(o)
         \/ saga[o] \in {"OrderPlaced", "OrderCanceled"} /\ Copies(net, Notes(o)) = {}
    /\ saga[o] = "OrderFailedToBeBilled" \/ About("OrderFailedToBeBilled", o)
         => Unbilled(o)

\* What stands behind DuplicatesTakeCrashes, FailedMeansUnbilled and
\* OrderingIsToldInOrder, and is inductive beside SagaInv.
WorkInv == WorkIsCounted /\ WorkIsTold /\ FaultsAreHarmless

\* The queues of the workflow are empty: what remains is Ordering's to read.
Quiescent == \A m \in BagToSet(net) : m.queue \in OrderingQueues

Stops(o) == {k \in Kinds \ {"OrderCanceled"} :
              <<k, o>> \in skipped \/ \E q \in Queues : <<q, k, o>> \in errorQueue}

\* When nothing is in flight, an order placed with a token was dispatched, or a
\* step of it was given up: no order stops unseen.  Its record may stop one
\* step short, when OrderDispatched overtook DispatchOrder and was ignored.
StallsLeaveATrace ==
  \A o \in Orders :
    Quiescent /\ source[o] = "PlaceOrder" /\ Stops(o) = {} =>
      /\ dispatched[o] > 0
      /\ saga[o] \in {"OrderDispatched", "OrderWaitingToBeDispatched"}

Waits(k, q, o) == \E m \in BagToSet(net) : m.kind = k /\ m.queue = q /\ m.order = o

\* Something waits whose delivery leads on to the payment of the order.
PaymentAhead(o) == \/ Waits("OrderPlaced", SagaQueue, o)
                   \/ Waits("BillOrder", BillingQueue, o)
                   \/ Waits("OrderPaid", SagaQueue, o)

\* What stands behind StallsLeaveATrace, and is inductive beside SagaInv: an
\* order of which no step was given up has a delivery ahead that leads to its
\* dispatch, and one that brings its record there, until each has happened.
StallInv ==
  \A o \in Orders :
    /\ About("BillOrderFault", o) \/ saga[o] = "OrderFailedToBeBilled" => Stops(o) # {}
    /\ source[o] # "none" /\ Stops(o) = {} =>
         /\ PaymentAhead(o) \/ Waits("DispatchOrder", DeliveryQueue, o) \/ dispatched[o] > 0
         /\ \/ PaymentAhead(o) \/ Waits("DispatchOrder", SagaQueue, o)
            \/ saga[o] \in {"OrderWaitingToBeDispatched", "OrderDispatched"}

\* The saga implements the lifecycle, with the messages hidden.
Lifecycle == INSTANCE OrderLifecycle WITH
  stage <- saga,
  paid  <- {o \in Orders : billed[o] > 0},
  sent  <- {o \in Orders : dispatched[o] > 0}

ImplementsLifecycle == Lifecycle!Spec

\* What the saga publishes for Ordering, and when, with the work it reports.
News == INSTANCE OrderNews WITH
  paid     <- {o \in Orders : billed[o] > 0},
  sent     <- {o \in Orders : dispatched[o] > 0},
  told     <- {n \in Notified \X Orders : About(n[1], n[2])},
  doubtful <- {o \in Orders : ~Sure(o)}

ImplementsNews == News!Spec

\* The deliveries an event can come to: that of one copy, and those of what its
\* consumer publishes, every copy of it.
Deliveries ==
  [ OrderPlaced           |-> 13, BillOrder             |-> 6,
    OrderPaid             |-> 5,  BillOrderFault        |-> 1,
    DispatchOrder         |-> 2,  OrderDispatched       |-> 1,
    OrderDelivered        |-> 1,  OrderCanceled         |-> 2,
    RollbackOrderPayment  |-> 1,  NotifyOrderPaid       |-> 0,
    NotifyOrderDispatched |-> 0,  NotifyOrderDelivered  |-> 0,
    OrderFailedToBeBilled |-> 0 ]

\* The same with every retry each of them is granted.
Attempts(m) == (Retries + 1) * Deliveries[m.kind] - m.tries

\* All the attempts the messages of the bag B can come to.
AttemptsLeft(B) ==
  UNION {{c} \X (1..Attempts(c[1])) : c \in Copies(B, Message)}

Remaining(B) == Cardinality(AttemptsLeft(B))

\* Every attempt uses up some of the work that was ahead, and a crash brings
\* less back than an order placed anew: the workflow takes no more attempts than
\* what enters it and what crashes account for (UseMessageRetry counts down).
WorkIsUsedUp ==
  [][UNCHANGED ledger =>
       Remaining(net') < Remaining(net)
                         + (crashes' - crashes) * (Retries + 1) * Deliveries["OrderPlaced"]]_vars

\* Retries end: the workflow's queues drain whatever fails (UseMessageRetry).
QueuesDrain == []<>Quiescent

\* A saga that ends in OrderFailedToBeBilled has its rollback published: the
\* comment on the transition says that BillOrderFaultConsumer handles it.
FailureIsRolledBack ==
  \A o \in Orders :
    Quiescent /\ saga[o] = "OrderFailedToBeBilled" => About("OrderFailedToBeBilled", o)

\* Payment publishes OrderPaid at most once for an order: the comment on its
\* outbox says that duplicate events are prevented.
NoDuplicateEvents == \A o \in Orders : billed[o] <= 1

\* Where nothing fails, an order placed with a token is dispatched unless the
\* saga was canceled first, in whatever order the messages arrive.
PlacedIsDispatched ==
  \A o \in Orders :
    source[o] = "PlaceOrder" ~> dispatched[o] > 0 \/ saga[o] = "OrderCanceled"
==============================================================================
