------------------------ MODULE OrderSagaStalls_proofs ------------------------
(***************************************************************************)
(* Proofs that an order whose processing stops leaves a trace, and that    *)
(* the processing does stop: every attempt uses up work that was ahead,    *)
(* whatever fails.  For every set of orders and every bound.               *)
(***************************************************************************)
EXTENDS OrderSagaOnce_proofs

(***************************************************************************)
(* What a delivery does to the message it delivers, and leaves behind.     *)
(***************************************************************************)

\* The message waits again, or was set aside, or was skipped, or its consumer
\* published, or it has none and the saga took the event.
Fate(m, commit, out) ==
  \/ \E n \in BagToSet(net') : SameEvent(n, m)
  \/ <<m.queue, m.kind, m.order>> \in errorQueue'
  \/ <<m.kind, m.order>> \in skipped'
  \/ /\ HasConsumer(m) /\ Published(m) \subseteq BagToSet(net')
     /\ m.kind = "DispatchOrder" => dispatched'[m.order] > 0
  \/ ~HasConsumer(m) /\ Succeeds(m, commit, out)

Leads(m, commit, out) ==
  /\ m \in BagToSet(net)
  /\ \A n \in BagToSet(net) : n # m => n \in BagToSet(net')
  /\ errorQueue \subseteq errorQueue' /\ skipped \subseteq skipped'
  /\ UNCHANGED source
  /\ \A o \in Orders : dispatched[o] > 0 => dispatched'[o] > 0
  /\ \A n \in BagToSet(net') :
       n.kind = "BillOrderFault" =>
         \/ n \in BagToSet(net)
         \/ SameEvent(n, m)
         \/ /\ m.kind = "BillOrder" /\ n.order = m.order
            /\ <<m.queue, m.kind, m.order>> \in errorQueue'
  /\ Fate(m, commit, out)
  /\ \/ m.queue = SagaQueue /\ MoveSaga(m, commit)
     \/ m.queue # SagaQueue /\ UNCHANGED saga

\* What is published is no fault; a fault is about its own order.
LEMMA SentKinds ==
  ASSUME NEW m \in Message
  PROVE  /\ \A n \in Published(m) : n.kind # "BillOrderFault"
         /\ \A n \in Faults(m) : m.kind = "BillOrder" /\ n.order = m.order
<1>1. ASSUME NEW n \in Published(m) PROVE n.kind # "BillOrderFault"
  <2>1. n.kind \in Continuations(m.kind) /\ m.kind \in Kinds
    BY PublishedFact DEF Message
  <2>2. QED
    BY <2>1, ContinuationSets
<1>2. QED
  BY <1>1, FaultFact

\* The same for a delivery whose bag is known.
LEMMA FaultsTraced ==
  ASSUME NEW m \in Message, NEW S, BagToSet(net') \subseteq BagToSet(net) \cup S,
         \A n \in S : \/ SameEvent(n, m)
                      \/ n \in Published(m)
                      \/ n \in Faults(m) /\ <<m.queue, m.kind, m.order>> \in errorQueue'
  PROVE  \A n \in BagToSet(net') :
           n.kind = "BillOrderFault" =>
             \/ n \in BagToSet(net)
             \/ SameEvent(n, m)
             \/ /\ m.kind = "BillOrder" /\ n.order = m.order
                /\ <<m.queue, m.kind, m.order>> \in errorQueue'
  BY SentKinds

LEMMA SagaLeads ==
  ASSUME SagaInv, NEW m \in BagToSet(net), NEW commit \in Commits,
         NEW out \in OutcomeNames,
         \/ SagaAcknowledges(m, commit, out)
         \/ SagaRetries(m, commit, out)
         \/ SagaGivesUp(m, commit, out)
         \/ \E finished \in BOOLEAN : SagaCrashes(m, commit, out, finished)
  PROVE  Leads(m, commit, out)
<1>1. m \in Message /\ IsABag(net) /\ TypeOK /\ m.tries \in 0..Retries
  BY InFlightFact DEF SagaInv, TypeOK, Message
<1>2. Attempt(m, commit, out)
  BY DEF SagaAcknowledges, SagaRetries, SagaGivesUp, SagaCrashes
<1>3. /\ m.queue = SagaQueue /\ out \in Outcomes(m) /\ MoveSaga(m, commit)
      /\ UNCHANGED <<source, dispatched>>
  BY <1>1, <1>2, AttemptFact DEF ledger
<1>4. \A t \in 0..Retries : SameEvent([m EXCEPT !.tries = t], m)
  BY <1>1, RetryFact
<1>5. SUFFICES ASSUME NEW S,
                      net' = Replace(net, m, S),
                      \A n \in S : \/ SameEvent(n, m)
                                   \/ n \in Published(m)
                                   \/ /\ n \in Faults(m)
                                      /\ <<m.queue, m.kind, m.order>> \in errorQueue',
                      errorQueue \subseteq errorQueue', skipped \subseteq skipped',
                      \/ \E n \in S : SameEvent(n, m)
                      \/ <<m.queue, m.kind, m.order>> \in errorQueue'
                      \/ <<m.kind, m.order>> \in skipped'
                      \/ /\ HasConsumer(m) /\ Published(m) \subseteq S
                         /\ m.kind # "DispatchOrder"
                      \/ ~HasConsumer(m) /\ Succeeds(m, commit, out)
               PROVE  Leads(m, commit, out)
  <2>1. CASE SagaAcknowledges(m, commit, out)
    <3> DEFINE S == Outbox(m, out)
    <3>1. net' = Replace(net, m, S) /\ UNCHANGED errorQueue
          /\ skipped' = skipped \cup Skips(m, out) /\ Succeeds(m, commit, out)
      BY <2>1 DEF SagaAcknowledges
    <3>2. \A n \in S : n \in Published(m)
      BY DEF Outbox
    <3>3. out # "throws"
      BY <3>1 DEF Succeeds
    <3>4. CASE out = "publishes"
      <4>1. Published(m) = S /\ HasConsumer(m)
        BY <1>3, <3>4 DEF Outbox, Outcomes
      <4>2. m.kind # "DispatchOrder"
        BY <1>3, <4>1 DEF HasConsumer, ConsumedAtSaga
      <4> HIDE DEF S
      <4>3. QED
        BY <1>5, <3>1, <3>2, <4>1, <4>2
    <3>5. CASE out = "skips"
      <4>1. <<m.kind, m.order>> \in skipped'
        BY <3>1, <3>5 DEF Skips
      <4> HIDE DEF S
      <4>2. QED
        BY <1>5, <3>1, <3>2, <4>1
    <3>6. CASE out = "none"
      <4>1. ~HasConsumer(m)
        BY <1>3, <3>6 DEF Outcomes
      <4> HIDE DEF S
      <4>2. QED
        BY <1>5, <3>1, <3>2, <4>1
    <3>7. QED
      BY <3>3, <3>4, <3>5, <3>6 DEF OutcomeNames
  <2>2. CASE SagaRetries(m, commit, out)
    <3> DEFINE n == [m EXCEPT !.tries = m.tries + 1]
    <3>1. m.tries + 1 \in 0..Retries
      BY <1>1, <2>2, RetriesAssumption DEF SagaRetries
    <3>2. SameEvent(n, m)
      BY <1>4, <3>1
    <3>3. net' = Replace(net, m, {n}) /\ UNCHANGED <<errorQueue, skipped>>
      BY <2>2 DEF SagaRetries, traces
    <3> HIDE DEF n
    <3>4. QED
      BY <1>5, <3>2, <3>3
  <2>3. CASE SagaGivesUp(m, commit, out)
    <3>1. /\ net' = Replace(net, m, Faults(m)) /\ UNCHANGED skipped
          /\ errorQueue' = errorQueue \cup {<<m.queue, m.kind, m.order>>}
      BY <2>3 DEF SagaGivesUp, DeadLetter
    <3>2. QED
      BY <1>5, <3>1
  <2>4. CASE \E finished \in BOOLEAN : SagaCrashes(m, commit, out, finished)
    <3>1. PICK finished \in BOOLEAN : SagaCrashes(m, commit, out, finished)
      BY <2>4
    <3> DEFINE ok == Succeeds(m, commit, out)
               n == [m EXCEPT !.tries = 0]
               sent == IF finished THEN Emits(m, ok, out) ELSE {}
    <3>2. /\ net' = Replace(net, m, {n} \cup sent) /\ UNCHANGED skipped
          /\ errorQueue' = IF finished /\ ~ok
                           THEN errorQueue \cup {<<m.queue, m.kind, m.order>>}
                           ELSE errorQueue
      BY <3>1 DEF SagaCrashes, DeadLetter
    <3>3. SameEvent(n, m)
      BY <1>4, RetriesAssumption
    <3>4. \A x \in sent : \/ x \in Published(m)
                          \/ /\ x \in Faults(m)
                             /\ <<m.queue, m.kind, m.order>> \in errorQueue'
      BY <3>2 DEF Emits, Outbox
    <3> HIDE DEF n, sent
    <3>5. errorQueue \subseteq errorQueue'
      BY <3>2
    <3>6. QED
      BY <1>5, <3>2, <3>3, <3>4, <3>5
  <2>5. QED
    BY <2>1, <2>2, <2>3, <2>4
<1>6. /\ S \subseteq BagToSet(net')
      /\ \A n \in BagToSet(net) : n # m => n \in BagToSet(net')
      /\ BagToSet(net') \subseteq BagToSet(net) \cup S
  BY <1>1, <1>5, ReplaceKeeps
<1>7. Fate(m, commit, out)
  BY <1>5, <1>6 DEF Fate
<1>8. \A n \in BagToSet(net') :
        n.kind = "BillOrderFault" =>
          \/ n \in BagToSet(net)
          \/ SameEvent(n, m)
          \/ /\ m.kind = "BillOrder" /\ n.order = m.order
             /\ <<m.queue, m.kind, m.order>> \in errorQueue'
  BY <1>1, <1>5, <1>6, FaultsTraced
<1>9. source' = source /\ \A o \in Orders : dispatched[o] > 0 => dispatched'[o] > 0
  BY <1>3
<1>10. \A n \in BagToSet(net) : n # m => n \in BagToSet(net')
  BY <1>6
<1>11. QED
  BY <1>3, <1>5, <1>7, <1>8, <1>9, <1>10 DEF Leads

\* What a worker's delivery publishes is on record.
LEMMA RecordFact ==
  ASSUME SagaInv, NEW m \in BagToSet(net), NEW done, Record(m, done)
  PROVE  /\ \A o \in Orders : dispatched[o] > 0 => dispatched'[o] > 0
         /\ done /\ m.kind = "DispatchOrder" => dispatched'[m.order] > 0
<1>1. m.order \in Orders /\ dispatched \in [Orders -> Nat]
  BY InFlightFact DEF SagaInv, TypeOK
<1>2. dispatched' = IF done /\ m.kind = "DispatchOrder"
                    THEN [dispatched EXCEPT ![m.order] = dispatched[m.order] + 1]
                    ELSE dispatched
  BY DEF Record
<1>3. CASE done /\ m.kind = "DispatchOrder"
  BY <1>1, <1>2, <1>3
<1>4. CASE ~(done /\ m.kind = "DispatchOrder")
  BY <1>2, <1>4
<1>5. QED
  BY <1>3, <1>4

LEMMA WorkLeads ==
  ASSUME SagaInv, NEW m \in BagToSet(net), NEW out \in OutcomeNames,
         \/ WorkerAcknowledges(m, out)
         \/ WorkerFaults(m, out)
         \/ \E finished \in BOOLEAN : WorkerCrashes(m, out, finished)
  PROVE  Leads(m, TRUE, out)
<1>1. m \in Message /\ IsABag(net) /\ TypeOK
  BY InFlightFact DEF SagaInv, TypeOK
<1>2. Work(m, out)
  BY DEF WorkerAcknowledges, WorkerFaults, WorkerCrashes
<1>3. /\ m.queue # SagaQueue /\ out \in Outcomes(m) /\ HasConsumer(m)
      /\ saga' = saga /\ source' = source
  <2>1. m.queue \in WorkerQueues /\ out \in Outcomes(m) /\ UNCHANGED <<saga, ledger>>
    BY <1>1, <1>2, WorkFact
  <2>2. QED
    BY <2>1, QueueFact DEF HasConsumer, ledger
<1>4. out # "none"
  BY <1>3 DEF Outcomes
<1>5. SUFFICES ASSUME NEW S,
                      \A n \in BagToSet(net) : n # m => n \in BagToSet(net'),
                      S \subseteq BagToSet(net'),
                      BagToSet(net') \subseteq BagToSet(net) \cup S,
                      \A n \in S : \/ n \in Published(m)
                                   \/ /\ n \in Faults(m)
                                      /\ <<m.queue, m.kind, m.order>> \in errorQueue',
                      errorQueue \subseteq errorQueue', skipped \subseteq skipped',
                      NEW done, Record(m, done),
                      \/ m \in BagToSet(net')
                      \/ <<m.queue, m.kind, m.order>> \in errorQueue'
                      \/ <<m.kind, m.order>> \in skipped'
                      \/ Published(m) \subseteq S /\ done
               PROVE  Leads(m, TRUE, out)
  <2>1. \A S : /\ S \subseteq BagToSet(Replace(net, m, S))
               /\ \A n \in BagToSet(net) : n # m => n \in BagToSet(Replace(net, m, S))
               /\ BagToSet(Replace(net, m, S)) \subseteq BagToSet(net) \cup S
    BY <1>1, ReplaceKeeps
  <2>2. CASE WorkerAcknowledges(m, out)
    <3> DEFINE S == Outbox(m, out)
               done == (out = "publishes")
    <3>1. /\ net' = Replace(net, m, S) /\ Record(m, done)
          /\ UNCHANGED errorQueue /\ skipped' = skipped \cup Skips(m, out)
          /\ out # "throws"
      BY <2>2 DEF WorkerAcknowledges
    <3>2. \A n \in S : n \in Published(m)
      BY DEF Outbox
    <3>3. \/ <<m.kind, m.order>> \in skipped'
          \/ Published(m) \subseteq S /\ done
      <4>1. out \in {"publishes", "skips"}
        BY <1>4, <3>1 DEF OutcomeNames
      <4>2. CASE out = "publishes"
        BY <4>2 DEF Outbox
      <4>3. CASE out = "skips"
        BY <3>1, <4>3 DEF Skips
      <4>4. QED
        BY <4>1, <4>2, <4>3
    <3> HIDE DEF S, done
    <3>4. QED
      BY <1>5, <2>1, <3>1, <3>2, <3>3
  <2>3. CASE WorkerFaults(m, out)
    <3>1. /\ net' = Replace(net, m, Faults(m)) /\ UNCHANGED skipped
          /\ errorQueue' = errorQueue \cup {<<m.queue, m.kind, m.order>>}
          /\ UNCHANGED <<billed, dispatched>>
      BY <2>3 DEF WorkerFaults, DeadLetter
    <3>2. Record(m, FALSE)
      BY <3>1 DEF Record
    <3>3. QED
      BY <1>5, <2>1, <3>1, <3>2
  <2>4. CASE \E finished \in BOOLEAN : WorkerCrashes(m, out, finished)
    <3>1. PICK finished \in BOOLEAN : WorkerCrashes(m, out, finished)
      BY <2>4
    <3> DEFINE ok == out # "throws"
               sent == IF finished THEN Emits(m, ok, out) ELSE {}
               done == finished /\ out = "publishes"
    <3>2. /\ net' = Send(net, sent) /\ UNCHANGED skipped /\ Record(m, done)
          /\ errorQueue' = IF finished /\ ~ok
                           THEN errorQueue \cup {<<m.queue, m.kind, m.order>>}
                           ELSE errorQueue
      BY <3>1 DEF WorkerCrashes, DeadLetter
    <3>3. \A x \in sent : \/ x \in Published(m)
                          \/ /\ x \in Faults(m)
                             /\ <<m.queue, m.kind, m.order>> \in errorQueue'
      BY <3>2 DEF Emits, Outbox
    <3> HIDE DEF sent, done
    <3>4. BagToSet(net') = BagToSet(net) \cup sent
      BY <1>1, <3>2, SendBag
    <3>5. errorQueue \subseteq errorQueue'
      BY <3>2
    <3>6. QED
      BY <1>5, <3>2, <3>3, <3>4, <3>5
  <2>5. QED
    BY <2>2, <2>3, <2>4
<1>6. SameEvent(m, m)
  BY DEF SameEvent
<1>7. /\ \A o \in Orders : dispatched[o] > 0 => dispatched'[o] > 0
      /\ done /\ m.kind = "DispatchOrder" => dispatched'[m.order] > 0
  BY <1>5, RecordFact
<1>8. Fate(m, TRUE, out)
  <2>1. CASE m \in BagToSet(net')
    BY <1>6, <2>1 DEF Fate
  <2>2. CASE <<m.queue, m.kind, m.order>> \in errorQueue' \/ <<m.kind, m.order>> \in skipped'
    BY <2>2 DEF Fate
  <2>3. CASE Published(m) \subseteq S /\ done
    BY <1>3, <1>5, <1>7, <2>3 DEF Fate
  <2>4. QED
    BY <1>5, <2>1, <2>2, <2>3
<1>9. \A n \in BagToSet(net') :
        n.kind = "BillOrderFault" =>
          \/ n \in BagToSet(net)
          \/ SameEvent(n, m)
          \/ /\ m.kind = "BillOrder" /\ n.order = m.order
             /\ <<m.queue, m.kind, m.order>> \in errorQueue'
  BY <1>1, <1>5, FaultsTraced
<1>10. QED
  BY <1>3, <1>5, <1>7, <1>8, <1>9 DEF Leads

(***************************************************************************)
(* An order of which no step was given up goes on.                         *)
(***************************************************************************)

LEMMA StopsFact ==
  ASSUME NEW m \in Message, m.kind # "OrderCanceled",
         \/ <<m.queue, m.kind, m.order>> \in errorQueue
         \/ <<m.kind, m.order>> \in skipped
  PROVE  Stops(m.order) # {}
<1>1. m.queue \in Queues /\ m.kind \in Kinds \ {"OrderCanceled"}
  BY DEF Message
<1>2. m.kind \in Stops(m.order)
  BY <1>1 DEF Stops
<1>3. QED
  BY <1>2

LEMMA StopsAfter ==
  ASSUME NEW m \in Message, m.kind # "OrderCanceled",
         \/ <<m.queue, m.kind, m.order>> \in errorQueue'
         \/ <<m.kind, m.order>> \in skipped'
  PROVE  Stops(m.order)' # {}
<1>1. m.queue \in Queues /\ m.kind \in Kinds \ {"OrderCanceled"}
  BY DEF Message
<1>2. m.kind \in Stops(m.order)'
  BY <1>1 DEF Stops
<1>3. QED
  BY <1>2

LEMMA StopsGrow ==
  ASSUME errorQueue \subseteq errorQueue', skipped \subseteq skipped', NEW o
  PROVE  Stops(o) \subseteq Stops(o)'
  BY DEF Stops

LEMMA PublishedWaits ==
  ASSUME NEW m, Published(m) \subseteq BagToSet(net'),
         NEW k \in Continuations(m.kind), NEW q \in Subscribers[k]
  PROVE  Waits(k, q, m.order)'
<1> DEFINE n == [queue |-> q, kind |-> k, order |-> m.order, corr |-> m.corr,
                 valid |-> TRUE, tries |-> 0]
<1>1. n \in Publish(k, m.order, m.corr, TRUE)
  BY DEF Publish
<1>2. n \in Published(m)
  BY <1>1 DEF Published
<1>3. n \in BagToSet(net') /\ n.kind = k /\ n.queue = q /\ n.order = m.order
  BY <1>2
<1> HIDE DEF n
<1>4. QED
  BY <1>3 DEF Waits

\* Unless a step of the order is given up, a message about it waits on, or is
\* the one delivered and has led to what follows it.
LeadsOn(m, commit, out, k, q, o) ==
  \/ Waits(k, q, o)'
  \/ /\ m.kind = k /\ m.queue = q /\ m.order = o
     /\ \/ /\ HasConsumer(m) /\ Published(m) \subseteq BagToSet(net')
           /\ k = "DispatchOrder" => dispatched'[o] > 0
        \/ ~HasConsumer(m) /\ Succeeds(m, commit, out)

LEMMA WaitingLeadsOn ==
  ASSUME SagaInv, NEW m, NEW commit, NEW out, Leads(m, commit, out), NEW o,
         Stops(o)' = {}, NEW k, k # "OrderCanceled", NEW q, Waits(k, q, o)
  PROVE  LeadsOn(m, commit, out, k, q, o)
<1>1. PICK w \in BagToSet(net) : w.kind = k /\ w.queue = q /\ w.order = o
  BY DEF Waits
<1>2. CASE w # m
  <2>1. w \in BagToSet(net')
    BY <1>2 DEF Leads
  <2>2. QED
    BY <1>1, <2>1 DEF Waits, LeadsOn
<1>3. CASE w = m
  <2>1. m \in Message /\ m \in BagToSet(net)
    BY <1>3, InFlightFact
  <2>2. m.kind = k /\ m.queue = q /\ m.order = o
    BY <1>1, <1>3
  <2>3. Fate(m, commit, out)
    BY DEF Leads
  <2>4. CASE \E n \in BagToSet(net') : SameEvent(n, m)
    BY <2>2, <2>4 DEF SameEvent, Waits, LeadsOn
  <2>5. ~(<<m.queue, m.kind, m.order>> \in errorQueue' \/ <<m.kind, m.order>> \in skipped')
    BY <2>1, <2>2, StopsAfter
  <2>6. QED
    BY <2>2, <2>3, <2>4, <2>5 DEF Fate, LeadsOn
<1>4. QED
  BY <1>2, <1>3

\* What the consumers of the chain leave waiting.
LEMMA NextInChain ==
  ASSUME NEW m \in Message, Published(m) \subseteq BagToSet(net')
  PROVE  /\ m.kind = "OrderPlaced" => Waits("BillOrder", BillingQueue, m.order)'
         /\ m.kind = "BillOrder" => Waits("OrderPaid", SagaQueue, m.order)'
         /\ m.kind = "OrderPaid" => /\ Waits("DispatchOrder", DeliveryQueue, m.order)'
                                    /\ Waits("DispatchOrder", SagaQueue, m.order)'
<1>1. m.kind \in Kinds
  BY DEF Message
<1>2. /\ m.kind = "OrderPlaced" => "BillOrder" \in Continuations(m.kind)
      /\ m.kind = "BillOrder" => "OrderPaid" \in Continuations(m.kind)
      /\ m.kind = "OrderPaid" => "DispatchOrder" \in Continuations(m.kind)
  BY <1>1, ContinuationSets
<1>3. /\ BillingQueue \in Subscribers["BillOrder"]
      /\ SagaQueue \in Subscribers["OrderPaid"]
      /\ DeliveryQueue \in Subscribers["DispatchOrder"]
      /\ SagaQueue \in Subscribers["DispatchOrder"]
  BY BoundQueues
<1>4. QED
  BY <1>2, <1>3, PublishedWaits

LEMMA ChainConsumed ==
  /\ BillingQueue # SagaQueue /\ DeliveryQueue # SagaQueue
  /\ "OrderPlaced" \in ConsumedAtSaga /\ "OrderPaid" \in ConsumedAtSaga
  BY QueueFact DEF ConsumedAtSaga

LEMMA PaymentGoesOn ==
  ASSUME SagaInv, NEW m, NEW commit, NEW out, Leads(m, commit, out), NEW o,
         Stops(o)' = {}, PaymentAhead(o)
  PROVE  \/ PaymentAhead(o)'
         \/ /\ Waits("DispatchOrder", DeliveryQueue, o)'
            /\ Waits("DispatchOrder", SagaQueue, o)'
<1>1. m \in Message
  BY InFlightFact DEF Leads
<1>2. CASE Waits("OrderPlaced", SagaQueue, o)
  <2>1. LeadsOn(m, commit, out, "OrderPlaced", SagaQueue, o)
    BY <1>2, WaitingLeadsOn
  <2>2. QED
    BY <1>1, <2>1, NextInChain, ChainConsumed DEF LeadsOn, PaymentAhead, HasConsumer
<1>3. CASE Waits("BillOrder", BillingQueue, o)
  <2>1. LeadsOn(m, commit, out, "BillOrder", BillingQueue, o)
    BY <1>3, WaitingLeadsOn
  <2>2. QED
    BY <1>1, <2>1, NextInChain, ChainConsumed DEF LeadsOn, PaymentAhead, HasConsumer
<1>4. CASE Waits("OrderPaid", SagaQueue, o)
  <2>1. LeadsOn(m, commit, out, "OrderPaid", SagaQueue, o)
    BY <1>4, WaitingLeadsOn
  <2>2. QED
    BY <1>1, <2>1, NextInChain, ChainConsumed DEF LeadsOn, PaymentAhead, HasConsumer
<1>5. QED
  BY <1>2, <1>3, <1>4 DEF PaymentAhead

LEMMA DispatchGoesOn ==
  ASSUME SagaInv, NEW m, NEW commit, NEW out, Leads(m, commit, out), NEW o,
         Stops(o)' = {}, Waits("DispatchOrder", DeliveryQueue, o)
  PROVE  Waits("DispatchOrder", DeliveryQueue, o)' \/ dispatched'[o] > 0
<1>1. LeadsOn(m, commit, out, "DispatchOrder", DeliveryQueue, o)
  BY WaitingLeadsOn
<1>2. QED
  BY <1>1, ChainConsumed DEF LeadsOn, HasConsumer

\* The saga has an instance when DispatchOrder reaches it, and then takes it
\* in the state OrderPaid only.
LEMMA RecordGoesOn ==
  ASSUME SagaInv, NEW m, NEW commit, NEW out, Leads(m, commit, out), NEW o \in Orders,
         Stops(o)' = {}, Waits("DispatchOrder", SagaQueue, o)
  PROVE  Waits("DispatchOrder", SagaQueue, o)' \/ saga'[o] = "OrderWaitingToBeDispatched"
<1>1. LeadsOn(m, commit, out, "DispatchOrder", SagaQueue, o)
  BY WaitingLeadsOn
<1>2. CASE Waits("DispatchOrder", SagaQueue, o)'
  BY <1>2
<1>3. CASE ~Waits("DispatchOrder", SagaQueue, o)'
  <2>1. m \in Message /\ m \in BagToSet(net) /\ Justified(m)
    BY InFlightFact DEF Leads
  <2>2. m.kind = "DispatchOrder" /\ m.queue = SagaQueue /\ m.order = o
    BY <1>1, <1>3 DEF LeadsOn
  <2>3. ~HasConsumer(m)
    BY <2>2 DEF HasConsumer, ConsumedAtSaga
  <2>4. Succeeds(m, commit, out)
    BY <1>1, <1>3, <2>3 DEF LeadsOn
  <2>5. commit = "answered" /\ ~Rejects(StateOf(m.corr), m.kind)
    BY <2>4 DEF Succeeds
  <2>6. m.corr = o /\ StateOf(m.corr) = saga[o] /\ saga[o] # "None" /\ saga[o] \in SagaStates
    <3>1. m.corr = o /\ billed[o] > 0
      BY <2>1, <2>2 DEF Justified
    <3>2. QED
      BY <3>1 DEF StateOf, SagaInv, SagaNeverAhead, TypeOK
  <2>7. Accepts(saga[o], "DispatchOrder")
    BY <2>2, <2>5, <2>6 DEF Rejects, Tolerates, Ignored
  <2>8. PICK t \in Targets(saga[o], "DispatchOrder") : saga' = [saga EXCEPT ![o] = t]
    <3>1. MoveSaga(m, commit)
      BY <2>2 DEF Leads
    <3>2. QED
      BY <2>2, <2>5, <2>6, <2>7, <3>1 DEF MoveSaga
  <2>9. t = "OrderWaitingToBeDispatched"
    BY DEF Targets, Transitions
  <2>10. QED
    BY <2>8, <2>9 DEF SagaInv, TypeOK
<1>4. QED
  BY <1>2, <1>3

\* What the record says of the order once it waits for its dispatch, and when
\* it may say that billing failed.
LEMMA RecordStays ==
  ASSUME SagaInv, NEW m, NEW commit, NEW out, Leads(m, commit, out), NEW o \in Orders
  PROVE  /\ saga[o] \in {"OrderWaitingToBeDispatched", "OrderDispatched"}
              => saga'[o] \in {"OrderWaitingToBeDispatched", "OrderDispatched"}
         /\ saga'[o] = "OrderFailedToBeBilled" =>
              saga[o] = "OrderFailedToBeBilled" \/ About("BillOrderFault", o)
<1>1. m \in BagToSet(net)
  BY DEF Leads
<1>2. CASE UNCHANGED saga
  BY <1>2
<1>3. CASE MoveSaga(m, commit) /\ saga' # saga
  <2>1. /\ m.corr \in Orders /\ m.order \in Orders
        /\ m.kind = "OrderCanceled" \/ m.corr = m.order
        /\ \E t \in SagaStates \ {"None"} :
             /\ <<saga[m.corr], m.kind, t>> \in Transitions
             /\ saga' = [saga EXCEPT ![m.corr] = t]
    BY <1>1, <1>3, MoveFact
  <2>2. PICK t \in SagaStates \ {"None"} :
          /\ <<saga[m.corr], m.kind, t>> \in Transitions
          /\ saga' = [saga EXCEPT ![m.corr] = t]
    BY <2>1
  <2>3. CASE m.corr # o
    BY <2>2, <2>3
  <2>4. CASE m.corr = o
    <3>1. saga'[o] = t /\ <<saga[o], m.kind, t>> \in Transitions
      BY <2>2, <2>4 DEF SagaInv, TypeOK
    <3>2. /\ saga[o] = "OrderWaitingToBeDispatched" => t = "OrderDispatched"
          /\ saga[o] # "OrderDispatched"
          /\ t = "OrderFailedToBeBilled" => m.kind = "BillOrderFault"
      BY <2>2, <3>1 DEF Transitions
    <3>3. m.kind = "BillOrderFault" => About("BillOrderFault", o)
      BY <1>1, <2>1, <2>4 DEF About
    <3>4. QED
      BY <3>1, <3>2, <3>3
  <2>5. QED
    BY <2>3, <2>4
<1>4. QED
  BY <1>2, <1>3 DEF Leads

\* A delivery keeps every part of the invariant.
LEMMA LeadsStall ==
  ASSUME SagaInv, StallInv, NEW m, NEW commit, NEW out, Leads(m, commit, out)
  PROVE  StallInv'
<1>1. SUFFICES ASSUME NEW o \in Orders
               PROVE  /\ About("BillOrderFault", o)' \/ saga'[o] = "OrderFailedToBeBilled"
                           => Stops(o)' # {}
                      /\ source'[o] # "none" /\ Stops(o)' = {} =>
                           /\ \/ PaymentAhead(o)'
                              \/ Waits("DispatchOrder", DeliveryQueue, o)'
                              \/ dispatched'[o] > 0
                           /\ \/ PaymentAhead(o)'
                              \/ Waits("DispatchOrder", SagaQueue, o)'
                              \/ saga'[o] \in {"OrderWaitingToBeDispatched", "OrderDispatched"}
  BY DEF StallInv
<1>2. Stops(o) \subseteq Stops(o)'
  BY StopsGrow DEF Leads
<1>3. About("BillOrderFault", o) \/ saga[o] = "OrderFailedToBeBilled" => Stops(o) # {}
  BY DEF StallInv
<1>4. About("BillOrderFault", o)' => Stops(o)' # {}
  <2>1. SUFFICES ASSUME NEW n \in BagToSet(net'), n.kind = "BillOrderFault", n.order = o
                 PROVE  Stops(o)' # {}
    BY DEF About
  <2>2. CASE n \in BagToSet(net)
    BY <1>2, <1>3, <2>1, <2>2 DEF About
  <2>3. CASE SameEvent(n, m)
    <3>1. m \in BagToSet(net) /\ m.kind = "BillOrderFault" /\ m.order = o
      BY <2>1, <2>3 DEF Leads, SameEvent
    <3>2. QED
      BY <1>2, <1>3, <3>1 DEF About
  <2>4. CASE /\ m.kind = "BillOrder" /\ n.order = m.order
             /\ <<m.queue, m.kind, m.order>> \in errorQueue'
    <3>1. m \in Message
      BY InFlightFact DEF Leads
    <3>2. QED
      BY <2>1, <2>4, <3>1, StopsAfter
  <2>5. QED
    BY <2>1, <2>2, <2>3, <2>4 DEF Leads
<1>5. saga'[o] = "OrderFailedToBeBilled" => Stops(o)' # {}
  BY <1>2, <1>3, RecordStays
<1>6. ASSUME source'[o] # "none", Stops(o)' = {}
      PROVE  /\ \/ PaymentAhead(o)'
                \/ Waits("DispatchOrder", DeliveryQueue, o)'
                \/ dispatched'[o] > 0
             /\ \/ PaymentAhead(o)'
                \/ Waits("DispatchOrder", SagaQueue, o)'
                \/ saga'[o] \in {"OrderWaitingToBeDispatched", "OrderDispatched"}
  <2>1. source[o] # "none" /\ Stops(o) = {}
    BY <1>2, <1>6 DEF Leads
  <2>2. /\ PaymentAhead(o) \/ Waits("DispatchOrder", DeliveryQueue, o) \/ dispatched[o] > 0
        /\ \/ PaymentAhead(o) \/ Waits("DispatchOrder", SagaQueue, o)
           \/ saga[o] \in {"OrderWaitingToBeDispatched", "OrderDispatched"}
    BY <2>1 DEF StallInv
  <2>3. dispatched[o] > 0 => dispatched'[o] > 0
    BY DEF Leads
  <2>4. QED
    BY <1>6, <2>2, <2>3, PaymentGoesOn, DispatchGoesOn, RecordGoesOn, RecordStays
<1>7. QED
  BY <1>4, <1>5, <1>6

\* An order just placed waits at the saga; a cancel request changes nothing
\* here.
LEMMA OutsideStall ==
  ASSUME SagaInv, StallInv, NEW S, BagToSet(net') = BagToSet(net) \cup S,
         \A n \in S : n.kind # "BillOrderFault",
         UNCHANGED <<saga, dispatched, errorQueue, skipped>>,
         \A o \in Orders : source'[o] # source[o] => Waits("OrderPlaced", SagaQueue, o)'
  PROVE  StallInv'
<1>1. \A o : Stops(o)' = Stops(o)
  BY DEF Stops
<1>2. \A o : About("BillOrderFault", o)' => About("BillOrderFault", o)
  BY DEF About
<1>3. \A k, q, o : Waits(k, q, o) => Waits(k, q, o)'
  BY DEF Waits
<1>4. \A o : PaymentAhead(o) => PaymentAhead(o)'
  BY <1>3 DEF PaymentAhead
<1>5. \A o : Waits("OrderPlaced", SagaQueue, o)' => PaymentAhead(o)'
  BY DEF PaymentAhead
<1>6. SUFFICES ASSUME NEW o \in Orders
               PROVE  /\ About("BillOrderFault", o)' \/ saga'[o] = "OrderFailedToBeBilled"
                           => Stops(o)' # {}
                      /\ source'[o] # "none" /\ Stops(o)' = {} =>
                           /\ \/ PaymentAhead(o)'
                              \/ Waits("DispatchOrder", DeliveryQueue, o)'
                              \/ dispatched'[o] > 0
                           /\ \/ PaymentAhead(o)'
                              \/ Waits("DispatchOrder", SagaQueue, o)'
                              \/ saga'[o] \in {"OrderWaitingToBeDispatched", "OrderDispatched"}
  BY DEF StallInv
<1>7. /\ About("BillOrderFault", o) \/ saga[o] = "OrderFailedToBeBilled" => Stops(o) # {}
      /\ source[o] # "none" /\ Stops(o) = {} =>
           /\ PaymentAhead(o) \/ Waits("DispatchOrder", DeliveryQueue, o) \/ dispatched[o] > 0
           /\ \/ PaymentAhead(o) \/ Waits("DispatchOrder", SagaQueue, o)
              \/ saga[o] \in {"OrderWaitingToBeDispatched", "OrderDispatched"}
  BY DEF StallInv
<1>8. CASE source'[o] = source[o]
  BY <1>1, <1>2, <1>3, <1>4, <1>7, <1>8
<1>9. CASE source'[o] # source[o]
  BY <1>1, <1>2, <1>5, <1>7, <1>9
<1>10. QED
  BY <1>8, <1>9

LEMMA StallInit == Init => StallInv
<1> SUFFICES ASSUME Init PROVE StallInv
  OBVIOUS
<1>1. BagToSet(net) = {}
  BY DEF Init, EmptyBag, SetToBag, BagToSet
<1>2. \A o \in Orders : saga[o] = "None" /\ source[o] = "none"
  BY DEF Init
<1>3. QED
  BY <1>1, <1>2 DEF StallInv, About

LEMMA StallStep == SagaInv /\ StallInv /\ [Next]_vars => StallInv'
<1> SUFFICES ASSUME SagaInv, StallInv, [Next]_vars PROVE StallInv'
  OBVIOUS
<1>1. ASSUME NEW o \in Orders, NEW p \in Publishers, PublishOrderPlaced(o, p)
      PROVE  StallInv'
  <2> DEFINE S == Publish("OrderPlaced", o, o, p = "PlaceOrder")
             n == [queue |-> SagaQueue, kind |-> "OrderPlaced", order |-> o,
                   corr |-> o, valid |-> (p = "PlaceOrder"), tries |-> 0]
  <2>1. /\ net' = Send(net, S) /\ source' = [source EXCEPT ![o] = p]
        /\ UNCHANGED <<saga, dispatched, errorQueue, skipped>>
    BY <1>1 DEF PublishOrderPlaced, traces
  <2>2. n \in S /\ \A x \in S : x.kind # "BillOrderFault"
    BY BoundQueues DEF Publish
  <2>3. n.kind = "OrderPlaced" /\ n.queue = SagaQueue /\ n.order = o
    OBVIOUS
  <2> HIDE DEF S, n
  <2>4. IsABag(net)
    BY DEF SagaInv, TypeOK
  <2>5. BagToSet(net') = BagToSet(net) \cup S
    BY <2>1, <2>4, SendBag
  <2>6. Waits("OrderPlaced", SagaQueue, o)'
    BY <2>2, <2>3, <2>5 DEF Waits
  <2>7. \A w \in Orders : source'[w] # source[w] => w = o
    BY <2>1 DEF SagaInv, TypeOK
  <2>8. QED
    BY <2>1, <2>2, <2>5, <2>6, <2>7, OutsideStall
<1>2. ASSUME NEW o \in Orders, NEW id \in CancelIds, PublishOrderCanceled(o, id)
      PROVE  StallInv'
  <2> DEFINE S == Publish("OrderCanceled", o, IF id = "placed" THEN o ELSE Fresh, FALSE)
  <2>1. /\ net' = Send(net, S) /\ UNCHANGED <<source, saga, dispatched, errorQueue, skipped>>
    BY <1>2 DEF PublishOrderCanceled, traces
  <2>2. \A x \in S : x.kind # "BillOrderFault"
    BY DEF Publish
  <2> HIDE DEF S
  <2>3. IsABag(net)
    BY DEF SagaInv, TypeOK
  <2>4. BagToSet(net') = BagToSet(net) \cup S
    BY <2>1, <2>3, SendBag
  <2>5. QED
    BY <2>1, <2>2, <2>4, OutsideStall
<1>3. CASE Deliver
  <2>1. PICK m \in BagToSet(net) : SagaDelivers(m) \/ WorkerDelivers(m)
    BY <1>3 DEF Deliver
  <2>2. CASE SagaDelivers(m)
    <3>1. PICK commit \in Commits, out \in OutcomeNames :
            \/ SagaAcknowledges(m, commit, out)
            \/ SagaRetries(m, commit, out)
            \/ SagaGivesUp(m, commit, out)
      BY <2>2 DEF SagaDelivers
    <3>2. QED
      BY <3>1, SagaLeads, LeadsStall
  <2>3. CASE WorkerDelivers(m)
    <3>1. PICK out \in OutcomeNames : WorkerAcknowledges(m, out) \/ WorkerFaults(m, out)
      BY <2>3 DEF WorkerDelivers
    <3>2. QED
      BY <3>1, WorkLeads, LeadsStall
  <2>4. QED
    BY <2>1, <2>2, <2>3
<1>4. CASE \E m \in BagToSet(net) : Crash(m)
  <2>1. PICK m \in BagToSet(net) : Crash(m)
    BY <1>4
  <2>2. PICK out \in OutcomeNames, finished \in BOOLEAN :
          \/ \E commit \in Commits : SagaCrashes(m, commit, out, finished)
          \/ WorkerCrashes(m, out, finished)
    BY <2>1 DEF Crash
  <2>3. CASE \E commit \in Commits : SagaCrashes(m, commit, out, finished)
    BY <2>3, SagaLeads, LeadsStall
  <2>4. CASE WorkerCrashes(m, out, finished)
    BY <2>4, WorkLeads, LeadsStall
  <2>5. QED
    BY <2>2, <2>3, <2>4
<1>5. CASE UNCHANGED vars
  BY <1>5 DEF vars, ledger, traces, StallInv, About, Stops, PaymentAhead, Waits
<1>6. QED
  BY <1>1, <1>2, <1>3, <1>4, <1>5 DEF Next

\* An order of which no step was given up always has ahead of it, in one of the
\* queues, the delivery that leads on to its dispatch and the one that leads on
\* its record (the consumers of the orchestrator, Payment and Delivery).
THEOREM StallInvariant == Safety => []StallInv
<1>1. Init => SagaInv /\ StallInv
  BY SagaInvInit, StallInit
<1>2. (SagaInv /\ StallInv) /\ [Next]_vars => (SagaInv /\ StallInv)'
  BY SagaInvStep, StallStep
<1>3. QED
  BY <1>1, <1>2, PTL DEF Safety

\* When the queues of the workflow are empty, an order placed with a token was
\* dispatched or one of its steps is on an error queue or was skipped: retries,
\* crashes and lost calls stop no order unseen.
THEOREM StallsTraced == Safety => []StallsLeaveATrace
<1>1. StallInv => StallsLeaveATrace
  <2> SUFFICES ASSUME StallInv, NEW o \in Orders, Quiescent, source[o] = "PlaceOrder",
                      Stops(o) = {}
               PROVE  /\ dispatched[o] > 0
                      /\ saga[o] \in {"OrderDispatched", "OrderWaitingToBeDispatched"}
    BY DEF StallsLeaveATrace
  <2>1. \A k, q : Waits(k, q, o) => q \in OrderingQueues
    BY DEF Waits, Quiescent
  <2>2. ~PaymentAhead(o) /\ \A q \in {SagaQueue, DeliveryQueue} : ~Waits("DispatchOrder", q, o)
    BY <2>1, QueueFact DEF PaymentAhead
  <2>3. QED
    BY <2>2 DEF StallInv
<1>2. QED
  BY <1>1, StallInvariant, PTL

(***************************************************************************)
(* The attempts that copies of messages can come to.                       *)
(***************************************************************************)
Granted == Retries + 1

\* The part of AttemptsLeft that the copies of T make.
Spread(T) == UNION {{c} \X (1..Attempts(c[1])) : c \in T}

Load(c) == {c} \X (1..Attempts(c[1]))

LEMMA LoadFact ==
  ASSUME NEW c, NEW n \in Nat, Attempts(c[1]) \in Int, Attempts(c[1]) <= n
  PROVE  /\ IsFiniteSet(Load(c))
         /\ Cardinality(Load(c)) \in Nat /\ Cardinality(Load(c)) <= n
         /\ Attempts(c[1]) \in Nat => Cardinality(Load(c)) = Attempts(c[1])
<1> DEFINE a == Attempts(c[1])
<1>1. /\ IsFiniteSet(1..a)
      /\ Cardinality(1..a) = IF 1 > a THEN 0 ELSE a - 1 + 1
  BY FS_Interval
<1>2. IsFiniteSet({c}) /\ Cardinality({c}) = 1
  BY FS_Singleton
<1>3. /\ IsFiniteSet({c} \X (1..a))
      /\ Cardinality({c} \X (1..a)) = Cardinality({c}) * Cardinality(1..a)
  BY <1>1, <1>2, FS_Product
<1>4. a \in Int /\ a <= n
  OBVIOUS
<1>5. Cardinality(1..a) \in Nat
  BY <1>1, <1>4
<1>6. Cardinality({c} \X (1..a)) = Cardinality(1..a)
  BY <1>2, <1>3, <1>5
<1> HIDE DEF a
<1>7. /\ Cardinality({c} \X (1..a)) \in Nat /\ Cardinality({c} \X (1..a)) <= n
      /\ a \in Nat => Cardinality({c} \X (1..a)) = a
  BY <1>1, <1>4, <1>5, <1>6
<1>8. QED
  BY <1>3, <1>7 DEF Load, a

\* One more copy makes no more than its attempts ...
LEMMA SpreadAdd ==
  ASSUME NEW T, IsFiniteSet(Spread(T)), NEW c, NEW n \in Nat,
         Attempts(c[1]) \in Int, Attempts(c[1]) <= n
  PROVE  /\ IsFiniteSet(Spread(T \cup {c}))
         /\ Cardinality(Spread(T \cup {c})) <= Cardinality(Spread(T)) + n
<1>1. Spread(T \cup {c}) = Spread(T) \cup Load(c)
  BY DEF Spread, Load
<1>2. IsFiniteSet(Load(c)) /\ Cardinality(Load(c)) \in Nat /\ Cardinality(Load(c)) <= n
  BY LoadFact
<1>3. /\ IsFiniteSet(Spread(T) \cup Load(c))
      /\ Cardinality(Spread(T) \cup Load(c)) =
           Cardinality(Spread(T)) + Cardinality(Load(c)) - Cardinality(Spread(T) \cap Load(c))
  BY <1>2, FS_Union
<1>4. IsFiniteSet(Spread(T) \cap Load(c))
  BY <1>2, FS_Subset
<1>5. Cardinality(Spread(T)) \in Nat /\ Cardinality(Spread(T) \cap Load(c)) \in Nat
  BY <1>4, FS_CardinalityType
<1> DEFINE s == Cardinality(Spread(T))
           u == Cardinality(Spread(T) \cup Load(c))
           w == Cardinality(Load(c))
           v == Cardinality(Spread(T) \cap Load(c))
<1>6. u = s + w - v /\ s \in Nat /\ v \in Nat /\ w \in Nat /\ w <= n
  BY <1>2, <1>3, <1>5
<1> HIDE DEF s, u, v, w
<1>7. u <= s + n
  BY <1>6
<1>8. QED
  BY <1>1, <1>3, <1>7 DEF s, u

\* ... and one taken away makes fewer by exactly those.
LEMMA SpreadRemove ==
  ASSUME NEW T, IsFiniteSet(Spread(T)), NEW c \in T, Attempts(c[1]) \in Nat
  PROVE  /\ IsFiniteSet(Spread(T \ {c}))
         /\ Cardinality(Spread(T \ {c})) = Cardinality(Spread(T)) - Attempts(c[1])
<1> DEFINE U == Spread(T \ {c})
<1>1. Spread(T) = U \cup Load(c)
  BY DEF Spread, Load
<1>2. U \cap Load(c) = {}
  <2>1. \A x \in U : x[1] # c
    BY DEF Spread
  <2>2. \A x \in Load(c) : x[1] = c
    BY DEF Load
  <2>3. QED
    BY <2>1, <2>2
<1> HIDE DEF U
<1>3. IsFiniteSet(Load(c)) /\ Cardinality(Load(c)) = Attempts(c[1])
  BY LoadFact
<1>4. IsFiniteSet(U)
  BY <1>1, FS_Subset
<1>5. Cardinality(U \cup Load(c)) =
        Cardinality(U) + Cardinality(Load(c)) - Cardinality(U \cap Load(c))
  BY <1>3, <1>4, FS_Union
<1>6. Cardinality(U \cap Load(c)) = 0
  BY <1>2, FS_EmptySet
<1>7. Cardinality(U) \in Nat
  BY <1>4, FS_CardinalityType
<1>8. QED
  BY <1>1, <1>3, <1>4, <1>5, <1>6, <1>7 DEF U

LEMMA LeftIsSpread == \A B : AttemptsLeft(B) = Spread(Copies(B, Message))
  BY DEF AttemptsLeft, Spread

Counted(B) == IsABag(B) /\ IsFiniteSet(AttemptsLeft(B))

\* A delivery taken off its queue uses up its attempts.
LEMMA TakeUses ==
  ASSUME NEW B, Counted(B), NEW m \in BagToSet(B), m \in Message, Attempts(m) \in Nat
  PROVE  /\ Counted(B (-) SetToBag({m}))
         /\ Remaining(B (-) SetToBag({m})) = Remaining(B) - Attempts(m)
<1> DEFINE C == B (-) SetToBag({m})
           c == <<m, B[m]>>
<1>1. IsABag(C) /\ Copies(C, Message) = Copies(B, Message) \ {c}
  BY TakeBag, TakeCopy DEF Counted
<1>2. c \in Copies(B, Message) /\ c[1] = m
  BY CopyBase DEF Counted
<1> HIDE DEF C, c
<1>3. IsFiniteSet(Spread(Copies(B, Message)))
  BY LeftIsSpread DEF Counted
<1>4. /\ IsFiniteSet(Spread(Copies(C, Message)))
      /\ Cardinality(Spread(Copies(C, Message))) =
           Cardinality(Spread(Copies(B, Message))) - Attempts(m)
  BY <1>1, <1>2, <1>3, SpreadRemove
<1>5. QED
  BY <1>1, <1>4, LeftIsSpread DEF Counted, Remaining, C

\* What is sent brings at most its own attempts, and those are of three
\* messages at most: no step sends more that come to any.
LEMMA SendBrings ==
  ASSUME NEW B, Counted(B), NEW S,
         NEW x \in Message, NEW y \in Message, NEW z \in Message,
         NEW a \in Nat, NEW b \in Nat, NEW d \in Nat,
         Attempts(x) \in Int, Attempts(x) <= a,
         Attempts(y) \in Int, Attempts(y) <= b,
         Attempts(z) \in Int, Attempts(z) <= d,
         \A n \in S : n \in {x, y, z} \/ (Attempts(n) \in Int /\ Attempts(n) <= 0)
  PROVE  /\ Counted(Send(B, S))
         /\ Remaining(Send(B, S)) <= Remaining(B) + a + b + d
<1> DEFINE C == Send(B, S)
           T == Copies(B, Message)
           D == {<<n, C[n]>> : n \in S \cap Message}
           cx == <<x, C[x]>>
           cy == <<y, C[y]>>
           cz == <<z, C[z]>>
           V == ((T \cup {cx}) \cup {cy}) \cup {cz}
<1>1. IsABag(C) /\ Copies(C, Message) = T \cup D
  BY SendBag, SendCopy DEF Counted
<1>2. Spread(T \cup D) \subseteq Spread(V)
  <2> SUFFICES ASSUME NEW e \in T \cup D, NEW u \in Load(e)
               PROVE  u \in Spread(V)
    BY DEF Spread, Load
  <2>1. Attempts(e[1]) \in Int => Attempts(e[1]) > 0
    BY DEF Load
  <2>2. CASE e \in D
    <3>1. PICK n \in S : e = <<n, C[n]>>
      BY <2>2
    <3>2. n \in {x, y, z}
      BY <2>1, <3>1
    <3>3. e \in V
      BY <3>1, <3>2
    <3>4. QED
      BY <3>3 DEF Spread, Load
  <2>3. CASE e \in T
    BY <2>3 DEF Spread, Load
  <2>4. QED
    BY <2>2, <2>3
<1>3. cx[1] = x /\ cy[1] = y /\ cz[1] = z
  OBVIOUS
<1> HIDE DEF C, T, D, cx, cy, cz
<1>4. IsFiniteSet(Spread(T))
  BY LeftIsSpread DEF Counted, T
<1>5. /\ IsFiniteSet(Spread(T \cup {cx}))
      /\ Cardinality(Spread(T \cup {cx})) <= Cardinality(Spread(T)) + a
  BY <1>3, <1>4, SpreadAdd
<1>6. /\ IsFiniteSet(Spread((T \cup {cx}) \cup {cy}))
      /\ Cardinality(Spread((T \cup {cx}) \cup {cy})) <= Cardinality(Spread(T \cup {cx})) + b
  BY <1>3, <1>5, SpreadAdd
<1>7. /\ IsFiniteSet(Spread(V))
      /\ Cardinality(Spread(V)) <= Cardinality(Spread((T \cup {cx}) \cup {cy})) + d
  BY <1>3, <1>6, SpreadAdd
<1>8. IsFiniteSet(Spread(T \cup D)) /\ Cardinality(Spread(T \cup D)) <= Cardinality(Spread(V))
  BY <1>2, <1>7, FS_Subset
<1> HIDE DEF V
<1>9. /\ Cardinality(Spread(T)) \in Nat /\ Cardinality(Spread(T \cup {cx})) \in Nat
      /\ Cardinality(Spread((T \cup {cx}) \cup {cy})) \in Nat
      /\ Cardinality(Spread(V)) \in Nat /\ Cardinality(Spread(T \cup D)) \in Nat
  BY <1>4, <1>5, <1>6, <1>7, <1>8, FS_CardinalityType
<1>10. Cardinality(Spread(T \cup D)) <= Cardinality(Spread(T)) + a + b + d
  BY <1>5, <1>6, <1>7, <1>8, <1>9
<1>11. QED
  BY <1>1, <1>8, <1>10, LeftIsSpread DEF Counted, Remaining, C, T

LEMMA RemainingType ==
  ASSUME NEW B, Counted(B)
  PROVE  Remaining(B) \in Nat
  BY FS_CardinalityType DEF Counted, Remaining

(***************************************************************************)
(* What each message can come to.                                          *)
(***************************************************************************)
\* The attempts of what a message of kind k leads to, without its own.
Ahead(k) == Granted * (Deliveries[k] - 1)

ForOrdering == {"NotifyOrderPaid", "NotifyOrderDispatched", "NotifyOrderDelivered",
                "OrderFailedToBeBilled"}

LEMMA DeliveriesFact ==
  ASSUME NEW k \in Kinds
  PROVE  /\ Deliveries[k] \in Nat
         /\ k \in ForOrdering => Deliveries[k] = 0
         /\ k \notin ForOrdering =>
              /\ Ahead(k) \in Nat /\ Ahead(k) <= 12 * Granted
              /\ Granted * Deliveries[k] = Ahead(k) + Granted
<1>1. Granted \in Nat /\ Granted > 0
  BY RetriesAssumption DEF Granted
<1>2. /\ Deliveries[k] \in Nat
      /\ k \in ForOrdering => Deliveries[k] = 0
      /\ k \notin ForOrdering => Deliveries[k] \in {1, 2, 5, 6, 13}
  BY DEF Kinds, Deliveries, ForOrdering
<1>3. ASSUME NEW d \in {1, 2, 5, 6, 13}
      PROVE  /\ Granted * (d - 1) \in Nat /\ Granted * (d - 1) <= 12 * Granted
             /\ Granted * d = Granted * (d - 1) + Granted
  BY <1>1
<1>4. QED
  BY <1>2, <1>3 DEF Ahead

\* A message of the workflow has one attempt ahead at least, one of Ordering's
\* none.
LEMMA AttemptsFact ==
  ASSUME NEW m \in Message
  PROVE  /\ m.tries \in 0..Retries /\ m.kind \in Kinds /\ Attempts(m) \in Int
         /\ m.kind \in ForOrdering => Attempts(m) <= 0
         /\ m.kind \notin ForOrdering =>
              /\ Attempts(m) = Ahead(m.kind) + Granted - m.tries
              /\ Attempts(m) \in Nat /\ Attempts(m) > 0
<1>1. m.tries \in 0..Retries /\ m.kind \in Kinds
  BY DEF Message
<1>2. Granted \in Nat /\ Granted = Retries + 1 /\ Retries \in Nat
  BY RetriesAssumption DEF Granted
<1>3. Attempts(m) = Granted * Deliveries[m.kind] - m.tries
  BY DEF Attempts, Granted
<1>4. CASE m.kind \in ForOrdering
  <2>1. Deliveries[m.kind] = 0
    BY <1>1, <1>4, DeliveriesFact
  <2>2. Attempts(m) = 0 - m.tries
    BY <1>2, <1>3, <2>1
  <2>3. QED
    BY <1>1, <1>4, <2>2
<1>5. CASE m.kind \notin ForOrdering
  <2>1. Ahead(m.kind) \in Nat /\ Granted * Deliveries[m.kind] = Ahead(m.kind) + Granted
    BY <1>1, <1>5, DeliveriesFact
  <2> DEFINE g == Granted * Deliveries[m.kind]
  <2>2. Attempts(m) = g - m.tries /\ g = Ahead(m.kind) + Granted
    BY <1>3, <2>1
  <2> HIDE DEF g
  <2> HIDE DEF Granted
  <2>3. QED
    BY <1>1, <1>2, <1>5, <2>1, <2>2
<1>6. QED
  BY <1>1, <1>4, <1>5

\* What a delivery of m sends, other than m again, comes to less than m did.
Lighter(m, S) ==
  \E x, y \in Message, a, b \in Nat :
    /\ Attempts(x) <= a /\ Attempts(y) <= b /\ a + b <= Ahead(m.kind)
    /\ \A n \in S : n \in Message /\ (n \in {x, y} \/ Attempts(n) <= 0)

Copy(m, k, q, v) ==
  [queue |-> q, kind |-> k, order |-> m.order, corr |-> m.corr, valid |-> v, tries |-> 0]

LEMMA CopyAttempts ==
  ASSUME NEW m \in Message, NEW k \in Kinds, NEW q \in Queues, NEW v \in BOOLEAN
  PROVE  Copy(m, k, q, v) \in Message /\ Attempts(Copy(m, k, q, v)) = Granted * Deliveries[k]
<1>1. 0 \in 0..Retries
  BY RetriesAssumption
<1>2. Copy(m, k, q, v) \in Message
  BY <1>1 DEF Message, Copy
<1>3. Granted * Deliveries[k] \in Int
  BY RetriesAssumption, DeliveriesFact DEF Granted
<1>4. Attempts(Copy(m, k, q, v)) = Granted * Deliveries[k] - 0
  BY DEF Attempts, Copy, Granted
<1>5. QED
  BY <1>2, <1>3, <1>4

LEMMA PublishedCopies ==
  ASSUME NEW m \in Message, NEW n \in Published(m)
  PROVE  /\ n \in Message /\ n.kind \in Continuations(m.kind)
         /\ n.queue \in Subscribers[n.kind] /\ n = Copy(m, n.kind, n.queue, TRUE)
<1>1. /\ n \in Message /\ n.kind \in Continuations(m.kind) /\ n.queue \in Subscribers[n.kind]
  BY PublishedFact
<1>2. PICK k \in Continuations(m.kind) : n \in Publish(k, m.order, m.corr, TRUE)
  BY DEF Published
<1>3. PICK q \in Subscribers[k] :
        n = [queue |-> q, kind |-> k, order |-> m.order, corr |-> m.corr,
             valid |-> TRUE, tries |-> 0]
  BY <1>2 DEF Publish
<1>4. n = Copy(m, n.kind, n.queue, TRUE)
  BY <1>3 DEF Copy
<1>5. QED
  BY <1>1, <1>4

LEMMA PublishedLighter ==
  ASSUME NEW m \in Message, m.kind \notin ForOrdering
  PROVE  Lighter(m, Published(m))
<1> DEFINE P(k, q) == Copy(m, k, q, TRUE)
<1>1. Granted \in Nat /\ m.kind \in Kinds
  BY RetriesAssumption DEF Granted, Message
<1>2. ASSUME NEW n \in Published(m)
      PROVE  /\ n \in Message /\ n.kind \in Continuations(m.kind) /\ n.kind \in Kinds
             /\ n.queue \in Subscribers[n.kind] /\ n = P(n.kind, n.queue)
             /\ n.kind \in ForOrdering => Attempts(n) <= 0
  BY PublishedCopies, AttemptsFact
<1>3. /\ SagaQueue \in Queues /\ BillingQueue \in Queues /\ DeliveryQueue \in Queues
      /\ BillingRollbackQueue \in Queues
  BY DEF Queues, WorkerQueues
<1>4. \A k \in Kinds, q \in Queues :
        P(k, q) \in Message /\ Attempts(P(k, q)) = Granted * Deliveries[k]
  BY CopyAttempts
<1> HIDE DEF P
<1>5. CASE m.kind = "OrderPlaced"
  <2> DEFINE x == P("BillOrder", SagaQueue)
             y == P("BillOrder", BillingQueue)
  <2>1. \A n \in Published(m) : n \in {x, y}
    BY <1>1, <1>2, <1>5, ContinuationSets DEF Subscribers
  <2>2. /\ x \in Message /\ y \in Message
        /\ Attempts(x) = Granted * 6 /\ Attempts(y) = Granted * 6
    BY <1>3, <1>4 DEF Deliveries, Kinds
  <2>3. Granted * 6 \in Nat /\ Granted * 6 + Granted * 6 <= Ahead(m.kind)
    BY <1>1, <1>5 DEF Ahead, Deliveries
  <2> HIDE DEF x, y
  <2>4. QED
    BY <1>2, <2>1, <2>2, <2>3 DEF Lighter
<1>6. CASE m.kind = "OrderPaid"
  <2> DEFINE x == P("DispatchOrder", SagaQueue)
             y == P("DispatchOrder", DeliveryQueue)
  <2>1. \A n \in Published(m) : n \in {x, y} \/ Attempts(n) <= 0
    BY <1>1, <1>2, <1>6, ContinuationSets DEF Subscribers, ForOrdering
  <2>2. /\ x \in Message /\ y \in Message
        /\ Attempts(x) = Granted * 2 /\ Attempts(y) = Granted * 2
    BY <1>3, <1>4 DEF Deliveries, Kinds
  <2>3. Granted * 2 \in Nat /\ Granted * 2 + Granted * 2 <= Ahead(m.kind)
    BY <1>1, <1>6 DEF Ahead, Deliveries
  <2> HIDE DEF x, y
  <2>4. QED
    BY <1>2, <2>1, <2>2, <2>3 DEF Lighter
<1> DEFINE z == P("NotifyOrderPaid", SagaQueue)
<1>7. z \in Message /\ Attempts(z) = Granted * 0
  BY <1>3, <1>4 DEF Deliveries, Kinds
<1>8. Attempts(z) <= 0
  BY <1>1, <1>7
<1> HIDE DEF z
<1>9. ASSUME NEW k \in Kinds, NEW q \in Queues,
             \A n \in Published(m) : n = P(k, q) \/ Attempts(n) <= 0,
             Granted * Deliveries[k] \in Nat, Granted * Deliveries[k] <= Ahead(m.kind)
      PROVE  Lighter(m, Published(m))
  <2> DEFINE a == Granted * Deliveries[k]
             x == P(k, q)
  <2>1. x \in Message /\ Attempts(x) <= a /\ a + 0 <= Ahead(m.kind) /\ a \in Nat
    BY <1>4, <1>9, DeliveriesFact
  <2>2. \A n \in Published(m) : n \in Message /\ (n \in {x, z} \/ Attempts(n) <= 0)
    BY <1>2, <1>9
  <2> HIDE DEF a, x
  <2>3. QED
    BY <1>7, <1>8, <2>1, <2>2 DEF Lighter
<1>10. CASE m.kind = "BillOrder"
  <2>1. \A n \in Published(m) : n = P("OrderPaid", SagaQueue)
    BY <1>1, <1>2, <1>10, ContinuationSets DEF Subscribers
  <2>2. /\ Granted * Deliveries["OrderPaid"] \in Nat
        /\ Granted * Deliveries["OrderPaid"] <= Ahead(m.kind)
    BY <1>1, <1>10 DEF Ahead, Deliveries
  <2>3. QED
    BY <1>3, <1>9, <2>1, <2>2 DEF Kinds
<1>11. CASE m.kind = "DispatchOrder"
  <2>1. \A n \in Published(m) : n = P("OrderDispatched", SagaQueue)
    BY <1>1, <1>2, <1>11, ContinuationSets DEF Subscribers
  <2>2. /\ Granted * Deliveries["OrderDispatched"] \in Nat
        /\ Granted * Deliveries["OrderDispatched"] <= Ahead(m.kind)
    BY <1>1, <1>11 DEF Ahead, Deliveries
  <2>3. QED
    BY <1>3, <1>9, <2>1, <2>2 DEF Kinds
<1>12. CASE m.kind = "OrderCanceled"
  <2>1. \A n \in Published(m) : n = P("RollbackOrderPayment", BillingRollbackQueue)
    BY <1>1, <1>2, <1>12, ContinuationSets DEF Subscribers
  <2>2. /\ Granted * Deliveries["RollbackOrderPayment"] \in Nat
        /\ Granted * Deliveries["RollbackOrderPayment"] <= Ahead(m.kind)
    BY <1>1, <1>12 DEF Ahead, Deliveries
  <2>3. QED
    BY <1>3, <1>9, <2>1, <2>2 DEF Kinds
<1>13. CASE m.kind \in {"OrderDispatched", "OrderDelivered", "BillOrderFault",
                        "RollbackOrderPayment"}
  <2>1. Continuations(m.kind) \subseteq ForOrdering
    BY <1>1, <1>13, ContinuationSets DEF ForOrdering
  <2>2. \A n \in Published(m) : Attempts(n) <= 0
    BY <1>2, <2>1
  <2>3. /\ Granted * Deliveries["NotifyOrderPaid"] \in Nat
        /\ Granted * Deliveries["NotifyOrderPaid"] <= Ahead(m.kind)
    BY <1>1, <1>13 DEF Ahead, Deliveries
  <2>4. QED
    BY <1>3, <1>9, <2>2, <2>3 DEF Kinds
<1>14. QED
  BY <1>1, <1>5, <1>6, <1>10, <1>11, <1>12, <1>13 DEF Kinds, ForOrdering

LEMMA FaultsLighter ==
  ASSUME NEW m \in Message, m.kind \notin ForOrdering
  PROVE  Lighter(m, Faults(m)) /\ Lighter(m, {})
<1> DEFINE z == Copy(m, "NotifyOrderPaid", SagaQueue, TRUE)
           f == Copy(m, "BillOrderFault", SagaQueue, m.valid)
<1>1. Granted \in Nat /\ m.kind \in Kinds /\ m.valid \in BOOLEAN
  BY RetriesAssumption DEF Granted, Message
<1>2. "NotifyOrderPaid" \in Kinds /\ "BillOrderFault" \in Kinds /\ SagaQueue \in Queues
  BY DEF Kinds, Queues
<1>3. /\ z \in Message /\ Attempts(z) = Granted * 0
      /\ f \in Message /\ Attempts(f) = Granted * 1
  <2>1. /\ z \in Message /\ Attempts(z) = Granted * Deliveries["NotifyOrderPaid"]
        /\ f \in Message /\ Attempts(f) = Granted * Deliveries["BillOrderFault"]
    BY <1>1, <1>2, CopyAttempts
  <2> HIDE DEF z, f
  <2>2. QED
    BY <2>1 DEF Deliveries
<1>4. m.kind = "BillOrder" => Faults(m) = {f}
  BY DEF Faults, Publish, Subscribers, Copy
<1>5. m.kind # "BillOrder" => Faults(m) = {}
  BY DEF Faults
<1> HIDE DEF z, f
<1>6. Attempts(z) <= 0 /\ Attempts(f) <= Granted
  BY <1>1, <1>3
<1>7. Ahead(m.kind) \in Nat
  BY <1>1, DeliveriesFact
<1>8. Lighter(m, {})
  BY <1>3, <1>6, <1>7 DEF Lighter
<1>9. CASE m.kind = "BillOrder"
  <2>1. Granted + 0 <= Ahead(m.kind)
    BY <1>1, <1>9 DEF Ahead, Deliveries
  <2>2. Lighter(m, {f})
    BY <1>1, <1>3, <1>6, <2>1 DEF Lighter
  <2>3. QED
    BY <1>4, <1>8, <1>9, <2>2
<1>10. QED
  BY <1>5, <1>8, <1>9

(***************************************************************************)
(* What a step uses up, and what a crash brings back.                      *)
(***************************************************************************)
LEMMA EmitsLighter ==
  ASSUME NEW m \in Message, m.kind \notin ForOrdering, NEW out, NEW ok
  PROVE  /\ Lighter(m, Outbox(m, out)) /\ Lighter(m, Emits(m, ok, out))
  BY PublishedLighter, FaultsLighter DEF Outbox, Emits

\* A message of Ordering comes to no attempt of the workflow.
LEMMA LightMessage ==
  ASSUME NEW m \in Message
  PROVE  \E z \in Message : Attempts(z) \in Int /\ Attempts(z) <= 0
<1>1. /\ Copy(m, "NotifyOrderPaid", SagaQueue, TRUE) \in Message
      /\ Copy(m, "NotifyOrderPaid", SagaQueue, TRUE).kind \in ForOrdering
  BY CopyAttempts DEF Kinds, Queues, Copy, ForOrdering
<1>2. QED
  BY <1>1, AttemptsFact

\* What a delivery sends comes to no more than lies ahead of it.
LEMMA SendLighter ==
  ASSUME NEW B, Counted(B), NEW m \in Message, m.kind \notin ForOrdering,
         NEW S, Lighter(m, S)
  PROVE  /\ Counted(Send(B, S))
         /\ Remaining(Send(B, S)) <= Remaining(B) + Ahead(m.kind)
<1>1. PICK x \in Message, y \in Message, a \in Nat, b \in Nat :
        /\ Attempts(x) <= a /\ Attempts(y) <= b /\ a + b <= Ahead(m.kind)
        /\ \A n \in S : n \in Message /\ (n \in {x, y} \/ Attempts(n) <= 0)
  BY DEF Lighter
<1>2. PICK z \in Message : Attempts(z) \in Int /\ Attempts(z) <= 0
  BY LightMessage
<1>3. Attempts(x) \in Int /\ Attempts(y) \in Int
  BY AttemptsFact
<1>4. \A n \in S : n \in {x, y, z} \/ (Attempts(n) \in Int /\ Attempts(n) <= 0)
  BY <1>1, AttemptsFact
<1>5. Counted(Send(B, S)) /\ Remaining(Send(B, S)) <= Remaining(B) + a + b + 0
  BY <1>1, <1>2, <1>3, <1>4, SendBrings
<1>6. /\ Remaining(B) \in Nat /\ Remaining(Send(B, S)) \in Nat
      /\ Ahead(m.kind) \in Nat
  BY <1>5, RemainingType, DeliveriesFact, AttemptsFact
<1>7. Remaining(Send(B, S)) <= Remaining(B) + Ahead(m.kind)
  BY <1>1, <1>5, <1>6
<1>8. QED
  BY <1>5, <1>7

\* The delivery is taken off, and what it leaves behind is sent.
LEMMA DeliveryUses ==
  ASSUME NEW B, Counted(B), NEW m \in BagToSet(B), m \in Message,
         m.kind \notin ForOrdering, NEW S, Lighter(m, S)
  PROVE  /\ Counted(Replace(B, m, S))
         /\ Remaining(Replace(B, m, S)) < Remaining(B)
<1> DEFINE C == B (-) SetToBag({m})
<1>1. /\ Attempts(m) \in Nat /\ Attempts(m) = Ahead(m.kind) + Granted - m.tries
      /\ m.tries \in Nat /\ m.tries < Granted /\ Ahead(m.kind) \in Nat
      /\ Granted \in Nat
  BY AttemptsFact, DeliveriesFact, RetriesAssumption DEF Granted
<1>2. Counted(C) /\ Remaining(C) = Remaining(B) - Attempts(m)
  BY <1>1, TakeUses
<1>3. Replace(B, m, S) = Send(C, S)
  BY DEF Replace
<1> HIDE DEF C
<1>4. Counted(Send(C, S)) /\ Remaining(Send(C, S)) <= Remaining(C) + Ahead(m.kind)
  BY <1>2, SendLighter
<1>5. Remaining(B) \in Nat /\ Remaining(C) \in Nat /\ Remaining(Send(C, S)) \in Nat
  BY <1>2, <1>4, RemainingType
<1>6. Remaining(Send(C, S)) < Remaining(B)
  BY <1>1, <1>2, <1>4, <1>5
<1>7. QED
  BY <1>3, <1>4, <1>6

\* A retry is one attempt less.
LEMMA RetryUses ==
  ASSUME NEW B, Counted(B), NEW m \in BagToSet(B), m \in Message,
         m.kind \notin ForOrdering, m.tries < Retries
  PROVE  /\ Counted(Replace(B, m, {[m EXCEPT !.tries = @ + 1]}))
         /\ Remaining(Replace(B, m, {[m EXCEPT !.tries = @ + 1]})) < Remaining(B)
<1> DEFINE C == B (-) SetToBag({m})
           r == [m EXCEPT !.tries = m.tries + 1]
<1>1. /\ Attempts(m) \in Nat /\ Attempts(m) > 0
      /\ Attempts(m) = Ahead(m.kind) + Granted - m.tries
      /\ m.tries \in Nat /\ Ahead(m.kind) \in Nat /\ Granted \in Nat
  BY AttemptsFact, DeliveriesFact, RetriesAssumption DEF Granted
<1>2. Counted(C) /\ Remaining(C) = Remaining(B) - Attempts(m)
  BY <1>1, TakeUses
<1>3. Replace(B, m, {[m EXCEPT !.tries = @ + 1]}) = Send(C, {r})
  BY DEF Replace
<1>4. r \in Message /\ r.kind = m.kind /\ r.tries = m.tries + 1
  BY <1>1, RetriesAssumption DEF Message
<1> HIDE DEF C, r
<1>5. Attempts(r) \in Nat /\ Attempts(r) = Attempts(m) - 1
  BY <1>1, <1>4, AttemptsFact
<1>6. Counted(Send(C, {r})) /\ Remaining(Send(C, {r})) <= Remaining(C) + Attempts(r)
  <2>1. PICK z \in Message : Attempts(z) \in Int /\ Attempts(z) <= 0
    BY LightMessage
  <2>2. \A n \in {r} : n \in {r, z, z} \/ (Attempts(n) \in Int /\ Attempts(n) <= 0)
    OBVIOUS
  <2>3. Attempts(r) \in Int /\ Attempts(r) <= Attempts(r)
    BY <1>5
  <2> DEFINE S == {r}
  <2> HIDE DEF S
  <2>4. Counted(Send(C, S)) /\ Remaining(Send(C, S)) <= Remaining(C) + Attempts(r) + 0 + 0
    BY <1>2, <1>4, <1>5, <2>1, <2>2, <2>3, SendBrings DEF S
  <2>5. Remaining(C) \in Nat /\ Remaining(Send(C, S)) \in Nat
    BY <1>2, <2>4, RemainingType
  <2>6. QED
    BY <1>5, <2>4, <2>5 DEF S
<1>7. Remaining(B) \in Nat /\ Remaining(C) \in Nat /\ Remaining(Send(C, {r})) \in Nat
  BY <1>2, <1>6, RemainingType
<1>8. QED
  BY <1>1, <1>2, <1>3, <1>5, <1>6, <1>7

\* A crash brings back the attempts of the delivery, and may have sent what it
\* leads to besides: less than an order placed anew comes to.
LEMMA CrashBrings ==
  ASSUME NEW B, Counted(B), NEW m \in BagToSet(B), m \in Message,
         m.kind \notin ForOrdering, NEW S, Lighter(m, S)
  PROVE  /\ Counted(Replace(B, m, {[m EXCEPT !.tries = 0]} \cup S))
         /\ Remaining(Replace(B, m, {[m EXCEPT !.tries = 0]} \cup S)) <
              Remaining(B) + 13 * Granted
<1> DEFINE C == B (-) SetToBag({m})
           r == [m EXCEPT !.tries = 0]
           D == {r} \cup S
<1>1. /\ Attempts(m) \in Nat /\ Attempts(m) = Ahead(m.kind) + Granted - m.tries
      /\ m.tries \in Nat /\ m.tries < Granted /\ Granted \in Nat
      /\ Ahead(m.kind) \in Nat /\ Ahead(m.kind) <= 12 * Granted
  BY AttemptsFact, DeliveriesFact, RetriesAssumption DEF Granted
<1>2. Counted(C) /\ Remaining(C) = Remaining(B) - Attempts(m)
  BY <1>1, TakeUses
<1>3. Replace(B, m, D) = Send(C, D)
  BY DEF Replace
<1>4. r \in Message /\ r.kind = m.kind /\ r.tries = 0
  BY <1>1, RetriesAssumption DEF Message
<1> HIDE DEF C, r
<1>5. Attempts(r) \in Nat /\ Attempts(r) = Ahead(m.kind) + Granted
  BY <1>1, <1>4, AttemptsFact
<1>6. PICK x \in Message, y \in Message, a \in Nat, b \in Nat :
        /\ Attempts(x) <= a /\ Attempts(y) <= b /\ a + b <= Ahead(m.kind)
        /\ \A n \in S : n \in Message /\ (n \in {x, y} \/ Attempts(n) <= 0)
  BY DEF Lighter
<1>7. Attempts(x) \in Int /\ Attempts(y) \in Int
  BY AttemptsFact
<1>8. \A n \in D : n \in {x, y, r} \/ (Attempts(n) \in Int /\ Attempts(n) <= 0)
  BY <1>6, AttemptsFact
<1> HIDE DEF D
<1> DEFINE d == Ahead(m.kind) + Granted
<1>9. d \in Nat /\ Attempts(r) \in Int /\ Attempts(r) <= d
  BY <1>1, <1>5
<1> HIDE DEF d
<1>10. Counted(Send(C, D)) /\ Remaining(Send(C, D)) <= Remaining(C) + a + b + d
  BY <1>2, <1>4, <1>6, <1>7, <1>8, <1>9, SendBrings
<1>11. Remaining(B) \in Nat /\ Remaining(C) \in Nat /\ Remaining(Send(C, D)) \in Nat
  BY <1>2, <1>10, RemainingType
<1>12. Remaining(Send(C, D)) < Remaining(B) + 13 * Granted
  BY <1>1, <1>2, <1>6, <1>10, <1>11 DEF d
<1>13. QED
  BY <1>3, <1>10, <1>12 DEF D, r

LEMMA WorkerCrashBrings ==
  ASSUME NEW B, Counted(B), NEW m \in Message, m.kind \notin ForOrdering,
         NEW S, Lighter(m, S)
  PROVE  /\ Counted(Send(B, S))
         /\ Remaining(Send(B, S)) < Remaining(B) + 13 * Granted
<1>1. /\ Granted \in Nat /\ Granted > 0
      /\ Ahead(m.kind) \in Nat /\ Ahead(m.kind) <= 12 * Granted
  BY AttemptsFact, DeliveriesFact, RetriesAssumption DEF Granted
<1>2. Counted(Send(B, S)) /\ Remaining(Send(B, S)) <= Remaining(B) + Ahead(m.kind)
  BY SendLighter
<1>3. Remaining(B) \in Nat /\ Remaining(Send(B, S)) \in Nat
  BY <1>2, RemainingType
<1>4. Remaining(Send(B, S)) < Remaining(B) + 13 * Granted
  BY <1>1, <1>2, <1>3
<1>5. QED
  BY <1>2, <1>4

\* What the property asks of a step.
UsesUp ==
  Remaining(net') < Remaining(net)
                    + (crashes' - crashes) * (Retries + 1) * Deliveries["OrderPlaced"]

LEMMA UsesUpFact ==
  ASSUME TypeOK, Counted(net), Counted(net')
  PROVE  /\ UNCHANGED crashes /\ Remaining(net') < Remaining(net) => UsesUp
         /\ crashes' = crashes + 1 /\ Remaining(net') < Remaining(net) + 13 * Granted => UsesUp
<1>1. crashes \in Nat /\ Granted \in Nat /\ Granted = Retries + 1
  BY BudgetAssumption, RetriesAssumption DEF TypeOK, Granted
<1>2. Deliveries["OrderPlaced"] = 13
  BY DEF Deliveries
<1>3. Remaining(net) \in Nat /\ Remaining(net') \in Nat
  BY RemainingType
<1> DEFINE gain == (crashes' - crashes) * (Retries + 1) * Deliveries["OrderPlaced"]
<1>4. CASE UNCHANGED crashes
  <2>1. gain = 0
    BY <1>1, <1>2, <1>4
  <2> HIDE DEF gain
  <2>2. Remaining(net') < Remaining(net) => Remaining(net') < Remaining(net) + gain
    BY <1>3, <2>1
  <2>3. crashes' # crashes + 1
    BY <1>1, <1>4
  <2>4. QED
    BY <2>2, <2>3 DEF UsesUp, gain
<1>5. CASE crashes' = crashes + 1
  <2>1. gain = 13 * Granted
    <3>1. crashes' - crashes = 1
      BY <1>1, <1>5
    <3>2. QED
      BY <1>1, <1>2, <3>1
  <2> HIDE DEF gain
  <2>2. Remaining(net') < Remaining(net) + 13 * Granted => Remaining(net') < Remaining(net) + gain
    BY <2>1
  <2>3. crashes' # crashes
    BY <1>1, <1>5
  <2>4. QED
    BY <2>2, <2>3 DEF UsesUp, gain
<1>6. QED
  BY <1>4, <1>5

\* A message of the workflow's queues is of the workflow.
LEMMA WorkflowKind ==
  ASSUME SagaInv, NEW m \in BagToSet(net), m.queue \in {SagaQueue} \cup WorkerQueues
  PROVE  m \in Message /\ m.kind \notin ForOrdering /\ m.tries \in 0..Retries
<1>1. m \in Message /\ m.queue \in Subscribers[m.kind]
  BY InFlightFact DEF Routed
<1>2. m.tries \in 0..Retries /\ m.kind \in Kinds
  BY <1>1, AttemptsFact
<1>3. m.queue \notin OrderingQueues
  BY DEF WorkerQueues, OrderingQueues, SagaQueue, BillingQueue, BillingRollbackQueue,
         DeliveryQueue, StatusNotifierQueue, RollbackOrderQueue
<1>4. m.kind \in ForOrdering => Subscribers[m.kind] \subseteq OrderingQueues
  BY DEF ForOrdering, Subscribers, OrderingQueues
<1>5. QED
  BY <1>1, <1>2, <1>3, <1>4

\* An event that enters the workflow brings attempts, and the ledger shows it.
LEMMA EntersCounted ==
  ASSUME Counted(net), NEW k \in {"OrderPlaced", "OrderCanceled"}, NEW o \in Orders,
         NEW c \in Orders \cup {Fresh}, NEW v \in BOOLEAN
  PROVE  Counted(Send(net, Publish(k, o, c, v)))
<1> DEFINE S == Publish(k, o, c, v)
<1>1. PICK x \in Message : S \subseteq {x} /\ Attempts(x) \in Nat
  <2> DEFINE x == [queue |-> SagaQueue, kind |-> k, order |-> o, corr |-> c,
                   valid |-> v, tries |-> 0]
  <2>1. S = {x}
    BY DEF Publish, Subscribers
  <2>2. x \in Message /\ x.kind \notin ForOrdering
    BY RetriesAssumption DEF Message, Kinds, Queues, ForOrdering
  <2> HIDE DEF x, S
  <2>3. Attempts(x) \in Nat
    BY <2>2, AttemptsFact
  <2>4. QED
    BY <2>1, <2>2, <2>3
<1> HIDE DEF S
<1>2. \A n \in S : n \in {x, x, x} \/ (Attempts(n) \in Int /\ Attempts(n) <= 0)
  BY <1>1
<1>3. Attempts(x) \in Int /\ Attempts(x) <= Attempts(x)
  BY <1>1
<1>4. Counted(Send(net, S))
  BY <1>1, <1>2, <1>3, SendBrings
<1>5. QED
  BY <1>4 DEF S

LEMMA OutsideUses ==
  ASSUME SagaInv, Counted(net),
         NEW o \in Orders,
         \/ \E p \in Publishers : PublishOrderPlaced(o, p)
         \/ \E id \in CancelIds : PublishOrderCanceled(o, id)
  PROVE  Counted(net') /\ ledger' # ledger
<1>1. ASSUME NEW p \in Publishers, PublishOrderPlaced(o, p)
      PROVE  Counted(net') /\ ledger' # ledger
  <2>1. source'[o] = p /\ source[o] = "none"
    BY <1>1 DEF PublishOrderPlaced, SagaInv, TypeOK
  <2>2. p # "none"
    BY PublishersAssumption
  <2>3. net' = Send(net, Publish("OrderPlaced", o, o, p = "PlaceOrder"))
    BY <1>1 DEF PublishOrderPlaced
  <2>4. Counted(net')
    BY <2>3, EntersCounted
  <2>5. QED
    BY <2>1, <2>2, <2>4 DEF ledger
<1>2. ASSUME NEW id \in CancelIds, PublishOrderCanceled(o, id)
      PROVE  Counted(net') /\ ledger' # ledger
  <2> DEFINE c == IF id = "placed" THEN o ELSE Fresh
  <2>1. net' = Send(net, Publish("OrderCanceled", o, c, FALSE)) /\ c \in Orders \cup {Fresh}
    BY <1>2 DEF PublishOrderCanceled
  <2> HIDE DEF c
  <2>2. Counted(net')
    BY <2>1, EntersCounted
  <2>3. canceled' # canceled
    BY <1>2 DEF PublishOrderCanceled
  <2>4. QED
    BY <2>2, <2>3 DEF ledger
<1>3. QED
  BY <1>1, <1>2

LEMMA SagaUses ==
  ASSUME SagaInv, Counted(net), NEW m \in BagToSet(net), NEW commit \in Commits,
         NEW out \in OutcomeNames,
         \/ SagaAcknowledges(m, commit, out)
         \/ SagaRetries(m, commit, out)
         \/ SagaGivesUp(m, commit, out)
         \/ \E finished \in BOOLEAN : SagaCrashes(m, commit, out, finished)
  PROVE  Counted(net') /\ UsesUp
<1>1. Attempt(m, commit, out)
  BY DEF SagaAcknowledges, SagaRetries, SagaGivesUp, SagaCrashes
<1>2. m \in Message /\ m.kind \notin ForOrdering
  <2>1. m.queue \in {SagaQueue} \cup WorkerQueues
    BY <1>1 DEF Attempt, InFlight
  <2>2. QED
    BY <2>1, WorkflowKind
<1>3. TypeOK
  BY DEF SagaInv
<1>4. CASE SagaAcknowledges(m, commit, out)
  <2>1. net' = Replace(net, m, Outbox(m, out)) /\ UNCHANGED crashes
    BY <1>4 DEF SagaAcknowledges
  <2>2. Lighter(m, Outbox(m, out))
    BY <1>2, EmitsLighter
  <2>3. Counted(net') /\ Remaining(net') < Remaining(net)
    BY <1>2, <2>1, <2>2, DeliveryUses
  <2>4. QED
    BY <1>3, <2>1, <2>3, UsesUpFact
<1>5. CASE SagaRetries(m, commit, out)
  <2>1. /\ net' = Replace(net, m, {[m EXCEPT !.tries = @ + 1]}) /\ UNCHANGED crashes
        /\ m.tries < Retries
    BY <1>5 DEF SagaRetries
  <2>2. Counted(net') /\ Remaining(net') < Remaining(net)
    BY <1>2, <2>1, RetryUses
  <2>3. QED
    BY <1>3, <2>1, <2>2, UsesUpFact
<1>6. CASE SagaGivesUp(m, commit, out)
  <2>1. net' = Replace(net, m, Faults(m)) /\ UNCHANGED crashes
    BY <1>6 DEF SagaGivesUp
  <2>2. Counted(net') /\ Remaining(net') < Remaining(net)
    BY <1>2, <2>1, FaultsLighter, DeliveryUses
  <2>3. QED
    BY <1>3, <2>1, <2>2, UsesUpFact
<1>7. ASSUME NEW finished \in BOOLEAN, SagaCrashes(m, commit, out, finished)
      PROVE  Counted(net') /\ UsesUp
  <2> DEFINE ok == Succeeds(m, commit, out)
             S  == IF finished THEN Emits(m, ok, out) ELSE {}
  <2>1. net' = Replace(net, m, {[m EXCEPT !.tries = 0]} \cup S) /\ crashes' = crashes + 1
    BY <1>7 DEF SagaCrashes
  <2>2. Lighter(m, S)
    BY <1>2, EmitsLighter, FaultsLighter
  <2> HIDE DEF S
  <2>3. Counted(net') /\ Remaining(net') < Remaining(net) + 13 * Granted
    BY <1>2, <2>1, <2>2, CrashBrings
  <2>4. QED
    BY <1>3, <2>1, <2>3, UsesUpFact
<1>8. QED
  BY <1>4, <1>5, <1>6, <1>7

LEMMA WorkerUses ==
  ASSUME SagaInv, Counted(net), NEW m \in BagToSet(net), NEW out \in OutcomeNames,
         \/ WorkerAcknowledges(m, out) \/ WorkerFaults(m, out)
         \/ \E finished \in BOOLEAN : WorkerCrashes(m, out, finished)
  PROVE  Counted(net') /\ UsesUp
<1>1. Work(m, out)
  BY DEF WorkerAcknowledges, WorkerFaults, WorkerCrashes
<1>2. m \in Message /\ m.kind \notin ForOrdering
  <2>1. m.queue \in {SagaQueue} \cup WorkerQueues
    BY <1>1 DEF Work, InFlight
  <2>2. QED
    BY <2>1, WorkflowKind
<1>3. TypeOK
  BY DEF SagaInv
<1>4. CASE WorkerAcknowledges(m, out)
  <2>1. net' = Replace(net, m, Outbox(m, out)) /\ UNCHANGED crashes
    BY <1>4 DEF WorkerAcknowledges
  <2>2. Lighter(m, Outbox(m, out))
    BY <1>2, EmitsLighter
  <2>3. Counted(net') /\ Remaining(net') < Remaining(net)
    BY <1>2, <2>1, <2>2, DeliveryUses
  <2>4. QED
    BY <1>3, <2>1, <2>3, UsesUpFact
<1>5. CASE WorkerFaults(m, out)
  <2>1. net' = Replace(net, m, Faults(m)) /\ UNCHANGED crashes
    BY <1>5 DEF WorkerFaults
  <2>2. Counted(net') /\ Remaining(net') < Remaining(net)
    BY <1>2, <2>1, FaultsLighter, DeliveryUses
  <2>3. QED
    BY <1>3, <2>1, <2>2, UsesUpFact
<1>6. ASSUME NEW finished \in BOOLEAN, WorkerCrashes(m, out, finished)
      PROVE  Counted(net') /\ UsesUp
  <2> DEFINE ok == out # "throws"
             S  == IF finished THEN Emits(m, ok, out) ELSE {}
  <2>1. net' = Send(net, S) /\ crashes' = crashes + 1
    BY <1>6 DEF WorkerCrashes
  <2>2. Lighter(m, S)
    BY <1>2, EmitsLighter, FaultsLighter
  <2> HIDE DEF S
  <2>3. Counted(net') /\ Remaining(net') < Remaining(net) + 13 * Granted
    BY <1>2, <2>1, <2>2, WorkerCrashBrings
  <2>4. QED
    BY <1>3, <2>1, <2>3, UsesUpFact
<1>7. QED
  BY <1>4, <1>5, <1>6

LEMMA CountedInit == Init => Counted(net)
<1> SUFFICES ASSUME Init PROVE Counted(net)
  OBVIOUS
<1>1. IsABag(net) /\ BagToSet(net) = {}
  BY DEF Init, EmptyBag, SetToBag, IsABag, BagToSet
<1>2. AttemptsLeft(net) = {}
  BY <1>1 DEF AttemptsLeft, Copies
<1>3. QED
  BY <1>1, <1>2, FS_EmptySet DEF Counted

LEMMA UsesStep ==
  SagaInv /\ Counted(net) /\ [Next]_vars =>
    Counted(net)' /\ [UNCHANGED ledger => UsesUp]_vars
<1> SUFFICES ASSUME SagaInv, Counted(net), [Next]_vars
             PROVE  Counted(net)' /\ [UNCHANGED ledger => UsesUp]_vars
  OBVIOUS
<1>1. CASE \E o \in Orders :
             \/ \E p \in Publishers : PublishOrderPlaced(o, p)
             \/ \E id \in CancelIds : PublishOrderCanceled(o, id)
  BY <1>1, OutsideUses
<1>2. CASE \E m \in BagToSet(net) : SagaDelivers(m) \/ WorkerDelivers(m) \/ Crash(m)
  <2>1. PICK m \in BagToSet(net) : SagaDelivers(m) \/ WorkerDelivers(m) \/ Crash(m)
    BY <1>2
  <2>2. Counted(net') /\ UsesUp
    BY <2>1, SagaUses, WorkerUses DEF SagaDelivers, WorkerDelivers, Crash
  <2>3. QED
    BY <2>2
<1>3. CASE UNCHANGED vars
  BY <1>3 DEF vars, Counted, AttemptsLeft, Copies
<1>4. QED
  BY <1>1, <1>2, <1>3 DEF Next, Deliver

\* Every attempt of the workflow uses up work that was ahead, and a crash brings
\* back less than an order placed anew: that is why the queues drain once
\* nothing enters and nothing crashes (UseMessageRetry, the consumers' chain).
THEOREM WorkUsedUp == Safety => WorkIsUsedUp
<1>1. Safety => []Counted(net)
  BY CountedInit, UsesStep, SagaInvariant, PTL DEF Safety
<1>2. SagaInv /\ Counted(net) /\ [Next]_vars => [UNCHANGED ledger => UsesUp]_vars
  BY UsesStep
<1>3. Safety => [][UNCHANGED ledger => UsesUp]_vars
  BY <1>1, <1>2, SagaInvariant, PTL DEF Safety
<1>4. QED
  BY <1>3 DEF WorkIsUsedUp, UsesUp
==============================================================================
