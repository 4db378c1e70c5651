-------------------------- MODULE OrderSaga_proofs --------------------------
(***************************************************************************)
(* Proofs about OrderSaga, for every set of orders and every bound.        *)
(***************************************************************************)
EXTENDS OrderSaga, OrderEvents_proofs

(***************************************************************************)
(* What one delivery may do, whichever way it ends.                        *)
(***************************************************************************)

\* n is m, perhaps with another number of tries.
SameEvent(n, m) ==
  /\ n.queue = m.queue /\ n.kind = m.kind
  /\ n.order = m.order /\ n.corr = m.corr

\* The bag after a delivery of m that published its outbox only if ok.
NetAfter(m, ok, out) ==
  /\ IsABag(net')
  /\ \A n \in BagToSet(net') :
       \/ n \in BagToSet(net)
       \/ n \in Message /\ SameEvent(n, m)
       \/ ok /\ out = "publishes" /\ n \in Published(m)
       \/ n \in Faults(m)

TracesAfter ==
  /\ errorQueue' \subseteq Queues \X Kinds \X Orders
  /\ skipped' \subseteq Kinds \X Orders
  /\ unsure' \subseteq Orders
  /\ failures' \in 0..MaxFailures
  /\ crashes' \in 0..MaxCrashes

\* A commit without an answer is remembered of the saga's own BillOrder.
Remembers(m, commit) ==
  unsure' = IF commit = "unanswered" /\ m.kind = "BillOrder"
            THEN unsure \cup {m.order} ELSE unsure

SagaStep(m, commit, out) ==
  /\ m \in BagToSet(net) /\ m.queue = SagaQueue
  /\ out \in Outcomes(m)
  /\ MoveSaga(m, commit)
  /\ NetAfter(m, Succeeds(m, commit, out), out)
  /\ TracesAfter
  /\ UNCHANGED <<ledger, billed, dispatched>>

WorkStep(m, out) ==
  /\ m \in BagToSet(net) /\ m.queue \in WorkerQueues
  /\ \E done \in BOOLEAN :
       /\ NetAfter(m, done, out)
       /\ Record(m, done /\ out = "publishes")
  /\ TracesAfter
  /\ UNCHANGED <<saga, ledger>>

LEMMA RetryFact ==
  ASSUME NEW m \in Message, NEW t \in 0..Retries
  PROVE  /\ [m EXCEPT !.tries = t] \in Message
         /\ SameEvent([m EXCEPT !.tries = t], m)
  BY DEF Message, SameEvent

\* The budget left after one failed call is still a budget.
LEMMA TraceFact ==
  ASSUME TypeOK, NEW m \in BagToSet(net), NEW out
  PROVE  /\ m \in Message
         /\ errorQueue \cup DeadLetter(m) \subseteq Queues \X Kinds \X Orders
         /\ skipped \cup Skips(m, out) \subseteq Kinds \X Orders
<1>1. m \in Message
  BY DEF TypeOK
<1>2. m.queue \in Queues /\ m.kind \in Kinds /\ m.order \in Orders
  BY <1>1 DEF Message
<1>3. QED
  BY <1>1, <1>2 DEF TypeOK, DeadLetter, Skips

LEMMA AttemptFact ==
  ASSUME TypeOK, NEW m \in BagToSet(net), NEW commit, NEW out,
         Attempt(m, commit, out)
  PROVE  /\ m.queue = SagaQueue /\ out \in Outcomes(m)
         /\ MoveSaga(m, commit)
         /\ failures' \in 0..MaxFailures
         /\ Remembers(m, commit) /\ unsure' \subseteq Orders
         /\ UNCHANGED <<ledger, billed, dispatched>>
<1>1. m.order \in Orders
  BY DEF TypeOK, Message
<1>2. QED
  BY <1>1, BudgetAssumption DEF TypeOK, Attempt, Remembers, InFlight

LEMMA SagaDelivery ==
  ASSUME TypeOK, NEW m \in BagToSet(net), NEW commit \in Commits,
         NEW out \in OutcomeNames,
         \/ SagaAcknowledges(m, commit, out)
         \/ SagaRetries(m, commit, out)
         \/ SagaGivesUp(m, commit, out)
         \/ \E finished \in BOOLEAN : SagaCrashes(m, commit, out, finished)
  PROVE  SagaStep(m, commit, out)
<1> DEFINE ok == Succeeds(m, commit, out)
<1>1. IsABag(net) /\ m \in Message /\ m.tries \in 0..Retries
  BY DEF TypeOK, Message
<1>2. Attempt(m, commit, out)
  BY DEF SagaAcknowledges, SagaRetries, SagaGivesUp, SagaCrashes
<1>3. \A S : /\ IsABag(Replace(net, m, S))
             /\ BagToSet(Replace(net, m, S)) \subseteq BagToSet(net) \cup S
  BY <1>1, ReplaceBag
<1>4. SUFFICES NetAfter(m, ok, out) /\ TracesAfter
  BY <1>2, AttemptFact DEF SagaStep
<1>5. failures' \in 0..MaxFailures /\ unsure' \subseteq Orders
  BY <1>2, AttemptFact
<1>6. CASE SagaAcknowledges(m, commit, out)
  <2>1. ok /\ net' = Replace(net, m, Outbox(m, out))
    BY <1>6 DEF SagaAcknowledges
  <2>2. NetAfter(m, ok, out)
    BY <2>1, <1>3 DEF NetAfter, Outbox
  <2>3. TracesAfter
    BY <1>5, <1>6, TraceFact DEF SagaAcknowledges, TracesAfter, TypeOK
  <2>4. QED
    BY <2>2, <2>3
<1>7. CASE SagaRetries(m, commit, out)
  <2>1. net' = Replace(net, m, {[m EXCEPT !.tries = m.tries + 1]})
    BY <1>7 DEF SagaRetries
  <2>2. m.tries + 1 \in 0..Retries
    BY <1>7, <1>1, RetriesAssumption DEF SagaRetries
  <2>3. /\ [m EXCEPT !.tries = m.tries + 1] \in Message
        /\ SameEvent([m EXCEPT !.tries = m.tries + 1], m)
    BY <1>1, <2>2, RetryFact
  <2>4. NetAfter(m, ok, out)
    BY <2>1, <2>3, <1>3 DEF NetAfter
  <2>5. TracesAfter
    BY <1>5, <1>7 DEF SagaRetries, TracesAfter, TypeOK, traces
  <2>6. QED
    BY <2>4, <2>5
<1>8. CASE SagaGivesUp(m, commit, out)
  <2>1. net' = Replace(net, m, Faults(m))
    BY <1>8 DEF SagaGivesUp
  <2>2. NetAfter(m, ok, out)
    BY <2>1, <1>3 DEF NetAfter
  <2>3. TracesAfter
    BY <1>5, <1>8, TraceFact DEF SagaGivesUp, TracesAfter, TypeOK
  <2>4. QED
    BY <2>2, <2>3
<1>9. CASE \E finished \in BOOLEAN : SagaCrashes(m, commit, out, finished)
  <2>1. PICK finished \in BOOLEAN : SagaCrashes(m, commit, out, finished)
    BY <1>9
  <2> DEFINE sent == IF finished THEN Emits(m, ok, out) ELSE {}
  <2>2. net' = Replace(net, m, {[m EXCEPT !.tries = 0]} \cup sent)
    BY <2>1 DEF SagaCrashes
  <2>3. [m EXCEPT !.tries = 0] \in Message /\ SameEvent([m EXCEPT !.tries = 0], m)
    BY <1>1, RetryFact, RetriesAssumption
  <2>4. \A n \in sent : \/ ok /\ out = "publishes" /\ n \in Published(m)
                        \/ n \in Faults(m)
    BY DEF Emits, Outbox
  <2>5. NetAfter(m, ok, out)
    <3> HIDE DEF sent, ok
    <3>1. QED
      BY <2>2, <2>3, <2>4, <1>3 DEF NetAfter
  <2>6. crashes' \in 0..MaxCrashes
    BY <2>1, BudgetAssumption DEF SagaCrashes, TypeOK
  <2>7. TracesAfter
    BY <1>5, <2>1, <2>6, TraceFact DEF SagaCrashes, TracesAfter, TypeOK
  <2>8. QED
    BY <2>5, <2>7
<1>10. QED
  BY <1>6, <1>7, <1>8, <1>9

LEMMA WorkFact ==
  ASSUME TypeOK, NEW m \in BagToSet(net), NEW out, Work(m, out)
  PROVE  /\ m.queue \in WorkerQueues /\ out \in Outcomes(m)
         /\ failures' \in 0..MaxFailures
         /\ UNCHANGED <<saga, ledger, unsure>>
  BY BudgetAssumption DEF TypeOK, Work, InFlight

LEMMA WorkerDelivery ==
  ASSUME TypeOK, NEW m \in BagToSet(net), NEW out \in OutcomeNames,
         \/ WorkerAcknowledges(m, out)
         \/ WorkerFaults(m, out)
         \/ \E finished \in BOOLEAN : WorkerCrashes(m, out, finished)
  PROVE  WorkStep(m, out)
<1>1. IsABag(net) /\ m \in Message
  BY DEF TypeOK
<1>2. Work(m, out)
  BY DEF WorkerAcknowledges, WorkerFaults, WorkerCrashes
<1>3. \A S : /\ IsABag(Replace(net, m, S))
             /\ BagToSet(Replace(net, m, S)) \subseteq BagToSet(net) \cup S
  BY <1>1, ReplaceBag
<1>4. SUFFICES /\ \E done \in BOOLEAN : /\ NetAfter(m, done, out)
                                       /\ Record(m, done /\ out = "publishes")
               /\ TracesAfter
  BY <1>2, WorkFact DEF WorkStep
<1>5. failures' \in 0..MaxFailures /\ unsure' \subseteq Orders
  BY <1>2, WorkFact DEF TypeOK
<1>6. CASE WorkerAcknowledges(m, out)
  <2>1. net' = Replace(net, m, Outbox(m, out))
    BY <1>6 DEF WorkerAcknowledges
  <2>2. NetAfter(m, TRUE, out)
    BY <2>1, <1>3 DEF NetAfter, Outbox
  <2>3. Record(m, TRUE /\ out = "publishes")
    BY <1>6 DEF WorkerAcknowledges, Record
  <2>4. TracesAfter
    BY <1>5, <1>6, TraceFact DEF WorkerAcknowledges, TracesAfter, TypeOK
  <2>5. QED
    BY <2>2, <2>3, <2>4
<1>7. CASE WorkerFaults(m, out)
  <2>1. net' = Replace(net, m, Faults(m))
    BY <1>7 DEF WorkerFaults
  <2>2. NetAfter(m, FALSE, out)
    BY <2>1, <1>3 DEF NetAfter
  <2>3. Record(m, FALSE /\ out = "publishes")
    BY <1>7 DEF WorkerFaults, Record
  <2>4. TracesAfter
    BY <1>5, <1>7, TraceFact DEF WorkerFaults, TracesAfter, TypeOK
  <2>5. QED
    BY <2>2, <2>3, <2>4
<1>8. CASE \E finished \in BOOLEAN : WorkerCrashes(m, out, finished)
  <2>1. PICK finished \in BOOLEAN : WorkerCrashes(m, out, finished)
    BY <1>8
  <2> DEFINE sent == IF finished THEN Emits(m, out # "throws", out) ELSE {}
  <2>2. net' = Send(net, sent)
    BY <2>1 DEF WorkerCrashes
  <2>3. \A n \in sent : \/ finished /\ out = "publishes" /\ n \in Published(m)
                        \/ n \in Faults(m)
    BY DEF Emits, Outbox
  <2>4. NetAfter(m, finished, out)
    <3> HIDE DEF sent
    <3>1. IsABag(net') /\ BagToSet(net') = BagToSet(net) \cup sent
      BY <2>2, <1>1, SendBag
    <3>2. QED
      BY <3>1, <2>3 DEF NetAfter
  <2>5. Record(m, finished /\ out = "publishes")
    BY <2>1 DEF WorkerCrashes
  <2>6. crashes' \in 0..MaxCrashes
    BY <2>1, BudgetAssumption DEF WorkerCrashes, TypeOK
  <2>7. TracesAfter
    BY <1>5, <2>1, <2>6, TraceFact DEF WorkerCrashes, TracesAfter, TypeOK
  <2>8. QED
    BY <2>4, <2>5, <2>7
<1>9. QED
  BY <1>6, <1>7, <1>8

\* Every step is a publication from outside, a delivery of the saga queue, a
\* delivery of a worker queue, or nothing.
LEMMA StepKinds ==
  ASSUME TypeOK, [Next]_vars
  PROVE  \/ \E o \in Orders, p \in Publishers : PublishOrderPlaced(o, p)
         \/ \E o \in Orders, id \in CancelIds : PublishOrderCanceled(o, id)
         \/ \E m \in BagToSet(net), commit \in Commits, out \in OutcomeNames :
              SagaStep(m, commit, out)
         \/ \E m \in BagToSet(net), out \in OutcomeNames : WorkStep(m, out)
         \/ UNCHANGED vars
<1>1. CASE Deliver
  <2>1. PICK m \in BagToSet(net) : SagaDelivers(m) \/ WorkerDelivers(m)
    BY <1>1 DEF Deliver
  <2>2. CASE SagaDelivers(m)
    BY <2>2, SagaDelivery DEF SagaDelivers
  <2>3. CASE WorkerDelivers(m)
    BY <2>3, WorkerDelivery DEF WorkerDelivers
  <2>4. QED
    BY <2>1, <2>2, <2>3
<1>2. CASE \E m \in BagToSet(net) : Crash(m)
  BY <1>2, SagaDelivery, WorkerDelivery DEF Crash
<1>3. QED
  BY <1>1, <1>2 DEF Next

(***************************************************************************)
(* Type correctness.                                                       *)
(***************************************************************************)

LEMMA NetType ==
  ASSUME TypeOK, NEW m \in BagToSet(net), NEW ok \in BOOLEAN, NEW out,
         NetAfter(m, ok, out)
  PROVE  IsABag(net') /\ BagToSet(net') \subseteq Message
<1>1. m \in Message /\ BagToSet(net) \subseteq Message
  BY DEF TypeOK
<1>2. \A n \in Published(m) : n \in Message
  BY <1>1, PublishedFact
<1>3. \A n \in Faults(m) : n \in Message
  BY <1>1, FaultFact
<1>4. QED
  BY <1>1, <1>2, <1>3 DEF NetAfter

LEMMA TypeInit == Init => TypeOK
<1> SUFFICES ASSUME Init PROVE TypeOK
  OBVIOUS
<1>1. IsABag(net) /\ BagToSet(net) = {}
  BY DEF Init, EmptyBag, SetToBag, IsABag, BagToSet
<1>2. 0 \in 0..MaxFailures /\ 0 \in 0..MaxCrashes
  BY BudgetAssumption
<1>3. QED
  BY <1>1, <1>2 DEF Init, TypeOK, SagaStates

LEMMA TypeStep == TypeOK /\ [Next]_vars => TypeOK'
<1> SUFFICES ASSUME TypeOK, [Next]_vars PROVE TypeOK'
  OBVIOUS
<1>1. ASSUME NEW o \in Orders, NEW p \in Publishers, PublishOrderPlaced(o, p)
      PROVE  TypeOK'
  <2> DEFINE out == Publish("OrderPlaced", o, o, p = "PlaceOrder")
  <2>1. "OrderPlaced" \in Kinds /\ (p = "PlaceOrder") \in BOOLEAN
    BY DEF Kinds
  <2>2. out \subseteq Message
    BY <2>1, PublishFact
  <2>3. IsABag(net') /\ BagToSet(net') = BagToSet(net) \cup out
    <3>1. net' = Send(net, out)
      BY <1>1 DEF PublishOrderPlaced
    <3> HIDE DEF out
    <3>2. QED
      BY <3>1, SendBag DEF TypeOK
  <2>4. QED
    BY <1>1, <2>2, <2>3 DEF PublishOrderPlaced, TypeOK, traces
<1>2. ASSUME NEW o \in Orders, NEW id \in CancelIds, PublishOrderCanceled(o, id)
      PROVE  TypeOK'
  <2> DEFINE c   == IF id = "placed" THEN o ELSE Fresh
             out == Publish("OrderCanceled", o, c, FALSE)
  <2>1. "OrderCanceled" \in Kinds /\ FALSE \in BOOLEAN /\ c \in Orders \cup {Fresh}
    BY DEF Kinds
  <2>2. out \subseteq Message
    <3> HIDE DEF c
    <3>1. QED
      BY <2>1, PublishFact
  <2>3. IsABag(net') /\ BagToSet(net') = BagToSet(net) \cup out
    <3>1. net' = Send(net, out)
      BY <1>2 DEF PublishOrderCanceled
    <3> HIDE DEF out
    <3>2. QED
      BY <3>1, SendBag DEF TypeOK
  <2>4. canceled' \subseteq Orders \X CancelIds
    BY <1>2 DEF PublishOrderCanceled, TypeOK
  <2>5. QED
    BY <1>2, <2>2, <2>3, <2>4 DEF PublishOrderCanceled, TypeOK, traces
<1>3. ASSUME NEW m \in BagToSet(net), NEW commit \in Commits,
             NEW out \in OutcomeNames, SagaStep(m, commit, out)
      PROVE  TypeOK'
  <2>1. Succeeds(m, commit, out) \in BOOLEAN
    BY DEF Succeeds
  <2>2. IsABag(net') /\ BagToSet(net') \subseteq Message
    BY <1>3, <2>1, NetType DEF SagaStep
  <2>3. saga' \in [Orders -> SagaStates]
    BY <1>3 DEF SagaStep, MoveSaga, Targets, TypeOK
  <2>4. QED
    BY <1>3, <2>2, <2>3 DEF SagaStep, TracesAfter, TypeOK, ledger
<1>4. ASSUME NEW m \in BagToSet(net), NEW out \in OutcomeNames, WorkStep(m, out)
      PROVE  TypeOK'
  <2>1. PICK done \in BOOLEAN : /\ NetAfter(m, done, out)
                                /\ Record(m, done /\ out = "publishes")
    BY <1>4 DEF WorkStep
  <2>2. IsABag(net') /\ BagToSet(net') \subseteq Message
    BY <2>1, NetType
  <2>3. billed' \in [Orders -> Nat] /\ dispatched' \in [Orders -> Nat]
    BY <2>1 DEF Record, TypeOK, Message
  <2>4. QED
    BY <1>4, <2>2, <2>3 DEF WorkStep, TracesAfter, TypeOK, ledger
<1>5. CASE UNCHANGED vars
  BY <1>5 DEF vars, ledger, traces, TypeOK
<1>6. QED
  BY <1>1, <1>2, <1>3, <1>4, <1>5, StepKinds

\* Every variable keeps its type and the budgets are respected.
THEOREM TypeCorrect == Safety => []TypeOK
BY TypeInit, TypeStep, PTL DEF Safety

(***************************************************************************)
(* The saga's record and the work behind it.                               *)
(***************************************************************************)

\* What the inductive invariant says of one message.
Justified(n) ==
  /\ n.queue \in Subscribers[n.kind]
  /\ n.kind \in {"OrderCanceled", "RollbackOrderPayment"} \/ n.corr = n.order
  /\ n.kind # "OrderDelivered"
  /\ n.kind = "OrderPlaced" => source[n.order] # "none"
  /\ n.kind \in {"BillOrder", "BillOrderFault"} => saga[n.order] # "None"
  /\ n.kind \in {"OrderPaid", "DispatchOrder"} => billed[n.order] > 0
  /\ n.kind = "OrderDispatched" => dispatched[n.order] > 0

LEMMA MessagesJustified ==
  ASSUME BagToSet(net) \subseteq Message
  PROVE  MessagesAreRouted /\ MessagesKeepOrder
           <=> \A n \in BagToSet(net) : Justified(n)
  BY DEF MessagesAreRouted, MessagesKeepOrder, About, Justified, Message

\* Nothing a message is justified by is ever taken back.
Kept ==
  \A o \in Orders :
    /\ source[o] # "none" => source'[o] # "none"
    /\ saga[o] # "None" => saga'[o] # "None"
    /\ billed[o] > 0 => billed'[o] > 0
    /\ dispatched[o] > 0 => dispatched'[o] > 0

LEMMA KeptJustifies ==
  ASSUME Kept, NEW n \in Message, Justified(n)
  PROVE  Justified(n)'
  BY DEF Kept, Justified, Message

LEMMA SameJustified ==
  ASSUME NEW m \in Message, NEW n \in Message, SameEvent(n, m), Justified(m)
  PROVE  Justified(n)
  BY DEF SameEvent, Justified

\* The saga moves along one transition of the order the message is about, and
\* never back to where it has no instance.
LEMMA MoveFact ==
  ASSUME SagaInv, NEW m \in BagToSet(net), NEW commit, MoveSaga(m, commit)
  PROVE  \/ UNCHANGED saga
         \/ /\ m.corr \in Orders /\ m.order \in Orders
            /\ m.kind = "OrderCanceled" \/ m.corr = m.order
            /\ \E t \in SagaStates \ {"None"} :
                 /\ <<saga[m.corr], m.kind, t>> \in Transitions
                 /\ saga' = [saga EXCEPT ![m.corr] = t]
<1>1. m \in Message /\ Justified(m)
  BY MessagesJustified DEF SagaInv, TypeOK
<1>2. CASE ~(commit # "failed" /\ Accepts(StateOf(m.corr), m.kind))
  BY <1>2 DEF MoveSaga
<1>3. CASE commit # "failed" /\ Accepts(StateOf(m.corr), m.kind)
  <2>1. PICK t \in Targets(StateOf(m.corr), m.kind) : saga' = [saga EXCEPT ![m.corr] = t]
    BY <1>3 DEF MoveSaga
  <2>2. t \in SagaStates /\ <<StateOf(m.corr), m.kind, t>> \in Transitions
    BY DEF Targets
  <2>3. m.kind \notin {"OrderDelivered", "OrderNotDelivered", "RollbackOrderPayment"}
    BY <1>1, <2>2 DEF Justified, Message, Kinds, Transitions
  <2>4. t # "None"
    BY <2>2, <2>3 DEF Transitions
  <2>5. m.kind = "OrderCanceled" \/ m.corr = m.order
    BY <1>1, <2>3 DEF Justified
  <2>6. m.corr \in Orders
    <3>1. CASE m.kind = "OrderCanceled"
      <4>1. StateOf(m.corr) # "None"
        BY <2>2, <3>1 DEF Transitions
      <4>2. QED
        BY <4>1 DEF StateOf
    <3>2. CASE m.kind # "OrderCanceled"
      BY <2>5, <3>2, <1>1 DEF Message
    <3>3. QED
      BY <3>1, <3>2
  <2>7. StateOf(m.corr) = saga[m.corr]
    BY <2>6 DEF StateOf
  <2>8. QED
    BY <1>1, <2>1, <2>2, <2>4, <2>5, <2>6, <2>7 DEF Message
<1>4. QED
  BY <1>2, <1>3

LEMMA SagaStepKeeps ==
  ASSUME SagaInv, NEW m \in BagToSet(net), NEW commit, NEW out,
         SagaStep(m, commit, out)
  PROVE  Kept
<1>1. UNCHANGED <<source, billed, dispatched>>
  BY DEF SagaStep, ledger
<1>2. \A o \in Orders : saga[o] # "None" => saga'[o] # "None"
  <2>1. MoveSaga(m, commit)
    BY DEF SagaStep
  <2>2. QED
    BY <2>1, MoveFact DEF SagaInv, TypeOK
<1>3. QED
  BY <1>1, <1>2 DEF Kept

\* A delivery of the saga queue publishes only what the saga's new state and
\* the consumed message justify.
LEMMA SagaPublishesJustified ==
  ASSUME SagaInv, NEW m \in BagToSet(net), NEW commit, NEW out,
         SagaStep(m, commit, out), Succeeds(m, commit, out), out = "publishes",
         NEW n \in Published(m)
  PROVE  Justified(n)'
<1>1. m \in Message /\ Justified(m) /\ m.queue = SagaQueue
  BY MessagesJustified DEF SagaInv, TypeOK, SagaStep
<1>2. m.kind \in ConsumedAtSaga
  BY <1>1 DEF SagaStep, Outcomes, HasConsumer
<1>3. /\ n \in Message
      /\ n.kind \in Continuations(m.kind)
      /\ n.order = m.order /\ n.corr = m.corr
      /\ n.queue \in Subscribers[n.kind]
  BY <1>1, PublishedFact
<1>4. UNCHANGED <<source, billed, dispatched>>
  BY DEF SagaStep, ledger
<1>5. CASE m.kind = "OrderPlaced"
  <2>1. n.kind = "BillOrder" /\ n.corr = n.order /\ m.corr \in Orders
    BY <1>1, <1>3, <1>5, ContinuationSets DEF Justified, Message
  <2>2. Accepts(StateOf(m.corr), m.kind)
    <3>1. "OrderPlaced" \in Targets("None", "OrderPlaced")
      BY DEF Targets, SagaStates, InstanceStates, Transitions
    <3>2. ~ <<StateOf(m.corr), "OrderPlaced">> \in Ignored
      BY DEF Ignored
    <3>3. QED
      BY <1>5, <3>1, <3>2 DEF Succeeds, Rejects, Tolerates, Accepts
  <2>3. \E t \in Targets(StateOf(m.corr), m.kind) : saga' = [saga EXCEPT ![m.corr] = t]
    BY <2>2 DEF SagaStep, MoveSaga, Succeeds
  <2>4. saga'[m.corr] # "None"
    BY <1>5, <2>1, <2>3 DEF Targets, Transitions, SagaInv, TypeOK
  <2>5. saga'[n.order] # "None"
    BY <2>1, <2>4, <1>3
  <2>6. QED
    BY <1>3, <2>1, <2>5 DEF Justified
<1>6. CASE m.kind = "OrderPaid"
  BY <1>1, <1>3, <1>4, <1>6, ContinuationSets DEF Justified, Message
<1>7. CASE m.kind \in {"OrderCanceled", "BillOrderFault", "OrderDispatched"}
  BY <1>1, <1>3, <1>4, <1>7, ContinuationSets DEF Justified, Message
<1>8. m.kind # "OrderDelivered"
  BY <1>1 DEF Justified
<1>9. QED
  BY <1>2, <1>5, <1>6, <1>7, <1>8 DEF ConsumedAtSaga

\* A fault carries the order of the BillOrder it is the fault of.
LEMMA FaultsJustified ==
  ASSUME SagaInv, Kept, NEW m \in BagToSet(net), NEW n \in Faults(m)
  PROVE  Justified(n)'
<1>1. m \in Message /\ Justified(m)
  BY MessagesJustified DEF SagaInv, TypeOK
<1>2. /\ n \in Message
      /\ m.kind = "BillOrder" /\ n.kind = "BillOrderFault"
      /\ n.order = m.order /\ n.corr = m.corr
      /\ n.queue \in Subscribers[n.kind]
  BY <1>1, FaultFact
<1>3. Justified(n)
  BY <1>1, <1>2 DEF Justified
<1>4. QED
  BY <1>2, <1>3, KeptJustifies

\* From a step that keeps what justifies messages, it is enough to look at the
\* messages it adds.
LEMMA DeliveryJustifies ==
  ASSUME SagaInv, TypeOK', Kept, NEW m \in BagToSet(net), NEW ok, NEW out,
         NetAfter(m, ok, out),
         \A n \in Published(m) : ok /\ out = "publishes" => Justified(n)'
  PROVE  MessagesAreRouted' /\ MessagesKeepOrder'
<1>1. m \in Message /\ \A n \in BagToSet(net) : n \in Message /\ Justified(n)
  BY MessagesJustified DEF SagaInv, TypeOK
<1>2. ASSUME NEW n \in BagToSet(net') PROVE Justified(n)'
  <2>1. CASE n \in BagToSet(net)
    BY <1>1, <2>1, KeptJustifies
  <2>2. CASE n \in Message /\ SameEvent(n, m)
    BY <1>1, <2>2, SameJustified, KeptJustifies
  <2>3. CASE ok /\ out = "publishes" /\ n \in Published(m)
    BY <2>3
  <2>4. CASE n \in Faults(m)
    BY <2>4, FaultsJustified
  <2>5. QED
    BY <2>1, <2>2, <2>3, <2>4 DEF NetAfter
<1>3. (BagToSet(net) \subseteq Message)'
  BY DEF TypeOK
<1>4. (MessagesAreRouted /\ MessagesKeepOrder
        <=> \A n \in BagToSet(net) : Justified(n))'
  BY <1>3, MessagesJustified, PTL
<1>5. QED
  BY <1>2, <1>4

LEMMA SagaInvInit == Init => SagaInv
<1> SUFFICES ASSUME Init PROVE SagaInv
  OBVIOUS
<1>1. TypeOK
  BY TypeInit
<1>2. BagToSet(net) = {}
  BY DEF Init, EmptyBag, SetToBag, BagToSet
<1>3. MessagesAreRouted /\ MessagesKeepOrder
  BY <1>2 DEF MessagesAreRouted, MessagesKeepOrder, About
<1>4. SagaNeverAhead
  BY DEF Init, SagaNeverAhead
<1>5. QED
  BY <1>1, <1>3, <1>4 DEF SagaInv

LEMMA PlacedStep ==
  ASSUME SagaInv, TypeOK', NEW o \in Orders, NEW p \in Publishers,
         PublishOrderPlaced(o, p)
  PROVE  SagaInv'
<1> DEFINE out == Publish("OrderPlaced", o, o, p = "PlaceOrder")
<1>1. source'[o] # "none" /\ Kept
  <2>1. p # "none"
    BY PublishersAssumption
  <2>2. QED
    BY <2>1 DEF PublishOrderPlaced, SagaInv, TypeOK, Kept
<1>2. \A n \in out : Justified(n)'
  <2>1. ASSUME NEW n \in out
        PROVE  /\ n.kind = "OrderPlaced" /\ n.order = o /\ n.corr = o
               /\ n.queue \in Subscribers["OrderPlaced"]
    BY DEF Publish
  <2>2. QED
    BY <2>1, <1>1 DEF Justified
<1>3. BagToSet(net') = BagToSet(net) \cup out
  <2>1. net' = Send(net, out)
    BY DEF PublishOrderPlaced
  <2> HIDE DEF out
  <2>2. QED
    BY <2>1, SendBag DEF SagaInv, TypeOK
<1>4. \A n \in BagToSet(net) : n \in Message /\ Justified(n)
  BY MessagesJustified DEF SagaInv, TypeOK
<1>5. \A n \in BagToSet(net') : Justified(n)'
  <2> HIDE DEF out
  <2>1. QED
    BY <1>1, <1>2, <1>3, <1>4, KeptJustifies
<1>6. (MessagesAreRouted /\ MessagesKeepOrder)'
  <2>1. (BagToSet(net) \subseteq Message)'
    BY DEF TypeOK
  <2>2. (MessagesAreRouted /\ MessagesKeepOrder
          <=> \A n \in BagToSet(net) : Justified(n))'
    BY <2>1, MessagesJustified, PTL
  <2>3. QED
    BY <1>5, <2>2
<1>7. SagaNeverAhead'
  BY DEF SagaInv, SagaNeverAhead, PublishOrderPlaced
<1>8. QED
  BY <1>6, <1>7 DEF SagaInv

LEMMA CanceledStep ==
  ASSUME SagaInv, TypeOK', NEW o \in Orders, NEW id \in CancelIds,
         PublishOrderCanceled(o, id)
  PROVE  SagaInv'
<1> DEFINE c   == IF id = "placed" THEN o ELSE Fresh
           out == Publish("OrderCanceled", o, c, FALSE)
<1>1. Kept
  BY DEF PublishOrderCanceled, Kept
<1>2. \A n \in out : Justified(n)'
  <2>1. ASSUME NEW n \in out
        PROVE  n.kind = "OrderCanceled" /\ n.queue \in Subscribers["OrderCanceled"]
    BY DEF Publish
  <2>2. QED
    BY <2>1 DEF Justified
<1>3. BagToSet(net') = BagToSet(net) \cup out
  <2>1. net' = Send(net, out)
    BY DEF PublishOrderCanceled
  <2> HIDE DEF out
  <2>2. QED
    BY <2>1, SendBag DEF SagaInv, TypeOK
<1>4. \A n \in BagToSet(net) : n \in Message /\ Justified(n)
  BY MessagesJustified DEF SagaInv, TypeOK
<1>5. \A n \in BagToSet(net') : Justified(n)'
  <2> HIDE DEF out
  <2>1. QED
    BY <1>1, <1>2, <1>3, <1>4, KeptJustifies
<1>6. (MessagesAreRouted /\ MessagesKeepOrder)'
  <2>1. (BagToSet(net) \subseteq Message)'
    BY DEF TypeOK
  <2>2. (MessagesAreRouted /\ MessagesKeepOrder
          <=> \A n \in BagToSet(net) : Justified(n))'
    BY <2>1, MessagesJustified, PTL
  <2>3. QED
    BY <1>5, <2>2
<1>7. SagaNeverAhead'
  BY DEF SagaInv, SagaNeverAhead, PublishOrderCanceled
<1>8. QED
  BY <1>6, <1>7 DEF SagaInv

\* The saga enters a state that claims work only on a message that work
\* justifies, and the saga queue itself does no work.
LEMMA SagaStepInv ==
  ASSUME SagaInv, TypeOK', NEW m \in BagToSet(net), NEW commit \in Commits,
         NEW out \in OutcomeNames, SagaStep(m, commit, out)
  PROVE  SagaInv'
<1>1. m \in Message /\ Justified(m)
  BY MessagesJustified DEF SagaInv, TypeOK
<1>2. Kept
  BY SagaStepKeeps
<1>3. MessagesAreRouted' /\ MessagesKeepOrder'
  <2>1. NetAfter(m, Succeeds(m, commit, out), out)
    BY DEF SagaStep
  <2>2. \A n \in Published(m) :
          Succeeds(m, commit, out) /\ out = "publishes" => Justified(n)'
    BY SagaPublishesJustified
  <2> DEFINE ok == Succeeds(m, commit, out)
  <2> HIDE DEF ok
  <2>3. NetAfter(m, ok, out)
    BY <2>1 DEF ok
  <2>4. \A n \in Published(m) : ok /\ out = "publishes" => Justified(n)'
    BY <2>2 DEF ok
  <2>5. QED
    BY <1>2, <2>3, <2>4, DeliveryJustifies
<1>4. SagaNeverAhead'
  <2>1. UNCHANGED <<billed, dispatched>>
    BY DEF SagaStep
  <2>2. CASE UNCHANGED saga
    BY <2>1, <2>2 DEF SagaInv, SagaNeverAhead
  <2>3. CASE \E t \in SagaStates \ {"None"} :
               /\ m.corr \in Orders
               /\ m.kind = "OrderCanceled" \/ m.corr = m.order
               /\ <<saga[m.corr], m.kind, t>> \in Transitions
               /\ saga' = [saga EXCEPT ![m.corr] = t]
    <3>1. PICK t \in SagaStates \ {"None"} :
               /\ m.corr \in Orders
               /\ m.kind = "OrderCanceled" \/ m.corr = m.order
               /\ <<saga[m.corr], m.kind, t>> \in Transitions
               /\ saga' = [saga EXCEPT ![m.corr] = t]
      BY <2>3
    <3>2. t \in {"OrderPaid", "OrderWaitingToBeDispatched"} =>
            m.kind \in {"OrderPaid", "DispatchOrder"}
      BY <3>1 DEF Transitions
    <3>3. t = "OrderDispatched" => m.kind = "OrderDispatched"
      BY <3>1 DEF Transitions
    <3>4. t \in {"OrderPaid", "OrderWaitingToBeDispatched"} => billed[m.corr] > 0
      BY <3>1, <3>2, <1>1 DEF Justified
    <3>5. t = "OrderDispatched" => dispatched[m.corr] > 0
      BY <3>1, <3>3, <1>1 DEF Justified
    <3>6. QED
      BY <2>1, <3>1, <3>4, <3>5 DEF SagaInv, SagaNeverAhead, TypeOK
  <2>4. QED
    <3>1. MoveSaga(m, commit)
      BY DEF SagaStep
    <3>2. QED
      BY <2>2, <2>3, <3>1, MoveFact
<1>5. QED
  BY <1>3, <1>4 DEF SagaInv

\* A worker queue holds only commands to the worker, and carrying one out is
\* what justifies the event it publishes.
LEMMA WorkStepInv ==
  ASSUME SagaInv, TypeOK', NEW m \in BagToSet(net), NEW out \in OutcomeNames,
         WorkStep(m, out)
  PROVE  SagaInv'
<1>1. m \in Message /\ Justified(m) /\ m.order \in Orders
  BY MessagesJustified DEF SagaInv, TypeOK, Message
<1>2. PICK done \in BOOLEAN : /\ NetAfter(m, done, out)
                              /\ Record(m, done /\ out = "publishes")
  BY DEF WorkStep
<1>3. UNCHANGED <<saga, source>>
  BY DEF WorkStep, ledger
<1>4. m.kind \in {"BillOrder", "DispatchOrder", "RollbackOrderPayment"}
  <2>1. m.queue \in WorkerQueues /\ m.queue \in Subscribers[m.kind] /\ m.kind \in Kinds
    BY <1>1 DEF WorkStep, Justified, Message
  <2>2. QED
    BY <2>1 DEF WorkerQueues, Subscribers, Kinds, SagaQueue, BillingQueue,
                BillingRollbackQueue, DeliveryQueue, StatusNotifierQueue,
                RollbackOrderQueue
<1>5. Kept
  BY <1>2, <1>3 DEF Record, Kept, SagaInv, TypeOK
<1>6. ASSUME NEW n \in Published(m), done, out = "publishes" PROVE Justified(n)'
  <2>1. /\ n \in Message
        /\ n.kind \in Continuations(m.kind)
        /\ n.order = m.order /\ n.corr = m.corr
        /\ n.queue \in Subscribers[n.kind]
    BY <1>1, PublishedFact
  <2>2. CASE m.kind = "BillOrder"
    <3>1. billed'[m.order] > 0
      BY <1>1, <1>2, <1>6, <2>2 DEF Record, SagaInv, TypeOK
    <3>2. n.kind = "OrderPaid" /\ n.corr = n.order
      BY <1>1, <2>1, <2>2, ContinuationSets DEF Justified, Message
    <3>3. QED
      BY <2>1, <3>1, <3>2 DEF Justified
  <2>3. CASE m.kind = "DispatchOrder"
    <3>1. dispatched'[m.order] > 0
      BY <1>1, <1>2, <1>6, <2>3 DEF Record, SagaInv, TypeOK
    <3>2. n.kind = "OrderDispatched" /\ n.corr = n.order
      BY <1>1, <2>1, <2>3, ContinuationSets DEF Justified, Message
    <3>3. QED
      BY <2>1, <3>1, <3>2 DEF Justified
  <2>4. CASE m.kind = "RollbackOrderPayment"
    BY <1>1, <2>1, <2>4, ContinuationSets DEF Message
  <2>5. QED
    BY <1>4, <2>2, <2>3, <2>4
<1>7. MessagesAreRouted' /\ MessagesKeepOrder'
  BY <1>2, <1>5, <1>6, DeliveryJustifies
<1>8. SagaNeverAhead'
  <2>1. m.kind = "BillOrder" => saga[m.order] # "None"
    BY <1>1 DEF Justified
  <2>2. m.kind = "DispatchOrder" => billed[m.order] > 0
    BY <1>1 DEF Justified
  <2>3. QED
    BY <1>1, <1>2, <1>3, <1>5, <2>1, <2>2
    DEF Record, Kept, SagaInv, SagaNeverAhead, TypeOK
<1>9. QED
  BY <1>7, <1>8 DEF SagaInv

LEMMA SagaInvStep == SagaInv /\ [Next]_vars => SagaInv'
<1> SUFFICES ASSUME SagaInv, [Next]_vars PROVE SagaInv'
  OBVIOUS
<1>1. TypeOK
  BY DEF SagaInv
<1>2. TypeOK'
  BY <1>1, TypeStep
<1>3. CASE UNCHANGED vars
  BY <1>2, <1>3 DEF vars, ledger, SagaInv, MessagesAreRouted, MessagesKeepOrder,
                    About, SagaNeverAhead
<1>4. QED
  BY <1>1, <1>2, <1>3, StepKinds, PlacedStep, CanceledStep, SagaStepInv,
     WorkStepInv

\* The inductive invariant holds in every reachable state.
THEOREM SagaInvariant == Safety => []SagaInv
BY SagaInvInit, SagaInvStep, PTL DEF Safety

\* Nothing on record or on its way claims work that was not done.
THEOREM NeverAhead == Safety => [](SagaNeverAhead /\ MessagesKeepOrder)
<1>1. SagaInv => SagaNeverAhead /\ MessagesKeepOrder
  BY DEF SagaInv
<1>2. QED
  BY <1>1, SagaInvariant, PTL

(***************************************************************************)
(* The saga implements the lifecycle.                                      *)
(***************************************************************************)

LEMMA LifecycleInit == Init => Lifecycle!Init
  BY DEF Init, Lifecycle!Init

\* A delivery of the saga queue is one move of the lifecycle, or none.
LEMMA SagaStepRefines ==
  ASSUME SagaInv, NEW m \in BagToSet(net), NEW commit, NEW out,
         SagaStep(m, commit, out)
  PROVE  [Lifecycle!Next]_(Lifecycle!vars)
<1>1. m \in Message /\ Justified(m)
  BY MessagesJustified DEF SagaInv, TypeOK
<1>2. UNCHANGED <<billed, dispatched>> /\ MoveSaga(m, commit)
  BY DEF SagaStep
<1>3. CASE UNCHANGED saga
  BY <1>2, <1>3 DEF Lifecycle!vars
<1>4. CASE \E t \in SagaStates \ {"None"} :
             /\ m.corr \in Orders
             /\ m.kind = "OrderCanceled" \/ m.corr = m.order
             /\ <<saga[m.corr], m.kind, t>> \in Transitions
             /\ saga' = [saga EXCEPT ![m.corr] = t]
  <2> DEFINE o == m.corr
  <2>1. PICK t \in SagaStates \ {"None"} :
             /\ o \in Orders
             /\ m.kind = "OrderCanceled" \/ o = m.order
             /\ <<saga[o], m.kind, t>> \in Transitions
             /\ saga' = [saga EXCEPT ![o] = t]
    BY <1>4
  <2>2. m.kind \in {"OrderPaid", "DispatchOrder"} => billed[o] > 0
    BY <1>1, <2>1 DEF Justified
  <2>3. m.kind = "OrderDispatched" => dispatched[o] > 0
    BY <1>1, <2>1 DEF Justified
  <2> HIDE DEF o
  <2>4. \/ saga[o] = "None" /\ t = "OrderPlaced"
        \/ saga[o] = "OrderPlaced" /\ t = "OrderSentForBilling"
        \/ saga[o] \in {"OrderPlaced", "OrderSentForBilling"} /\ t = "OrderCanceled"
        \/ saga[o] = "OrderSentForBilling" /\ t = "OrderPaid" /\ m.kind = "OrderPaid"
        \/ saga[o] = "OrderSentForBilling" /\ t = "OrderFailedToBeBilled"
        \/ saga[o] = "OrderPaid" /\ t = "OrderWaitingToBeDispatched"
        \/ /\ saga[o] = "OrderWaitingToBeDispatched" /\ t = "OrderDispatched"
           /\ m.kind = "OrderDispatched"
    BY <2>1 DEF Transitions
  <2>5. \/ Lifecycle!Start(o) \/ Lifecycle!Request(o) \/ Lifecycle!Cancel(o)
        \/ Lifecycle!RecordPayment(o) \/ Lifecycle!Fail(o)
        \/ Lifecycle!AwaitDispatch(o) \/ Lifecycle!RecordDispatch(o)
    BY <1>2, <2>1, <2>2, <2>3, <2>4
    DEF Lifecycle!Start, Lifecycle!Request, Lifecycle!Cancel,
        Lifecycle!RecordPayment, Lifecycle!Fail, Lifecycle!AwaitDispatch,
        Lifecycle!RecordDispatch, Lifecycle!Move
  <2>6. QED
    BY <2>1, <2>5 DEF Lifecycle!Next
<1>5. QED
  BY <1>2, <1>3, <1>4, MoveFact

\* A delivery of a worker queue is a payment, a shipment, or neither.
LEMMA WorkStepRefines ==
  ASSUME SagaInv, NEW m \in BagToSet(net), NEW out, WorkStep(m, out)
  PROVE  [Lifecycle!Next]_(Lifecycle!vars)
<1> DEFINE o == m.order
<1>1. Justified(m) /\ o \in Orders
  BY MessagesJustified DEF SagaInv, TypeOK, Message
<1>2. UNCHANGED saga
  BY DEF WorkStep
<1>3. \/ /\ m.kind = "BillOrder"
         /\ billed' = [billed EXCEPT ![o] = billed[o] + 1] /\ UNCHANGED dispatched
      \/ /\ m.kind = "DispatchOrder"
         /\ dispatched' = [dispatched EXCEPT ![o] = dispatched[o] + 1]
         /\ UNCHANGED billed
      \/ UNCHANGED <<billed, dispatched>>
  BY DEF WorkStep, Record
<1>4. (m.kind = "BillOrder" => saga[o] # "None") /\ (m.kind = "DispatchOrder" => billed[o] > 0)
  BY <1>1 DEF Justified
<1> HIDE DEF o
<1>5. CASE /\ m.kind = "BillOrder"
           /\ billed' = [billed EXCEPT ![o] = billed[o] + 1] /\ UNCHANGED dispatched
  <2>1. {x \in Orders : billed'[x] > 0} = {x \in Orders : billed[x] > 0} \cup {o}
    BY <1>1, <1>5 DEF SagaInv, TypeOK
  <2>2. Lifecycle!Pay(o)
    BY <1>2, <1>4, <1>5, <2>1 DEF Lifecycle!Pay
  <2>3. QED
    BY <1>1, <2>2 DEF Lifecycle!Next
<1>6. CASE /\ m.kind = "DispatchOrder"
           /\ dispatched' = [dispatched EXCEPT ![o] = dispatched[o] + 1]
           /\ UNCHANGED billed
  <2>1. {x \in Orders : dispatched'[x] > 0} = {x \in Orders : dispatched[x] > 0} \cup {o}
    BY <1>1, <1>6 DEF SagaInv, TypeOK
  <2>2. Lifecycle!Ship(o)
    BY <1>1, <1>2, <1>4, <1>6, <2>1 DEF Lifecycle!Ship
  <2>3. QED
    BY <1>1, <2>2 DEF Lifecycle!Next
<1>7. CASE UNCHANGED <<billed, dispatched>>
  BY <1>2, <1>7 DEF Lifecycle!vars
<1>8. QED
  BY <1>3, <1>5, <1>6, <1>7

LEMMA StepRefines == SagaInv /\ [Next]_vars => [Lifecycle!Next]_(Lifecycle!vars)
<1> SUFFICES ASSUME SagaInv, [Next]_vars PROVE [Lifecycle!Next]_(Lifecycle!vars)
  OBVIOUS
<1>1. TypeOK
  BY DEF SagaInv
<1>2. CASE \E o \in Orders, p \in Publishers : PublishOrderPlaced(o, p)
  BY <1>2 DEF PublishOrderPlaced, Lifecycle!vars
<1>3. CASE \E o \in Orders, id \in CancelIds : PublishOrderCanceled(o, id)
  BY <1>3 DEF PublishOrderCanceled, Lifecycle!vars
<1>4. CASE UNCHANGED vars
  BY <1>4 DEF vars, Lifecycle!vars
<1>5. QED
  BY <1>1, <1>2, <1>3, <1>4, StepKinds, SagaStepRefines, WorkStepRefines

\* With messages, retries and crashes hidden, the saga is the lifecycle.
THEOREM Refinement == Safety => ImplementsLifecycle
<1>1. Init => Lifecycle!Init
  BY LifecycleInit
<1>2. SagaInv /\ [Next]_vars => [Lifecycle!Next]_(Lifecycle!vars)
  BY StepRefines
<1>3. QED
  BY <1>1, <1>2, SagaInvariant, PTL DEF Safety, ImplementsLifecycle, Lifecycle!Spec
==============================================================================
