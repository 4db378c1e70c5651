------------------------- MODULE OrderEvents_proofs -------------------------
(***************************************************************************)
(* Facts about the broker and its messages, for the proofs of the modules  *)
(* that extend OrderEvents.                                                *)
(***************************************************************************)
EXTENDS OrderEvents, TLAPS

(***************************************************************************)
(* The broker.                                                             *)
(***************************************************************************)

\* Sending adds exactly the messages sent.
LEMMA SendBag ==
  ASSUME NEW B, IsABag(B), NEW S
  PROVE  /\ IsABag(Send(B, S))
         /\ BagToSet(Send(B, S)) = BagToSet(B) \cup S
  BY DEF Send, IsABag, BagToSet, SetToBag, (+)

\* Taking one copy off leaves a bag over the messages that were there.
LEMMA TakeBag ==
  ASSUME NEW B, IsABag(B), NEW m
  PROVE  /\ IsABag(B (-) SetToBag({m}))
         /\ BagToSet(B (-) SetToBag({m})) \subseteq BagToSet(B)
  BY DEF IsABag, BagToSet, SetToBag, (-)

\* A delivery leaves what was there, perhaps without itself, and what it sends.
LEMMA ReplaceBag ==
  ASSUME NEW B, IsABag(B), NEW m, NEW S
  PROVE  /\ IsABag(Replace(B, m, S))
         /\ BagToSet(Replace(B, m, S)) \subseteq BagToSet(B) \cup S
<1> DEFINE C == B (-) SetToBag({m})
<1>1. IsABag(C) /\ BagToSet(C) \subseteq BagToSet(B)
  BY TakeBag
<1>2. Replace(B, m, S) = Send(C, S)
  BY DEF Replace
<1> HIDE DEF C
<1>3. IsABag(Send(C, S)) /\ BagToSet(Send(C, S)) = BagToSet(C) \cup S
  BY <1>1, SendBag
<1>4. QED
  BY <1>1, <1>2, <1>3

(***************************************************************************)
(* Messages.                                                               *)
(***************************************************************************)

\* A published copy is fresh and lies in a queue bound to its kind.
LEMMA PublishFact ==
  ASSUME NEW k \in Kinds, NEW o \in Orders, NEW c \in Orders \cup {Fresh},
         NEW v \in BOOLEAN, NEW n \in Publish(k, o, c, v)
  PROVE  /\ n \in Message
         /\ n.kind = k /\ n.order = o /\ n.corr = c
         /\ n.queue \in Subscribers[k]
<1>1. Subscribers[k] \subseteq Queues
  BY DEF Kinds, Subscribers, Queues, WorkerQueues, OrderingQueues
<1>2. 0 \in 0..Retries
  BY RetriesAssumption
<1>3. QED
  BY <1>1, <1>2 DEF Publish, Message

LEMMA PublishType ==
  ASSUME NEW k \in Kinds, NEW o \in Orders, NEW c \in Orders \cup {Fresh},
         NEW v \in BOOLEAN
  PROVE  Publish(k, o, c, v) \subseteq {n \in Message : n.kind = k}
<1>1. ASSUME NEW n \in Publish(k, o, c, v)
      PROVE  n \in Message /\ n.kind = k
  BY PublishFact
<1>2. QED
  BY <1>1

\* What the consumers publish, spelled out.
LEMMA ContinuationSets ==
  ASSUME NEW k \in Kinds
  PROVE  Continuations(k) =
           CASE k = "OrderPlaced"     -> {"BillOrder"}
             [] k = "BillOrder"       -> {"OrderPaid"}
             [] k = "OrderPaid"       -> {"NotifyOrderPaid", "DispatchOrder"}
             [] k = "DispatchOrder"   -> {"OrderDispatched"}
             [] k = "OrderDispatched" -> {"NotifyOrderDispatched"}
             [] k = "OrderDelivered"  -> {"NotifyOrderDelivered"}
             [] k = "OrderCanceled"   -> {"RollbackOrderPayment"}
             [] k = "BillOrderFault"  -> {"OrderFailedToBeBilled"}
             [] OTHER                 -> {}
  BY DEF Continuations, OrderPlacedConsumer, BillOrderConsumer,
         OrderPaidConsumer, DispatchOrderConsumer, OrderDispatchedConsumer,
         OrderDeliveredConsumer, OrderCanceledConsumer, BillOrderFaultConsumer

LEMMA ContinuationKinds ==
  ASSUME NEW k \in Kinds
  PROVE  Continuations(k) \subseteq Kinds
  BY ContinuationSets DEF Kinds

\* What a consumer publishes is about the order of the message it consumed.
LEMMA PublishedFact ==
  ASSUME NEW m \in Message, NEW n \in Published(m)
  PROVE  /\ n \in Message
         /\ n.kind \in Continuations(m.kind)
         /\ n.order = m.order /\ n.corr = m.corr
         /\ n.queue \in Subscribers[n.kind]
<1>1. PICK k \in Continuations(m.kind) : n \in Publish(k, m.order, m.corr, TRUE)
  BY DEF Published
<1>2. /\ m.kind \in Kinds /\ m.order \in Orders
      /\ m.corr \in Orders \cup {Fresh}
  BY DEF Message
<1>3. k \in Kinds
  BY <1>2, ContinuationKinds
<1>4. /\ n \in Message
      /\ n.kind = k /\ n.order = m.order /\ n.corr = m.corr
      /\ n.queue \in Subscribers[k]
  <2>1. TRUE \in BOOLEAN
    OBVIOUS
  <2>2. QED
    BY <1>1, <1>2, <1>3, <2>1, PublishFact
<1>5. QED
  BY <1>1, <1>4

LEMMA FaultFact ==
  ASSUME NEW m \in Message, NEW n \in Faults(m)
  PROVE  /\ n \in Message
         /\ m.kind = "BillOrder" /\ n.kind = "BillOrderFault"
         /\ n.order = m.order /\ n.corr = m.corr
         /\ n.queue \in Subscribers[n.kind]
<1>1. m.kind = "BillOrder"
  BY DEF Faults
<1>2. n \in Publish("BillOrderFault", m.order, m.corr, m.valid)
  BY <1>1 DEF Faults
<1>3. /\ "BillOrderFault" \in Kinds /\ m.order \in Orders
      /\ m.corr \in Orders \cup {Fresh} /\ m.valid \in BOOLEAN
  BY DEF Message, Kinds
<1>4. QED
  BY <1>1, <1>2, <1>3, PublishFact
==============================================================================
