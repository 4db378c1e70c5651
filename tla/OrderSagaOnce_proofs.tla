------------------------ MODULE OrderSagaOnce_proofs -------------------------
(***************************************************************************)
(* Proofs about OrderSaga, for every set of orders and every bound: how    *)
(* often an order is billed and dispatched, and what Ordering is told.     *)
(*                                                                         *)
(* Deliveries are counted: work under way for an order and work done make  *)
(* one, and one more per crash.                                            *)
(***************************************************************************)
EXTENDS OrderSaga_proofs, FiniteSetTheorems

(***************************************************************************)
(* Copies of messages in a bag.                                            *)
(***************************************************************************)

LEMMA CopyFact ==
  ASSUME NEW B, IsABag(B), NEW K, NEW n, NEW i
  PROVE  <<n, i>> \in Copies(B, K) <=> n \in DOMAIN B /\ n \in K /\ i \in 1..B[n]
  BY DEF Copies, BagToSet

LEMMA CopyPairs ==
  ASSUME NEW B, NEW K, NEW c \in Copies(B, K)
  PROVE  c = <<c[1], c[2]>>
  BY DEF Copies

LEMMA CopyBase ==
  ASSUME NEW B, IsABag(B), NEW K
  PROVE  /\ \A n \in K : n \in BagToSet(B) => <<n, B[n]>> \in Copies(B, K)
         /\ Copies(B, K) = {} <=> BagToSet(B) \cap K = {}
<1>1. \A n \in DOMAIN B : B[n] \in Nat /\ B[n] > 0
  BY DEF IsABag
<1>2. \A n \in K : n \in BagToSet(B) => <<n, B[n]>> \in Copies(B, K)
  BY <1>1, CopyFact DEF BagToSet
<1>3. QED
  BY <1>2 DEF Copies

\* Taking a message off removes its last copy.
LEMMA TakeCopy ==
  ASSUME NEW B, IsABag(B), NEW m \in BagToSet(B), NEW K
  PROVE  Copies(B (-) SetToBag({m}), K) = Copies(B, K) \ {<<m, B[m]>>}
<1> DEFINE C == B (-) SetToBag({m})
<1>1. IsABag(C)
  BY TakeBag
<1>2. B[m] \in Nat /\ B[m] > 0 /\ m \in DOMAIN B
  BY DEF IsABag, BagToSet
<1>3. \A n : n \in DOMAIN C <=> n \in DOMAIN B /\ (n = m => B[m] > 1)
  BY <1>2 DEF (-), SetToBag, IsABag
<1>4. \A n \in DOMAIN C : C[n] = IF n = m THEN B[n] - 1 ELSE B[n]
  BY <1>2 DEF (-), SetToBag, IsABag
<1> HIDE DEF C
<1>5. ASSUME NEW n, NEW i
      PROVE  <<n, i>> \in Copies(C, K) <=> <<n, i>> \in Copies(B, K) /\ <<n, i>> # <<m, B[m]>>
  <2>1. <<n, i>> \in Copies(C, K) <=> n \in DOMAIN C /\ n \in K /\ i \in 1..C[n]
    BY <1>1, CopyFact
  <2>2. <<n, i>> \in Copies(B, K) <=> n \in DOMAIN B /\ n \in K /\ i \in 1..B[n]
    BY CopyFact
  <2>3. <<n, i>> = <<m, B[m]>> <=> n = m /\ i = B[m]
    OBVIOUS
  <2>4. CASE n = m
    BY <1>2, <1>3, <1>4, <2>1, <2>2, <2>3, <2>4
  <2>5. CASE n # m
    BY <1>3, <1>4, <2>1, <2>2, <2>3, <2>5
  <2>6. QED
    BY <2>4, <2>5
<1>6. ASSUME NEW c
      PROVE  c \in Copies(C, K) <=> c \in Copies(B, K) \ {<<m, B[m]>>}
  <2>1. CASE c = <<c[1], c[2]>>
    BY <1>5, <2>1
  <2>2. CASE c # <<c[1], c[2]>>
    BY <2>2, CopyPairs
  <2>3. QED
    BY <2>1, <2>2
<1>7. QED
  BY <1>6 DEF C

\* Sending adds one copy of every message sent.
LEMMA SendCopy ==
  ASSUME NEW B, IsABag(B), NEW S, NEW K
  PROVE  Copies(Send(B, S), K) = Copies(B, K) \cup {<<n, Send(B, S)[n]>> : n \in S \cap K}
<1> DEFINE C == Send(B, S)
<1>1. IsABag(C)
  BY SendBag
<1>2. \A n \in DOMAIN B : B[n] \in Nat /\ B[n] > 0
  BY DEF IsABag
<1>3. DOMAIN C = DOMAIN B \cup S
  BY DEF Send, (+), SetToBag
<1>4. \A n \in DOMAIN C : n \notin S => C[n] = B[n]
  BY <1>2 DEF Send, (+), SetToBag
<1>5. \A n \in S : C[n] = IF n \in DOMAIN B THEN B[n] + 1 ELSE 1
  BY <1>2 DEF Send, (+), SetToBag
<1> HIDE DEF C
<1>6. ASSUME NEW n, NEW i
      PROVE  <<n, i>> \in Copies(C, K)
               <=> <<n, i>> \in Copies(B, K) \/ (n \in S /\ n \in K /\ i = C[n])
  <2>1. <<n, i>> \in Copies(C, K) <=> n \in DOMAIN C /\ n \in K /\ i \in 1..C[n]
    BY <1>1, CopyFact
  <2>2. <<n, i>> \in Copies(B, K) <=> n \in DOMAIN B /\ n \in K /\ i \in 1..B[n]
    BY CopyFact
  <2>3. CASE n \in S /\ n \in DOMAIN B
    <3>1. C[n] = B[n] + 1 /\ B[n] \in Nat
      BY <1>2, <1>5, <2>3
    <3>2. i \in 1..C[n] <=> i \in 1..B[n] \/ i = C[n]
      BY <3>1
    <3>3. QED
      BY <1>3, <2>1, <2>2, <2>3, <3>2
  <2>4. CASE n \in S /\ n \notin DOMAIN B
    <3>1. C[n] = 1
      BY <1>5, <2>4
    <3>2. i \in 1..C[n] <=> i = C[n]
      BY <3>1
    <3>3. QED
      BY <1>3, <2>1, <2>2, <2>4, <3>2
  <2>5. CASE n \notin S
    BY <1>3, <1>4, <2>1, <2>2, <2>5
  <2>6. QED
    BY <2>3, <2>4, <2>5
<1>7. ASSUME NEW c
      PROVE  c \in Copies(C, K) <=> c \in Copies(B, K) \cup {<<n, C[n]>> : n \in S \cap K}
  <2>1. CASE c = <<c[1], c[2]>>
    <3>1. c \in {<<n, C[n]>> : n \in S \cap K}
            <=> c[1] \in S /\ c[1] \in K /\ c[2] = C[c[1]]
      BY <2>1
    <3>2. QED
      BY <1>6, <2>1, <3>1
  <2>2. CASE c # <<c[1], c[2]>>
    BY <2>2, CopyPairs
  <2>3. QED
    BY <2>1, <2>2
<1>8. QED
  BY <1>7 DEF C

\* How many copies there are after a send ...
LEMMA SendCount ==
  ASSUME NEW B, IsABag(B), NEW S, NEW K, NEW x, S \cap K \subseteq {x},
         IsFiniteSet(Copies(B, K))
  PROVE  /\ IsFiniteSet(Copies(Send(B, S), K))
         /\ Cardinality(Copies(Send(B, S), K)) <= Cardinality(Copies(B, K)) + 1
         /\ S \cap K = {} => Copies(Send(B, S), K) = Copies(B, K)
<1> DEFINE c == <<x, Send(B, S)[x]>>
           D == {<<n, Send(B, S)[n]>> : n \in S \cap K}
<1>1. Copies(Send(B, S), K) = Copies(B, K) \cup D
  BY SendCopy
<1>2. Cardinality(Copies(B, K)) \in Nat
  BY FS_CardinalityType
<1>3. /\ IsFiniteSet(Copies(B, K) \cup {c})
      /\ Cardinality(Copies(B, K) \cup {c}) <= Cardinality(Copies(B, K)) + 1
  <2> HIDE DEF c
  <2>1. /\ IsFiniteSet(Copies(B, K) \cup {c})
        /\ Cardinality(Copies(B, K) \cup {c}) =
             IF c \in Copies(B, K) THEN Cardinality(Copies(B, K))
             ELSE Cardinality(Copies(B, K)) + 1
    BY FS_AddElement
  <2>2. QED
    BY <1>2, <2>1
<1>4. CASE S \cap K = {}
  BY <1>1, <1>2, <1>4
<1>5. CASE S \cap K # {}
  <2>1. S \cap K = {x}
    BY <1>5
  <2>2. D = {c}
    BY <2>1
  <2>3. QED
    BY <1>1, <1>3, <1>5, <2>2
<1>6. QED
  BY <1>4, <1>5

\* ... and after a delivery.
LEMMA ReplaceCount ==
  ASSUME NEW B, IsABag(B), NEW m \in BagToSet(B), NEW S, NEW K, NEW x,
         S \cap K \subseteq {x}, IsFiniteSet(Copies(B, K))
  PROVE  /\ IsFiniteSet(Copies(Replace(B, m, S), K))
         /\ Cardinality(Copies(Replace(B, m, S), K)) <= Cardinality(Copies(B, K)) + 1
         /\ m \in K => Cardinality(Copies(Replace(B, m, S), K)) <= Cardinality(Copies(B, K))
         /\ S \cap K = {} =>
              /\ Copies(Replace(B, m, S), K) \subseteq Copies(B, K)
              /\ Cardinality(Copies(Replace(B, m, S), K)) <= Cardinality(Copies(B, K))
              /\ m \in K =>
                   Cardinality(Copies(Replace(B, m, S), K)) = Cardinality(Copies(B, K)) - 1
<1> DEFINE C == B (-) SetToBag({m})
           b == Cardinality(Copies(B, K))
           d == Cardinality(Copies(C, K))
           e == Cardinality(Copies(Send(C, S), K))
<1>1. IsABag(C) /\ Replace(B, m, S) = Send(C, S)
  BY TakeBag DEF Replace
<1>2. Copies(C, K) = Copies(B, K) \ {<<m, B[m]>>}
  BY TakeCopy
<1>3. m \in K => <<m, B[m]>> \in Copies(B, K)
  BY CopyBase
<1> HIDE DEF C
<1>4. IsFiniteSet(Copies(C, K)) /\ d <= b /\ (m \in K => d = b - 1) /\ b \in Nat /\ d \in Nat
  <2>1. /\ IsFiniteSet(Copies(B, K) \ {<<m, B[m]>>})
        /\ Cardinality(Copies(B, K) \ {<<m, B[m]>>}) =
             IF <<m, B[m]>> \in Copies(B, K) THEN b - 1 ELSE b
    BY FS_RemoveElement
  <2>2. IsFiniteSet(Copies(C, K)) /\ d = IF <<m, B[m]>> \in Copies(B, K) THEN b - 1 ELSE b
    BY <1>2, <2>1
  <2>3. b \in Nat
    BY FS_CardinalityType
  <2>4. d \in Nat
    BY <2>2, FS_CardinalityType
  <2> HIDE DEF b, d
  <2>5. QED
    BY <1>3, <2>2, <2>3, <2>4
<1>5. /\ IsFiniteSet(Copies(Send(C, S), K)) /\ e <= d + 1
      /\ S \cap K = {} => Copies(Send(C, S), K) = Copies(C, K)
  BY <1>1, <1>4, SendCount
<1>6. e \in Nat
  BY <1>5, FS_CardinalityType
<1>7. S \cap K = {} => e = d
  BY <1>5
<1>8. S \cap K = {} => Copies(Send(C, S), K) \subseteq Copies(B, K)
  BY <1>2, <1>5
<1>9. e <= b + 1 /\ (m \in K => e <= b)
      /\ (S \cap K = {} => e <= b /\ (m \in K => e = b - 1))
  <2> HIDE DEF b, d, e
  <2>1. QED
    BY <1>4, <1>5, <1>6, <1>7
<1>10. QED
  BY <1>1, <1>5, <1>8, <1>9
\* A delivery that is put back beside what it sent adds one copy at most.
LEMMA CrashCount ==
  ASSUME NEW B, IsABag(B), NEW m \in BagToSet(B), NEW S, NEW K, NEW x, NEW y,
         m \in K, S \cap K \subseteq {x, y}, IsFiniteSet(Copies(B, K))
  PROVE  /\ IsFiniteSet(Copies(Replace(B, m, S), K))
         /\ Cardinality(Copies(Replace(B, m, S), K)) <= Cardinality(Copies(B, K)) + 1
<1> DEFINE C == B (-) SetToBag({m})
           u == <<x, Send(C, S)[x]>>
           v == <<y, Send(C, S)[y]>>
           A == Copies(C, K)
           D == {<<n, Send(C, S)[n]>> : n \in S \cap K}
           E == Copies(Send(C, S), K)
<1>1. IsABag(C) /\ Replace(B, m, S) = Send(C, S)
  BY TakeBag DEF Replace
<1>2. A = Copies(B, K) \ {<<m, B[m]>>} /\ <<m, B[m]>> \in Copies(B, K)
  BY TakeCopy, CopyBase
<1>3. E = A \cup D /\ D \subseteq {u, v}
  <2>1. D \subseteq {u, v}
    OBVIOUS
  <2> HIDE DEF C
  <2>2. Copies(Send(C, S), K) = Copies(C, K) \cup {<<n, Send(C, S)[n]>> : n \in S \cap K}
    BY <1>1, SendCopy
  <2>3. QED
    BY <2>1, <2>2
<1> HIDE DEF C, A, D, E, u, v
<1>4. Cardinality(Copies(B, K)) \in Nat
  BY FS_CardinalityType
<1>5. IsFiniteSet(A) /\ Cardinality(A) = Cardinality(Copies(B, K)) - 1
  BY <1>2, FS_RemoveElement
<1>6. /\ IsFiniteSet(A \cup {u})
      /\ Cardinality(A \cup {u}) <= Cardinality(Copies(B, K))
  <2>1. Cardinality(A) \in Nat
    BY <1>5, FS_CardinalityType
  <2>2. QED
    BY <1>4, <1>5, <2>1, FS_AddElement
<1>7. /\ IsFiniteSet((A \cup {u}) \cup {v})
      /\ Cardinality((A \cup {u}) \cup {v}) <= Cardinality(Copies(B, K)) + 1
  <2>1. Cardinality(A \cup {u}) \in Nat
    BY <1>6, FS_CardinalityType
  <2> DEFINE F == A \cup {u}
  <2>2. IsFiniteSet(F) /\ Cardinality(F) \in Nat
    BY <1>6, <2>1
  <2> HIDE DEF F
  <2>3. /\ IsFiniteSet(F \cup {v})
        /\ Cardinality(F \cup {v}) <= Cardinality(F) + 1
    <3>1. /\ IsFiniteSet(F \cup {v})
          /\ Cardinality(F \cup {v}) =
               IF v \in F THEN Cardinality(F) ELSE Cardinality(F) + 1
      BY <2>2, FS_AddElement
    <3>2. QED
      BY <2>2, <3>1
  <2>4. Cardinality(F \cup {v}) \in Nat
    BY <2>3, FS_CardinalityType
  <2>5. Cardinality(F) <= Cardinality(Copies(B, K))
    BY <1>6 DEF F
  <2>6. Cardinality(F \cup {v}) <= Cardinality(Copies(B, K)) + 1
    BY <1>4, <2>2, <2>3, <2>4, <2>5
  <2>7. QED
    BY <2>3, <2>6 DEF F
<1>8. E \subseteq (A \cup {u}) \cup {v}
  BY <1>3
<1>9. IsFiniteSet(E) /\ Cardinality(E) <= Cardinality((A \cup {u}) \cup {v})
  BY <1>7, <1>8, FS_Subset
<1>10. Cardinality((A \cup {u}) \cup {v}) \in Nat /\ Cardinality(E) \in Nat
  BY <1>7, <1>9, FS_CardinalityType
<1>11. QED
  BY <1>1, <1>4, <1>7, <1>9, <1>10 DEF E

(***************************************************************************)
(* What a delivery may send, and which of it is work under way.            *)
(***************************************************************************)

LEMMA OnFact ==
  ASSUME NEW n \in Message, NEW k, NEW q, NEW o
  PROVE  n \in On(k, q, o) <=> n.kind = k /\ n.queue = q /\ n.order = o
  BY DEF Message, On

LEMMA ClassFact ==
  ASSUME NEW n \in Message, NEW o
  PROVE  /\ n \in Billing(o) <=>
              /\ n.order = o
              /\ \/ n.kind = "OrderPlaced" /\ n.queue = SagaQueue
                 \/ n.kind = "BillOrder" /\ n.queue = BillingQueue
         /\ n \in Chain(o) <=>
              \/ n \in Billing(o)
              \/ /\ n.order = o
                 /\ \/ n.kind = "OrderPaid" /\ n.queue = SagaQueue
                    \/ n.kind = "DispatchOrder" /\ n.queue = DeliveryQueue
         /\ n \in Notes(o) <=>
              n.order = o /\ n.kind = "BillOrder" /\ n.queue = SagaQueue
  BY OnFact DEF Billing, Chain, Notes

LEMMA QueueFact ==
  /\ SagaQueue # BillingQueue /\ SagaQueue # DeliveryQueue
  /\ BillingQueue # DeliveryQueue
  /\ SagaQueue \notin OrderingQueues /\ WorkerQueues \cap OrderingQueues = {}
  /\ WorkerQueues = {BillingQueue, BillingRollbackQueue, DeliveryQueue}
  /\ SagaQueue # BillingRollbackQueue /\ BillingRollbackQueue # BillingQueue
  /\ BillingRollbackQueue # DeliveryQueue
  BY DEF SagaQueue, BillingQueue, BillingRollbackQueue, DeliveryQueue,
         StatusNotifierQueue, RollbackOrderQueue, WorkerQueues, OrderingQueues

LEMMA BoundQueues ==
  /\ Subscribers["OrderPlaced"] = {SagaQueue}
  /\ Subscribers["BillOrder"] = {SagaQueue, BillingQueue}
  /\ Subscribers["OrderPaid"] = {SagaQueue}
  /\ Subscribers["BillOrderFault"] = {SagaQueue}
  /\ Subscribers["DispatchOrder"] = {SagaQueue, DeliveryQueue}
  /\ Subscribers["OrderCanceled"] = {SagaQueue}
  /\ Subscribers["OrderDispatched"] = {SagaQueue}
  /\ Subscribers["NotifyOrderPaid"] = {StatusNotifierQueue}
  /\ Subscribers["RollbackOrderPayment"] = {BillingRollbackQueue}
  BY DEF Subscribers

\* A published copy is determined by its kind and queue.
LEMMA PublishedExact ==
  ASSUME NEW m \in Message, NEW n1 \in Published(m), NEW n2 \in Published(m),
         n1.kind = n2.kind, n1.queue = n2.queue
  PROVE  n1 = n2
<1>1. PICK k1 \in Continuations(m.kind) : n1 \in Publish(k1, m.order, m.corr, TRUE)
  BY DEF Published
<1>2. PICK k2 \in Continuations(m.kind) : n2 \in Publish(k2, m.order, m.corr, TRUE)
  BY DEF Published
<1>3. PICK q1 \in Subscribers[k1] :
        n1 = [queue |-> q1, kind |-> k1, order |-> m.order, corr |-> m.corr,
              valid |-> TRUE, tries |-> 0]
  BY <1>1 DEF Publish
<1>4. PICK q2 \in Subscribers[k2] :
        n2 = [queue |-> q2, kind |-> k2, order |-> m.order, corr |-> m.corr,
              valid |-> TRUE, tries |-> 0]
  BY <1>2 DEF Publish
<1>5. QED
  BY <1>3, <1>4

\* What is sent by a delivery that does not crash: its outbox, itself, or its
\* fault.
Sends(m, S) ==
  \/ S = {}
  \/ S = Published(m) /\ HasConsumer(m)
  \/ \E t \in 0..Retries : S = {[m EXCEPT !.tries = t]}
  \/ S = Faults(m)

\* Routed as MessagesAreRouted says.
Routed(m) == m \in Message /\ m.queue \in Subscribers[m.kind]

LEMMA PublishedClass ==
  ASSUME NEW m, Routed(m), HasConsumer(m), NEW n \in Published(m), NEW o
  PROVE  /\ n \in Billing(o) =>
              m \in On("OrderPlaced", SagaQueue, o) /\ n.kind = "BillOrder"
              /\ n.queue = BillingQueue
         /\ n \in Chain(o) =>
              /\ m \in Chain(o)
              /\ \/ m.kind = "OrderPlaced" /\ n.kind = "BillOrder" /\ n.queue = BillingQueue
                 \/ m.kind = "BillOrder" /\ n.kind = "OrderPaid" /\ n.queue = SagaQueue
                 \/ m.kind = "OrderPaid" /\ n.kind = "DispatchOrder" /\ n.queue = DeliveryQueue
         /\ n \in Notes(o) =>
              m \in On("OrderPlaced", SagaQueue, o) /\ n.kind = "BillOrder"
              /\ n.queue = SagaQueue
<1>1. /\ n \in Message /\ n.kind \in Continuations(m.kind)
      /\ n.order = m.order /\ m \in Message /\ m.kind \in Kinds
      /\ m.queue \in Subscribers[m.kind]
  BY PublishedFact DEF Routed, Message
<1>2. /\ n.kind = "BillOrder" => m.kind = "OrderPlaced"
      /\ n.kind = "OrderPaid" => m.kind = "BillOrder"
      /\ n.kind = "DispatchOrder" => m.kind = "OrderPaid"
      /\ n.kind # "OrderPlaced"
  BY <1>1, ContinuationSets DEF Kinds
<1>3. /\ m.kind \in {"OrderPlaced", "OrderPaid"} => m.queue = SagaQueue
      /\ m.kind = "BillOrder" => m.queue = BillingQueue
  BY <1>1, BoundQueues DEF HasConsumer, ConsumedAtSaga
<1>4. QED
  BY <1>1, <1>2, <1>3, ClassFact, OnFact

LEMMA SameClass ==
  ASSUME NEW m \in Message, NEW t \in 0..Retries, NEW o
  PROVE  /\ [m EXCEPT !.tries = t] \in Billing(o) <=> m \in Billing(o)
         /\ [m EXCEPT !.tries = t] \in Chain(o) <=> m \in Chain(o)
         /\ [m EXCEPT !.tries = t] \in Notes(o) <=> m \in Notes(o)
<1> DEFINE n == [m EXCEPT !.tries = t]
<1>1. n \in Message /\ SameEvent(n, m)
  BY RetryFact
<1> HIDE DEF n
<1>2. /\ n \in Billing(o) <=> m \in Billing(o)
      /\ n \in Chain(o) <=> m \in Chain(o)
      /\ n \in Notes(o) <=> m \in Notes(o)
  BY <1>1, ClassFact DEF SameEvent
<1>3. QED
  BY <1>2 DEF n

LEMMA FaultClass ==
  ASSUME NEW m \in Message, NEW o
  PROVE  /\ Faults(m) \cap Billing(o) = {} /\ Faults(m) \cap Chain(o) = {}
         /\ Faults(m) \cap Notes(o) = {}
<1>1. \A n \in Faults(m) : n \in Message /\ n.kind = "BillOrderFault"
  BY FaultFact
<1>2. QED
  BY <1>1, ClassFact

\* Work under way begets work under way, one piece at a time, and nothing else
\* does.
LEMMA Heirs ==
  ASSUME NEW m, Routed(m), NEW S, Sends(m, S), NEW o
  PROVE  /\ \E x : S \cap Billing(o) \subseteq {x}
         /\ \E x : S \cap Chain(o) \subseteq {x}
         /\ \E x : S \cap Notes(o) \subseteq {x}
         /\ S \cap Billing(o) # {} => m \in Billing(o)
         /\ S \cap Chain(o) # {} => m \in Chain(o)
         /\ S \cap Notes(o) # {} => m \in Notes(o) \/ m \in On("OrderPlaced", SagaQueue, o)
<1>1. m \in Message
  BY DEF Routed
<1>2. CASE S = {}
  BY <1>2
<1>3. CASE S = Published(m) /\ HasConsumer(m)
  <2>1. \A n1, n2 \in S : (/\ n1 \in Billing(o) /\ n2 \in Billing(o)) => n1 = n2
    BY <1>1, <1>3, PublishedClass, PublishedExact
  <2>2. \A n1, n2 \in S : (/\ n1 \in Chain(o) /\ n2 \in Chain(o)) => n1 = n2
    BY <1>1, <1>3, PublishedClass, PublishedExact
  <2>3. \A n1, n2 \in S : (/\ n1 \in Notes(o) /\ n2 \in Notes(o)) => n1 = n2
    BY <1>1, <1>3, PublishedClass, PublishedExact
  <2>4. \A n \in S : /\ n \in Billing(o) => m \in Billing(o)
                     /\ n \in Chain(o) => m \in Chain(o)
                     /\ n \in Notes(o) => m \in On("OrderPlaced", SagaQueue, o)
    <3>1. m \in On("OrderPlaced", SagaQueue, o) => m \in Billing(o)
      BY DEF Billing
    <3>2. QED
      BY <1>3, <3>1, PublishedClass
  <2>5. \E x : S \cap Billing(o) \subseteq {x}
    BY <2>1
  <2>6. \E x : S \cap Chain(o) \subseteq {x}
    BY <2>2
  <2>7. \E x : S \cap Notes(o) \subseteq {x}
    BY <2>3
  <2>8. QED
    BY <2>4, <2>5, <2>6, <2>7
<1>4. CASE \E t \in 0..Retries : S = {[m EXCEPT !.tries = t]}
  <2>1. PICK t \in 0..Retries : S = {[m EXCEPT !.tries = t]}
    BY <1>4
  <2>2. QED
    BY <1>1, <2>1, SameClass
<1>5. CASE S = Faults(m)
  <2>1. S \cap Billing(o) = {} /\ S \cap Chain(o) = {} /\ S \cap Notes(o) = {}
    BY <1>1, <1>5, FaultClass
  <2>2. QED
    BY <2>1
<1>6. QED
  BY <1>2, <1>3, <1>4, <1>5 DEF Sends

(***************************************************************************)
(* The steps, with the bag after each of them.                             *)
(***************************************************************************)

\* A delivery that ends: with its outbox, on its way to a retry, or given up.
SagaTakes(m, commit, out, S) ==
  /\ m \in BagToSet(net) /\ m.queue = SagaQueue
  /\ out \in Outcomes(m)
  /\ MoveSaga(m, commit)
  /\ net' = Replace(net, m, S)
  /\ \/ Succeeds(m, commit, out) /\ S = Outbox(m, out)
     \/ /\ ~Succeeds(m, commit, out)
        /\ (\E t \in 0..Retries : S = {[m EXCEPT !.tries = t]}) \/ S = Faults(m)
  /\ Remembers(m, commit)
  /\ UNCHANGED <<ledger, billed, dispatched, crashes>>

WorkTakes(m, out, S) ==
  /\ m \in BagToSet(net) /\ m.queue \in WorkerQueues
  /\ out \in Outcomes(m)
  /\ net' = Replace(net, m, S)
  /\ \/ S = Outbox(m, out) /\ Record(m, out = "publishes")
     \/ S = Faults(m) /\ UNCHANGED <<billed, dispatched>>
  /\ UNCHANGED <<saga, ledger, unsure, crashes>>

\* One that is delivered anew, whatever of it was sent.
SagaDies(m, commit, out, sent) ==
  /\ m \in BagToSet(net) /\ m.queue = SagaQueue
  /\ out \in Outcomes(m)
  /\ MoveSaga(m, commit)
  /\ net' = Replace(net, m, {[m EXCEPT !.tries = 0]} \cup sent)
  /\ \/ sent = {} \/ sent = Faults(m)
     \/ Succeeds(m, commit, out) /\ sent = Outbox(m, out)
  /\ Remembers(m, commit)
  /\ crashes' = crashes + 1
  /\ UNCHANGED <<ledger, billed, dispatched>>

WorkDies(m, out, sent) ==
  /\ m \in BagToSet(net) /\ m.queue \in WorkerQueues
  /\ out \in Outcomes(m)
  /\ net' = Send(net, sent)
  /\ \/ sent = Outbox(m, out) /\ Record(m, out = "publishes")
     \/ sent \in {{}, Faults(m)} /\ UNCHANGED <<billed, dispatched>>
  /\ crashes' = crashes + 1
  /\ UNCHANGED <<saga, ledger, unsure>>

LEMMA SagaTaken ==
  ASSUME TypeOK, NEW m \in BagToSet(net), NEW commit \in Commits,
         NEW out \in OutcomeNames,
         \/ SagaAcknowledges(m, commit, out)
         \/ SagaRetries(m, commit, out)
         \/ SagaGivesUp(m, commit, out)
  PROVE  \E S : SagaTakes(m, commit, out, S)
<1>1. m \in Message /\ m.tries \in 0..Retries
  BY DEF TypeOK, Message
<1>2. Attempt(m, commit, out)
  BY DEF SagaAcknowledges, SagaRetries, SagaGivesUp
<1>3. /\ m.queue = SagaQueue /\ out \in Outcomes(m) /\ MoveSaga(m, commit)
      /\ Remembers(m, commit) /\ UNCHANGED <<ledger, billed, dispatched>>
  BY <1>2, AttemptFact
<1>4. CASE SagaAcknowledges(m, commit, out)
  <2>1. SagaTakes(m, commit, out, Outbox(m, out))
    BY <1>3, <1>4 DEF SagaAcknowledges, SagaTakes
  <2>2. QED
    BY <2>1
<1>5. CASE SagaRetries(m, commit, out)
  <2> DEFINE t == m.tries + 1
  <2>1. t \in 0..Retries
    BY <1>1, <1>5, RetriesAssumption DEF SagaRetries
  <2>2. net' = Replace(net, m, {[m EXCEPT !.tries = t]})
    BY <1>5 DEF SagaRetries
  <2> HIDE DEF t
  <2>3. SagaTakes(m, commit, out, {[m EXCEPT !.tries = t]})
    BY <1>3, <1>5, <2>1, <2>2 DEF SagaRetries, SagaTakes
  <2>4. QED
    BY <2>3
<1>6. CASE SagaGivesUp(m, commit, out)
  <2>1. SagaTakes(m, commit, out, Faults(m))
    BY <1>3, <1>6 DEF SagaGivesUp, SagaTakes
  <2>2. QED
    BY <2>1
<1>7. QED
  BY <1>4, <1>5, <1>6

LEMMA SagaDied ==
  ASSUME TypeOK, NEW m \in BagToSet(net), NEW commit \in Commits,
         NEW out \in OutcomeNames, NEW finished \in BOOLEAN,
         SagaCrashes(m, commit, out, finished)
  PROVE  \E sent : SagaDies(m, commit, out, sent)
<1> DEFINE ok   == Succeeds(m, commit, out)
           sent == IF finished THEN Emits(m, ok, out) ELSE {}
<1>1. Attempt(m, commit, out)
  BY DEF SagaCrashes
<1>2. /\ m.queue = SagaQueue /\ out \in Outcomes(m) /\ MoveSaga(m, commit)
      /\ Remembers(m, commit) /\ UNCHANGED <<ledger, billed, dispatched>>
  BY <1>1, AttemptFact
<1>3. net' = Replace(net, m, {[m EXCEPT !.tries = 0]} \cup sent) /\ crashes' = crashes + 1
  BY DEF SagaCrashes
<1>4. \/ sent = {} \/ sent = Faults(m)
      \/ Succeeds(m, commit, out) /\ sent = Outbox(m, out)
  BY DEF Emits
<1> HIDE DEF sent
<1>5. SagaDies(m, commit, out, sent)
  BY <1>2, <1>3, <1>4 DEF SagaDies
<1>6. QED
  BY <1>5

LEMMA WorkTaken ==
  ASSUME TypeOK, NEW m \in BagToSet(net), NEW out \in OutcomeNames,
         WorkerAcknowledges(m, out) \/ WorkerFaults(m, out)
  PROVE  \E S : WorkTakes(m, out, S)
<1>1. Work(m, out)
  BY DEF WorkerAcknowledges, WorkerFaults
<1>2. m.queue \in WorkerQueues /\ out \in Outcomes(m) /\ UNCHANGED <<saga, ledger, unsure>>
  BY <1>1, WorkFact
<1>3. CASE WorkerAcknowledges(m, out)
  <2>1. WorkTakes(m, out, Outbox(m, out))
    BY <1>2, <1>3 DEF WorkerAcknowledges, WorkTakes
  <2>2. QED
    BY <2>1
<1>4. CASE WorkerFaults(m, out)
  <2>1. WorkTakes(m, out, Faults(m))
    BY <1>2, <1>4 DEF WorkerFaults, WorkTakes
  <2>2. QED
    BY <2>1
<1>5. QED
  BY <1>3, <1>4

LEMMA WorkDied ==
  ASSUME TypeOK, NEW m \in BagToSet(net), NEW out \in OutcomeNames,
         NEW finished \in BOOLEAN, WorkerCrashes(m, out, finished)
  PROVE  \E sent : WorkDies(m, out, sent)
<1> DEFINE ok   == out # "throws"
           sent == IF finished THEN Emits(m, ok, out) ELSE {}
<1>1. Work(m, out)
  BY DEF WorkerCrashes
<1>2. m.queue \in WorkerQueues /\ out \in Outcomes(m) /\ UNCHANGED <<saga, ledger, unsure>>
  BY <1>1, WorkFact
<1>3. net' = Send(net, sent) /\ crashes' = crashes + 1
  BY DEF WorkerCrashes
<1>4. Record(m, finished /\ out = "publishes")
  BY DEF WorkerCrashes
<1>5. \/ sent = Outbox(m, out) /\ Record(m, out = "publishes")
      \/ sent \in {{}, Faults(m)} /\ UNCHANGED <<billed, dispatched>>
  <2>1. CASE finished /\ out # "throws"
    <3>1. Record(m, out = "publishes")
      BY <1>4, <2>1
    <3>2. sent = Outbox(m, out)
      BY <2>1 DEF Emits
    <3>3. QED
      BY <3>1, <3>2
  <2>2. CASE ~(finished /\ out # "throws")
    <3>1. sent \in {{}, Faults(m)}
      BY <2>2 DEF Emits
    <3>2. UNCHANGED <<billed, dispatched>>
      BY <1>4, <2>2 DEF Record
    <3>3. QED
      BY <3>1, <3>2
  <2>3. QED
    BY <2>1, <2>2
<1> HIDE DEF sent
<1>6. WorkDies(m, out, sent)
  BY <1>2, <1>3, <1>5 DEF WorkDies
<1>7. QED
  BY <1>6

LEMMA ExactSteps ==
  ASSUME TypeOK, [Next]_vars
  PROVE  \/ \E o \in Orders, p \in Publishers : PublishOrderPlaced(o, p)
         \/ \E o \in Orders, id \in CancelIds : PublishOrderCanceled(o, id)
         \/ \E m, out, S : \E commit \in Commits : SagaTakes(m, commit, out, S)
         \/ \E m, out, S : WorkTakes(m, out, S)
         \/ \E m, commit, out, sent : SagaDies(m, commit, out, sent)
         \/ \E m, out, sent : WorkDies(m, out, sent)
         \/ UNCHANGED vars
<1>1. CASE Deliver
  <2>1. PICK m \in BagToSet(net) : SagaDelivers(m) \/ WorkerDelivers(m)
    BY <1>1 DEF Deliver
  <2>2. CASE SagaDelivers(m)
    BY <2>2, SagaTaken DEF SagaDelivers
  <2>3. CASE WorkerDelivers(m)
    BY <2>3, WorkTaken DEF WorkerDelivers
  <2>4. QED
    BY <2>1, <2>2, <2>3
<1>2. CASE \E m \in BagToSet(net) : Crash(m)
  BY <1>2, SagaDied, WorkDied DEF Crash
<1>3. QED
  BY <1>1, <1>2 DEF Next

\* What such a delivery sends is one of the things Sends lists.
LEMMA TakesSends ==
  ASSUME NEW m, NEW out \in Outcomes(m), NEW S,
         \/ S = Outbox(m, out) \/ S = Faults(m)
         \/ \E t \in 0..Retries : S = {[m EXCEPT !.tries = t]}
  PROVE  Sends(m, S)
<1>1. out = "publishes" => HasConsumer(m)
  BY DEF Outcomes
<1>2. QED
  BY <1>1 DEF Sends, Outbox

(***************************************************************************)
(* The inductive invariant, kept by each of the steps.                     *)
(***************************************************************************)
N(B, K) == Cardinality(Copies(B, K))

FiniteWork ==
  \A o \in Orders : /\ IsFiniteSet(Copies(net, Billing(o)))
                    /\ IsFiniteSet(Copies(net, Chain(o)))
                    /\ IsFiniteSet(Copies(net, Notes(o)))

OnceInv == SagaInv /\ FiniteWork /\ WorkInv

LEMMA OnceTypes ==
  ASSUME SagaInv, FiniteWork, NEW o \in Orders
  PROVE  /\ N(net, Billing(o)) \in Nat /\ N(net, Chain(o)) \in Nat
         /\ N(net, Notes(o)) \in Nat
         /\ billed[o] \in Nat /\ dispatched[o] \in Nat /\ crashes \in Nat
         /\ IsABag(net)
<1>1. crashes \in Nat
  BY BudgetAssumption DEF SagaInv, TypeOK
<1>2. QED
  BY <1>1, FS_CardinalityType DEF SagaInv, TypeOK, FiniteWork, N

LEMMA InFlightFact ==
  ASSUME SagaInv, NEW n \in BagToSet(net)
  PROVE  /\ Routed(n) /\ n \in Message /\ Justified(n) /\ n.order \in Orders /\ n.kind \in Kinds
<1>1. n \in Message /\ Justified(n)
  BY MessagesJustified DEF SagaInv, TypeOK
<1>2. QED
  BY <1>1 DEF Routed, Justified, Message

\* A delivery that does not crash adds no work.
LEMMA TakeAddsNoWork ==
  ASSUME SagaInv, FiniteWork, NEW m \in BagToSet(net), NEW S, Sends(m, S),
         net' = Replace(net, m, S), NEW o \in Orders
  PROVE  /\ IsFiniteSet(Copies(net', Billing(o)))
         /\ IsFiniteSet(Copies(net', Chain(o)))
         /\ IsFiniteSet(Copies(net', Notes(o)))
         /\ N(net', Billing(o)) <= N(net, Billing(o))
         /\ N(net', Chain(o)) <= N(net, Chain(o))
         /\ S \cap Billing(o) = {} =>
              /\ Copies(net', Billing(o)) \subseteq Copies(net, Billing(o))
              /\ m \in Billing(o) => N(net', Billing(o)) = N(net, Billing(o)) - 1
         /\ S \cap Chain(o) = {} =>
              /\ Copies(net', Chain(o)) \subseteq Copies(net, Chain(o))
              /\ m \in Chain(o) => N(net', Chain(o)) = N(net, Chain(o)) - 1
         /\ S \cap Notes(o) = {} =>
              /\ Copies(net', Notes(o)) \subseteq Copies(net, Notes(o))
              /\ N(net', Notes(o)) <= N(net, Notes(o))
              /\ m \in Notes(o) => N(net', Notes(o)) = N(net, Notes(o)) - 1
         /\ N(net', Notes(o)) <= N(net, Notes(o)) + 1
         /\ m \in Notes(o) => N(net', Notes(o)) <= N(net, Notes(o))
<1>1. IsABag(net) /\ Routed(m)
  BY InFlightFact DEF SagaInv, TypeOK
<1>2. PICK x : S \cap Billing(o) \subseteq {x}
  BY <1>1, Heirs
<1>3. PICK y : S \cap Chain(o) \subseteq {y}
  BY <1>1, Heirs
<1>4. PICK z : S \cap Notes(o) \subseteq {z}
  BY <1>1, Heirs
<1>5. /\ S \cap Billing(o) # {} => m \in Billing(o)
      /\ S \cap Chain(o) # {} => m \in Chain(o)
  BY <1>1, Heirs
<1>6. /\ IsFiniteSet(Copies(net', Billing(o)))
      /\ N(net', Billing(o)) <= N(net, Billing(o))
      /\ S \cap Billing(o) = {} =>
              /\ Copies(net', Billing(o)) \subseteq Copies(net, Billing(o))
              /\ m \in Billing(o) => N(net', Billing(o)) = N(net, Billing(o)) - 1
  BY <1>1, <1>2, <1>5, ReplaceCount DEF FiniteWork, N
<1>7. /\ IsFiniteSet(Copies(net', Chain(o)))
      /\ N(net', Chain(o)) <= N(net, Chain(o))
      /\ S \cap Chain(o) = {} =>
              /\ Copies(net', Chain(o)) \subseteq Copies(net, Chain(o))
              /\ m \in Chain(o) => N(net', Chain(o)) = N(net, Chain(o)) - 1
  BY <1>1, <1>3, <1>5, ReplaceCount DEF FiniteWork, N
<1>8. /\ IsFiniteSet(Copies(net', Notes(o)))
      /\ N(net', Notes(o)) <= N(net, Notes(o)) + 1
      /\ m \in Notes(o) => N(net', Notes(o)) <= N(net, Notes(o))
      /\ S \cap Notes(o) = {} =>
              /\ Copies(net', Notes(o)) \subseteq Copies(net, Notes(o))
              /\ N(net', Notes(o)) <= N(net, Notes(o))
              /\ m \in Notes(o) => N(net', Notes(o)) = N(net, Notes(o)) - 1
  BY <1>1, <1>4, ReplaceCount DEF FiniteWork, N
<1>9. QED
  BY <1>6, <1>7, <1>8

\* Where the order was not placed, no delivery works for it.
LEMMA UnplacedStays ==
  ASSUME SagaInv, FiniteWork, WorkIsCounted, NEW m \in BagToSet(net),
         NEW o \in Orders, source[o] = "none"
  PROVE  m \notin Chain(o) /\ \A commit : MoveSaga(m, commit) => saga'[o] = "None"
<1>1. Copies(net, Chain(o)) = {} /\ saga[o] = "None" /\ IsABag(net)
  BY DEF WorkIsCounted, SagaInv, TypeOK
<1>2. m \notin Chain(o)
  BY <1>1, CopyBase
<1>3. ASSUME NEW commit, MoveSaga(m, commit)
      PROVE  saga'[o] = "None"
  <2>1. CASE UNCHANGED saga
    BY <1>1, <2>1
  <2>2. CASE /\ m.corr \in Orders /\ m.order \in Orders
             /\ m.kind = "OrderCanceled" \/ m.corr = m.order
             /\ \E t \in SagaStates \ {"None"} :
                  /\ <<saga[m.corr], m.kind, t>> \in Transitions
                  /\ saga' = [saga EXCEPT ![m.corr] = t]
    <3>1. PICK t \in SagaStates \ {"None"} :
                  /\ <<saga[m.corr], m.kind, t>> \in Transitions
                  /\ saga' = [saga EXCEPT ![m.corr] = t]
      BY <2>2
    <3>2. CASE m.corr = o
      <4>1. m.kind = "OrderPlaced" /\ m.order = o
        BY <1>1, <2>2, <3>1, <3>2 DEF Transitions
      <4>2. m \in Message /\ m.queue = SagaQueue
        BY <4>1, InFlightFact, BoundQueues DEF Routed
      <4>3. m \in Chain(o)
        BY <4>1, <4>2, ClassFact
      <4>4. QED
        BY <1>2, <4>3
    <3>3. CASE m.corr # o
      BY <1>1, <2>2, <3>1, <3>3 DEF SagaInv, TypeOK
    <3>4. QED
      BY <3>2, <3>3
  <2>3. QED
    BY <1>3, <2>1, <2>2, MoveFact
<1>4. QED
  BY <1>2, <1>3

LEMMA SagaTakesCounted ==
  ASSUME SagaInv, FiniteWork, WorkIsCounted, NEW m, NEW commit, NEW out, NEW S,
         SagaTakes(m, commit, out, S)
  PROVE  FiniteWork' /\ WorkIsCounted'
<1>1. /\ m \in BagToSet(net) /\ net' = Replace(net, m, S) /\ Sends(m, S)
      /\ UNCHANGED <<source, billed, dispatched, crashes>> /\ MoveSaga(m, commit)
  BY TakesSends DEF SagaTakes, ledger
<1>2. FiniteWork'
  BY <1>1, TakeAddsNoWork DEF FiniteWork
<1>3. ASSUME NEW o \in Orders
      PROVE  /\ N(net', Billing(o)) + billed'[o] <= 1 + crashes'
             /\ N(net', Chain(o)) + dispatched'[o] <= 1 + crashes'
             /\ source'[o] = "none" => Copies(net', Chain(o)) = {} /\ saga'[o] = "None"
  <2>1. /\ N(net', Billing(o)) <= N(net, Billing(o)) /\ N(net', Billing(o)) \in Nat
        /\ N(net', Chain(o)) <= N(net, Chain(o)) /\ N(net', Chain(o)) \in Nat
    BY <1>1, <1>2, TakeAddsNoWork, FS_CardinalityType DEF N, FiniteWork
  <2>2. /\ N(net, Billing(o)) + billed[o] <= 1 + crashes
        /\ N(net, Chain(o)) + dispatched[o] <= 1 + crashes
    BY DEF WorkIsCounted, N
  <2>3. /\ N(net', Billing(o)) + billed'[o] <= 1 + crashes'
        /\ N(net', Chain(o)) + dispatched'[o] <= 1 + crashes'
    BY <1>1, <2>1, <2>2, OnceTypes
  <2>4. ASSUME source'[o] = "none"
        PROVE  Copies(net', Chain(o)) = {} /\ saga'[o] = "None"
    <3>1. source[o] = "none" /\ Copies(net, Chain(o)) = {}
      BY <1>1, <2>4 DEF WorkIsCounted
    <3>2. m \notin Chain(o) /\ saga'[o] = "None"
      BY <1>1, <3>1, UnplacedStays
    <3>3. S \cap Chain(o) = {}
      BY <1>1, <3>2, Heirs, InFlightFact
    <3>4. QED
      BY <1>1, <3>1, <3>2, <3>3, TakeAddsNoWork
  <2>5. QED
    BY <2>3, <2>4
<1>4. WorkIsCounted'
  BY <1>3 DEF WorkIsCounted, N
<1>5. QED
  BY <1>2, <1>4

\* Billing or dispatching an order uses up the delivery that asked for it.
LEMMA WorkTakesCounted ==
  ASSUME SagaInv, FiniteWork, WorkIsCounted, NEW m, NEW out, NEW S,
         WorkTakes(m, out, S)
  PROVE  FiniteWork' /\ WorkIsCounted'
<1>1. /\ m \in BagToSet(net) /\ net' = Replace(net, m, S) /\ Sends(m, S)
      /\ UNCHANGED <<source, saga, crashes>> /\ m.queue \in WorkerQueues
      /\ out \in Outcomes(m)
  BY TakesSends DEF WorkTakes, ledger
<1>2. FiniteWork'
  BY <1>1, TakeAddsNoWork DEF FiniteWork
<1>3. Routed(m) /\ m \in Message /\ m.order \in Orders
  BY <1>1, InFlightFact
<1>4. ASSUME NEW o \in Orders
      PROVE  /\ N(net', Billing(o)) + billed'[o] <= 1 + crashes'
             /\ N(net', Chain(o)) + dispatched'[o] <= 1 + crashes'
  <2>1. /\ N(net', Billing(o)) <= N(net, Billing(o)) /\ N(net', Billing(o)) \in Nat
        /\ N(net', Chain(o)) <= N(net, Chain(o)) /\ N(net', Chain(o)) \in Nat
    BY <1>1, <1>2, TakeAddsNoWork, FS_CardinalityType DEF N, FiniteWork
  <2>2. /\ N(net, Billing(o)) + billed[o] <= 1 + crashes
        /\ N(net, Chain(o)) + dispatched[o] <= 1 + crashes
    BY DEF WorkIsCounted, N
  <2>3. CASE billed'[o] = billed[o] /\ dispatched'[o] = dispatched[o]
    BY <1>1, <2>1, <2>2, <2>3, OnceTypes
  <2>4. CASE /\ S = Published(m) /\ HasConsumer(m)
             /\ Record(m, TRUE) /\ m.kind = "BillOrder" /\ m.order = o
    <3>1. billed'[o] = billed[o] + 1 /\ dispatched'[o] = dispatched[o]
      BY <2>4 DEF Record, SagaInv, TypeOK
    <3>2. m \in Billing(o)
      <4>1. m.queue = BillingQueue
        BY <1>1, <1>3, <2>4, BoundQueues, QueueFact DEF Routed
      <4>2. QED
        BY <1>3, <2>4, <4>1, ClassFact
    <3>3. S \cap Billing(o) = {}
      <4>1. m \notin On("OrderPlaced", SagaQueue, o)
        BY <1>3, <2>4, OnFact
      <4>2. QED
        BY <1>3, <2>4, <4>1, PublishedClass
    <3>4. N(net', Billing(o)) = N(net, Billing(o)) - 1
      BY <1>1, <3>2, <3>3, TakeAddsNoWork
    <3>5. QED
      BY <1>1, <2>1, <2>2, <3>1, <3>4, OnceTypes
  <2>5. CASE /\ S = Published(m) /\ HasConsumer(m)
             /\ Record(m, TRUE) /\ m.kind = "DispatchOrder" /\ m.order = o
    <3>1. dispatched'[o] = dispatched[o] + 1 /\ billed'[o] = billed[o]
      BY <2>5 DEF Record, SagaInv, TypeOK
    <3>2. m \in Chain(o)
      <4>1. m.queue = DeliveryQueue
        BY <1>1, <1>3, <2>5, BoundQueues, QueueFact DEF Routed
      <4>2. QED
        BY <1>3, <2>5, <4>1, ClassFact
    <3>3. S \cap Chain(o) = {}
      BY <1>3, <2>5, PublishedClass
    <3>4. N(net', Chain(o)) = N(net, Chain(o)) - 1
      BY <1>1, <3>2, <3>3, TakeAddsNoWork
    <3>5. QED
      BY <1>1, <2>1, <2>2, <3>1, <3>4, OnceTypes
  <2>6. \/ billed'[o] = billed[o] /\ dispatched'[o] = dispatched[o]
        \/ /\ S = Published(m) /\ HasConsumer(m) /\ Record(m, TRUE) /\ m.order = o
           /\ m.kind \in {"BillOrder", "DispatchOrder"}
    <3>1. CASE UNCHANGED <<billed, dispatched>>
      BY <3>1
    <3>2. CASE S = Outbox(m, out) /\ Record(m, out = "publishes")
      <4>1. CASE out = "publishes"
        <5>1. S = Published(m) /\ HasConsumer(m)
          BY <1>1, <3>2, <4>1 DEF Outbox, Outcomes
        <5>2. Record(m, TRUE)
          BY <3>2, <4>1
        <5>3. CASE m.order = o /\ m.kind \in {"BillOrder", "DispatchOrder"}
          BY <5>1, <5>2, <5>3
        <5>4. CASE ~(m.order = o /\ m.kind \in {"BillOrder", "DispatchOrder"})
          BY <1>3, <5>2, <5>4 DEF Record, SagaInv, TypeOK
        <5>5. QED
          BY <5>3, <5>4
      <4>2. CASE out # "publishes"
        BY <3>2, <4>2 DEF Record
      <4>3. QED
        BY <4>1, <4>2
    <3>3. QED
      BY <3>1, <3>2 DEF WorkTakes
  <2>7. QED
    BY <2>3, <2>4, <2>5, <2>6
<1>5. ASSUME NEW o \in Orders, source'[o] = "none"
      PROVE  Copies(net', Chain(o)) = {} /\ saga'[o] = "None"
  <2>1. source[o] = "none" /\ Copies(net, Chain(o)) = {} /\ saga[o] = "None"
    BY <1>1, <1>5 DEF WorkIsCounted
  <2>2. m \notin Chain(o)
    BY <1>1, <2>1, UnplacedStays
  <2>3. S \cap Chain(o) = {}
    BY <1>1, <1>3, <2>2, Heirs
  <2>4. QED
    BY <1>1, <2>1, <2>3, TakeAddsNoWork
<1>6. WorkIsCounted'
  BY <1>4, <1>5 DEF WorkIsCounted, N
<1>7. QED
  BY <1>2, <1>6

\* A delivery of the saga queue that is repeated adds one piece of work at
\* most, and only to what it was itself part of.
LEMMA SagaDiesCounted ==
  ASSUME SagaInv, FiniteWork, WorkIsCounted, NEW m, NEW commit, NEW out, NEW sent,
         SagaDies(m, commit, out, sent)
  PROVE  FiniteWork' /\ WorkIsCounted'
<1> DEFINE m0 == [m EXCEPT !.tries = 0]
           S  == {m0} \cup sent
<1>1. /\ m \in BagToSet(net) /\ net' = Replace(net, m, S) /\ Sends(m, sent)
      /\ UNCHANGED <<source, billed, dispatched>> /\ MoveSaga(m, commit)
      /\ crashes' = crashes + 1
  <2>1. Sends(m, sent)
    BY TakesSends DEF SagaDies, Sends
  <2>2. QED
    BY <2>1 DEF SagaDies, ledger
<1>2. Routed(m) /\ m \in Message /\ IsABag(net)
  BY <1>1, InFlightFact DEF SagaInv, TypeOK
<1>3. \A o : /\ m0 \in Billing(o) <=> m \in Billing(o)
             /\ m0 \in Chain(o) <=> m \in Chain(o)
             /\ m0 \in Notes(o) <=> m \in Notes(o)
  BY <1>2, SameClass, RetriesAssumption
<1> HIDE DEF m0
<1>4. ASSUME NEW o \in Orders
      PROVE  /\ IsFiniteSet(Copies(net', Billing(o)))
             /\ N(net', Billing(o)) <= N(net, Billing(o)) + 1
  <2>1. PICK x : sent \cap Billing(o) \subseteq {x}
    BY <1>1, <1>2, Heirs
  <2>2. sent \cap Billing(o) # {} => m \in Billing(o)
    BY <1>1, <1>2, Heirs
  <2>3. CASE m \in Billing(o)
    <3>1. S \cap Billing(o) \subseteq {m0, x}
      BY <2>1
    <3> HIDE DEF S
    <3>2. QED
      BY <1>1, <1>2, <2>3, <3>1, CrashCount DEF FiniteWork, N
  <2>4. CASE m \notin Billing(o)
    <3>1. S \cap Billing(o) \subseteq {x}
      BY <1>3, <2>1, <2>4
    <3> HIDE DEF S
    <3>2. QED
      BY <1>1, <1>2, <3>1, ReplaceCount DEF FiniteWork, N
  <2>5. QED
    BY <2>3, <2>4
<1>5. ASSUME NEW o \in Orders
      PROVE  /\ IsFiniteSet(Copies(net', Chain(o)))
             /\ N(net', Chain(o)) <= N(net, Chain(o)) + 1
             /\ m \notin Chain(o) => Copies(net', Chain(o)) \subseteq Copies(net, Chain(o))
  <2>1. PICK x : sent \cap Chain(o) \subseteq {x}
    BY <1>1, <1>2, Heirs
  <2>2. sent \cap Chain(o) # {} => m \in Chain(o)
    BY <1>1, <1>2, Heirs
  <2>3. CASE m \in Chain(o)
    <3>1. S \cap Chain(o) \subseteq {m0, x}
      BY <2>1
    <3> HIDE DEF S
    <3>2. QED
      BY <1>1, <1>2, <2>3, <3>1, CrashCount DEF FiniteWork, N
  <2>4. CASE m \notin Chain(o)
    <3>1. S \cap Chain(o) \subseteq {x} /\ S \cap Chain(o) = {}
      BY <1>3, <2>1, <2>2, <2>4
    <3> HIDE DEF S
    <3>2. QED
      BY <1>1, <1>2, <3>1, ReplaceCount DEF FiniteWork, N
  <2>5. QED
    BY <2>3, <2>4
<1>6. ASSUME NEW o \in Orders PROVE IsFiniteSet(Copies(net', Notes(o)))
  <2>1. PICK x : sent \cap Notes(o) \subseteq {x}
    BY <1>1, <1>2, Heirs
  <2>2. CASE m \in Notes(o)
    <3>1. S \cap Notes(o) \subseteq {m0, x}
      BY <2>1
    <3> HIDE DEF S
    <3>2. QED
      BY <1>1, <1>2, <2>2, <3>1, CrashCount DEF FiniteWork
  <2>3. CASE m \notin Notes(o)
    <3>1. S \cap Notes(o) \subseteq {x}
      BY <1>3, <2>1, <2>3
    <3> HIDE DEF S
    <3>2. QED
      BY <1>1, <1>2, <3>1, ReplaceCount DEF FiniteWork
  <2>4. QED
    BY <2>2, <2>3
<1>7. FiniteWork'
  BY <1>4, <1>5, <1>6 DEF FiniteWork
<1>8. ASSUME NEW o \in Orders
      PROVE  /\ N(net', Billing(o)) + billed'[o] <= 1 + crashes'
             /\ N(net', Chain(o)) + dispatched'[o] <= 1 + crashes'
  <2>1. N(net', Billing(o)) \in Nat /\ N(net', Chain(o)) \in Nat
    BY <1>4, <1>5, FS_CardinalityType DEF N
  <2>2. /\ N(net, Billing(o)) + billed[o] <= 1 + crashes
        /\ N(net, Chain(o)) + dispatched[o] <= 1 + crashes
    BY DEF WorkIsCounted, N
  <2>3. /\ N(net', Billing(o)) <= N(net, Billing(o)) + 1
        /\ N(net', Chain(o)) <= N(net, Chain(o)) + 1
    BY <1>4, <1>5
  <2>4. QED
    BY <1>1, <2>1, <2>2, <2>3, OnceTypes
<1>9. ASSUME NEW o \in Orders, source'[o] = "none"
      PROVE  Copies(net', Chain(o)) = {} /\ saga'[o] = "None"
  <2>1. source[o] = "none" /\ Copies(net, Chain(o)) = {}
    BY <1>1, <1>9 DEF WorkIsCounted
  <2>2. m \notin Chain(o) /\ saga'[o] = "None"
    BY <1>1, <2>1, UnplacedStays
  <2>3. QED
    BY <1>5, <2>1, <2>2
<1>10. WorkIsCounted'
  BY <1>8, <1>9 DEF WorkIsCounted, N
<1>11. QED
  BY <1>7, <1>10

\* A worker's delivery that is repeated has done its work once more.
LEMMA WorkDiesCounted ==
  ASSUME SagaInv, FiniteWork, WorkIsCounted, NEW m, NEW out, NEW sent,
         WorkDies(m, out, sent)
  PROVE  FiniteWork' /\ WorkIsCounted'
<1>1. /\ m \in BagToSet(net) /\ net' = Send(net, sent) /\ Sends(m, sent)
      /\ UNCHANGED <<source, saga>> /\ crashes' = crashes + 1
      /\ m.queue \in WorkerQueues
  <2>1. Sends(m, sent)
    BY TakesSends DEF WorkDies, Sends
  <2>2. QED
    BY <2>1 DEF WorkDies, ledger
<1>2. Routed(m) /\ m \in Message /\ IsABag(net)
  BY <1>1, InFlightFact DEF SagaInv, TypeOK
<1>3. \/ sent \in {{}, Faults(m)} /\ UNCHANGED <<billed, dispatched>>
      \/ sent = Published(m) /\ HasConsumer(m) /\ Record(m, TRUE)
  BY <1>1 DEF WorkDies, Outbox, Outcomes, Record
<1>4. \A o : sent \cap Billing(o) = {}
  <2>1. ASSUME NEW o PROVE m \notin On("OrderPlaced", SagaQueue, o)
    BY <1>1, <1>2, OnFact, QueueFact
  <2>2. QED
    BY <1>2, <1>3, <2>1, PublishedClass, FaultClass
<1>5. ASSUME NEW o \in Orders
      PROVE  /\ IsFiniteSet(Copies(net', Billing(o)))
             /\ Copies(net', Billing(o)) = Copies(net, Billing(o))
             /\ IsFiniteSet(Copies(net', Chain(o)))
             /\ N(net', Chain(o)) <= N(net, Chain(o)) + 1
             /\ sent \cap Chain(o) = {} => Copies(net', Chain(o)) = Copies(net, Chain(o))
             /\ IsFiniteSet(Copies(net', Notes(o)))
  <2>1. PICK x : sent \cap Billing(o) \subseteq {x}
    BY <1>1, <1>2, Heirs
  <2>2. PICK y : sent \cap Chain(o) \subseteq {y}
    BY <1>1, <1>2, Heirs
  <2>3. PICK z : sent \cap Notes(o) \subseteq {z}
    BY <1>1, <1>2, Heirs
  <2>4. /\ IsFiniteSet(Copies(net', Billing(o)))
        /\ Copies(net', Billing(o)) = Copies(net, Billing(o))
    BY <1>1, <1>2, <1>4, <2>1, SendCount DEF FiniteWork
  <2>5. /\ IsFiniteSet(Copies(net', Chain(o)))
        /\ N(net', Chain(o)) <= N(net, Chain(o)) + 1
        /\ sent \cap Chain(o) = {} => Copies(net', Chain(o)) = Copies(net, Chain(o))
    BY <1>1, <1>2, <2>2, SendCount DEF FiniteWork, N
  <2>6. IsFiniteSet(Copies(net', Notes(o)))
    BY <1>1, <1>2, <2>3, SendCount DEF FiniteWork
  <2>7. QED
    BY <2>4, <2>5, <2>6
<1>6. FiniteWork'
  BY <1>5 DEF FiniteWork
<1>7. ASSUME NEW o \in Orders
      PROVE  /\ N(net', Billing(o)) + billed'[o] <= 1 + crashes'
             /\ N(net', Chain(o)) + dispatched'[o] <= 1 + crashes'
  <2>1. /\ N(net', Billing(o)) = N(net, Billing(o))
        /\ N(net', Chain(o)) <= N(net, Chain(o)) + 1 /\ N(net', Chain(o)) \in Nat
    BY <1>5, FS_CardinalityType DEF N
  <2>2. /\ N(net, Billing(o)) + billed[o] <= 1 + crashes
        /\ N(net, Chain(o)) + dispatched[o] <= 1 + crashes
    BY DEF WorkIsCounted, N
  <2>3. /\ billed'[o] = billed[o] \/ billed'[o] = billed[o] + 1
        /\ \/ dispatched'[o] = dispatched[o]
           \/ /\ dispatched'[o] = dispatched[o] + 1
              /\ sent = Published(m) /\ HasConsumer(m) /\ m.kind = "DispatchOrder"
    <3>1. CASE UNCHANGED <<billed, dispatched>>
      BY <3>1
    <3>2. CASE sent = Published(m) /\ HasConsumer(m) /\ Record(m, TRUE)
      <4>1. billed'[o] = billed[o] \/ billed'[o] = billed[o] + 1
        BY <3>2 DEF Record, SagaInv, TypeOK
      <4>2. \/ dispatched'[o] = dispatched[o]
            \/ dispatched'[o] = dispatched[o] + 1 /\ m.kind = "DispatchOrder"
        BY <3>2 DEF Record, SagaInv, TypeOK
      <4>3. QED
        BY <3>2, <4>1, <4>2
    <3>3. QED
      BY <1>3, <3>1, <3>2
  <2>4. CASE dispatched'[o] = dispatched[o]
    BY <1>1, <2>1, <2>2, <2>3, <2>4, OnceTypes
  <2>5. CASE /\ dispatched'[o] = dispatched[o] + 1
             /\ sent = Published(m) /\ HasConsumer(m) /\ m.kind = "DispatchOrder"
    <3>1. sent \cap Chain(o) = {}
      BY <1>2, <2>5, PublishedClass
    <3>2. N(net', Chain(o)) = N(net, Chain(o))
      BY <1>5, <3>1 DEF N
    <3>3. QED
      BY <1>1, <2>1, <2>2, <2>3, <2>5, <3>2, OnceTypes
  <2>6. QED
    BY <2>3, <2>4, <2>5
<1>8. ASSUME NEW o \in Orders, source'[o] = "none"
      PROVE  Copies(net', Chain(o)) = {} /\ saga'[o] = "None"
  <2>1. source[o] = "none" /\ Copies(net, Chain(o)) = {} /\ saga[o] = "None"
    BY <1>1, <1>8 DEF WorkIsCounted
  <2>2. m \notin Chain(o)
    BY <1>1, <2>1, UnplacedStays
  <2>3. sent \cap Chain(o) = {}
    BY <1>1, <1>2, <2>2, Heirs
  <2>4. QED
    BY <1>1, <1>5, <2>1, <2>3
<1>9. WorkIsCounted'
  BY <1>7, <1>8 DEF WorkIsCounted, N
<1>10. QED
  BY <1>6, <1>9

\* What comes from outside adds an order's first piece of work, or none.
LEMMA PlacedCounted ==
  ASSUME SagaInv, FiniteWork, WorkIsCounted, NEW o \in Orders, NEW p \in Publishers,
         PublishOrderPlaced(o, p)
  PROVE  /\ FiniteWork' /\ WorkIsCounted'
         /\ \A w \in Orders : Copies(net', Notes(w)) = Copies(net, Notes(w))
         /\ \A w \in Orders : w # o => Copies(net', Billing(w)) = Copies(net, Billing(w))
<1> DEFINE S == Publish("OrderPlaced", o, o, p = "PlaceOrder")
           s == [queue |-> SagaQueue, kind |-> "OrderPlaced", order |-> o,
                 corr |-> o, valid |-> (p = "PlaceOrder"), tries |-> 0]
<1>1. S = {s}
  BY BoundQueues DEF Publish
<1>2. S \subseteq Message
  <2>1. "OrderPlaced" \in Kinds /\ (p = "PlaceOrder") \in BOOLEAN
    BY DEF Kinds
  <2>2. QED
    BY <2>1, PublishFact
<1>3. /\ net' = Send(net, S) /\ source[o] = "none" /\ source'[o] # "none"
      /\ \A w \in Orders : w # o => source'[w] = source[w]
      /\ UNCHANGED <<saga, billed, dispatched, crashes>>
  BY PublishersAssumption DEF PublishOrderPlaced, SagaInv, TypeOK
<1>4. IsABag(net)
  BY DEF SagaInv, TypeOK
<1>5. \A w : /\ S \cap Notes(w) = {}
             /\ w # o => S \cap Chain(w) = {} /\ S \cap Billing(w) = {}
  <2>1. s.kind = "OrderPlaced" /\ s.order = o /\ s \in Message
    BY <1>1, <1>2
  <2>2. QED
    BY <1>1, <2>1, ClassFact
<1>6. S \cap Chain(o) \subseteq {s} /\ S \cap Billing(o) \subseteq {s}
  BY <1>1
<1> HIDE DEF S, s
<1>7. ASSUME NEW w \in Orders
      PROVE  /\ IsFiniteSet(Copies(net', Billing(w)))
             /\ N(net', Billing(w)) <= N(net, Billing(w)) + 1
             /\ w # o => Copies(net', Billing(w)) = Copies(net, Billing(w))
  <2>1. S \cap Billing(w) \subseteq {s}
    BY <1>5, <1>6
  <2>2. QED
    BY <1>3, <1>4, <1>5, <2>1, SendCount DEF FiniteWork, N
<1>8. ASSUME NEW w \in Orders
      PROVE  /\ IsFiniteSet(Copies(net', Chain(w)))
             /\ N(net', Chain(w)) <= N(net, Chain(w)) + 1
             /\ w # o => Copies(net', Chain(w)) = Copies(net, Chain(w))
  <2>1. S \cap Chain(w) \subseteq {s}
    BY <1>5, <1>6
  <2>2. QED
    BY <1>3, <1>4, <1>5, <2>1, SendCount DEF FiniteWork, N
<1>9. ASSUME NEW w \in Orders
      PROVE  IsFiniteSet(Copies(net', Notes(w))) /\ Copies(net', Notes(w)) = Copies(net, Notes(w))
  <2>1. S \cap Notes(w) \subseteq {s}
    BY <1>5
  <2>2. QED
    BY <1>3, <1>4, <1>5, <2>1, SendCount DEF FiniteWork
<1>10. FiniteWork'
  BY <1>7, <1>8, <1>9 DEF FiniteWork
<1>11. ASSUME NEW w \in Orders
       PROVE  /\ N(net', Billing(w)) + billed'[w] <= 1 + crashes'
              /\ N(net', Chain(w)) + dispatched'[w] <= 1 + crashes'
  <2>1. CASE w = o
    <3>1. Copies(net, Chain(o)) = {} /\ saga[o] = "None"
      BY <1>3 DEF WorkIsCounted
    <3>2. Copies(net, Billing(o)) = {}
      BY <3>1 DEF Copies, Chain
    <3>3. N(net, Billing(o)) = 0 /\ N(net, Chain(o)) = 0
      BY <3>1, <3>2, FS_EmptySet DEF N
    <3>4. billed[o] = 0 /\ dispatched[o] = 0
      BY <3>1, OnceTypes DEF SagaInv, SagaNeverAhead
    <3>5. N(net', Billing(o)) <= 1 /\ N(net', Chain(o)) <= 1
          /\ N(net', Billing(o)) \in Nat /\ N(net', Chain(o)) \in Nat
      BY <1>7, <1>8, <3>3, FS_CardinalityType DEF N
    <3>6. QED
      BY <1>3, <2>1, <3>4, <3>5, OnceTypes
  <2>2. CASE w # o
    BY <1>3, <1>7, <1>8, <2>2 DEF WorkIsCounted, N
  <2>3. QED
    BY <2>1, <2>2
<1>12. ASSUME NEW w \in Orders, source'[w] = "none"
       PROVE  Copies(net', Chain(w)) = {} /\ saga'[w] = "None"
  BY <1>3, <1>8, <1>12 DEF WorkIsCounted
<1>13. WorkIsCounted'
  BY <1>11, <1>12 DEF WorkIsCounted, N
<1>14. QED
  BY <1>7, <1>9, <1>10, <1>13

LEMMA CanceledCounted ==
  ASSUME SagaInv, FiniteWork, WorkIsCounted, NEW o \in Orders, NEW id \in CancelIds,
         PublishOrderCanceled(o, id)
  PROVE  /\ FiniteWork' /\ WorkIsCounted'
         /\ \A w \in Orders : /\ Copies(net', Notes(w)) = Copies(net, Notes(w))
                              /\ Copies(net', Billing(w)) = Copies(net, Billing(w))
<1> DEFINE c == IF id = "placed" THEN o ELSE Fresh
           S == Publish("OrderCanceled", o, c, FALSE)
<1>1. \A n \in S : n \in Message /\ n.kind = "OrderCanceled"
  <2>1. "OrderCanceled" \in Kinds /\ FALSE \in BOOLEAN /\ c \in Orders \cup {Fresh}
    BY DEF Kinds
  <2> HIDE DEF c
  <2>2. S \subseteq {n \in Message : n.kind = "OrderCanceled"}
    BY <2>1, PublishType
  <2> HIDE DEF S
  <2>3. QED
    BY <2>2
<1>2. net' = Send(net, S) /\ UNCHANGED <<saga, source, billed, dispatched, crashes>>
  BY DEF PublishOrderCanceled
<1>3. IsABag(net)
  BY DEF SagaInv, TypeOK
<1> HIDE DEF S
<1>4. \A w : S \cap Notes(w) = {} /\ S \cap Chain(w) = {} /\ S \cap Billing(w) = {}
  BY <1>1, ClassFact
<1>5. ASSUME NEW w \in Orders
      PROVE  /\ Copies(net', Billing(w)) = Copies(net, Billing(w))
             /\ Copies(net', Chain(w)) = Copies(net, Chain(w))
             /\ Copies(net', Notes(w)) = Copies(net, Notes(w))
  <2>1. /\ S \cap Billing(w) \subseteq {o} /\ S \cap Chain(w) \subseteq {o}
        /\ S \cap Notes(w) \subseteq {o}
    BY <1>4
  <2>2. QED
    BY <1>2, <1>3, <1>4, <2>1, SendCount DEF FiniteWork
<1>6. FiniteWork'
  BY <1>5 DEF FiniteWork
<1>7. WorkIsCounted'
  BY <1>2, <1>5 DEF WorkIsCounted
<1>8. QED
  BY <1>5, <1>6, <1>7

(***************************************************************************)
(* What Ordering is told.                                                  *)
(***************************************************************************)

\* A delivery takes at most itself off, and adds what it sent.
LEMMA ReplaceKeeps ==
  ASSUME NEW B, IsABag(B), NEW m \in BagToSet(B), NEW S
  PROVE  /\ S \subseteq BagToSet(Replace(B, m, S))
         /\ \A n \in BagToSet(B) : n # m => n \in BagToSet(Replace(B, m, S))
         /\ BagToSet(Replace(B, m, S)) \subseteq BagToSet(B) \cup S
<1> DEFINE C == B (-) SetToBag({m})
<1>1. IsABag(C)
  BY TakeBag
<1>2. \A n \in BagToSet(B) : n # m => n \in BagToSet(C)
  BY DEF (-), SetToBag, IsABag, BagToSet
<1> HIDE DEF C
<1>3. BagToSet(Send(C, S)) = BagToSet(C) \cup S
  BY <1>1, SendBag
<1>4. Replace(B, m, S) = Send(C, S)
  BY DEF C, Replace
<1>5. QED
  BY <1>2, <1>3, <1>4, ReplaceBag

\* The bag after any delivery, crashed or not.
Spreads(m, S) ==
  /\ m \in BagToSet(net) /\ m.queue \notin OrderingQueues
  /\ S \subseteq BagToSet(net') /\ BagToSet(net') \subseteq BagToSet(net) \cup S
  /\ \A n \in BagToSet(net) : n # m => n \in BagToSet(net')
  /\ \A n \in S : \/ n \in Message /\ SameEvent(n, m)
                  \/ HasConsumer(m) /\ n \in Published(m) /\ Published(m) \subseteq S
                  \/ n \in Faults(m)

LEMMA SagaSpreads ==
  ASSUME SagaInv, NEW m, NEW commit, NEW out, NEW S,
         \/ SagaTakes(m, commit, out, S)
         \/ \E sent : /\ SagaDies(m, commit, out, sent)
                      /\ S = {[m EXCEPT !.tries = 0]} \cup sent
  PROVE  Spreads(m, S)
<1>1. m \in BagToSet(net) /\ net' = Replace(net, m, S) /\ m.queue \notin OrderingQueues
      /\ out \in Outcomes(m)
  BY QueueFact DEF SagaTakes, SagaDies
<1>2. m \in Message /\ IsABag(net)
  BY <1>1, InFlightFact DEF SagaInv, TypeOK
<1>3. \A t \in 0..Retries : /\ [m EXCEPT !.tries = t] \in Message
                            /\ SameEvent([m EXCEPT !.tries = t], m)
  BY <1>2, RetryFact
<1>4. out = "publishes" => HasConsumer(m)
  BY <1>1 DEF Outcomes
<1>5. \A n \in S : \/ n \in Message /\ SameEvent(n, m)
                   \/ HasConsumer(m) /\ n \in Published(m) /\ Published(m) \subseteq S
                   \/ n \in Faults(m)
  <2>1. CASE SagaTakes(m, commit, out, S)
    BY <1>3, <1>4, <2>1 DEF SagaTakes, Outbox
  <2>2. CASE \E sent : /\ SagaDies(m, commit, out, sent)
                       /\ S = {[m EXCEPT !.tries = 0]} \cup sent
    <3>1. PICK sent : /\ SagaDies(m, commit, out, sent)
                      /\ S = {[m EXCEPT !.tries = 0]} \cup sent
      BY <2>2
    <3> DEFINE m0 == [m EXCEPT !.tries = 0]
    <3>2. m0 \in Message /\ SameEvent(m0, m)
      BY <1>3, RetriesAssumption
    <3>3. S = {m0} \cup sent
      BY <3>1
    <3> HIDE DEF m0
    <3>4. sent = {} \/ sent = Faults(m) \/ (HasConsumer(m) /\ sent = Published(m))
      BY <1>4, <3>1 DEF SagaDies, Outbox
    <3>5. QED
      BY <3>2, <3>3, <3>4
  <2>3. QED
    BY <2>1, <2>2
<1>6. QED
  BY <1>1, <1>2, <1>5, ReplaceKeeps DEF Spreads

LEMMA WorkSpreads ==
  ASSUME SagaInv, NEW m, NEW out, NEW S,
         WorkTakes(m, out, S) \/ WorkDies(m, out, S)
  PROVE  /\ Spreads(m, S)
         /\ \A o \in Orders : /\ billed[o] > 0 => billed'[o] > 0
                              /\ dispatched'[o] > 0 =>
                                   dispatched[o] > 0 \/ (m.kind = "DispatchOrder" /\ m.order = o)
<1>1. m \in BagToSet(net) /\ m.queue \notin OrderingQueues /\ out \in Outcomes(m)
  BY QueueFact DEF WorkTakes, WorkDies
<1>2. m \in Message /\ IsABag(net) /\ m.order \in Orders
  BY <1>1, InFlightFact DEF SagaInv, TypeOK
<1>3. out = "publishes" => HasConsumer(m)
  BY <1>1 DEF Outcomes
<1>4. S = {} \/ S = Faults(m) \/ (HasConsumer(m) /\ S = Published(m))
  BY <1>3 DEF WorkTakes, WorkDies, Outbox
<1>5. /\ S \subseteq BagToSet(net') /\ BagToSet(net') \subseteq BagToSet(net) \cup S
      /\ \A n \in BagToSet(net) : n # m => n \in BagToSet(net')
  <2>1. CASE WorkTakes(m, out, S)
    BY <1>1, <1>2, <2>1, ReplaceKeeps DEF WorkTakes
  <2>2. CASE WorkDies(m, out, S)
    BY <1>2, <2>2, SendBag DEF WorkDies
  <2>3. QED
    BY <2>1, <2>2
<1>6. UNCHANGED <<billed, dispatched>> \/ Record(m, out = "publishes")
  BY DEF WorkTakes, WorkDies
<1>7. ASSUME NEW o \in Orders
      PROVE  /\ billed[o] > 0 => billed'[o] > 0
             /\ dispatched'[o] > 0 =>
                  dispatched[o] > 0 \/ (m.kind = "DispatchOrder" /\ m.order = o)
  <2>1. CASE UNCHANGED <<billed, dispatched>>
    BY <2>1
  <2>2. CASE Record(m, out = "publishes")
    <3>1. billed'[o] = billed[o] \/ billed'[o] = billed[o] + 1
      BY <2>2 DEF Record, SagaInv, TypeOK
    <3>2. dispatched'[o] = dispatched[o] \/ (m.kind = "DispatchOrder" /\ m.order = o)
      BY <2>2 DEF Record, SagaInv, TypeOK
    <3>3. billed[o] \in Nat
      BY DEF SagaInv, TypeOK
    <3>4. QED
      BY <3>1, <3>2, <3>3
  <2>3. QED
    BY <1>6, <2>1, <2>2
<1>8. QED
  BY <1>1, <1>4, <1>5, <1>7 DEF Spreads

\* Ordering's queues are only added to, and each notification is sent by the
\* consumer of the event that reports the work.
LEMMA SpreadsTold ==
  ASSUME SagaInv, WorkIsTold, NEW m, NEW S, Spreads(m, S),
         \A o \in Orders : /\ billed[o] > 0 => billed'[o] > 0
                           /\ dispatched'[o] > 0 =>
                                dispatched[o] > 0 \/ (m.kind = "DispatchOrder" /\ m.order = o)
  PROVE  WorkIsTold'
<1>1. Routed(m) /\ m \in Message /\ Justified(m) /\ m.kind \in Kinds /\ m \in BagToSet(net)
  BY InFlightFact DEF Spreads
<1>2. ASSUME NEW n \in BagToSet(net')
      PROVE  \/ n \in BagToSet(net)
             \/ n.kind = m.kind /\ n.order = m.order
             \/ /\ n \in Published(m) /\ Published(m) \subseteq BagToSet(net')
                /\ n.order = m.order /\ n.kind \in Continuations(m.kind)
             \/ n.kind = "BillOrderFault"
  <2>1. n \in Published(m) => n.order = m.order /\ n.kind \in Continuations(m.kind)
    BY <1>1, PublishedFact
  <2>2. n \in Faults(m) => n.kind = "BillOrderFault"
    BY <1>1, FaultFact
  <2>3. QED
    BY <2>1, <2>2 DEF Spreads, SameEvent
<1>3. ASSUME NEW n \in BagToSet(net), n.kind = "NotifyOrderPaid"
      PROVE  n \in BagToSet(net')
  <2>1. n.queue \in OrderingQueues
    BY <1>3, InFlightFact, BoundQueues DEF Routed, OrderingQueues
  <2>2. QED
    BY <2>1 DEF Spreads
<1>4. \A o : About("NotifyOrderPaid", o) => About("NotifyOrderPaid", o)'
  BY <1>3 DEF About
<1>5. /\ m.kind # "OrderDelivered"
      /\ m.kind = "OrderPaid" => billed[m.order] > 0
      /\ m.kind = "OrderDispatched" => dispatched[m.order] > 0
      /\ m.order \in Orders
  BY <1>1 DEF Justified, Message
<1>6. ASSUME NEW o \in Orders, About("DispatchOrder", o)' PROVE About("NotifyOrderPaid", o)'
  <2>1. PICK n \in BagToSet(net') : n.kind = "DispatchOrder" /\ n.order = o
    BY <1>6 DEF About
  <2>2. CASE \E k \in BagToSet(net) : k.kind = "DispatchOrder" /\ k.order = o
    BY <1>4, <2>2 DEF WorkIsTold, About
  <2>3. CASE ~\E k \in BagToSet(net) : k.kind = "DispatchOrder" /\ k.order = o
    <3>1. /\ n \in Published(m) /\ Published(m) \subseteq BagToSet(net')
          /\ o = m.order /\ "DispatchOrder" \in Continuations(m.kind)
      BY <1>1, <1>2, <2>1, <2>3
    <3>2. m.kind = "OrderPaid"
      BY <1>1, <3>1, ContinuationSets DEF Kinds
    <3> DEFINE k == [queue |-> StatusNotifierQueue, kind |-> "NotifyOrderPaid",
                     order |-> m.order, corr |-> m.corr, valid |-> TRUE, tries |-> 0]
    <3>3. k \in Published(m)
      <4>1. "NotifyOrderPaid" \in Continuations(m.kind)
        BY <3>2 DEF Continuations, OrderPaidConsumer
      <4>2. k \in Publish("NotifyOrderPaid", m.order, m.corr, TRUE)
        BY BoundQueues DEF Publish
      <4> HIDE DEF k
      <4>3. QED
        BY <4>1, <4>2 DEF Published
    <3>4. k.kind = "NotifyOrderPaid" /\ k.order = o
      BY <3>1
    <3> HIDE DEF k
    <3>5. QED
      BY <3>1, <3>3, <3>4 DEF About
  <2>4. QED
    BY <2>2, <2>3
<1>7. ASSUME NEW o \in Orders, dispatched'[o] > 0 PROVE About("NotifyOrderPaid", o)'
  <2>1. CASE dispatched[o] > 0
    BY <1>4, <2>1 DEF WorkIsTold
  <2>2. CASE m.kind = "DispatchOrder" /\ m.order = o
    BY <1>1, <1>4, <2>2 DEF WorkIsTold, About
  <2>3. QED
    BY <1>7, <2>1, <2>2
<1>8. ASSUME NEW o \in Orders, About("NotifyOrderDispatched", o)'
      PROVE  About("NotifyOrderPaid", o)'
  <2>1. PICK n \in BagToSet(net') : n.kind = "NotifyOrderDispatched" /\ n.order = o
    BY <1>8 DEF About
  <2>2. CASE \E k \in BagToSet(net) : k.kind = "NotifyOrderDispatched" /\ k.order = o
    BY <1>4, <2>2 DEF WorkIsTold, About
  <2>3. CASE ~\E k \in BagToSet(net) : k.kind = "NotifyOrderDispatched" /\ k.order = o
    <3>1. o = m.order /\ "NotifyOrderDispatched" \in Continuations(m.kind)
      BY <1>1, <1>2, <2>1, <2>3
    <3>2. m.kind = "OrderDispatched"
      BY <1>1, <3>1, ContinuationSets DEF Kinds
    <3>3. dispatched[o] > 0
      BY <1>5, <3>1, <3>2
    <3>4. QED
      BY <1>4, <3>3 DEF WorkIsTold
  <2>4. QED
    BY <2>2, <2>3
<1>9. ASSUME NEW o \in Orders, About("NotifyOrderPaid", o)' PROVE billed'[o] > 0
  <2>1. PICK n \in BagToSet(net') : n.kind = "NotifyOrderPaid" /\ n.order = o
    BY <1>9 DEF About
  <2>2. CASE \E k \in BagToSet(net) : k.kind = "NotifyOrderPaid" /\ k.order = o
    BY <2>2 DEF WorkIsTold, About
  <2>3. CASE ~\E k \in BagToSet(net) : k.kind = "NotifyOrderPaid" /\ k.order = o
    <3>1. o = m.order /\ "NotifyOrderPaid" \in Continuations(m.kind)
      BY <1>1, <1>2, <2>1, <2>3
    <3>2. m.kind = "OrderPaid"
      BY <1>1, <3>1, ContinuationSets DEF Kinds
    <3>3. QED
      BY <1>5, <3>1, <3>2
  <2>4. QED
    BY <2>2, <2>3
<1>10. ASSUME NEW o \in Orders PROVE ~About("NotifyOrderDelivered", o)'
  <2>1. SUFFICES ASSUME NEW n \in BagToSet(net'), n.kind = "NotifyOrderDelivered", n.order = o
                 PROVE  FALSE
    BY DEF About
  <2>2. ~\E k \in BagToSet(net) : k.kind = "NotifyOrderDelivered" /\ k.order = o
    BY DEF WorkIsTold, About
  <2>3. "NotifyOrderDelivered" \in Continuations(m.kind)
    BY <1>1, <1>2, <2>1, <2>2
  <2>4. m.kind = "OrderDelivered"
    BY <1>1, <2>3, ContinuationSets DEF Kinds
  <2>5. QED
    BY <1>5, <2>4
<1>11. QED
  BY <1>6, <1>7, <1>8, <1>9, <1>10 DEF WorkIsTold

\* What comes from outside is not about work.
LEMMA OutsideTold ==
  ASSUME SagaInv, WorkIsTold, NEW S, BagToSet(net') = BagToSet(net) \cup S,
         \A n \in S : n.kind \in {"OrderPlaced", "OrderCanceled"},
         UNCHANGED <<billed, dispatched>>
  PROVE  WorkIsTold'
<1>1. \A o, k : k \in {"DispatchOrder", "NotifyOrderDispatched", "NotifyOrderPaid",
                       "NotifyOrderDelivered", "BillOrderFault", "OrderFailedToBeBilled"}
                  => (About(k, o)' <=> About(k, o))
  BY DEF About
<1>2. QED
  BY <1>1 DEF WorkIsTold

(***************************************************************************)
(* Faults of BillOrder, of orders whose billing nothing hid.               *)
(***************************************************************************)

\* A consumer of the saga queue publishes only if the saga took the event.
LEMMA SuccessState ==
  ASSUME SagaInv, NEW m \in BagToSet(net), m.queue = SagaQueue, NEW commit, NEW out,
         Succeeds(m, commit, out), MoveSaga(m, commit)
  PROVE  /\ m.kind = "OrderPlaced" =>
              saga[m.order] = "None" /\ saga'[m.order] = "OrderPlaced"
         /\ m.kind = "BillOrderFault" => saga[m.order] = "OrderSentForBilling"
<1>1. m \in Message /\ Justified(m) /\ m.order \in Orders
  BY InFlightFact
<1>2. commit = "answered" /\ ~Rejects(StateOf(m.corr), m.kind)
  BY DEF Succeeds
<1>3. CASE m.kind = "OrderPlaced"
  <2>1. m.corr = m.order /\ StateOf(m.corr) = saga[m.order]
    BY <1>1, <1>3 DEF Justified, StateOf
  <2>2. "OrderPlaced" \in Targets("None", "OrderPlaced")
    BY DEF Targets, Transitions, SagaStates, InstanceStates
  <2>3. <<saga[m.order], "OrderPlaced">> \notin Ignored
    BY DEF Ignored
  <2>4. Accepts(saga[m.order], "OrderPlaced")
    BY <1>2, <1>3, <2>1, <2>2, <2>3 DEF Rejects, Tolerates, Accepts
  <2>5. \A t \in Targets(saga[m.order], "OrderPlaced") :
          t = "OrderPlaced" /\ saga[m.order] = "None"
    BY DEF Targets, Transitions
  <2>6. \E t \in Targets(saga[m.order], "OrderPlaced") : saga' = [saga EXCEPT ![m.order] = t]
    BY <1>2, <1>3, <2>1, <2>4 DEF MoveSaga
  <2>7. QED
    BY <1>1, <1>3, <2>5, <2>6 DEF SagaInv, TypeOK
<1>4. CASE m.kind = "BillOrderFault"
  <2>1. m.corr = m.order /\ StateOf(m.corr) = saga[m.order] /\ saga[m.order] # "None"
    BY <1>1, <1>4 DEF Justified, StateOf
  <2>2. <<saga[m.order], "BillOrderFault">> \notin Ignored
    BY DEF Ignored
  <2>3. Accepts(saga[m.order], "BillOrderFault")
    BY <1>2, <1>4, <2>1, <2>2 DEF Rejects, Tolerates
  <2>4. QED
    BY <1>4, <2>3 DEF Accepts, Targets, Transitions
<1>5. QED
  BY <1>3, <1>4

\* Nobody bills an order that Unbilled says nobody will bill.
LEMMA UnbilledStays ==
  ASSUME OnceInv, NEW m \in BagToSet(net), NEW S, Sends(m, S),
         net' = Replace(net, m, S), UNCHANGED source, NEW o \in Orders, Unbilled(o),
         billed'[o] = billed[o] \/ (m.kind = "BillOrder" /\ m.order = o /\ m.queue \in WorkerQueues)
  PROVE  Unbilled(o)'
<1>1. m \notin Billing(o) /\ Copies(net, Billing(o)) = {}
  BY CopyBase DEF Unbilled, OnceInv, SagaInv, TypeOK
<1>2. Routed(m) /\ m \in Message
  BY InFlightFact DEF OnceInv
<1>3. S \cap Billing(o) = {}
  BY <1>1, <1>2, Heirs
<1>4. Copies(net', Billing(o)) = {}
  BY <1>1, <1>3, TakeAddsNoWork DEF OnceInv
<1>5. billed'[o] = billed[o]
  <2>1. SUFFICES ASSUME m.kind = "BillOrder", m.order = o, m.queue \in WorkerQueues
                 PROVE  FALSE
    OBVIOUS
  <2>2. m.queue = BillingQueue
    BY <1>2, <2>1, BoundQueues, QueueFact DEF Routed
  <2>3. QED
    BY <1>1, <1>2, <2>1, <2>2, ClassFact
<1>6. QED
  BY <1>4, <1>5 DEF Unbilled

LEMMA EmptyCopies ==
  ASSUME NEW B, NEW K, IsFiniteSet(Copies(B, K))
  PROVE  N(B, K) \in Nat /\ (N(B, K) = 0 <=> Copies(B, K) = {})
  BY FS_EmptySet, FS_CardinalityType DEF N

LEMMA PublishedSome ==
  ASSUME NEW k, NEW o, NEW c, NEW v, Subscribers[k] # {}
  PROVE  Publish(k, o, c, v) # {}
<1>1. PICK q : q \in Subscribers[k]
  OBVIOUS
<1>2. [queue |-> q, kind |-> k, order |-> o, corr |-> c, valid |-> v, tries |-> 0]
        \in Publish(k, o, c, v)
  BY <1>1 DEF Publish
<1>3. QED
  BY <1>2

\* What FaultsAreHarmless says of an order whose billing nothing hid.
Harmless(o) ==
  /\ N(net, Notes(o)) <= 1
  /\ Copies(net, Notes(o)) # {} => saga[o] \in {"OrderPlaced", "OrderCanceled"}
  /\ About("BillOrderFault", o) =>
       \/ Unbilled(o)
       \/ saga[o] \in {"OrderPlaced", "OrderCanceled"} /\ Copies(net, Notes(o)) = {}
  /\ saga[o] = "OrderFailedToBeBilled" \/ About("OrderFailedToBeBilled", o) => Unbilled(o)

LEMMA HarmlessEach ==
  /\ FaultsAreHarmless <=> \A o \in Orders : Sure(o) => Harmless(o)
  /\ FaultsAreHarmless' <=> \A o \in Orders : Sure(o)' => Harmless(o)'
<1>1. FaultsAreHarmless <=> \A o \in Orders : Sure(o) => Harmless(o)
  BY DEF FaultsAreHarmless, Harmless, N
<1>2. FaultsAreHarmless' <=> \A o \in Orders : Sure(o)' => Harmless(o)'
  BY DEF FaultsAreHarmless, Harmless, N
<1>3. QED
  BY <1>1, <1>2

LEMMA SagaTakesHarmless ==
  ASSUME OnceInv, NEW o \in Orders, Harmless(o), o \notin unsure',
         NEW m, NEW commit \in Commits, NEW out, NEW S,
         SagaTakes(m, commit, out, S), FiniteWork'
  PROVE  Harmless(o)'
<1>1. /\ m \in BagToSet(net) /\ m.queue = SagaQueue /\ out \in Outcomes(m)
      /\ net' = Replace(net, m, S) /\ Sends(m, S)
      /\ UNCHANGED <<source, billed>> /\ MoveSaga(m, commit)
  BY TakesSends DEF SagaTakes, ledger
<1>2. SagaInv /\ FiniteWork
  BY DEF OnceInv
<1>3. /\ Routed(m) /\ m \in Message /\ Justified(m) /\ m.order \in Orders /\ m.kind \in Kinds
      /\ IsABag(net)
  BY <1>1, <1>2, InFlightFact DEF SagaInv, TypeOK
<1>4. \/ Succeeds(m, commit, out) /\ S = Outbox(m, out)
      \/ ~Succeeds(m, commit, out) /\ \E t \in 0..Retries : S = {[m EXCEPT !.tries = t]}
      \/ ~Succeeds(m, commit, out) /\ S = Faults(m)
  BY DEF SagaTakes
<1>5. Spreads(m, S)
  BY <1>2, SagaSpreads
<1>6. Unbilled(o) => Unbilled(o)'
  BY <1>1, UnbilledStays
<1>7. m \in Notes(o) <=> m.kind = "BillOrder" /\ m.order = o
  BY <1>1, <1>3, ClassFact
\* BillOrder has no consumer here, so the saga's part decides; its commit was
\* answered or came to nothing, since nothing hid it.
<1>8. ASSUME m.kind = "BillOrder", m.order = o
      PROVE  /\ saga' # saga => S = {}
             /\ S = Faults(m) => UNCHANGED saga
  <2>1. out = "none"
    BY <1>1, <1>8 DEF Outcomes, HasConsumer, ConsumedAtSaga
  <2>2. Succeeds(m, commit, out) => S = {}
    <3>1. Published(m) # {}
      <4>1. "OrderPaid" \in Continuations(m.kind)
        BY <1>8 DEF Continuations, BillOrderConsumer
      <4>2. Publish("OrderPaid", m.order, m.corr, TRUE) # {}
        BY PublishedSome, BoundQueues
      <4>3. QED
        BY <4>1, <4>2 DEF Published
    <3>2. S = Outbox(m, out) => S = {}
      BY <2>1 DEF Outbox
    <3>3. QED
      BY <1>4, <3>2
  <2>3. ~Succeeds(m, commit, out) => UNCHANGED saga
    <3>1. commit # "unanswered"
      BY <1>8 DEF SagaTakes, Remembers
    <3>2. QED
      BY <1>1, <2>1, <3>1 DEF Succeeds, MoveSaga, Rejects, Commits
  <2>4. Faults(m) # {}
    BY <1>8, PublishedSome, BoundQueues DEF Faults
  <2>5. QED
    BY <2>2, <2>3, <2>4
\* How the saga of o moves.
<1>9. ASSUME saga'[o] # saga[o]
      PROVE  /\ <<saga[o], m.kind, saga'[o]>> \in Transitions
             /\ m.kind = "OrderCanceled" \/ m.order = o
  <2>1. CASE UNCHANGED saga
    BY <1>9, <2>1
  <2>2. CASE /\ m.corr \in Orders /\ m.order \in Orders
             /\ m.kind = "OrderCanceled" \/ m.corr = m.order
             /\ \E t \in SagaStates \ {"None"} :
                  /\ <<saga[m.corr], m.kind, t>> \in Transitions
                  /\ saga' = [saga EXCEPT ![m.corr] = t]
    <3>1. PICK t \in SagaStates \ {"None"} :
                  /\ <<saga[m.corr], m.kind, t>> \in Transitions
                  /\ saga' = [saga EXCEPT ![m.corr] = t]
      BY <2>2
    <3>2. m.corr = o /\ saga'[o] = t
      BY <1>2, <1>9, <2>2, <3>1 DEF SagaInv, TypeOK
    <3>3. QED
      BY <2>2, <3>1, <3>2
  <2>3. QED
    BY <1>1, <1>2, <2>1, <2>2, MoveFact
\* BillOrder is published only when the saga starts.
<1>10. ASSUME S \cap Notes(o) # {}, m \notin Notes(o)
       PROVE  /\ saga[o] = "None" /\ saga'[o] = "OrderPlaced"
              /\ Copies(net, Notes(o)) = {}
  <2>1. m \in On("OrderPlaced", SagaQueue, o)
    BY <1>1, <1>3, <1>10, Heirs
  <2>2. m.kind = "OrderPlaced" /\ m.order = o
    BY <1>3, <2>1, OnFact
  <2>3. Succeeds(m, commit, out)
    <3>1. ASSUME NEW t \in 0..Retries PROVE S # {[m EXCEPT !.tries = t]}
      <4>1. [m EXCEPT !.tries = t] \notin Notes(o)
        BY <1>3, <1>10, SameClass
      <4>2. QED
        BY <1>10, <4>1
    <3>2. S # Faults(m)
      BY <1>3, <1>10, FaultClass
    <3>3. QED
      BY <1>4, <3>1, <3>2
  <2>4. saga[o] = "None" /\ saga'[o] = "OrderPlaced"
    BY <1>1, <1>2, <2>2, <2>3, SuccessState
  <2>5. \A n \in BagToSet(net) : n \notin Notes(o)
    <3>1. ~About("BillOrder", o)
      BY <1>2, <2>4 DEF SagaInv, MessagesKeepOrder
    <3>2. QED
      BY <1>2, <3>1, InFlightFact, ClassFact DEF About
  <2>6. QED
    BY <1>3, <2>4, <2>5, CopyBase
<1>11. /\ N(net', Notes(o)) <= 1
       /\ Copies(net', Notes(o)) # {} => saga'[o] \in {"OrderPlaced", "OrderCanceled"}
  <2>1. /\ N(net, Notes(o)) <= 1 /\ N(net, Notes(o)) \in Nat /\ N(net', Notes(o)) \in Nat
        /\ Copies(net, Notes(o)) # {} => saga[o] \in {"OrderPlaced", "OrderCanceled"}
        /\ N(net, Notes(o)) = 0 <=> Copies(net, Notes(o)) = {}
        /\ N(net', Notes(o)) = 0 <=> Copies(net', Notes(o)) = {}
    <3>1. N(net, Notes(o)) \in Nat /\ (N(net, Notes(o)) = 0 <=> Copies(net, Notes(o)) = {})
      BY <1>2, EmptyCopies DEF FiniteWork
    <3>2. N(net', Notes(o)) \in Nat /\ (N(net', Notes(o)) = 0 <=> Copies(net', Notes(o)) = {})
      BY EmptyCopies DEF FiniteWork
    <3>3. QED
      BY <3>1, <3>2 DEF Harmless, N
  <2>2. CASE S \cap Notes(o) # {} /\ m \notin Notes(o)
    <3>1. N(net, Notes(o)) = 0
      BY <1>10, <2>1, <2>2
    <3>2. N(net', Notes(o)) <= N(net, Notes(o)) + 1
      BY <1>1, <1>2, TakeAddsNoWork
    <3>3. QED
      BY <1>10, <2>1, <2>2, <3>1, <3>2
  <2>3. CASE S \cap Notes(o) = {} /\ m \notin Notes(o)
    <3>1. /\ Copies(net', Notes(o)) \subseteq Copies(net, Notes(o))
          /\ N(net', Notes(o)) <= N(net, Notes(o))
      BY <1>1, <1>2, <2>3, TakeAddsNoWork
    <3>2. CASE saga'[o] = saga[o]
      BY <2>1, <3>1, <3>2
    <3>3. CASE saga'[o] # saga[o]
      <4>1. /\ <<saga[o], m.kind, saga'[o]>> \in Transitions
            /\ m.kind = "OrderCanceled" \/ m.order = o
        BY <1>9, <3>3
      <4>2. m.kind # "BillOrder"
        BY <1>7, <2>3, <4>1
      <4>3. saga[o] \in {"OrderPlaced", "OrderCanceled"} => saga'[o] = "OrderCanceled"
        BY <4>1, <4>2 DEF Transitions
      <4>4. QED
        BY <2>1, <3>1, <4>3
    <3>4. QED
      BY <3>2, <3>3
  <2>4. CASE m \in Notes(o)
    <3>1. N(net', Notes(o)) <= N(net, Notes(o))
      BY <1>1, <1>2, <2>4, TakeAddsNoWork
    <3>2. Copies(net, Notes(o)) # {}
      BY <1>1, <1>3, <2>4, CopyBase
    <3>3. CASE UNCHANGED saga
      BY <2>1, <3>1, <3>2, <3>3
    <3>4. CASE saga' # saga
      <4>1. S = {}
        BY <1>7, <1>8, <2>4, <3>4
      <4>2. N(net', Notes(o)) = N(net, Notes(o)) - 1
        BY <1>1, <1>2, <2>4, <4>1, TakeAddsNoWork
      <4>3. N(net', Notes(o)) = 0
        BY <2>1, <3>2, <4>2
      <4>4. QED
        BY <2>1, <4>3
    <3>5. QED
      BY <3>3, <3>4
  <2>5. QED
    BY <2>2, <2>3, <2>4
<1>12. ASSUME About("BillOrderFault", o)'
       PROVE  \/ Unbilled(o)'
              \/ saga'[o] \in {"OrderPlaced", "OrderCanceled"} /\ Copies(net', Notes(o)) = {}
  <2>1. CASE About("BillOrderFault", o)
    <3>1. CASE Unbilled(o)
      BY <1>6, <3>1
    <3>2. CASE saga[o] \in {"OrderPlaced", "OrderCanceled"} /\ Copies(net, Notes(o)) = {}
      <4>1. m \notin Notes(o)
        BY <1>1, <1>3, <3>2, CopyBase
      <4>2. S \cap Notes(o) = {}
        BY <1>10, <3>2, <4>1
      <4>3. Copies(net', Notes(o)) = {}
        BY <1>1, <1>2, <3>2, <4>2, TakeAddsNoWork
      <4>4. saga'[o] \in {"OrderPlaced", "OrderCanceled"}
        <5>1. CASE saga'[o] # saga[o]
          <6>1. /\ <<saga[o], m.kind, saga'[o]>> \in Transitions
                /\ m.kind = "OrderCanceled" \/ m.order = o
            BY <1>9, <5>1
          <6>2. m.kind # "BillOrder"
            BY <1>7, <4>1, <6>1
          <6>3. QED
            BY <3>2, <6>1, <6>2 DEF Transitions
        <5>2. QED
          BY <3>2, <5>1
      <4>5. QED
        BY <4>3, <4>4
    <3>3. QED
      BY <2>1, <3>1, <3>2 DEF Harmless
  <2>2. CASE ~About("BillOrderFault", o)
    <3>1. PICK n \in BagToSet(net') : n.kind = "BillOrderFault" /\ n.order = o
      BY <1>12 DEF About
    <3>2. n \in S /\ n \notin BagToSet(net)
      BY <1>5, <2>2, <3>1 DEF About, Spreads
    <3>3. n \notin Published(m)
      <4>1. "BillOrderFault" \notin Continuations(m.kind)
        BY <1>3, ContinuationSets
      <4>2. QED
        BY <1>3, <3>1, <4>1, PublishedFact
    <3>4. ASSUME NEW t \in 0..Retries, S = {[m EXCEPT !.tries = t]} PROVE FALSE
      <4>1. SameEvent(n, m)
        BY <1>3, <3>2, <3>4, RetryFact
      <4>2. QED
        BY <1>1, <2>2, <3>1, <4>1 DEF About, SameEvent
    <3>5. S = Faults(m)
      BY <1>4, <3>2, <3>3, <3>4 DEF Outbox
    <3>6. m.kind = "BillOrder" /\ m.order = o
      BY <1>3, <3>1, <3>2, <3>5, FaultFact
    <3>7. m \in Notes(o) /\ Copies(net, Notes(o)) # {}
      BY <1>1, <1>3, <1>7, <3>6, CopyBase
    <3>8. saga'[o] \in {"OrderPlaced", "OrderCanceled"}
      BY <1>8, <3>5, <3>6, <3>7 DEF Harmless
    <3>9. Copies(net', Notes(o)) = {}
      <4>1. S \cap Notes(o) = {}
        BY <1>3, <3>5, FaultClass
      <4>2. N(net', Notes(o)) = N(net, Notes(o)) - 1
        BY <1>1, <1>2, <3>7, <4>1, TakeAddsNoWork
      <4>3. N(net, Notes(o)) <= 1 /\ N(net, Notes(o)) \in Nat
        BY <1>2, OnceTypes DEF Harmless, N
      <4>4. N(net', Notes(o)) \in Nat /\ (N(net', Notes(o)) = 0 <=> Copies(net', Notes(o)) = {})
        BY EmptyCopies DEF FiniteWork
      <4>5. QED
        BY <4>2, <4>3, <4>4
    <3>10. QED
      BY <3>8, <3>9
  <2>3. QED
    BY <2>1, <2>2
\* The saga takes a fault only where Payment gave up.
<1>13. ASSUME m.kind = "BillOrderFault", m.order = o, saga[o] = "OrderSentForBilling"
       PROVE  Unbilled(o)
  <2>1. About("BillOrderFault", o)
    BY <1>1, <1>13 DEF About
  <2>2. QED
    BY <1>3, <1>13, <2>1 DEF Harmless
<1>14. ASSUME saga'[o] = "OrderFailedToBeBilled" \/ About("OrderFailedToBeBilled", o)'
       PROVE  Unbilled(o)'
  <2>1. CASE saga[o] = "OrderFailedToBeBilled" \/ About("OrderFailedToBeBilled", o)
    BY <1>6, <2>1 DEF Harmless
  <2>2. CASE saga'[o] = "OrderFailedToBeBilled" /\ saga[o] # "OrderFailedToBeBilled"
    <3>1. /\ <<saga[o], m.kind, "OrderFailedToBeBilled">> \in Transitions
          /\ m.kind = "OrderCanceled" \/ m.order = o
      BY <1>9, <2>2
    <3>2. m.kind = "BillOrderFault" /\ saga[o] = "OrderSentForBilling" /\ m.order = o
      BY <3>1 DEF Transitions
    <3>3. QED
      BY <1>6, <1>13, <3>2
  <2>3. CASE About("OrderFailedToBeBilled", o)' /\ ~About("OrderFailedToBeBilled", o)
    <3>1. PICK n \in BagToSet(net') : n.kind = "OrderFailedToBeBilled" /\ n.order = o
      BY <2>3 DEF About
    <3>2. n \in S /\ n \notin BagToSet(net)
      BY <1>5, <2>3, <3>1 DEF About, Spreads
    <3>3. ~SameEvent(n, m)
      BY <1>1, <2>3, <3>1 DEF About, SameEvent
    <3>4. \A t \in 0..Retries : S # {[m EXCEPT !.tries = t]}
      BY <1>3, <3>2, <3>3, RetryFact
    <3>5. S # Faults(m)
      BY <1>3, <3>1, <3>2, FaultFact
    <3>6. Succeeds(m, commit, out) /\ n \in Published(m)
      BY <1>4, <3>2, <3>4, <3>5 DEF Outbox
    <3>7. m.order = o /\ "OrderFailedToBeBilled" \in Continuations(m.kind)
      BY <1>3, <3>1, <3>6, PublishedFact
    <3>8. m.kind = "BillOrderFault"
      BY <1>3, <3>7, ContinuationSets DEF Kinds
    <3>9. saga[o] = "OrderSentForBilling"
      BY <1>1, <1>2, <3>6, <3>7, <3>8, SuccessState
    <3>10. QED
      BY <1>6, <1>13, <3>7, <3>8, <3>9
  <2>4. QED
    BY <1>14, <2>1, <2>2, <2>3
<1>15. QED
  BY <1>11, <1>12, <1>14 DEF Harmless, N

\* Payment gives up on an order only instead of billing it.
LEMMA WorkTakesHarmless ==
  ASSUME OnceInv, crashes = 0, NEW o \in Orders, Harmless(o), NEW m, NEW out, NEW S,
         WorkTakes(m, out, S), FiniteWork'
  PROVE  Harmless(o)'
<1>1. /\ m \in BagToSet(net) /\ m.queue \in WorkerQueues
      /\ net' = Replace(net, m, S) /\ Sends(m, S)
      /\ UNCHANGED <<source, saga>>
  BY TakesSends DEF WorkTakes, ledger
<1>2. SagaInv /\ FiniteWork /\ WorkIsCounted
  BY DEF OnceInv, WorkInv
<1>3. /\ Routed(m) /\ m \in Message /\ Justified(m) /\ m.order \in Orders /\ m.kind \in Kinds
      /\ IsABag(net)
  BY <1>1, <1>2, InFlightFact DEF SagaInv, TypeOK
<1>4. Spreads(m, S)
  BY <1>2, WorkSpreads
<1>5. ASSUME Unbilled(o) PROVE Unbilled(o)'
  <2>1. billed'[o] = billed[o] \/ (m.kind = "BillOrder" /\ m.order = o /\ m.queue \in WorkerQueues)
    <3>1. CASE UNCHANGED <<billed, dispatched>>
      BY <3>1
    <3>2. CASE Record(m, out = "publishes")
      BY <1>1, <1>2, <3>2 DEF Record, SagaInv, TypeOK
    <3>3. QED
      BY <3>1, <3>2 DEF WorkTakes
  <2>2. QED
    BY <1>1, <1>5, <2>1, UnbilledStays
<1>6. /\ Copies(net', Notes(o)) \subseteq Copies(net, Notes(o))
      /\ N(net', Notes(o)) <= N(net, Notes(o))
  <2>1. m \notin Notes(o) /\ m \notin On("OrderPlaced", SagaQueue, o)
    BY <1>1, <1>3, ClassFact, OnFact, QueueFact
  <2>2. S \cap Notes(o) = {}
    BY <1>1, <1>3, <2>1, Heirs
  <2>3. QED
    BY <1>1, <1>2, <2>2, TakeAddsNoWork
<1>7. /\ N(net', Notes(o)) <= 1
      /\ Copies(net', Notes(o)) # {} => saga'[o] \in {"OrderPlaced", "OrderCanceled"}
  <2>1. N(net, Notes(o)) <= 1 /\ N(net, Notes(o)) \in Nat /\ N(net', Notes(o)) \in Nat
    <3>1. N(net', Notes(o)) \in Nat
      BY EmptyCopies DEF FiniteWork
    <3>2. QED
      BY <1>2, <3>1, OnceTypes DEF Harmless, N
  <2>2. N(net', Notes(o)) <= 1
    BY <1>6, <2>1
  <2>3. QED
    BY <1>1, <1>6, <2>2 DEF Harmless
<1>8. ASSUME About("BillOrderFault", o)'
      PROVE  \/ Unbilled(o)'
             \/ saga'[o] \in {"OrderPlaced", "OrderCanceled"} /\ Copies(net', Notes(o)) = {}
  <2>1. CASE About("BillOrderFault", o)
    BY <1>1, <1>5, <1>6, <2>1 DEF Harmless
  <2>2. CASE ~About("BillOrderFault", o)
    <3>1. PICK n \in BagToSet(net') : n.kind = "BillOrderFault" /\ n.order = o
      BY <1>8 DEF About
    <3>2. n \in S /\ n \notin BagToSet(net)
      BY <1>4, <2>2, <3>1 DEF About, Spreads
    <3>3. n \notin Published(m)
      <4>1. "BillOrderFault" \notin Continuations(m.kind)
        BY <1>3, ContinuationSets
      <4>2. QED
        BY <1>3, <3>1, <4>1, PublishedFact
    <3>4. S = Faults(m) /\ UNCHANGED <<billed, dispatched>>
      BY <3>2, <3>3 DEF WorkTakes, Outbox
    <3>5. m.kind = "BillOrder" /\ m.order = o
      BY <1>3, <3>1, <3>2, <3>4, FaultFact
    <3>6. m \in Billing(o)
      <4>1. m.queue = BillingQueue
        BY <1>1, <1>3, <3>5, BoundQueues, QueueFact DEF Routed
      <4>2. QED
        BY <1>3, <3>5, <4>1, ClassFact
    <3>7. N(net', Billing(o)) = N(net, Billing(o)) - 1
      <4>1. S \cap Billing(o) = {}
        BY <1>3, <3>4, FaultClass
      <4>2. QED
        BY <1>1, <1>2, <3>6, <4>1, TakeAddsNoWork
    <3>8. N(net, Billing(o)) + billed[o] <= 1
      BY <1>2 DEF WorkIsCounted, N
    <3>9. /\ N(net', Billing(o)) \in Nat
          /\ N(net', Billing(o)) = 0 <=> Copies(net', Billing(o)) = {}
      BY EmptyCopies DEF FiniteWork
    <3>10. billed[o] = 0 /\ Copies(net', Billing(o)) = {}
      <4>1. billed[o] \in Nat /\ N(net, Billing(o)) \in Nat
        BY <1>2, OnceTypes
      <4>2. QED
        BY <3>7, <3>8, <3>9, <4>1
    <3>11. source[o] # "none"
      <4>1. saga[o] # "None"
        BY <1>3, <3>5 DEF Justified
      <4>2. QED
        BY <1>2, <4>1 DEF WorkIsCounted
    <3>12. QED
      BY <1>1, <3>4, <3>10, <3>11 DEF Unbilled
  <2>3. QED
    BY <2>1, <2>2
<1>9. ASSUME saga'[o] = "OrderFailedToBeBilled" \/ About("OrderFailedToBeBilled", o)'
      PROVE  Unbilled(o)'
  <2>1. CASE saga[o] = "OrderFailedToBeBilled" \/ About("OrderFailedToBeBilled", o)
    BY <1>5, <2>1 DEF Harmless
  <2>2. CASE About("OrderFailedToBeBilled", o)' /\ ~About("OrderFailedToBeBilled", o)
    <3>1. PICK n \in BagToSet(net') : n.kind = "OrderFailedToBeBilled" /\ n.order = o
      BY <2>2 DEF About
    <3>2. n \in S /\ n \notin BagToSet(net)
      BY <1>4, <2>2, <3>1 DEF About, Spreads
    <3>3. n \in Published(m)
      <4>1. n \notin Faults(m)
        BY <1>3, <3>1, FaultFact
      <4>2. QED
        BY <3>2, <4>1 DEF WorkTakes, Outbox
    <3>4. "OrderFailedToBeBilled" \in Continuations(m.kind)
      BY <1>3, <3>1, <3>3, PublishedFact
    <3>5. m.kind = "BillOrderFault"
      BY <1>3, <3>4, ContinuationSets DEF Kinds
    <3>6. m.queue = SagaQueue
      BY <1>3, <3>5, BoundQueues DEF Routed
    <3>7. QED
      BY <1>1, <3>6, QueueFact
  <2>3. QED
    BY <1>1, <1>9, <2>1, <2>2
<1>10. QED
  BY <1>7, <1>8, <1>9 DEF Harmless, N

\* An order just placed has no fault behind it, and a cancellation is none.
LEMMA OutsideHarmless ==
  ASSUME OnceInv, NEW o \in Orders, Harmless(o), NEW S, BagToSet(net') = BagToSet(net) \cup S,
         \A n \in S : n.kind \in {"OrderPlaced", "OrderCanceled"},
         UNCHANGED <<saga, billed>>,
         Copies(net', Notes(o)) = Copies(net, Notes(o)),
         source[o] # "none" =>
            source'[o] # "none" /\ Copies(net', Billing(o)) = Copies(net, Billing(o))
  PROVE  Harmless(o)'
<1>1. /\ About("BillOrderFault", o)' <=> About("BillOrderFault", o)
      /\ About("OrderFailedToBeBilled", o)' <=> About("OrderFailedToBeBilled", o)
  BY DEF About
<1>2. Unbilled(o) => Unbilled(o)'
  BY DEF Unbilled
<1>3. QED
  BY <1>1, <1>2 DEF Harmless, N

(***************************************************************************)
(* The invariant.                                                          *)
(***************************************************************************)

LEMMA OnceInit == Init => OnceInv
<1> SUFFICES ASSUME Init PROVE OnceInv
  OBVIOUS
<1>1. SagaInv
  BY SagaInvInit
<1>2. BagToSet(net) = {}
  BY DEF Init, EmptyBag, SetToBag, BagToSet
<1>3. \A K : Copies(net, K) = {}
  BY <1>2 DEF Copies
<1>4. FiniteWork
  BY <1>3, FS_EmptySet DEF FiniteWork
<1>5. crashes = 0 /\ \A o \in Orders : /\ billed[o] = 0 /\ dispatched[o] = 0
                                       /\ saga[o] = "None"
  BY DEF Init
<1>6. WorkIsCounted
  BY <1>3, <1>5, FS_EmptySet DEF WorkIsCounted
<1>7. \A k, o : ~About(k, o)
  BY <1>2 DEF About
<1>8. WorkIsTold
  BY <1>5, <1>7 DEF WorkIsTold
<1>9. FaultsAreHarmless
  BY <1>3, <1>5, <1>7, FS_EmptySet DEF FaultsAreHarmless
<1>10. QED
  BY <1>1, <1>4, <1>6, <1>8, <1>9 DEF OnceInv, WorkInv

LEMMA OnceStep == OnceInv /\ [Next]_vars => OnceInv'
<1> SUFFICES ASSUME OnceInv, [Next]_vars PROVE OnceInv'
  OBVIOUS
<1>1. /\ SagaInv /\ TypeOK /\ FiniteWork /\ WorkIsCounted /\ WorkIsTold
      /\ FaultsAreHarmless
  BY DEF OnceInv, WorkInv, SagaInv
<1>2. SagaInv'
  BY <1>1, SagaInvStep
<1>3. crashes \in Nat
  BY <1>1, BudgetAssumption DEF TypeOK
<1>4. ASSUME NEW o \in Orders, NEW p \in Publishers, PublishOrderPlaced(o, p)
      PROVE  OnceInv'
  <2> DEFINE S == Publish("OrderPlaced", o, o, p = "PlaceOrder")
  <2>1. /\ FiniteWork' /\ WorkIsCounted'
        /\ \A w \in Orders : Copies(net', Notes(w)) = Copies(net, Notes(w))
        /\ \A w \in Orders : w # o => Copies(net', Billing(w)) = Copies(net, Billing(w))
    BY <1>1, <1>4, PlacedCounted
  <2>2. \A n \in S : n.kind \in {"OrderPlaced", "OrderCanceled"}
    BY DEF Publish
  <2>3. net' = Send(net, S)
    BY <1>4 DEF PublishOrderPlaced
  <2> HIDE DEF S
  <2>4. BagToSet(net') = BagToSet(net) \cup S
    BY <1>1, <2>3, SendBag DEF TypeOK
  <2>5. /\ UNCHANGED <<saga, billed, dispatched, crashes>>
        /\ source[o] = "none" /\ source' = [source EXCEPT ![o] = p]
    BY <1>4 DEF PublishOrderPlaced
  <2>6. WorkIsTold'
    BY <1>1, <2>2, <2>4, <2>5, OutsideTold
  <2>7. \A w \in Orders : source[w] # "none" =>
          source'[w] # "none" /\ Copies(net', Billing(w)) = Copies(net, Billing(w))
    BY <1>1, <2>1, <2>5 DEF TypeOK
  <2>8. FaultsAreHarmless'
    <3>1. \A w \in Orders : Harmless(w) => Harmless(w)'
      BY <2>1, <2>2, <2>4, <2>5, <2>7, OutsideHarmless
    <3>2. UNCHANGED <<crashes, unsure>>
      BY <1>4 DEF PublishOrderPlaced
    <3>3. QED
      BY <1>1, <3>1, <3>2, HarmlessEach DEF Sure
  <2>9. QED
    BY <1>2, <2>1, <2>6, <2>8 DEF OnceInv, WorkInv
<1>5. ASSUME NEW o \in Orders, NEW id \in CancelIds, PublishOrderCanceled(o, id)
      PROVE  OnceInv'
  <2> DEFINE c == IF id = "placed" THEN o ELSE Fresh
             S == Publish("OrderCanceled", o, c, FALSE)
  <2>1. /\ FiniteWork' /\ WorkIsCounted'
        /\ \A w \in Orders : /\ Copies(net', Notes(w)) = Copies(net, Notes(w))
                             /\ Copies(net', Billing(w)) = Copies(net, Billing(w))
    BY <1>1, <1>5, CanceledCounted
  <2>2. \A n \in S : n.kind \in {"OrderPlaced", "OrderCanceled"}
    BY DEF Publish
  <2>3. net' = Send(net, S)
    BY <1>5 DEF PublishOrderCanceled
  <2> HIDE DEF S
  <2>4. BagToSet(net') = BagToSet(net) \cup S
    BY <1>1, <2>3, SendBag DEF TypeOK
  <2>5. UNCHANGED <<saga, source, billed, dispatched, crashes>>
    BY <1>5 DEF PublishOrderCanceled
  <2>6. WorkIsTold'
    BY <1>1, <2>2, <2>4, <2>5, OutsideTold
  <2>7. FaultsAreHarmless'
    <3>1. \A w \in Orders : Harmless(w) => Harmless(w)'
      BY <2>1, <2>2, <2>4, <2>5, OutsideHarmless
    <3>2. UNCHANGED <<crashes, unsure>>
      BY <1>5 DEF PublishOrderCanceled
    <3>3. QED
      BY <1>1, <3>1, <3>2, HarmlessEach DEF Sure
  <2>8. QED
    BY <1>2, <2>1, <2>6, <2>7 DEF OnceInv, WorkInv
<1>6. ASSUME NEW m, NEW commit \in Commits, NEW out, NEW S, SagaTakes(m, commit, out, S)
      PROVE  OnceInv'
  <2>1. FiniteWork' /\ WorkIsCounted'
    BY <1>1, <1>6, SagaTakesCounted
  <2>2. UNCHANGED <<billed, dispatched, crashes>>
    BY <1>6 DEF SagaTakes
  <2>3. WorkIsTold'
    BY <1>1, <1>6, <2>2, SagaSpreads, SpreadsTold
  <2>4. FaultsAreHarmless'
    <3>1. \A w \in Orders : Harmless(w) /\ w \notin unsure' => Harmless(w)'
      BY <1>6, <2>1, SagaTakesHarmless
    <3>2. unsure \subseteq unsure'
      BY <1>6 DEF SagaTakes, Remembers
    <3>3. QED
      BY <1>1, <2>2, <3>1, <3>2, HarmlessEach DEF Sure
  <2>5. QED
    BY <1>2, <2>1, <2>3, <2>4 DEF OnceInv, WorkInv
<1>7. ASSUME NEW m, NEW out, NEW S, WorkTakes(m, out, S)
      PROVE  OnceInv'
  <2>1. FiniteWork' /\ WorkIsCounted'
    BY <1>1, <1>7, WorkTakesCounted
  <2>2. UNCHANGED <<crashes, unsure>>
    BY <1>7 DEF WorkTakes
  <2>3. WorkIsTold'
    BY <1>1, <1>7, WorkSpreads, SpreadsTold
  <2>4. FaultsAreHarmless'
    <3>1. \A w \in Orders : crashes = 0 /\ Harmless(w) => Harmless(w)'
      BY <1>7, <2>1, WorkTakesHarmless
    <3>2. QED
      BY <1>1, <2>2, <3>1, HarmlessEach DEF Sure
  <2>5. QED
    BY <1>2, <2>1, <2>3, <2>4 DEF OnceInv, WorkInv
<1>8. ASSUME NEW m, NEW commit, NEW out, NEW sent, SagaDies(m, commit, out, sent)
      PROVE  OnceInv'
  <2>1. FiniteWork' /\ WorkIsCounted'
    BY <1>1, <1>8, SagaDiesCounted
  <2>2. UNCHANGED <<billed, dispatched>> /\ crashes' # 0
    BY <1>3, <1>8 DEF SagaDies
  <2>3. WorkIsTold'
    <3> DEFINE S == {[m EXCEPT !.tries = 0]} \cup sent
    <3>1. S = {[m EXCEPT !.tries = 0]} \cup sent
      OBVIOUS
    <3> HIDE DEF S
    <3>2. \E d : SagaDies(m, commit, out, d) /\ S = {[m EXCEPT !.tries = 0]} \cup d
      BY <1>8, <3>1
    <3>3. Spreads(m, S)
      BY <1>1, <3>2, SagaSpreads
    <3>4. \A o \in Orders : /\ billed[o] > 0 => billed'[o] > 0
                            /\ dispatched'[o] > 0 =>
                                 dispatched[o] > 0 \/ (m.kind = "DispatchOrder" /\ m.order = o)
      BY <2>2
    <3>5. QED
      BY <1>1, <3>3, <3>4, SpreadsTold
  <2>4. FaultsAreHarmless'
    BY <2>2, HarmlessEach DEF Sure
  <2>5. QED
    BY <1>2, <2>1, <2>3, <2>4 DEF OnceInv, WorkInv
<1>9. ASSUME NEW m, NEW out, NEW sent, WorkDies(m, out, sent)
      PROVE  OnceInv'
  <2>1. FiniteWork' /\ WorkIsCounted'
    BY <1>1, <1>9, WorkDiesCounted
  <2>2. crashes' # 0
    BY <1>3, <1>9 DEF WorkDies
  <2>3. WorkIsTold'
    BY <1>1, <1>9, WorkSpreads, SpreadsTold
  <2>4. FaultsAreHarmless'
    BY <2>2, HarmlessEach DEF Sure
  <2>5. QED
    BY <1>2, <2>1, <2>3, <2>4 DEF OnceInv, WorkInv
<1>10. CASE UNCHANGED vars
  <2>1. UNCHANGED <<net, saga, source, billed, dispatched, unsure, crashes>>
    BY <1>10 DEF vars, ledger
  <2>2. FiniteWork'
    BY <1>1, <2>1 DEF FiniteWork
  <2>3. WorkIsCounted' /\ WorkIsTold'
    BY <1>1, <2>1 DEF WorkIsCounted, WorkIsTold, About
  <2>4. FaultsAreHarmless'
    BY <1>1, <2>1 DEF FaultsAreHarmless, About, Unbilled, Sure
  <2>5. QED
    BY <1>2, <2>2, <2>3, <2>4 DEF OnceInv, WorkInv
<1>11. QED
  BY <1>1, <1>4, <1>5, <1>6, <1>7, <1>8, <1>9, <1>10, ExactSteps

\* Work under way and work done are counted, and what Ordering is told and
\* what BillOrder's faults mean is kept by every step (OrderEvents consumers,
\* UseMessageRetry, UseInMemoryOutbox).
THEOREM WorkInvariant == Safety => []WorkInv
<1>1. OnceInv => WorkInv
  BY DEF OnceInv
<1>2. QED
  BY <1>1, OnceInit, OnceStep, PTL DEF Safety

\* Without a crash Payment and Delivery publish once per order, and every crash
\* costs at most one event more (UseInMemoryOutbox).
THEOREM DuplicatesAreCrashes == Safety => []DuplicatesTakeCrashes
<1>1. OnceInv => DuplicatesTakeCrashes
  <2> SUFFICES ASSUME OnceInv, NEW o \in Orders
               PROVE  billed[o] <= 1 + crashes /\ dispatched[o] <= 1 + crashes
    BY DEF DuplicatesTakeCrashes
  <2>1. /\ N(net, Billing(o)) + billed[o] <= 1 + crashes
        /\ N(net, Chain(o)) + dispatched[o] <= 1 + crashes
    BY DEF OnceInv, WorkInv, WorkIsCounted, N
  <2>2. SagaInv /\ FiniteWork
    BY DEF OnceInv
  <2>3. QED
    BY <2>1, <2>2, OnceTypes
<1>2. QED
  BY <1>1, OnceInit, OnceStep, PTL DEF Safety

\* No order that Payment billed is recorded or reported as failed to be billed,
\* unless a process crashed or the saga's commit for the order's BillOrder got no
\* answer (BillOrderFaultConsumer, During(OrderSentForBilling)).
THEOREM FailedUnbilled == Safety => []FailedMeansUnbilled
<1>1. OnceInv => FailedMeansUnbilled
  BY DEF OnceInv, WorkInv, FaultsAreHarmless, Unbilled, FailedMeansUnbilled
<1>2. QED
  BY <1>1, OnceInit, OnceStep, PTL DEF Safety

\* Ordering hears of a dispatch only with the payment, and of the payment or of
\* the failure but not of both, unless a crash or a lost answer hid what was done.
THEOREM ToldInOrder == Safety => []OrderingIsToldInOrder
<1>1. OnceInv => OrderingIsToldInOrder
  <2> SUFFICES ASSUME OnceInv, NEW o \in Orders
               PROVE  /\ About("NotifyOrderDispatched", o) => About("NotifyOrderPaid", o)
                      /\ ~About("NotifyOrderDelivered", o)
                      /\ Sure(o) => ~(About("NotifyOrderPaid", o)
                                      /\ About("OrderFailedToBeBilled", o))
    BY DEF OrderingIsToldInOrder
  <2>1. /\ About("NotifyOrderDispatched", o) => About("NotifyOrderPaid", o)
        /\ ~About("NotifyOrderDelivered", o)
        /\ About("NotifyOrderPaid", o) => billed[o] > 0
    BY DEF OnceInv, WorkInv, WorkIsTold
  <2>2. Sure(o) /\ About("OrderFailedToBeBilled", o) => billed[o] = 0
    BY DEF OnceInv, WorkInv, FaultsAreHarmless, Unbilled
  <2>3. QED
    BY <2>1, <2>2
<1>2. QED
  BY <1>1, OnceInit, OnceStep, PTL DEF Safety

(***************************************************************************)
(* The news Ordering hears (OrderNews).                                    *)
(***************************************************************************)

\* The abstract state, named.
Heard  == {n \in Notified \X Orders : About(n[1], n[2])}
Billed == {o \in Orders : billed[o] > 0}
Gone   == {o \in Orders : dispatched[o] > 0}
Doubts == {o \in Orders : ~Sure(o)}

\* The notification that the consumer of an event of this kind publishes.
NewsOf(kind) ==
  IF kind = "OrderPaid" THEN "NotifyOrderPaid"
  ELSE IF kind = "OrderDispatched" THEN "NotifyOrderDispatched"
  ELSE "OrderFailedToBeBilled"

LEMMA HeardFact ==
  ASSUME NEW k \in Notified, NEW o \in Orders
  PROVE  <<k, o>> \in Heard <=> About(k, o)
  BY DEF Heard

\* A delivery tells what its message gives rise to, or nothing, and takes
\* nothing back: nobody in the workflow reads Ordering's queues.
LEMMA SpreadsHeard ==
  ASSUME SagaInv, NEW m, NEW S, Spreads(m, S)
  PROVE  /\ Heard \subseteq Heard'
         /\ \A n \in Heard' \ Heard :
              /\ n = <<NewsOf(m.kind), m.order>>
              /\ m.kind \in {"OrderPaid", "OrderDispatched", "BillOrderFault"}
<1>1. /\ m \in Message /\ m \in BagToSet(net) /\ m.kind \in Kinds
      /\ m.kind # "OrderDelivered" /\ Routed(m) /\ m.queue \notin OrderingQueues
  BY InFlightFact DEF Spreads, Justified
<1>2. \A k \in Notified : Subscribers[k] \subseteq OrderingQueues
  BY DEF Notified, Subscribers, OrderingQueues
<1>3. m.kind \notin Notified
  BY <1>1, <1>2 DEF Routed
<1>4. ASSUME NEW k \in Notified, NEW o \in Orders, About(k, o)
      PROVE  About(k, o)'
  <2>1. PICK n \in BagToSet(net) : n.kind = k /\ n.order = o
    BY <1>4 DEF About
  <2>2. n # m
    BY <1>3, <2>1
  <2>3. QED
    BY <2>1, <2>2 DEF Spreads, About
<1>5. ASSUME NEW k \in Notified, NEW o \in Orders, About(k, o)', ~About(k, o)
      PROVE  /\ k = NewsOf(m.kind) /\ o = m.order
             /\ m.kind \in {"OrderPaid", "OrderDispatched", "BillOrderFault"}
  <2>1. PICK n \in BagToSet(net') : n.kind = k /\ n.order = o
    BY <1>5 DEF About
  <2>2. n \notin BagToSet(net)
    BY <1>5, <2>1 DEF About
  <2>3. \/ SameEvent(n, m) \/ n \in Published(m) \/ n \in Faults(m)
    BY <2>2 DEF Spreads
  <2>4. n.kind # m.kind /\ n.kind # "BillOrderFault"
    BY <1>3, <2>1 DEF Notified
  <2>5. n \in Published(m)
    BY <1>1, <2>3, <2>4, FaultFact DEF SameEvent
  <2>6. k \in Continuations(m.kind) /\ o = m.order
    BY <1>1, <2>1, <2>5, PublishedFact
  <2>7. QED
    BY <1>1, <2>6, ContinuationSets DEF NewsOf, Notified, Kinds
<1>6. Heard \subseteq Heard'
  BY <1>4 DEF Heard
<1>7. ASSUME NEW n \in Heard' \ Heard
      PROVE  /\ n = <<NewsOf(m.kind), m.order>>
             /\ m.kind \in {"OrderPaid", "OrderDispatched", "BillOrderFault"}
  <2>1. PICK k \in Notified, o \in Orders : n = <<k, o>> /\ About(k, o)' /\ ~About(k, o)
    BY <1>7 DEF Heard
  <2>2. QED
    BY <1>5, <2>1
<1>8. QED
  BY <1>6, <1>7

\* What Ordering heard of, and the work behind it.
LEMMA HeardWork ==
  ASSUME OnceInv, NEW o \in Orders
  PROVE  /\ About("NotifyOrderPaid", o) => billed[o] > 0
         /\ dispatched[o] > 0 => About("NotifyOrderPaid", o)
  BY DEF OnceInv, WorkInv, WorkIsTold

LEMMA NextHeard ==
  ASSUME OnceInv', NEW o \in Orders, About("OrderFailedToBeBilled", o)', billed'[o] > 0
  PROVE  o \in Doubts'
<1>1. FaultsAreHarmless' /\ billed'[o] # 0
  BY DEF OnceInv, WorkInv
<1>2. Sure(o)' => billed'[o] = 0
  BY <1>1 DEF FaultsAreHarmless, Unbilled
<1>3. QED
  BY <1>1, <1>2 DEF Doubts

\* Doubts are never cleared.
LEMMA DoubtsGrow ==
  ASSUME SagaInv, unsure \subseteq unsure', crashes' \in {crashes, crashes + 1}
  PROVE  Doubts \subseteq Doubts'
<1>1. crashes \in Nat
  BY BudgetAssumption DEF SagaInv, TypeOK
<1>2. crashes' = 0 => crashes = 0
  BY <1>1
<1>3. QED
  BY <1>2 DEF Doubts, Sure

\* A step that tells nothing and does no work.
LEMMA NewsStays ==
  ASSUME Heard' = Heard, Billed' = Billed, Gone' = Gone, Doubts \subseteq Doubts'
  PROVE  [News!Next]_(News!vars)
<1>1. Doubts' \subseteq Orders
  BY DEF Doubts
<1>2. News!Lose
  BY <1>1 DEF News!Lose, News!MayDoubt, Heard, Billed, Gone, Doubts
<1>3. QED
  BY <1>2 DEF News!Next

\* One notification more, of what stands behind it.
LEMMA NewsTold ==
  ASSUME OnceInv, OnceInv', NEW m, NEW S, Spreads(m, S), Heard' # Heard,
         UNCHANGED <<billed, dispatched>>, Doubts \subseteq Doubts'
  PROVE  News!Next
<1>1. SagaInv
  BY DEF OnceInv
<1>2. Justified(m) /\ m.order \in Orders /\ m.kind \in Kinds
  BY <1>1, InFlightFact DEF Spreads
<1>3. PICK o \in Orders, kind \in Kinds, k \in Notified :
        o = m.order /\ kind = m.kind /\ k = NewsOf(kind)
  BY <1>2 DEF NewsOf, Notified
<1>4. /\ Heard' = Heard \cup {<<k, o>>}
      /\ kind \in {"OrderPaid", "OrderDispatched", "BillOrderFault"}
  BY <1>1, <1>3, SpreadsHeard
<1>5. Billed' = Billed /\ Gone' = Gone
  BY DEF Billed, Gone
<1>6. About(k, o)'
  BY <1>4 DEF Heard
<1>7. /\ kind = "OrderPaid" => k = "NotifyOrderPaid" /\ o \in Billed
      /\ kind = "OrderDispatched" =>
           k = "NotifyOrderDispatched" /\ o \in Gone /\ <<"NotifyOrderPaid", o>> \in Heard
      /\ kind = "BillOrderFault" =>
           k = "OrderFailedToBeBilled" /\ (o \in Billed => o \in Doubts')
  <2>1. CASE kind = "OrderPaid"
    BY <1>2, <1>3, <2>1 DEF NewsOf, Justified, Billed
  <2>2. CASE kind = "OrderDispatched"
    <3>1. k = "NotifyOrderDispatched" /\ dispatched[o] > 0
      BY <1>2, <1>3, <2>2 DEF NewsOf, Justified
    <3>2. "NotifyOrderPaid" \in Notified
      BY DEF Notified
    <3>3. QED
      BY <2>2, <3>1, <3>2, HeardWork, HeardFact DEF Gone
  <2>3. CASE kind = "BillOrderFault"
    <3>1. k = "OrderFailedToBeBilled"
      BY <1>3, <2>3 DEF NewsOf
    <3>2. o \in Billed => o \in Doubts'
      BY <1>5, <1>6, <3>1, NextHeard DEF Billed
    <3>3. QED
      BY <2>3, <3>1, <3>2
  <2>4. QED
    BY <1>4, <2>1, <2>2, <2>3
<1>8. News!MayDoubt
  BY DEF News!MayDoubt, Doubts
<1>9. News!MayTell(k, o)
  BY <1>4, <1>7 DEF News!MayTell, News!Told, Heard, Billed, Gone, Doubts
<1>10. News!Tell(k, o)
  BY <1>4, <1>5, <1>8, <1>9 DEF News!Tell, Heard, Billed, Gone
<1>11. k \in {"NotifyOrderPaid", "NotifyOrderDispatched", "OrderFailedToBeBilled"}
  BY <1>4, <1>7
<1>12. QED
  BY <1>10, <1>11 DEF News!Next

\* Payment and Delivery work before anybody hears of it.
LEMMA NewsWorked ==
  ASSUME OnceInv, OnceInv', NEW m, NEW S, Spreads(m, S), m.queue \in WorkerQueues,
         Record(m, TRUE), Doubts \subseteq Doubts'
  PROVE  [News!Next]_(News!vars)
<1>1. SagaInv
  BY DEF OnceInv
<1>2. Routed(m) /\ m.order \in Orders /\ m.kind \in Kinds /\ m \in BagToSet(net)
  BY <1>1, InFlightFact DEF Spreads
<1>3. m.kind \notin {"OrderPaid", "OrderDispatched", "BillOrderFault"}
  BY <1>2, QueueFact, BoundQueues DEF Routed
<1>4. Heard' = Heard
  BY <1>1, <1>3, SpreadsHeard
<1>5. PICK o \in Orders : o = m.order
  BY <1>2
<1>6. billed \in [Orders -> Nat] /\ dispatched \in [Orders -> Nat]
  BY <1>1 DEF SagaInv, TypeOK
<1>7. News!MayDoubt
  BY DEF News!MayDoubt, Doubts
<1>8. CASE m.kind = "BillOrder"
  <2>1. billed' = [billed EXCEPT ![o] = billed[o] + 1] /\ dispatched' = dispatched
    BY <1>5, <1>8 DEF Record
  <2>2. Billed' = Billed \cup {o} /\ Gone' = Gone /\ billed'[o] > 0
    BY <1>6, <2>1 DEF Billed, Gone
  <2>3. <<"OrderFailedToBeBilled", o>> \in Heard => o \in Doubts'
    <3>1. "OrderFailedToBeBilled" \in Notified
      BY DEF Notified
    <3>2. <<"OrderFailedToBeBilled", o>> \in Heard => About("OrderFailedToBeBilled", o)'
      BY <1>4, <3>1 DEF Heard
    <3>3. QED
      BY <2>2, <3>2, NextHeard
  <2>4. News!Pay(o)
    BY <1>4, <1>7, <2>2, <2>3 DEF News!Pay, News!Told, Heard, Billed, Gone, Doubts
  <2>5. QED
    BY <2>4 DEF News!Next
<1>9. CASE m.kind = "DispatchOrder"
  <2>1. dispatched' = [dispatched EXCEPT ![o] = dispatched[o] + 1] /\ billed' = billed
    BY <1>5, <1>9 DEF Record
  <2>2. Billed' = Billed /\ Gone' = Gone \cup {o}
    BY <1>6, <2>1 DEF Billed, Gone
  <2>3. <<"NotifyOrderPaid", o>> \in Heard
    <3>1. About("DispatchOrder", o)
      BY <1>2, <1>5, <1>9 DEF About
    <3>2. About("NotifyOrderPaid", o)
      BY <3>1 DEF OnceInv, WorkInv, WorkIsTold
    <3>3. QED
      BY <3>2 DEF Heard, Notified
  <2>4. News!Ship(o)
    BY <1>4, <1>7, <2>2, <2>3 DEF News!Ship, News!Told, Heard, Billed, Gone
  <2>5. QED
    BY <2>4 DEF News!Next
<1>10. CASE m.kind \notin {"BillOrder", "DispatchOrder"}
  <2>1. Billed' = Billed /\ Gone' = Gone
    BY <1>10 DEF Record, Billed, Gone
  <2>2. QED
    BY <1>4, <2>1, NewsStays
<1>11. QED
  BY <1>8, <1>9, <1>10

\* A delivery of the saga queue, crashed or not.
LEMMA SagaNews ==
  ASSUME OnceInv, OnceInv', NEW m, NEW S, Spreads(m, S),
         UNCHANGED <<billed, dispatched>>, Doubts \subseteq Doubts'
  PROVE  [News!Next]_(News!vars)
<1>1. CASE Heard' # Heard
  BY <1>1, NewsTold
<1>2. CASE Heard' = Heard
  <2>1. Billed' = Billed /\ Gone' = Gone
    BY DEF Billed, Gone
  <2>2. QED
    BY <1>2, <2>1, NewsStays
<1>3. QED
  BY <1>1, <1>2

\* A delivery of a worker's queue, crashed or not.
LEMMA WorkNews ==
  ASSUME OnceInv, OnceInv', NEW m, NEW out, NEW S,
         WorkTakes(m, out, S) \/ WorkDies(m, out, S), Doubts \subseteq Doubts'
  PROVE  [News!Next]_(News!vars)
<1>1. Spreads(m, S) /\ m.queue \in WorkerQueues
  BY WorkSpreads DEF OnceInv, WorkTakes, WorkDies
<1>2. Record(m, TRUE) \/ UNCHANGED <<billed, dispatched>>
  BY DEF WorkTakes, WorkDies, Record
<1>3. QED
  BY <1>1, <1>2, NewsWorked, SagaNews

\* What comes from outside tells nothing.
LEMMA OutsideNews ==
  ASSUME NEW S, BagToSet(net') = BagToSet(net) \cup S,
         \A n \in S : n.kind \in {"OrderPlaced", "OrderCanceled"},
         UNCHANGED <<billed, dispatched, unsure, crashes>>
  PROVE  [News!Next]_(News!vars)
<1>1. \A k \in Notified, o \in Orders : About(k, o)' <=> About(k, o)
  BY DEF About, Notified
<1>2. Heard' = Heard
  BY <1>1 DEF Heard
<1>3. Billed' = Billed /\ Gone' = Gone
  BY DEF Billed, Gone
<1>4. Doubts' = Doubts
  BY DEF Doubts, Sure
<1>5. QED
  BY <1>2, <1>3, <1>4, NewsStays

\* Nothing is told yet.
LEMMA NewsInit == Init => News!Init
<1> SUFFICES ASSUME Init PROVE News!Init
  OBVIOUS
<1>1. Heard = {}
  BY DEF Init, Heard, About, EmptyBag, SetToBag, BagToSet
<1>2. Billed = {} /\ Gone = {} /\ Doubts = {}
  BY DEF Init, Billed, Gone, Doubts, Sure
<1>3. QED
  BY <1>1, <1>2 DEF News!Init, Heard, Billed, Gone, Doubts

\* Every step of the workflow is a step of the news or tells nothing.
LEMMA NewsStep == OnceInv /\ OnceInv' /\ [Next]_vars => [News!Next]_(News!vars)
<1> SUFFICES ASSUME OnceInv, OnceInv', [Next]_vars
             PROVE  [News!Next]_(News!vars)
  OBVIOUS
<1>1. SagaInv /\ TypeOK /\ crashes \in Nat
  BY BudgetAssumption DEF OnceInv, SagaInv, TypeOK
<1>2. ASSUME NEW m, NEW commit, NEW out, NEW S, SagaTakes(m, commit, out, S)
      PROVE  [News!Next]_(News!vars)
  <2>1. Spreads(m, S)
    BY <1>1, <1>2, SagaSpreads
  <2>2. UNCHANGED <<billed, dispatched, crashes>> /\ unsure \subseteq unsure'
    BY <1>2 DEF SagaTakes, Remembers
  <2>3. QED
    BY <1>1, <2>1, <2>2, DoubtsGrow, SagaNews
<1>3. ASSUME NEW m, NEW commit, NEW out, NEW sent, SagaDies(m, commit, out, sent)
      PROVE  [News!Next]_(News!vars)
  <2> DEFINE S == {[m EXCEPT !.tries = 0]} \cup sent
  <2>0. S = {[m EXCEPT !.tries = 0]} \cup sent
    OBVIOUS
  <2> HIDE DEF S
  <2>1. Spreads(m, S)
    <3>1. \E d : SagaDies(m, commit, out, d) /\ S = {[m EXCEPT !.tries = 0]} \cup d
      BY <1>3, <2>0
    <3>2. QED
      BY <1>1, <3>1, SagaSpreads
  <2>2. /\ UNCHANGED <<billed, dispatched>> /\ crashes' = crashes + 1
        /\ unsure \subseteq unsure'
    BY <1>3 DEF SagaDies, Remembers
  <2>3. Doubts \subseteq Doubts'
    BY <1>1, <2>2, DoubtsGrow
  <2>4. QED
    BY <2>1, <2>2, <2>3, SagaNews
<1>4. ASSUME NEW m, NEW out, NEW S, WorkTakes(m, out, S) \/ WorkDies(m, out, S)
      PROVE  [News!Next]_(News!vars)
  <2>1. Doubts \subseteq Doubts'
    BY <1>1, <1>4, DoubtsGrow DEF WorkTakes, WorkDies
  <2>2. QED
    BY <1>4, <2>1, WorkNews
<1>5. ASSUME NEW o \in Orders, NEW p \in Publishers, PublishOrderPlaced(o, p)
      PROVE  [News!Next]_(News!vars)
  <2> DEFINE S == Publish("OrderPlaced", o, o, p = "PlaceOrder")
  <2>1. \A n \in S : n.kind \in {"OrderPlaced", "OrderCanceled"}
    BY DEF Publish
  <2>2. net' = Send(net, S) /\ UNCHANGED <<billed, dispatched, unsure, crashes>>
    BY <1>5 DEF PublishOrderPlaced
  <2> HIDE DEF S
  <2>3. BagToSet(net') = BagToSet(net) \cup S
    BY <1>1, <2>2, SendBag DEF TypeOK
  <2>4. QED
    BY <2>1, <2>2, <2>3, OutsideNews
<1>6. ASSUME NEW o \in Orders, NEW id \in CancelIds, PublishOrderCanceled(o, id)
      PROVE  [News!Next]_(News!vars)
  <2> DEFINE S == Publish("OrderCanceled", o, IF id = "placed" THEN o ELSE Fresh, FALSE)
  <2>1. \A n \in S : n.kind \in {"OrderPlaced", "OrderCanceled"}
    BY DEF Publish
  <2>2. net' = Send(net, S) /\ UNCHANGED <<billed, dispatched, unsure, crashes>>
    BY <1>6 DEF PublishOrderCanceled
  <2> HIDE DEF S
  <2>3. BagToSet(net') = BagToSet(net) \cup S
    BY <1>1, <2>2, SendBag DEF TypeOK
  <2>4. QED
    BY <2>1, <2>2, <2>3, OutsideNews
<1>7. CASE UNCHANGED vars
  <2>1. Heard' = Heard /\ Billed' = Billed /\ Gone' = Gone /\ Doubts' = Doubts
    BY <1>7 DEF vars, ledger, Heard, About, Billed, Gone, Doubts, Sure
  <2>2. QED
    BY <2>1, NewsStays
<1>8. QED
  BY <1>1, <1>2, <1>3, <1>4, <1>5, <1>6, <1>7, ExactSteps

\* Whatever fails, is retried, overtaken or delivered twice, Ordering hears of
\* its orders as OrderNews says, which is all it relies on (the consumers of the
\* orchestrator, in OrderPaidConsumer, OrderDispatchedConsumer and
\* BillOrderFaultConsumer).
THEOREM NewsAreInOrder == Safety => ImplementsNews
<1>1. Safety => []OnceInv
  BY OnceInit, OnceStep, PTL DEF Safety
<1>2. QED
  BY <1>1, NewsInit, NewsStep, PTL DEF Safety, ImplementsNews, News!Spec
==============================================================================
