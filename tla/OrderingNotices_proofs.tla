------------------------ MODULE OrderingNotices_proofs ------------------------
(***************************************************************************)
(* Proofs about what becomes of the notifications Ordering consumes, under *)
(* the id of their order and under any other, and about the table the      *)
(* handlers implement, for every set of orders and every bound.            *)
(***************************************************************************)
EXTENDS Ordering_proofs

(***************************************************************************)
(* What a step keeps.                                                      *)
(***************************************************************************)

\* Orders stay placed, what was told stays told, deleted rows stay deleted,
\* payments stay in the rows, failures are counted up, what was set aside stays
\* there.
Lasts ==
  /\ placed \subseteq placed' /\ told \subseteq told'
  /\ failures' \in Nat /\ failures <= failures'
  /\ \A o \in placed : rows[o] = NoRow => rows'[o] = NoRow
  /\ \A o \in placed : PaidOrGone(o) => PaidOrGone(o)'
  /\ errorQueue \subseteq errorQueue'

LEMMA AddressedLasts ==
  ASSUME TypeOK, Lasts, NEW m \in Inbox, Addressed(m)
  PROVE  Addressed(m)'
<1>1. m.tries \in Nat /\ failures \in Nat
  BY RetriesAssumption, BoundAssumption DEF Inbox, Message, TypeOK
<1>2. m.valid /\ m.order \in placed' /\ <<m.kind, m.order>> \in told'
  BY DEF Addressed, Lasts
<1>3. m.corr = IF m.order \in SameId THEN m.order ELSE Fresh
  BY DEF Addressed
<1>4. m.order \in SameId => rows'[m.order] = NoRow \/ m.tries <= failures'
  BY <1>1 DEF Addressed, Lasts
<1>5. QED
  BY <1>2, <1>3, <1>4 DEF Addressed

\* The invariant is kept if every message and every handler is as it was or is
\* addressed well, and a payment under way goes on or ends in the row.
Whence ==
  /\ \A o \in Orders : rows'[o] # NoRow => o \in placed'
  /\ \A m \in BagToSet(net') : m \in BagToSet(net) \/ Addressed(m)'
  /\ \A h \in Slots : Answers(job'[h]) \/ Answers(job[h])'
  /\ \A h \in Slots : job'[h].msg \subseteq Inbox
  /\ \A t \in told' : t[2] \in placed'
  /\ \A d \in errorQueue' :
       \/ d \in errorQueue
       \/ d[3] \in placed' /\ (d[3] \in SameId => rows'[d[3]] = NoRow \/ failures' > Retries)

Onward(o) ==
  \/ PaidOrGone(o)'
  \/ PaymentUnderWay(o)'
  \/ SetAside("NotifyOrderPaid", o)'

LEMMA NoticesKept ==
  ASSUME TypeOK, NoticesInv, Lasts, Whence,
         \A o \in Orders :
           failures' = 0 /\ <<"NotifyOrderPaid", o>> \in told' =>
             \/ <<"NotifyOrderPaid", o>> \in told /\ ~PaymentUnderWay(o)
             \/ Onward(o)
  PROVE  NoticesInv'
<1>1. \A m \in BagToSet(net') : Addressed(m)'
  <2> TAKE m \in BagToSet(net')
  <2>1. CASE m \in BagToSet(net)
    <3>1. m \in Inbox /\ Addressed(m)
      BY <2>1 DEF TypeOK, NoticesInv
    <3>2. QED
      BY <3>1, AddressedLasts
  <2>2. CASE Addressed(m)'
    BY <2>2
  <2>3. QED
    BY <2>1, <2>2 DEF Whence
<1>2. \A h \in Slots : Answers(job[h])'
  <2> SUFFICES ASSUME NEW h \in Slots, Answers(job'[h]) PROVE Answers(job[h])'
    BY DEF Whence
  <2> SUFFICES ASSUME NEW m \in job'[h].msg
               PROVE  Addressed(m)' /\ job'[h].cmd = m.kind /\ job'[h].id = m.corr
    BY DEF Answers, Lasts
  <2>1. Addressed(m) /\ job'[h].cmd = m.kind /\ job'[h].id = m.corr
    BY DEF Answers
  <2>2. m \in Inbox
    BY DEF Whence
  <2>3. QED
    BY <2>1, <2>2, AddressedLasts
<1>3. \A d \in errorQueue' :
        d[3] \in placed' /\ (d[3] \in SameId => rows'[d[3]] = NoRow \/ failures' > Retries)
  <2> TAKE d \in errorQueue'
  <2>1. CASE d \in errorQueue
    <3>1. d[3] \in placed /\ (d[3] \in SameId => rows[d[3]] = NoRow \/ failures > Retries)
      BY <2>1 DEF NoticesInv
    <3>2. failures \in Nat
      BY BoundAssumption DEF TypeOK
    <3>3. QED
      BY <3>1, <3>2, RetriesAssumption DEF Lasts
  <2>2. QED
    BY <2>1 DEF Whence
<1>4. ASSUME NEW o \in Orders, failures' = 0, <<"NotifyOrderPaid", o>> \in told'
      PROVE  PaidOrGone(o)' \/ PaymentUnderWay(o)' \/ SetAside("NotifyOrderPaid", o)'
  <2>1. CASE Onward(o)
    BY <2>1 DEF Onward
  <2>2. CASE <<"NotifyOrderPaid", o>> \in told /\ ~PaymentUnderWay(o)
    <3>1. failures = 0
      BY <1>4, BoundAssumption DEF Lasts, TypeOK
    <3>2. PaidOrGone(o) \/ SetAside("NotifyOrderPaid", o)
      BY <2>2, <3>1 DEF NoticesInv
    <3>3. o \in placed
      BY <2>2 DEF NoticesInv
    <3>4. CASE PaidOrGone(o)
      BY <3>3, <3>4 DEF Lasts
    <3>5. CASE SetAside("NotifyOrderPaid", o)
      BY <3>5 DEF Lasts, SetAside
    <3>6. QED
      BY <3>2, <3>4, <3>5
  <2>3. QED
    BY <1>4, <2>1, <2>2
<1>5. /\ \A o \in Orders : rows'[o] # NoRow => o \in placed'
      /\ \A t \in told' : t[2] \in placed'
  BY DEF Whence
<1>6. QED
  BY <1>1, <1>2, <1>3, <1>4, <1>5 DEF NoticesInv

\* A step that leaves the handlers and the queues alone.
LEMMA NoticesUntouched ==
  ASSUME TypeOK, NoticesInv, Lasts, UNCHANGED <<net, job, told, errorQueue>>,
         \A o \in Orders : rows'[o] # NoRow => o \in placed'
  PROVE  NoticesInv'
<1>1. \A h \in Slots : job[h].msg \subseteq Inbox
  BY DEF TypeOK, Job
<1>2. Whence
  BY <1>1 DEF NoticesInv, Whence, Lasts
<1>3. \A o \in Orders : PaymentUnderWay(o) => PaymentUnderWay(o)'
  BY DEF PaymentUnderWay
<1>4. QED
  BY <1>2, <1>3, NoticesKept DEF Onward

\* A step that leaves the table alone keeps what is to last.
LEMMA LastsAlone ==
  ASSUME TypeOK, UNCHANGED rows, placed \subseteq placed', told \subseteq told',
         failures' \in Nat, failures <= failures', errorQueue \subseteq errorQueue'
  PROVE  Lasts
  BY DEF Lasts, PaidOrGone

LEMMA FailsLast ==
  ASSUME TypeOK, NEW n \in {0, 1}, Fails(n)
  PROVE  failures' \in Nat /\ failures <= failures' /\ (failures' = 0 => n = 0)
  BY BoundAssumption DEF Fails, TypeOK

\* Saving keeps a payment in its row unless it deletes the row, and the
\* handler of a payment stores it.
LEMMA SavedPayment ==
  ASSUME NEW cmd \in (Requested \cup Notified), NEW row \in Row, NEW read \in Row
  PROVE  /\ row.orderPaid => Saved(cmd, row, read).orderPaid \/ Saved(cmd, row, read) = NoRow
         /\ cmd = "NotifyOrderPaid" => Saved(cmd, row, read).orderPaid
<1>1. CASE cmd = "DeleteOrder"
  BY <1>1 DEF Saved
<1>2. CASE cmd # "DeleteOrder"
  <2>1. Saved(cmd, row, read).orderPaid = (row.orderPaid \/ cmd = "NotifyOrderPaid")
    BY <1>2 DEF Saved, Updated
  <2>2. QED
    BY <2>1
<1>3. QED
  BY <1>1, <1>2

\* A message stays in its queue while another is taken off.
LEMMA OthersStay ==
  ASSUME NEW B, IsABag(B), NEW m, NEW n \in BagToSet(B), n # m
  PROVE  n \in BagToSet(Replace(B, m, {}))
<1> DEFINE C == B (-) SetToBag({m})
<1>1. IsABag(C) /\ n \in BagToSet(C)
  BY DEF IsABag, BagToSet, SetToBag, (-)
<1>2. Replace(B, m, {}) = Send(C, {})
  BY DEF Replace
<1> HIDE DEF C
<1>3. QED
  BY <1>1, <1>2, SendBag

(***************************************************************************)
(* The invariant, action by action.                                        *)
(***************************************************************************)
\* A free slot answers to nothing.
LEMMA IdleAnswers ==
  /\ Answers(Idle) /\ Answers(Idle)'
  /\ \A cmd \in Requested : cmd \notin Notified
  BY DEF Answers, Idle, Requested, Notified

LEMMA NoticesInit == Init => NoticesInv
<1> SUFFICES ASSUME Init PROVE NoticesInv
  OBVIOUS
<1>1. BagToSet(net) = {}
  BY DEF Init, EmptyBag, SetToBag, BagToSet
<1>2. \A h \in Slots : Answers(job[h])
  BY IdleAnswers DEF Init
<1>3. QED
  BY <1>1, <1>2 DEF Init, NoticesInv

LEMMA PlaceOrderNotices ==
  ASSUME TypeOK, NoticesInv, NEW o \in Orders, NEW inserted \in BOOLEAN,
         NEW threw \in BOOLEAN, PlaceOrder(o, inserted, threw)
  PROVE  NoticesInv'
<1>1. failures' \in Nat /\ failures <= failures'
  BY FailsLast DEF PlaceOrder
<1>2. /\ \A p \in placed : rows'[p] = rows[p]
      /\ placed' = placed \cup {o}
      /\ UNCHANGED <<net, job, told, errorQueue>>
  BY DEF PlaceOrder, TypeOK, traces
<1>3. Lasts
  BY <1>1, <1>2 DEF Lasts, PaidOrGone
<1>4. ASSUME NEW p \in Orders, rows'[p] # NoRow PROVE p \in placed'
  BY <1>4 DEF PlaceOrder, NoticesInv, TypeOK
<1>5. QED
  BY <1>2, <1>3, <1>4, NoticesUntouched

LEMMA StillNotices ==
  ASSUME TypeOK, NoticesInv,
         UNCHANGED <<net, rows, placed, job, told, errorQueue, failures>>
  PROVE  NoticesInv'
<1>1. failures \in Nat
  BY BoundAssumption DEF TypeOK
<1>2. Lasts
  BY <1>1, LastsAlone
<1>3. QED
  BY <1>2, NoticesUntouched DEF NoticesInv

LEMMA NotifyNotices ==
  ASSUME TypeOK, NoticesInv, NEW k \in Notified, NEW o \in Orders, Notify(k, o)
  PROVE  NoticesInv'
<1> DEFINE c   == IF o \in SameId THEN o ELSE Fresh
           out == Publish(k, o, c, TRUE)
<1>1. /\ net' = Send(net, out) /\ told' = told \cup {<<k, o>>} /\ o \in placed
      /\ UNCHANGED <<rows, placed, job, errorQueue, failures>>
  BY DEF Notify, traces
<1>2. failures \in Nat
  BY BoundAssumption DEF TypeOK
<1>3. Lasts
  BY <1>1, <1>2, LastsAlone
<1>4. k \in Kinds /\ Subscribers[k] # {}
  BY DEF Notified, Kinds, Subscribers
<1>5. ASSUME NEW m \in out PROVE Addressed(m)'
  <2>1. m.kind = k /\ m.valid /\ m.order = o /\ m.corr = c /\ m.tries = 0
    BY DEF Publish
  <2>2. m.order \in placed' /\ <<m.kind, m.order>> \in told'
    BY <1>1, <2>1
  <2>3. m.corr = IF m.order \in SameId THEN m.order ELSE Fresh
    BY <2>1
  <2>4. m.tries <= failures'
    BY <1>1, <1>2, <2>1
  <2>5. QED
    BY <2>1, <2>2, <2>3, <2>4 DEF Addressed
<1>6. out # {} /\ \A m \in out : m.kind = k /\ m.order = o
  <2>1. PICK q \in Subscribers[k] : TRUE
    BY <1>4
  <2>2. [queue |-> q, kind |-> k, order |-> o, corr |-> c, valid |-> TRUE,
         tries |-> 0] \in out
    BY <2>1 DEF Publish
  <2>3. \A m \in out : m.kind = k /\ m.order = o
    BY DEF Publish
  <2>4. QED
    BY <2>2, <2>3
<1> HIDE DEF out, c
<1>7. BagToSet(net') = BagToSet(net) \cup out
  BY <1>1, SendBag DEF TypeOK
<1>8. \A h \in Slots : job[h].msg \subseteq Inbox
  BY DEF TypeOK, Job
<1>9. Whence
  <2>1. \A m \in BagToSet(net') : m \in BagToSet(net) \/ Addressed(m)'
    BY <1>5, <1>7
  <2>2. \A h \in Slots : Answers(job'[h])
    BY <1>1 DEF NoticesInv
  <2>3. \A t \in told' : t[2] \in placed'
    BY <1>1 DEF NoticesInv
  <2>4. QED
    BY <1>1, <1>8, <2>1, <2>2, <2>3 DEF Whence, NoticesInv
<1>10. ASSUME NEW p \in Orders, <<"NotifyOrderPaid", p>> \in told'
       PROVE  \/ <<"NotifyOrderPaid", p>> \in told /\ ~PaymentUnderWay(p)
              \/ Onward(p)
  <2>1. CASE PaymentUnderWay(p)
    BY <1>1, <1>7, <2>1 DEF PaymentUnderWay, Onward
  <2>2. CASE <<"NotifyOrderPaid", p>> = <<k, o>>
    <3>1. \E m \in BagToSet(net') : m.kind = "NotifyOrderPaid" /\ m.order = p
      BY <1>6, <1>7, <2>2
    <3>2. QED
      BY <3>1 DEF PaymentUnderWay, Onward
  <2>3. QED
    BY <1>1, <1>10, <2>1, <2>2
<1>11. QED
  BY <1>3, <1>9, <1>10, NoticesKept

LEMMA RequestNotices ==
  ASSUME TypeOK, NoticesInv, NEW h \in Slots, NEW cmd \in Requested,
         NEW o \in Orders, Request(h, cmd, o)
  PROVE  NoticesInv'
<1>1. /\ job[h] = Idle
      /\ job' = [job EXCEPT ![h] = [Idle EXCEPT !.pc = "load", !.cmd = cmd,
                                                !.id = o, !.msg = {}]]
      /\ UNCHANGED <<net, rows, placed, told, errorQueue, failures>>
  BY DEF Request, Start, outside, traces
<1>2. failures \in Nat
  BY BoundAssumption DEF TypeOK
<1>3. Lasts
  BY <1>1, <1>2, LastsAlone
<1>4. job'[h].msg = {} /\ job'[h].cmd = cmd /\ \A g \in Slots \ {h} : job'[g] = job[g]
  BY <1>1 DEF TypeOK, Idle
<1>5. \A g \in Slots : job[g].msg \subseteq Inbox
  BY DEF TypeOK, Job
<1>6. Whence
  <2>1. \A g \in Slots : Answers(job'[g])
    BY <1>4, IdleAnswers DEF NoticesInv, Answers
  <2>2. \A g \in Slots : job'[g].msg \subseteq Inbox
    BY <1>4, <1>5
  <2>3. QED
    BY <1>1, <2>1, <2>2 DEF NoticesInv, Whence
<1>7. ASSUME NEW p \in Orders, PaymentUnderWay(p) PROVE PaymentUnderWay(p)'
  BY <1>1, <1>4, <1>7 DEF PaymentUnderWay, Idle
<1>8. QED
  BY <1>1, <1>3, <1>6, <1>7, NoticesKept DEF Onward

LEMMA ConsumeNotices ==
  ASSUME TypeOK, NoticesInv, NEW h \in Slots, NEW m \in BagToSet(net), Consume(h, m)
  PROVE  NoticesInv'
<1>1. /\ job[h] = Idle /\ net' = Replace(net, m, {})
      /\ job' = [job EXCEPT ![h] = [Idle EXCEPT !.pc = "load", !.cmd = m.kind,
                                                !.id = m.corr, !.msg = {m}]]
      /\ UNCHANGED <<rows, placed, told, errorQueue, failures>>
  BY DEF Consume, Start, CommandId, outside, traces
<1>2. failures \in Nat /\ m \in Inbox /\ Addressed(m)
  BY BoundAssumption DEF TypeOK, NoticesInv
<1>3. Lasts
  BY <1>1, <1>2, LastsAlone
<1>4. /\ job'[h].msg = {m} /\ job'[h].cmd = m.kind /\ job'[h].id = m.corr
      /\ job'[h].pc = "load"
      /\ \A g \in Slots \ {h} : job'[g] = job[g]
  BY <1>1 DEF TypeOK, Idle
<1>5. \A g \in Slots : job[g].msg \subseteq Inbox
  BY DEF TypeOK, Job
<1>6. BagToSet(net') \subseteq BagToSet(net)
  BY <1>1, ReplaceBag DEF TypeOK
<1>7. Whence
  <2>1. \A g \in Slots : Answers(job'[g])
    BY <1>2, <1>4 DEF NoticesInv, Answers
  <2>2. \A g \in Slots : job'[g].msg \subseteq Inbox
    BY <1>2, <1>4, <1>5
  <2>3. QED
    BY <1>1, <1>6, <2>1, <2>2 DEF NoticesInv, Whence
<1>8. ASSUME NEW p \in Orders, PaymentUnderWay(p) PROVE PaymentUnderWay(p)'
  <2>1. CASE m.kind = "NotifyOrderPaid" /\ m.order = p
    BY <1>4, <2>1 DEF PaymentUnderWay
  <2>2. CASE \E n \in BagToSet(net) \ {m} : n.kind = "NotifyOrderPaid" /\ n.order = p
    <3>1. PICK n \in BagToSet(net) \ {m} : n.kind = "NotifyOrderPaid" /\ n.order = p
      BY <2>2
    <3>2. n \in BagToSet(net')
      BY <1>1, OthersStay DEF TypeOK
    <3>3. QED
      BY <3>1, <3>2 DEF PaymentUnderWay
  <2>3. CASE \E g \in Slots : /\ job[g].pc \in {"load", "save"}
                              /\ \E n \in job[g].msg : n.kind = "NotifyOrderPaid" /\ n.order = p
    <3>1. PICK g \in Slots : /\ job[g].pc \in {"load", "save"}
                             /\ \E n \in job[g].msg : n.kind = "NotifyOrderPaid" /\ n.order = p
      BY <2>3
    <3>2. g # h
      BY <1>1, <3>1 DEF Idle
    <3>3. QED
      BY <1>4, <3>1, <3>2 DEF PaymentUnderWay
  <2>4. QED
    BY <1>8, <2>1, <2>2, <2>3 DEF PaymentUnderWay
<1>9. QED
  BY <1>1, <1>3, <1>7, <1>8, NoticesKept DEF Onward

\* Without a failed call no notification is skipped: its token validates.
LEMMA SkipNotices ==
  ASSUME TypeOK, NoticesInv, NEW m \in BagToSet(net), Skip(m)
  PROVE  NoticesInv'
<1>1. /\ net' = Replace(net, m, {}) /\ Fails(IF m.valid THEN 1 ELSE 0)
      /\ UNCHANGED <<rows, placed, job, told, errorQueue>>
  BY DEF Skip, outside
<1>2. m.valid
  BY DEF NoticesInv, Addressed
<1>3. failures' \in Nat /\ failures <= failures' /\ failures' # 0
  BY <1>1, <1>2, FailsLast
<1>4. Lasts
  BY <1>1, <1>3, LastsAlone
<1>5. \A g \in Slots : job[g].msg \subseteq Inbox
  BY DEF TypeOK, Job
<1>6. BagToSet(net') \subseteq BagToSet(net)
  BY <1>1, ReplaceBag DEF TypeOK
<1>7. Whence
  BY <1>1, <1>5, <1>6 DEF NoticesInv, Whence
<1>8. QED
  BY <1>3, <1>4, <1>7, NoticesKept

LEMMA LoadNotices ==
  ASSUME TypeOK, NoticesInv, NEW h \in Slots, Load(h)
  PROVE  NoticesInv'
<1>1. /\ job' = [job EXCEPT ![h].pc = "save", ![h].read = Stored(job[h].id)]
      /\ UNCHANGED <<net, rows, placed, told, errorQueue, failures>>
  BY DEF Load, outside, traces
<1>2. failures \in Nat
  BY BoundAssumption DEF TypeOK
<1>3. Lasts
  BY <1>1, <1>2, LastsAlone
<1>4. job[h] \in Job /\ \A g \in Slots : job[g].msg \subseteq Inbox
  BY DEF TypeOK, Job
<1>5. /\ job'[h].msg = job[h].msg /\ job'[h].cmd = job[h].cmd
      /\ job'[h].id = job[h].id /\ job'[h].pc = "save"
      /\ \A g \in Slots \ {h} : job'[g] = job[g]
  BY <1>1, <1>4 DEF TypeOK, Job
<1>6. Whence
  <2>1. \A g \in Slots : Answers(job'[g])
    BY <1>5 DEF NoticesInv, Answers
  <2>2. \A g \in Slots : job'[g].msg \subseteq Inbox
    BY <1>4, <1>5
  <2>3. QED
    BY <1>1, <2>1, <2>2 DEF NoticesInv, Whence
<1>7. ASSUME NEW p \in Orders, PaymentUnderWay(p) PROVE PaymentUnderWay(p)'
  <2>1. CASE \E n \in BagToSet(net) : n.kind = "NotifyOrderPaid" /\ n.order = p
    BY <1>1, <2>1 DEF PaymentUnderWay
  <2>2. CASE \E g \in Slots : /\ job[g].pc \in {"load", "save"}
                              /\ \E n \in job[g].msg : n.kind = "NotifyOrderPaid" /\ n.order = p
    <3>1. \E g \in Slots : /\ job'[g].pc \in {"load", "save"}
                           /\ \E n \in job'[g].msg : n.kind = "NotifyOrderPaid" /\ n.order = p
      BY <1>5, <2>2
    <3>2. QED
      BY <3>1 DEF PaymentUnderWay
  <2>3. QED
    BY <1>7, <2>1, <2>2 DEF PaymentUnderWay
<1>8. QED
  BY <1>1, <1>3, <1>6, <1>7, NoticesKept DEF Onward

\* The message of a handler that is to store a payment names its order.
LEMMA PayingJob ==
  ASSUME OrderingInv, NoticesInv, NEW h \in Slots, NEW m \in job[h].msg,
         m.kind = "NotifyOrderPaid"
  PROVE  /\ m \in Inbox /\ m.order \in placed /\ job[h].cmd = "NotifyOrderPaid"
         /\ job[h].id \in Orders => job[h].id = m.order
<1>1. Addressed(m) /\ job[h].cmd = m.kind /\ job[h].id = m.corr
  BY DEF NoticesInv, Answers
<1>2. m \in Inbox
  BY DEF OrderingInv, TypeOK, Job
<1>3. QED
  BY <1>1, <1>2, FreshAssumption DEF Addressed

\* A handler that ends, with its delivery consumed.
LEMMA EndNotices ==
  ASSUME TypeOK, NoticesInv, Lasts, NEW h \in Slots,
         job' = [job EXCEPT ![h] = Idle], UNCHANGED <<net, told, errorQueue>>,
         \A o \in Orders : rows'[o] # NoRow => o \in placed',
         \A m \in job[h].msg :
           failures' = 0 /\ m.kind = "NotifyOrderPaid" =>
             job[h].pc \notin {"load", "save"} \/ PaidOrGone(m.order)'
  PROVE  NoticesInv'
<1>1. job'[h] = Idle /\ \A g \in Slots \ {h} : job'[g] = job[g]
  BY DEF TypeOK
<1>2. \A g \in Slots : job[g].msg \subseteq Inbox
  BY DEF TypeOK, Job
<1>3. Whence
  <2>1. \A g \in Slots : Answers(job'[g])
    BY <1>1, IdleAnswers DEF NoticesInv
  <2>2. \A g \in Slots : job'[g].msg \subseteq Inbox
    BY <1>1, <1>2 DEF Idle
  <2>3. QED
    BY <2>1, <2>2 DEF NoticesInv, Whence, Lasts
<1>4. ASSUME NEW p \in Orders, PaymentUnderWay(p), failures' = 0 PROVE Onward(p)
  <2>1. CASE \E n \in BagToSet(net) : n.kind = "NotifyOrderPaid" /\ n.order = p
    BY <2>1 DEF PaymentUnderWay, Onward
  <2>2. CASE \E g \in Slots : /\ job[g].pc \in {"load", "save"}
                              /\ \E n \in job[g].msg : n.kind = "NotifyOrderPaid" /\ n.order = p
    <3>1. PICK g \in Slots : /\ job[g].pc \in {"load", "save"}
                             /\ \E n \in job[g].msg : n.kind = "NotifyOrderPaid" /\ n.order = p
      BY <2>2
    <3>2. CASE g = h
      BY <1>4, <3>1, <3>2 DEF Onward
    <3>3. CASE g # h
      <4>1. /\ job'[g].pc \in {"load", "save"}
            /\ \E n \in job'[g].msg : n.kind = "NotifyOrderPaid" /\ n.order = p
        BY <1>1, <3>1, <3>3
      <4>2. QED
        BY <4>1 DEF PaymentUnderWay, Onward
    <3>4. QED
      BY <3>2, <3>3
  <2>3. QED
    BY <1>4, <2>1, <2>2 DEF PaymentUnderWay
<1>5. QED
  BY <1>3, <1>4, NoticesKept

LEMMA RefuseNotices ==
  ASSUME OrderingInv, NoticesInv, NEW h \in Slots, Refuse(h)
  PROVE  NoticesInv'
<1>1. /\ TypeOK /\ job' = [job EXCEPT ![h] = Idle] /\ job[h].cmd = "CancelOrder"
      /\ UNCHANGED <<net, rows, placed, told, errorQueue, failures>>
  BY DEF OrderingInv, Refuse, Allowed, End, outside, traces
<1>2. failures \in Nat
  BY <1>1, BoundAssumption DEF TypeOK
<1>3. Lasts
  BY <1>1, <1>2, LastsAlone
<1>4. \A m \in job[h].msg : m.kind # "NotifyOrderPaid"
  BY <1>1, PayingJob
<1>5. QED
  BY <1>1, <1>3, <1>4, EndNotices DEF NoticesInv

LEMMA PublishThrowsNotices ==
  ASSUME OrderingInv, NoticesInv, NEW h \in Slots, PublishThrows(h)
  PROVE  NoticesInv'
<1>1. /\ TypeOK /\ job' = [job EXCEPT ![h] = Idle] /\ job[h].pc = "publish" /\ Fails(1)
      /\ UNCHANGED <<net, rows, placed, told, errorQueue>>
  BY DEF OrderingInv, PublishThrows, End, outside, traces
<1>2. failures' \in Nat /\ failures <= failures'
  BY <1>1, FailsLast
<1>3. Lasts
  BY <1>1, <1>2, LastsAlone
<1>4. QED
  BY <1>1, <1>3, EndNotices DEF NoticesInv

LEMMA HubNotices ==
  ASSUME OrderingInv, NoticesInv, NEW h \in Slots, NEW broken \in BOOLEAN, Hub(h, broken)
  PROVE  NoticesInv'
<1>1. /\ TypeOK /\ job' = [job EXCEPT ![h] = Idle] /\ job[h].pc = "hub"
      /\ Fails(IF broken THEN 1 ELSE 0)
      /\ UNCHANGED <<net, rows, placed, told, errorQueue>>
  BY DEF OrderingInv, Hub, End, outside, traces
<1>2. failures' \in Nat /\ failures <= failures'
  BY <1>1, FailsLast
<1>3. Lasts
  BY <1>1, <1>2, LastsAlone
<1>4. QED
  BY <1>1, <1>3, EndNotices DEF NoticesInv

\* What a save does to the table lasts.
LEMMA SaveLasts ==
  ASSUME OrderingInv, NoticesInv, NEW h \in Slots, job[h].pc = "save",
         rows[job[h].id] # NoRow,
         rows' = [rows EXCEPT ![job[h].id] = Saved(job[h].cmd, @, job[h].read)],
         UNCHANGED <<placed, told, errorQueue>>,
         failures' \in Nat, failures <= failures'
  PROVE  /\ Lasts
         /\ \A o \in Orders : rows'[o] # NoRow => o \in placed'
         /\ job[h].id \in Orders
         /\ job[h].cmd = "NotifyOrderPaid" => rows'[job[h].id].orderPaid
<1> DEFINE id == job[h].id  cmd == job[h].cmd  read == job[h].read
<1>1. /\ rows \in [Orders -> Row] /\ id \in Orders
      /\ cmd \in Requested \cup Notified /\ read \in Row
  BY DEF OrderingInv, TypeOK, Job, JobsAreBacked, Backed
<1> HIDE DEF id, cmd, read
<1>2. rows' = [rows EXCEPT ![id] = Saved(cmd, rows[id], read)] /\ rows[id] # NoRow
  BY DEF id, cmd, read
<1>3. /\ rows[id].orderPaid => Saved(cmd, rows[id], read).orderPaid
                               \/ Saved(cmd, rows[id], read) = NoRow
      /\ cmd = "NotifyOrderPaid" => Saved(cmd, rows[id], read).orderPaid
  BY <1>1, SavedPayment
<1>4. \A o \in placed : PaidOrGone(o) => PaidOrGone(o)'
  BY <1>1, <1>2, <1>3 DEF PaidOrGone
<1>5. \A o \in placed : rows[o] = NoRow => rows'[o] = NoRow
  BY <1>1, <1>2
<1>6. Lasts
  BY <1>4, <1>5 DEF Lasts
<1>7. \A o \in Orders : rows'[o] # NoRow => o \in placed'
  BY <1>1, <1>2 DEF NoticesInv
<1>8. cmd = "NotifyOrderPaid" => rows'[id].orderPaid
  BY <1>1, <1>2, <1>3
<1>9. QED
  BY <1>1, <1>6, <1>7, <1>8 DEF id, cmd

LEMMA SaveNotices ==
  ASSUME OrderingInv, NoticesInv, NEW h \in Slots, Save(h)
  PROVE  NoticesInv'
<1> DEFINE pc == IF job[h].cmd = "CancelOrder" THEN "publish" ELSE "hub"
<1>1. /\ TypeOK /\ job[h].pc = "save" /\ rows[job[h].id] # NoRow
      /\ rows' = [rows EXCEPT ![job[h].id] = Saved(job[h].cmd, @, job[h].read)]
      /\ job' = [job EXCEPT ![h].wrote = TRUE, ![h].pc = pc]
      /\ UNCHANGED <<net, placed, told, errorQueue, failures>>
  BY DEF Save, OrderingInv, outside, traces
<1> HIDE DEF pc
<1>2. failures' \in Nat /\ failures <= failures'
  BY <1>1, BoundAssumption DEF TypeOK
<1>3. /\ Lasts
      /\ \A o \in Orders : rows'[o] # NoRow => o \in placed'
      /\ job[h].id \in Orders
      /\ job[h].cmd = "NotifyOrderPaid" => rows'[job[h].id].orderPaid
  BY <1>1, <1>2, SaveLasts
<1>4. job[h] \in Job /\ \A g \in Slots : job[g].msg \subseteq Inbox
  BY <1>1 DEF TypeOK, Job
<1>5. /\ job'[h].msg = job[h].msg /\ job'[h].cmd = job[h].cmd /\ job'[h].id = job[h].id
      /\ \A g \in Slots \ {h} : job'[g] = job[g]
  BY <1>1, <1>4 DEF TypeOK, Job
<1>6. Whence
  <2>1. \A g \in Slots : Answers(job'[g])
    BY <1>5 DEF NoticesInv, Answers
  <2>2. \A g \in Slots : job'[g].msg \subseteq Inbox
    BY <1>4, <1>5
  <2>3. QED
    BY <1>1, <1>3, <2>1, <2>2 DEF NoticesInv, Whence
<1>7. ASSUME NEW p \in Orders, PaymentUnderWay(p) PROVE Onward(p)
  <2>1. CASE \E n \in BagToSet(net) : n.kind = "NotifyOrderPaid" /\ n.order = p
    BY <1>1, <2>1 DEF PaymentUnderWay, Onward
  <2>2. CASE \E g \in Slots : /\ job[g].pc \in {"load", "save"}
                              /\ \E n \in job[g].msg : n.kind = "NotifyOrderPaid" /\ n.order = p
    <3>1. PICK g \in Slots : /\ job[g].pc \in {"load", "save"}
                             /\ \E n \in job[g].msg : n.kind = "NotifyOrderPaid" /\ n.order = p
      BY <2>2
    <3>2. CASE g = h
      <4>1. PICK n \in job[h].msg : n.kind = "NotifyOrderPaid" /\ n.order = p
        BY <3>1, <3>2
      <4>2. job[h].cmd = "NotifyOrderPaid" /\ job[h].id = p
        BY <1>3, <4>1, PayingJob
      <4>3. rows'[p].orderPaid
        BY <1>3, <4>2
      <4>4. PaidOrGone(p)'
        BY <4>3 DEF PaidOrGone
      <4>5. QED
        BY <4>4 DEF Onward
    <3>3. CASE g # h
      <4>1. /\ job'[g].pc \in {"load", "save"}
            /\ \E n \in job'[g].msg : n.kind = "NotifyOrderPaid" /\ n.order = p
        BY <1>5, <3>1, <3>3
      <4>2. QED
        BY <4>1 DEF PaymentUnderWay, Onward
    <3>4. QED
      BY <3>2, <3>3
  <2>3. QED
    BY <1>7, <2>1, <2>2 DEF PaymentUnderWay
<1>8. QED
  BY <1>1, <1>3, <1>6, <1>7, NoticesKept

LEMMA SaveThrowsNotices ==
  ASSUME OrderingInv, NoticesInv, NEW h \in Slots, NEW applied \in BOOLEAN,
         NEW broken \in BOOLEAN, SaveThrows(h, applied, broken)
  PROVE  NoticesInv'
<1>1. /\ TypeOK /\ job[h].pc = "save" /\ job' = [job EXCEPT ![h] = Idle]
      /\ broken \/ rows[job[h].id] = NoRow
      /\ Fails(IF broken THEN 1 ELSE 0)
      /\ UNCHANGED <<net, placed, told, errorQueue>>
  BY DEF SaveThrows, End, OrderingInv, outside, traces
<1>2. failures' \in Nat /\ failures <= failures' /\ (failures' = 0 => ~broken)
  BY <1>1, FailsLast
<1>3. Lasts /\ \A o \in Orders : rows'[o] # NoRow => o \in placed'
  <2>1. CASE applied
    <3>1. /\ rows[job[h].id] # NoRow
          /\ rows' = [rows EXCEPT ![job[h].id] = Saved(job[h].cmd, @, job[h].read)]
      BY <2>1 DEF SaveThrows
    <3>2. QED
      BY <1>1, <1>2, <3>1, SaveLasts
  <2>2. CASE ~applied
    <3>1. UNCHANGED rows
      BY <2>2 DEF SaveThrows
    <3>2. Lasts
      BY <1>1, <1>2, <3>1, LastsAlone
    <3>3. QED
      BY <1>1, <3>1, <3>2 DEF NoticesInv
  <2>3. QED
    BY <2>1, <2>2
<1>4. ASSUME NEW m \in job[h].msg, failures' = 0, m.kind = "NotifyOrderPaid"
      PROVE  PaidOrGone(m.order)'
  <2>1. job[h].id \in Orders
    BY <1>1 DEF OrderingInv, JobsAreBacked, Backed
  <2>2. job[h].id = m.order /\ m.order \in placed
    BY <1>4, <2>1, PayingJob
  <2>3. rows[m.order] = NoRow
    BY <1>1, <1>2, <1>4, <2>2
  <2>4. rows'[m.order] = NoRow
    BY <1>3, <2>2, <2>3 DEF Lasts
  <2>5. QED
    BY <2>4 DEF PaidOrGone
<1>5. QED
  BY <1>1, <1>3, <1>4, EndNotices

LEMMA PublishCanceledNotices ==
  ASSUME OrderingInv, NoticesInv, NEW h \in Slots, PublishCanceled(h)
  PROVE  NoticesInv'
<1>1. /\ TypeOK /\ job[h].pc = "publish" /\ job' = [job EXCEPT ![h].pc = "hub"]
      /\ UNCHANGED <<net, rows, placed, told, errorQueue, failures>>
  BY DEF PublishCanceled, OrderingInv, outside, traces
<1>2. failures \in Nat
  BY <1>1, BoundAssumption DEF TypeOK
<1>3. Lasts
  BY <1>1, <1>2, LastsAlone
<1>4. job[h] \in Job /\ \A g \in Slots : job[g].msg \subseteq Inbox
  BY <1>1 DEF TypeOK, Job
<1>5. /\ job'[h].msg = job[h].msg /\ job'[h].cmd = job[h].cmd /\ job'[h].id = job[h].id
      /\ \A g \in Slots \ {h} : job'[g] = job[g]
  BY <1>1, <1>4 DEF TypeOK, Job
<1>6. Whence
  <2>1. \A g \in Slots : Answers(job'[g])
    BY <1>5 DEF NoticesInv, Answers
  <2>2. \A g \in Slots : job'[g].msg \subseteq Inbox
    BY <1>4, <1>5
  <2>3. QED
    BY <1>1, <2>1, <2>2 DEF NoticesInv, Whence
<1>7. ASSUME NEW p \in Orders, PaymentUnderWay(p) PROVE PaymentUnderWay(p)'
  BY <1>1, <1>5, <1>7 DEF PaymentUnderWay
<1>8. QED
  BY <1>1, <1>3, <1>6, <1>7, NoticesKept DEF Onward

\* A try without a failed call is given up or repeated only when the order is
\* gone or was never found.
LEMMA AbandonNotices ==
  ASSUME OrderingInv, NoticesInv, NEW h \in Slots, NEW broken \in BOOLEAN,
         Abandon(h, broken)
  PROVE  NoticesInv'
<1> DEFINE again == {m \in job[h].msg : m.tries < Retries}
           back  == {[m EXCEPT !.tries = @ + 1] : m \in again}
           aside == {<<m.queue, m.kind, m.order>> : m \in job[h].msg \ again}
<1>1. /\ TypeOK /\ job' = [job EXCEPT ![h] = Idle]
      /\ broken \/ Stored(job[h].id) = NoRow
      /\ net' = Send(net, back) /\ errorQueue' = errorQueue \cup aside
      /\ Fails(IF broken THEN 1 ELSE 0)
      /\ UNCHANGED <<rows, placed, told>>
  BY DEF Abandon, OrderingInv, outside
<1>2. /\ failures \in Nat /\ failures' \in Nat /\ failures <= failures'
      /\ failures' = 0 => ~broken
      /\ broken => failures' = failures + 1
  <2>1. failures' \in Nat /\ failures <= failures' /\ (failures' = 0 => ~broken)
    BY <1>1, FailsLast
  <2>2. failures \in Nat /\ (broken => failures' = failures + 1)
    BY <1>1, BoundAssumption DEF TypeOK, Fails
  <2>3. QED
    BY <2>1, <2>2
<1>3. Lasts
  BY <1>1, <1>2, LastsAlone
<1>4. \A g \in Slots : job[g].msg \subseteq Inbox
  BY <1>1 DEF TypeOK, Job
<1>5. ASSUME NEW m \in job[h].msg
      PROVE  /\ m \in Inbox /\ m.tries \in 0..Retries /\ m.valid /\ m.order \in placed
             /\ <<m.kind, m.order>> \in told
             /\ m.corr = IF m.order \in SameId THEN m.order ELSE Fresh
             /\ m.order \in SameId =>
                  rows[m.order] = NoRow \/ (broken /\ m.tries <= failures)
             /\ job[h].id = m.corr
  <2>1. Addressed(m) /\ job[h].id = m.corr
    BY DEF NoticesInv, Answers
  <2>2. m \in Inbox /\ m.tries \in 0..Retries
    BY <1>4 DEF Inbox, Message
  <2>3. ASSUME m.order \in SameId, ~broken PROVE rows[m.order] = NoRow
    <3>1. job[h].id = m.order /\ m.order \in Orders
      BY <2>1, <2>3, SameIdAssumption DEF Addressed
    <3>2. QED
      BY <1>1, <2>3, <3>1 DEF Stored
  <2>4. QED
    BY <2>1, <2>2, <2>3 DEF Addressed
<1>6. ASSUME NEW n \in back
      PROVE  Addressed(n)'
  <2>1. PICK m \in again : n = [m EXCEPT !.tries = m.tries + 1]
    OBVIOUS
  <2>2. m \in job[h].msg /\ m.tries < Retries
    OBVIOUS
  <2>3. /\ m \in Inbox /\ m.tries \in 0..Retries /\ m.valid /\ m.order \in placed
        /\ <<m.kind, m.order>> \in told
        /\ m.corr = IF m.order \in SameId THEN m.order ELSE Fresh
        /\ m.order \in SameId =>
             rows[m.order] = NoRow \/ (broken /\ m.tries <= failures)
    BY <1>5, <2>2
  <2> HIDE DEF again
  <2>4. /\ n.valid = m.valid /\ n.order = m.order /\ n.corr = m.corr
        /\ n.tries = m.tries + 1 /\ n.kind = m.kind
    BY <2>1, <2>3 DEF Inbox, Message
  <2>5. n.valid
    BY <2>3, <2>4
  <2>6. n.corr = IF n.order \in SameId THEN n.order ELSE Fresh
    BY <2>3, <2>4
  <2>7. n.order \in SameId => rows'[n.order] = NoRow \/ n.tries <= failures'
    BY <1>1, <1>2, <2>3, <2>4
  <2>8. n.order \in placed' /\ <<n.kind, n.order>> \in told'
    BY <1>1, <2>3, <2>4
  <2>9. QED
    BY <2>5, <2>6, <2>7, <2>8 DEF Addressed
<1>7. ASSUME NEW d \in aside
      PROVE  d[3] \in placed' /\ (d[3] \in SameId => rows'[d[3]] = NoRow \/ failures' > Retries)
  <2>1. PICK m \in job[h].msg \ again : d = <<m.queue, m.kind, m.order>>
    OBVIOUS
  <2>2. m \in job[h].msg /\ ~(m.tries < Retries)
    OBVIOUS
  <2>3. /\ m.tries \in 0..Retries /\ m.order \in placed
        /\ m.order \in SameId =>
             rows[m.order] = NoRow \/ (broken /\ m.tries <= failures)
    BY <1>5, <2>2
  <2> HIDE DEF again
  <2>4. m.order \in SameId => rows[m.order] = NoRow \/ failures' > Retries
    BY <1>2, <2>2, <2>3, RetriesAssumption
  <2>5. d[3] = m.order
    BY <2>1
  <2>6. QED
    BY <1>1, <2>3, <2>4, <2>5
<1>8. ASSUME NEW m \in job[h].msg, m.kind = "NotifyOrderPaid", failures' = 0
      PROVE  Onward(m.order)
  <2>1. CASE job[h].id \in Orders
    <3>1. job[h].id = m.order
      BY <1>8, <2>1, PayingJob
    <3>2. rows'[m.order] = NoRow
      BY <1>1, <1>2, <1>8, <2>1, <3>1 DEF Stored
    <3>3. QED
      BY <3>2 DEF Onward, PaidOrGone
  <2>2. CASE m.tries < Retries
    <3>1. [m EXCEPT !.tries = @ + 1] \in back
      BY <2>2
    <3>2. /\ [m EXCEPT !.tries = @ + 1].kind = m.kind
          /\ [m EXCEPT !.tries = @ + 1].order = m.order
      BY <1>5 DEF Inbox, Message
    <3> HIDE DEF back
    <3>3. [m EXCEPT !.tries = @ + 1] \in BagToSet(net')
      BY <1>1, <3>1, SendBag DEF TypeOK
    <3>4. PaymentUnderWay(m.order)'
      BY <1>8, <3>2, <3>3 DEF PaymentUnderWay
    <3>5. QED
      BY <3>4 DEF Onward
  <2>3. CASE ~(m.tries < Retries)
    <3>1. <<m.queue, m.kind, m.order>> \in aside
      BY <2>3
    <3>2. m.queue \in Queues
      BY <1>5 DEF Inbox, Message
    <3> HIDE DEF aside
    <3>3. SetAside("NotifyOrderPaid", m.order)'
      BY <1>1, <1>8, <3>1, <3>2 DEF SetAside
    <3>4. QED
      BY <3>3 DEF Onward
  <2>4. QED
    BY <2>2, <2>3
<1> HIDE DEF again, back, aside
<1>9. BagToSet(net') = BagToSet(net) \cup back
  BY <1>1, SendBag DEF TypeOK
<1>10. job'[h] = Idle /\ \A g \in Slots \ {h} : job'[g] = job[g]
  BY <1>1 DEF TypeOK
<1>11. Whence
  <2>1. \A g \in Slots : Answers(job'[g])
    BY <1>10, IdleAnswers DEF NoticesInv
  <2>2. \A g \in Slots : job'[g].msg \subseteq Inbox
    BY <1>4, <1>10 DEF Idle
  <2>3. \A m \in BagToSet(net') : m \in BagToSet(net) \/ Addressed(m)'
    BY <1>6, <1>9
  <2>4. /\ \A o \in Orders : rows'[o] # NoRow => o \in placed'
        /\ \A t \in told' : t[2] \in placed'
    BY <1>1 DEF NoticesInv
  <2>5. QED
    BY <1>1, <1>7, <2>1, <2>2, <2>3, <2>4 DEF Whence
<1>12. ASSUME NEW p \in Orders, PaymentUnderWay(p), failures' = 0 PROVE Onward(p)
  <2>1. CASE \E n \in BagToSet(net) : n.kind = "NotifyOrderPaid" /\ n.order = p
    BY <1>9, <2>1 DEF PaymentUnderWay, Onward
  <2>2. CASE \E n \in job[h].msg : n.kind = "NotifyOrderPaid" /\ n.order = p
    BY <1>8, <1>12, <2>2
  <2>3. CASE \E g \in Slots \ {h} :
               /\ job[g].pc \in {"load", "save"}
               /\ \E n \in job[g].msg : n.kind = "NotifyOrderPaid" /\ n.order = p
    <3>1. \E g \in Slots : /\ job'[g].pc \in {"load", "save"}
                           /\ \E n \in job'[g].msg : n.kind = "NotifyOrderPaid" /\ n.order = p
      BY <1>10, <2>3
    <3>2. QED
      BY <3>1 DEF PaymentUnderWay, Onward
  <2>4. QED
    BY <1>12, <2>1, <2>2, <2>3 DEF PaymentUnderWay
<1>13. QED
  BY <1>3, <1>11, <1>12, <1>1, NoticesKept

\* A crash gives every delivery under way back to its queue.
LEMMA CrashNotices ==
  ASSUME OrderingInv, NoticesInv, Crash
  PROVE  NoticesInv'
<1> DEFINE held == UNION {job[h].msg : h \in Slots}
           back == {[m EXCEPT !.tries = 0] : m \in held}
<1>1. /\ TypeOK /\ net' = Send(net, back) /\ job' = [h \in Slots |-> Idle]
      /\ UNCHANGED <<rows, placed, told, errorQueue, failures>>
  BY DEF Crash, OrderingInv, outside, traces
<1>2. failures \in Nat
  BY <1>1, BoundAssumption DEF TypeOK
<1>3. Lasts
  BY <1>1, <1>2, LastsAlone
<1>4. ASSUME NEW m \in held
      PROVE  /\ m \in Inbox /\ Addressed(m)
             /\ [m EXCEPT !.tries = 0] \in back
             /\ [m EXCEPT !.tries = 0].kind = m.kind
             /\ [m EXCEPT !.tries = 0].order = m.order
             /\ [m EXCEPT !.tries = 0].valid = m.valid
             /\ [m EXCEPT !.tries = 0].corr = m.corr
             /\ [m EXCEPT !.tries = 0].tries = 0
  <2>1. m \in Inbox /\ Addressed(m)
    BY <1>1 DEF TypeOK, Job, NoticesInv, Answers
  <2>2. [m EXCEPT !.tries = 0] \in back
    OBVIOUS
  <2> HIDE DEF back
  <2>3. QED
    BY <2>1, <2>2 DEF Inbox, Message
<1>5. ASSUME NEW n \in back PROVE Addressed(n)'
  <2>1. PICK m \in held : n = [m EXCEPT !.tries = 0]
    OBVIOUS
  <2>2. /\ Addressed(m) /\ n.order = m.order /\ n.valid = m.valid /\ n.corr = m.corr
        /\ n.tries = 0 /\ n.kind = m.kind
    BY <1>4, <2>1
  <2> HIDE DEF back, held
  <2>3. n.valid /\ n.order \in placed' /\ <<n.kind, n.order>> \in told'
    BY <1>1, <2>2 DEF Addressed
  <2>4. n.corr = IF n.order \in SameId THEN n.order ELSE Fresh
    BY <2>2 DEF Addressed
  <2>5. n.tries <= failures'
    BY <1>1, <1>2, <2>2
  <2>6. QED
    BY <2>3, <2>4, <2>5 DEF Addressed
<1>6. \A h \in Slots : job[h].msg \subseteq held
  OBVIOUS
<1> HIDE DEF back, held
<1>7. BagToSet(net') = BagToSet(net) \cup back
  BY <1>1, SendBag DEF TypeOK
<1>8. Whence
  <2>1. \A g \in Slots : Answers(job'[g])
    BY <1>1, IdleAnswers
  <2>2. \A g \in Slots : job'[g].msg \subseteq Inbox
    BY <1>1 DEF Idle
  <2>3. \A m \in BagToSet(net') : m \in BagToSet(net) \/ Addressed(m)'
    BY <1>5, <1>7
  <2>4. QED
    BY <1>1, <2>1, <2>2, <2>3 DEF Whence, NoticesInv
<1>9. ASSUME NEW p \in Orders, PaymentUnderWay(p) PROVE PaymentUnderWay(p)'
  <2>1. CASE \E n \in BagToSet(net) : n.kind = "NotifyOrderPaid" /\ n.order = p
    BY <1>7, <2>1 DEF PaymentUnderWay
  <2>2. CASE \E m \in held : m.kind = "NotifyOrderPaid" /\ m.order = p
    <3>1. PICK m \in held : m.kind = "NotifyOrderPaid" /\ m.order = p
      BY <2>2
    <3>2. [m EXCEPT !.tries = 0] \in BagToSet(net')
      BY <1>4, <1>7
    <3>3. [m EXCEPT !.tries = 0].kind = "NotifyOrderPaid" /\ [m EXCEPT !.tries = 0].order = p
      BY <1>4, <3>1
    <3>4. QED
      BY <3>2, <3>3 DEF PaymentUnderWay
  <2>3. QED
    BY <1>6, <1>9, <2>1, <2>2 DEF PaymentUnderWay
<1>10. QED
  BY <1>1, <1>3, <1>8, <1>9, NoticesKept DEF Onward

LEMMA NoticesStep == OrderingInv /\ NoticesInv /\ [Next]_vars => NoticesInv'
<1> SUFFICES ASSUME OrderingInv, NoticesInv, [Next]_vars PROVE NoticesInv'
  OBVIOUS
<1>1. TypeOK
  BY DEF OrderingInv
<1>2. CASE UNCHANGED <<net, rows, placed, job, told, errorQueue, failures>>
  BY <1>1, <1>2, StillNotices
<1>3. CASE \E h \in Slots : Handle(h)
  BY <1>1, <1>3, ConsumeNotices, LoadNotices, RefuseNotices, SaveNotices,
     PublishCanceledNotices, PublishThrowsNotices, AbandonNotices,
     SaveThrowsNotices, HubNotices DEF Handle
<1>4. CASE \E o \in Orders :
             \/ \E inserted, threw \in BOOLEAN : PlaceOrder(o, inserted, threw)
             \/ \E k \in Notified \ {"NotifyOrderDelivered"} : Notify(k, o)
             \/ \E h \in Slots, cmd \in Requested : Request(h, cmd, o)
  BY <1>1, <1>4, PlaceOrderNotices, NotifyNotices, RequestNotices
<1>5. CASE \E m \in BagToSet(net) : Skip(m)
  BY <1>1, <1>5, SkipNotices
<1>6. CASE Crash
  BY <1>6, CrashNotices
<1>7. CASE UNCHANGED vars \/ \E o \in Orders : DayPasses(o)
  BY <1>2, <1>7 DEF vars, outside, traces, DayPasses
<1>8. QED
  BY <1>3, <1>4, <1>5, <1>6, <1>7 DEF Next

(***************************************************************************)
(* Theorems.                                                               *)
(***************************************************************************)

\* Where every notification of a payment is, and what each delivery given up
\* has cost (the consumers of Ordering, UseMessageRetry).
THEOREM NoticesInvariant == Safety => []NoticesInv
BY NoticesInit, NoticesStep, OrderingInvariant, PTL DEF Safety

\* No race of handlers, no crash and no retry loses a payment the saga told
\* Ordering of (OrderPaidCommand, SaveChanges).
THEOREM PaymentRecorded == Safety => []PaymentIsRecorded
<1>1. NoticesInv => PaymentIsRecorded
  <2> SUFFICES ASSUME NoticesInv, NEW o \in Orders, Quiet,
                      <<"NotifyOrderPaid", o>> \in told, failures = 0
               PROVE  PaidOrGone(o) \/ SetAside("NotifyOrderPaid", o)
    BY DEF PaymentIsRecorded, PaidOrGone
  <2>1. BagToSet(net) = {} /\ \A h \in Slots : job[h].pc = "idle"
    BY DEF Quiet, EmptyBag, SetToBag, BagToSet, Idle
  <2>2. ~PaymentUnderWay(o)
    BY <2>1 DEF PaymentUnderWay
  <2>3. QED
    BY <2>2 DEF NoticesInv
<1>2. QED
  BY <1>1, NoticesInvariant, PTL

(***************************************************************************)
(* Orders whose saga runs under another id.                                *)
(***************************************************************************)

\* The messages in the queues and in the handlers.
Held == BagToSet(net) \cup UNION {job[h].msg : h \in Slots}

OnTheWay(k, o) == \E m \in Held : m.kind = k /\ m.order = o

\* A row no notification has written.
Unnotified(row) ==
  /\ ~row.orderPaid /\ row.status \in {"NoRow", "PENDING", "ORDER_CANCELED"}
  /\ row.canceledAt => row.status = "ORDER_CANCELED"

\* What stands behind NoticesNeedTheirId beside NoticesInv, and is inductive.
ForeignInv ==
  \A o \in Orders \ SameId :
    /\ Unnotified(rows[o])
    /\ failures = 0 =>
         \A t \in told : t[2] = o => OnTheWay(t[1], o) \/ SetAside(t[1], o)

LEMMA ForeignInit == Init => ForeignInv
  BY DEF Init, ForeignInv, Unnotified, NoRow

\* A handler of a foreign order's notification never gets past its load: the id
\* it looks for is nobody's.
LEMMA ForeignJob ==
  ASSUME OrderingInv, NoticesInv, NEW h \in Slots, NEW m \in job[h].msg,
         m.order \notin SameId
  PROVE  /\ m \in Inbox /\ m.valid /\ job[h].id = Fresh
         /\ job[h].pc \notin {"save", "publish", "hub"}
<1>1. Addressed(m) /\ job[h].id = m.corr
  BY DEF NoticesInv, Answers
<1>2. m \in Inbox
  BY DEF OrderingInv, TypeOK, Job
<1>3. job[h].pc \in {"save", "publish", "hub"} => job[h].id \in Orders
  BY DEF OrderingInv, JobsAreBacked, Backed
<1>4. QED
  BY <1>1, <1>2, <1>3, FreshAssumption DEF Addressed

\* A handler that writes the row of a foreign order runs a request.
LEMMA ForeignWriter ==
  ASSUME NoticesInv, NEW h \in Slots, job[h].id \in Orders \ SameId
  PROVE  job[h].cmd \notin Notified
<1> SUFFICES ASSUME job[h].cmd \in Notified PROVE FALSE
  OBVIOUS
<1>1. PICK m \in job[h].msg : Addressed(m) /\ job[h].id = m.corr
  BY DEF NoticesInv, Answers
<1>2. QED
  BY <1>1, FreshAssumption DEF Addressed

LEMMA SavedUnnotified ==
  ASSUME NEW cmd \in Requested, NEW row \in Row, NEW read \in Row, Unnotified(row),
         cmd = "CancelOrder" => read.status = "PENDING"
  PROVE  Unnotified(Saved(cmd, row, read))
<1>1. CASE cmd = "DeleteOrder"
  BY <1>1 DEF Saved, NoRow, Unnotified
<1>2. CASE cmd = "CancelOrder"
  <2>1. Saved(cmd, row, read) = Updated(row, cmd, read) /\ StatusSetBy[cmd] = "ORDER_CANCELED"
    BY <1>2 DEF Saved, StatusSetBy
  <2>2. /\ Updated(row, cmd, read).status = "ORDER_CANCELED"
        /\ ~Updated(row, cmd, read).orderPaid
    BY <1>2, <2>1 DEF Updated, Column, Unnotified
  <2>3. QED
    BY <2>1, <2>2 DEF Unnotified
<1>3. QED
  BY <1>1, <1>2 DEF Requested

LEMMA ForeignSave ==
  ASSUME OrderingInv, NoticesInv, NEW h \in Slots, job[h].pc = "save", Allowed(h),
         rows' = [rows EXCEPT ![job[h].id] = Saved(job[h].cmd, @, job[h].read)],
         NEW o \in Orders \ SameId, Unnotified(rows[o])
  PROVE  Unnotified(rows'[o])
<1> DEFINE id == job[h].id  cmd == job[h].cmd  read == job[h].read
<1>1. /\ rows \in [Orders -> Row] /\ id \in Orders /\ read \in Row
      /\ cmd \in Requested \cup Notified \cup {"none"} /\ cmd # "none"
  BY DEF OrderingInv, TypeOK, Job, JobsAreBacked, Backed
<1>2. /\ id = o => cmd \notin Notified
      /\ cmd = "CancelOrder" => read.status = "PENDING"
  BY ForeignWriter DEF Allowed, MayCancel
<1> HIDE DEF id, cmd, read
<1>3. rows' = [rows EXCEPT ![id] = Saved(cmd, rows[id], read)]
  BY DEF id, cmd, read
<1>4. CASE id = o
  <2>1. cmd \in Requested /\ rows[o] \in Row
    BY <1>1, <1>2, <1>4
  <2>2. Unnotified(Saved(cmd, rows[o], read))
    BY <1>1, <1>2, <2>1, SavedUnnotified
  <2>3. QED
    BY <1>1, <1>3, <1>4, <2>2
<1>5. CASE id # o
  BY <1>1, <1>3, <1>5
<1>6. QED
  BY <1>4, <1>5

\* No step but a request's changes the row of a foreign order.
LEMMA ForeignRows ==
  ASSUME OrderingInv, NoticesInv, [Next]_vars, NEW o \in Orders \ SameId,
         Unnotified(rows[o])
  PROVE  Unnotified(rows'[o])
<1>1. CASE UNCHANGED rows
  BY <1>1
<1>2. CASE \E p \in Orders, inserted, threw \in BOOLEAN : PlaceOrder(p, inserted, threw)
  <2>1. PICK p \in Orders, inserted \in BOOLEAN, threw \in BOOLEAN :
               PlaceOrder(p, inserted, threw)
    BY <1>2
  <2>2. rows'[o] = rows[o] \/ rows'[o] = NewRow
    BY <2>1 DEF PlaceOrder, OrderingInv, TypeOK
  <2>3. QED
    BY <2>2 DEF Unnotified, NewRow
<1>3. CASE \E h \in Slots : Save(h)
  BY <1>3, ForeignSave DEF Save
<1>4. CASE \E h \in Slots, applied, broken \in BOOLEAN : SaveThrows(h, applied, broken)
  <2>1. PICK h \in Slots, applied \in BOOLEAN, broken \in BOOLEAN :
               SaveThrows(h, applied, broken)
    BY <1>4
  <2>2. \/ UNCHANGED rows
        \/ rows' = [rows EXCEPT ![job[h].id] = Saved(job[h].cmd, @, job[h].read)]
    BY <2>1 DEF SaveThrows
  <2>3. job[h].pc = "save" /\ Allowed(h)
    BY <2>1 DEF SaveThrows
  <2>4. QED
    BY <1>1, <2>2, <2>3, ForeignSave
<1>5. QED
  BY <1>1, <1>2, <1>3, <1>4
  DEF Next, vars, outside, Handle, DayPasses, Notify, Request, Consume, Skip, Load,
      Abandon, Refuse, PublishCanceled, PublishThrows, Hub, Crash

(***************************************************************************)
(* Where a foreign order's notification goes.                              *)
(***************************************************************************)

LEMMA HeldKept ==
  ASSUME BagToSet(net) \subseteq BagToSet(net'),
         \A h \in Slots : job[h].msg \subseteq job'[h].msg,
         NEW m \in Held
  PROVE  OnTheWay(m.kind, m.order)'
  BY DEF Held, OnTheWay

\* Set aside after its last try, or back in its queue.
LEMMA ForeignAbandon ==
  ASSUME OrderingInv, NoticesInv, NEW h \in Slots, NEW broken \in BOOLEAN,
         Abandon(h, broken), NEW m \in Held, m.order \notin SameId
  PROVE  OnTheWay(m.kind, m.order)' \/ SetAside(m.kind, m.order)'
<1> DEFINE again == {n \in job[h].msg : n.tries < Retries}
           back  == {[n EXCEPT !.tries = @ + 1] : n \in again}
           aside == {<<n.queue, n.kind, n.order>> : n \in job[h].msg \ again}
<1>1. /\ net' = Send(net, back) /\ errorQueue' = errorQueue \cup aside
      /\ job' = [job EXCEPT ![h] = Idle] /\ IsABag(net) /\ job \in [Slots -> Job]
  BY DEF Abandon, OrderingInv, TypeOK
<1>2. ASSUME m \in again PROVE OnTheWay(m.kind, m.order)'
  <2>1. [m EXCEPT !.tries = @ + 1] \in back
    BY <1>2
  <2>2. m \in Inbox
    BY <1>2, ForeignJob
  <2>3. /\ [m EXCEPT !.tries = @ + 1].kind = m.kind
        /\ [m EXCEPT !.tries = @ + 1].order = m.order
    BY <2>2 DEF Inbox, Message
  <2> HIDE DEF back
  <2>4. [m EXCEPT !.tries = @ + 1] \in BagToSet(net')
    BY <1>1, <2>1, SendBag
  <2>5. QED
    BY <2>3, <2>4 DEF OnTheWay, Held
<1>3. ASSUME m \in job[h].msg \ again PROVE SetAside(m.kind, m.order)'
  <2>1. <<m.queue, m.kind, m.order>> \in aside
    BY <1>3
  <2>2. m.queue \in Queues
    BY <1>3, ForeignJob DEF Inbox, Message
  <2> HIDE DEF aside
  <2>3. QED
    BY <1>1, <2>1, <2>2 DEF SetAside
<1>4. ASSUME m \notin job[h].msg PROVE OnTheWay(m.kind, m.order)'
  <2> HIDE DEF back
  <2>1. BagToSet(net) \subseteq BagToSet(net')
    BY <1>1, SendBag
  <2>2. \A g \in Slots \ {h} : job'[g] = job[g]
    BY <1>1
  <2>3. m \in Held'
    BY <1>4, <2>1, <2>2 DEF Held
  <2>4. QED
    BY <2>3 DEF OnTheWay
<1> HIDE DEF again
<1>5. QED
  BY <1>2, <1>3, <1>4

LEMMA ForeignCrash ==
  ASSUME OrderingInv, Crash, NEW m \in Held
  PROVE  OnTheWay(m.kind, m.order)'
<1> DEFINE given == UNION {job[h].msg : h \in Slots}
           back  == {[n EXCEPT !.tries = 0] : n \in given}
<1>1. net' = Send(net, back) /\ IsABag(net) /\ given \subseteq Inbox
  BY DEF Crash, OrderingInv, TypeOK, Job
<1>2. ASSUME m \in given
      PROVE  \E n \in back : n.kind = m.kind /\ n.order = m.order
  <2>1. [m EXCEPT !.tries = 0] \in back
    BY <1>2
  <2> HIDE DEF back, given
  <2>2. /\ [m EXCEPT !.tries = 0].kind = m.kind
        /\ [m EXCEPT !.tries = 0].order = m.order
    BY <1>1, <1>2 DEF Inbox, Message
  <2>3. QED
    BY <2>1, <2>2
<1>3. m \in BagToSet(net) \/ m \in given
  BY DEF Held
<1> HIDE DEF back, given
<1>4. BagToSet(net') = BagToSet(net) \cup back
  BY <1>1, SendBag
<1>5. QED
  BY <1>2, <1>3, <1>4 DEF OnTheWay, Held

\* While no call fails, a foreign order's notification is neither lost nor
\* consumed.
LEMMA ForeignStays ==
  ASSUME OrderingInv, NoticesInv, [Next]_vars, failures' = 0,
         NEW m \in Held, m.order \notin SameId
  PROVE  OnTheWay(m.kind, m.order)' \/ SetAside(m.kind, m.order)'
<1>1. TypeOK /\ IsABag(net) /\ job \in [Slots -> Job]
  BY DEF OrderingInv, TypeOK
<1>2. CASE UNCHANGED <<net, job>>
  BY <1>2 DEF OnTheWay, Held
<1>3. ASSUME NEW k \in Notified, NEW o \in Orders, Notify(k, o)
      PROVE  OnTheWay(m.kind, m.order)'
  <2>1. BagToSet(net) \subseteq BagToSet(net') /\ job' = job
    BY <1>1, <1>3, SendBag DEF Notify
  <2>2. QED
    BY <2>1, HeldKept
<1>4. ASSUME NEW h \in Slots, NEW cmd \in Requested, NEW o \in Orders, Request(h, cmd, o)
      PROVE  OnTheWay(m.kind, m.order)'
  <2>1. net' = net /\ job[h].msg = {} /\ \A g \in Slots \ {h} : job'[g] = job[g]
    BY <1>1, <1>4 DEF Request, Start, Idle
  <2>2. QED
    BY <2>1, HeldKept
<1>5. ASSUME NEW h \in Slots, NEW n \in BagToSet(net), Consume(h, n)
      PROVE  OnTheWay(m.kind, m.order)'
  <2>1. /\ net' = Replace(net, n, {}) /\ job[h].msg = {} /\ job'[h].msg = {n}
        /\ \A g \in Slots \ {h} : job'[g] = job[g]
    BY <1>1, <1>5 DEF Consume, Start, Idle
  <2>2. CASE m = n
    BY <2>1, <2>2 DEF OnTheWay, Held
  <2>3. CASE m # n /\ m \in BagToSet(net)
    <3>1. m \in BagToSet(net')
      BY <1>1, <2>1, <2>3, OthersStay
    <3>2. QED
      BY <3>1 DEF OnTheWay, Held
  <2>4. CASE m \in UNION {job[g].msg : g \in Slots}
    <3>1. PICK g \in Slots : m \in job[g].msg
      BY <2>4
    <3>2. m \in job'[g].msg
      BY <2>1, <3>1
    <3>3. QED
      BY <3>2 DEF OnTheWay, Held
  <2>5. QED
    BY <2>2, <2>3, <2>4 DEF Held
<1>6. ASSUME NEW h \in Slots, Load(h) \/ Save(h) \/ PublishCanceled(h)
      PROVE  OnTheWay(m.kind, m.order)'
  <2>1. net' = net /\ \A g \in Slots : job'[g].msg = job[g].msg
    BY <1>1, <1>6 DEF Load, Save, PublishCanceled, Job
  <2>2. QED
    BY <2>1, HeldKept
<1>7. ASSUME NEW h \in Slots, job[h].pc \in {"save", "publish", "hub"},
             net' = net, job' = [job EXCEPT ![h] = Idle]
      PROVE  OnTheWay(m.kind, m.order)'
  <2>1. m \notin job[h].msg
    BY <1>7, ForeignJob
  <2>2. \A g \in Slots \ {h} : job'[g] = job[g]
    BY <1>1, <1>7
  <2>3. m \in Held'
    BY <1>7, <2>1, <2>2 DEF Held
  <2>4. QED
    BY <2>3 DEF OnTheWay
<1>8. CASE \E h \in Slots : Handle(h)
  <2>1. PICK h \in Slots : Handle(h)
    BY <1>8
  <2>2. CASE \/ Refuse(h) \/ PublishThrows(h)
             \/ \E applied, broken \in BOOLEAN : SaveThrows(h, applied, broken)
             \/ \E broken \in BOOLEAN : Hub(h, broken)
    <3>1. /\ job[h].pc \in {"save", "publish", "hub"} /\ net' = net
          /\ job' = [job EXCEPT ![h] = Idle]
      BY <2>2 DEF Refuse, PublishThrows, SaveThrows, Hub, End
    <3>2. QED
      BY <1>7, <3>1
  <2>3. CASE \E broken \in BOOLEAN : Abandon(h, broken)
    BY <2>3, ForeignAbandon
  <2>4. QED
    BY <1>5, <1>6, <2>1, <2>2, <2>3 DEF Handle
<1>9. ASSUME NEW n \in BagToSet(net), Skip(n)
      PROVE  FALSE
  <2>1. n.valid
    BY DEF NoticesInv, Addressed
  <2>2. failures' # 0
    BY <1>1, <1>9, <2>1, FailsLast DEF Skip
  <2>3. QED
    BY <2>2
<1>10. CASE Crash
  BY <1>10, ForeignCrash
<1>11. QED
  BY <1>2, <1>3, <1>4, <1>8, <1>9, <1>10 DEF Next, vars, PlaceOrder, DayPasses

LEMMA NotifiedHeld ==
  ASSUME OrderingInv, NEW k \in Notified, NEW o \in Orders, Notify(k, o)
  PROVE  OnTheWay(k, o)'
<1> DEFINE c   == IF o \in SameId THEN o ELSE Fresh
           out == Publish(k, o, c, TRUE)
<1>1. net' = Send(net, out) /\ IsABag(net)
  BY DEF Notify, OrderingInv, TypeOK
<1>2. PICK q \in Subscribers[k] : TRUE
  BY DEF Notified, Subscribers
<1>3. [queue |-> q, kind |-> k, order |-> o, corr |-> c, valid |-> TRUE,
       tries |-> 0] \in out
  BY <1>2 DEF Publish
<1> HIDE DEF out
<1>4. [queue |-> q, kind |-> k, order |-> o, corr |-> c, valid |-> TRUE,
       tries |-> 0] \in BagToSet(net')
  BY <1>1, <1>3, SendBag
<1>5. QED
  BY <1>4 DEF OnTheWay, Held

LEMMA ForeignStep == OrderingInv /\ NoticesInv /\ ForeignInv /\ [Next]_vars => ForeignInv'
<1> SUFFICES ASSUME OrderingInv, NoticesInv, ForeignInv, [Next]_vars, NEW o \in Orders \ SameId
             PROVE  /\ Unnotified(rows'[o])
                    /\ failures' = 0 => \A t \in told' :
                         t[2] = o => OnTheWay(t[1], o)' \/ SetAside(t[1], o)'
  BY DEF ForeignInv, Unnotified
<1>1. Unnotified(rows'[o])
  BY ForeignRows DEF ForeignInv
<1>2. ASSUME failures' = 0, NEW t \in told', t[2] = o
      PROVE  OnTheWay(t[1], o)' \/ SetAside(t[1], o)'
  <2>1. failures = 0
    <3>1. CASE failures' = failures
      BY <1>2, <3>1
    <3>2. CASE \E n \in {0, 1} : Fails(n)
      BY <1>2, <3>2, BoundAssumption DEF Fails, OrderingInv, TypeOK
    <3>3. QED
      BY <3>1, <3>2
      DEF Next, vars, PlaceOrder, DayPasses, Notify, Request, Handle, Consume, Skip,
          Load, Abandon, Refuse, Save, SaveThrows, PublishCanceled, PublishThrows,
          Hub, Crash
  <2>2. CASE t \in told
    <3>1. OnTheWay(t[1], o) \/ SetAside(t[1], o)
      BY <1>2, <2>1, <2>2 DEF ForeignInv
    <3>2. CASE OnTheWay(t[1], o)
      <4>1. PICK m \in Held : m.kind = t[1] /\ m.order = o
        BY <3>2 DEF OnTheWay
      <4>2. QED
        BY <1>2, <4>1, ForeignStays
    <3>3. CASE SetAside(t[1], o)
      <4>1. errorQueue \subseteq errorQueue'
        BY DEF Next, vars, traces, PlaceOrder, DayPasses, Notify, Request, Handle, Consume,
               Skip, Load, Abandon, Refuse, Save, SaveThrows, PublishCanceled,
               PublishThrows, Hub, Crash
      <4>2. QED
        BY <3>3, <4>1 DEF SetAside
    <3>4. QED
      BY <3>1, <3>2, <3>3
  <2>3. CASE t \notin told
    <3>1. \E k \in Notified, p \in Orders : Notify(k, p) /\ t = <<k, p>>
      BY <2>3
      DEF Next, vars, outside, PlaceOrder, DayPasses, Notify, Request, Handle, Consume,
          Skip, Load, Abandon, Refuse, Save, SaveThrows, PublishCanceled, PublishThrows,
          Hub, Crash
    <3>2. PICK k \in Notified, p \in Orders : Notify(k, p) /\ t = <<k, p>>
      BY <3>1
    <3>3. QED
      BY <1>2, <3>2, NotifiedHeld
  <2>4. QED
    BY <2>2, <2>3
<1>3. QED
  BY <1>1, <1>2

\* A notification reaches its order only under the order's own id, where it is
\* set aside for a row that is gone or for failures of its own alone; under any
\* other id the row stays as the requests made it, and where nothing fails every
\* notification ends in the error queue (the consumers of Ordering).
THEOREM IdsDecide == Safety => []NoticesNeedTheirId
<1>1. Safety => []ForeignInv
  BY ForeignInit, ForeignStep, OrderingInvariant, NoticesInvariant, PTL DEF Safety
<1>2. OrderingInv /\ NoticesInv /\ ForeignInv => NoticesNeedTheirId
  <2> SUFFICES ASSUME OrderingInv, NoticesInv, ForeignInv PROVE NoticesNeedTheirId
    OBVIOUS
  <2>1. \A d \in errorQueue : d[3] \in SameId => rows[d[3]] = NoRow \/ failures > Retries
    BY DEF NoticesInv
  <2>2. ASSUME NEW o \in Orders \ SameId, Quiet, failures = 0, NEW t \in told, t[2] = o
        PROVE  SetAside(t[1], o)
    <3>1. BagToSet(net) = {} /\ \A h \in Slots : job[h].msg = {}
      BY <2>2 DEF Quiet, EmptyBag, SetToBag, BagToSet, Idle
    <3>2. ~OnTheWay(t[1], o)
      BY <3>1 DEF OnTheWay, Held
    <3>3. QED
      BY <2>2, <3>2 DEF ForeignInv
  <2>3. QED
    BY <2>1, <2>2 DEF NoticesNeedTheirId, ForeignInv, Unnotified
<1>3. QED
  BY <1>1, <1>2, OrderingInvariant, NoticesInvariant, PTL

(***************************************************************************)
(* The table the handlers implement (OrderRecord).                         *)
(***************************************************************************)

\* A row is there or has nothing in it, and nobody tells of a delivery.
RecordInv ==
  /\ \A o \in Orders : rows[o].status = "NoRow" => rows[o] = NoRow
  /\ \A t \in told : t[1] # "NotifyOrderDelivered"

\* What the abstract table holds, and what a client was promised.
Statuses  == [o \in Orders |-> rows[o].status]
Paid      == {o \in Orders : rows[o].orderPaid}
Dated     == {o \in Orders : rows[o].canceledAt}
Announced == {o \in Orders : cancels[o] > 0}
Assured   == {o \in Orders : \E w \in BOOLEAN : <<o, "canceled", w>> \in answers}

LEMMA RecordInit == Init => Record!Init /\ RecordInv
<1> SUFFICES ASSUME Init PROVE Record!Init /\ RecordInv
  OBVIOUS
<1>1. Statuses = [o \in Orders |-> "NoRow"] /\ Paid = {} /\ Dated = {}
  BY DEF Init, NoRow, Statuses, Paid, Dated
<1>2. Announced = {} /\ Assured = {}
  BY DEF Init, Announced, Assured
<1>3. QED
  BY <1>1, <1>2 DEF Init, RecordInv, Record!Init, Statuses, Paid, Dated, Announced, Assured

\* One row written is one row of the abstract table written.
LEMMA RowWritten ==
  ASSUME rows \in [Orders -> Row], NEW o \in Orders, NEW r \in Row,
         rows' = [rows EXCEPT ![o] = r]
  PROVE  /\ Statuses' = [Statuses EXCEPT ![o] = r.status]
         /\ Paid' = IF r.orderPaid THEN Paid \cup {o} ELSE Paid \ {o}
         /\ Dated' = IF r.canceledAt THEN Dated \cup {o} ELSE Dated \ {o}
  BY DEF Statuses, Paid, Dated, Row

LEMMA PlaceOrderRecord ==
  ASSUME TypeOK, RecordInv, NEW o \in Orders, NEW inserted \in BOOLEAN,
         NEW threw \in BOOLEAN, \A p \in Orders : rows[p] # NoRow => p \in placed,
         PlaceOrder(o, inserted, threw)
  PROVE  Record!Next /\ RecordInv'
<1>1. /\ o \notin placed /\ placed' = placed \cup {o} /\ rows[o] = NoRow
      /\ rows' = [rows EXCEPT ![o] = IF inserted THEN NewRow ELSE @]
      /\ UNCHANGED <<late, told, cancels, answers>>
  BY DEF PlaceOrder
<1>2. Announced' = Announced /\ Assured' = Assured
  BY <1>1 DEF Announced, Assured
<1>3. NewRow \in Row /\ ~NewRow.orderPaid /\ ~NewRow.canceledAt /\ NewRow.status = "PENDING"
  BY DEF NewRow, Row, OrderStatus
<1>4. ~NoRow.orderPaid /\ ~NoRow.canceledAt
  BY DEF NoRow
<1>5. /\ Statuses' = [Statuses EXCEPT ![o] = "PENDING"] \/ Statuses' = Statuses
      /\ Paid' = Paid /\ Dated' = Dated
  <2>1. CASE inserted
    <3>1. rows' = [rows EXCEPT ![o] = NewRow]
      BY <1>1, <2>1
    <3>2. o \notin Paid /\ o \notin Dated
      BY <1>1, <1>4 DEF Paid, Dated
    <3>3. /\ Statuses' = [Statuses EXCEPT ![o] = "PENDING"]
          /\ Paid' = Paid \ {o} /\ Dated' = Dated \ {o}
      BY <1>3, <3>1, RowWritten DEF TypeOK
    <3>4. QED
      BY <3>2, <3>3
  <2>2. CASE ~inserted
    <3>1. rows' = rows
      BY <1>1, <2>2 DEF TypeOK
    <3>2. QED
      BY <3>1 DEF Statuses, Paid, Dated
  <2>3. QED
    BY <2>1, <2>2
<1>6. Record!Place(o)
  BY <1>1, <1>2, <1>5
  DEF Record!Place, Record!Set, Record!claims, Statuses, Paid, Dated, Announced, Assured
<1>7. RecordInv'
  BY <1>1 DEF RecordInv, TypeOK, NewRow
<1>8. QED
  BY <1>6, <1>7 DEF Record!Next

LEMMA DayPassesRecord ==
  ASSUME RecordInv, NEW o \in Orders, DayPasses(o)
  PROVE  Record!Next /\ RecordInv'
<1>1. Record!Age(o)
  BY DEF DayPasses, Record!Age, Record!table, Record!claims
<1>2. RecordInv'
  BY DEF DayPasses, RecordInv
<1>3. QED
  BY <1>1, <1>2 DEF Record!Next

LEMMA NotifyRecord ==
  ASSUME RecordInv, NEW k \in Notified \ {"NotifyOrderDelivered"}, NEW o \in Orders,
         Notify(k, o)
  PROVE  Record!Next /\ RecordInv'
<1>1. Record!Tell(k, o)
  <2>1. k = "NotifyOrderDispatched" => <<"NotifyOrderPaid", o>> \in told
    BY DEF Notify, Saga!MayTell, Saga!Told
  <2>2. QED
    BY <2>1 DEF Notify, Record!Tell, Record!table, Record!claims
<1>2. RecordInv'
  BY DEF Notify, RecordInv
<1>3. k \in {"NotifyOrderPaid", "NotifyOrderDispatched", "OrderFailedToBeBilled"}
  BY DEF Notified
<1>4. QED
  BY <1>1, <1>2, <1>3 DEF Record!Next

\* A save that reaches the table is a cancellation, a deletion, or the notice
\* the saga told of, on the row as it is and not as the handler had read it.
LEMMA SaveRecord ==
  ASSUME OrderingInv, NoticesInv, RecordInv, NEW h \in Slots,
         job[h].pc = "save", Allowed(h), rows[job[h].id] # NoRow,
         rows' = [rows EXCEPT ![job[h].id] = Saved(job[h].cmd, @, job[h].read)],
         UNCHANGED <<placed, late, told, cancels, Assured>>
  PROVE  Record!Next /\ RecordInv'
<1> PICK o \in Orders, cmd \in Requested \cup Notified, read \in Row :
         o = job[h].id /\ cmd = job[h].cmd /\ read = job[h].read
  BY DEF OrderingInv, TypeOK, JobsAreBacked, Backed, Job
<1> DEFINE row == rows[o]
           new == Saved(cmd, row, read)
<1>1. row \in Row /\ row.orderPaid \in BOOLEAN /\ row.canceledAt \in BOOLEAN
  BY DEF OrderingInv, TypeOK, Row
<1>2. row.status # "NoRow" /\ rows' = [rows EXCEPT ![o] = new]
  BY <1>1 DEF RecordInv
<1>3. Announced' = Announced
  BY DEF Announced
<1>4. new \in Row
  BY <1>1, SavedRow
<1>5. /\ Statuses' = [Statuses EXCEPT ![o] = new.status]
      /\ Paid' = IF new.orderPaid THEN Paid \cup {o} ELSE Paid \ {o}
      /\ Dated' = IF new.canceledAt THEN Dated \cup {o} ELSE Dated \ {o}
  BY <1>1, <1>2, <1>4, RowWritten DEF OrderingInv, TypeOK
<1>6. (o \in Paid <=> row.orderPaid) /\ (o \in Dated <=> row.canceledAt)
  BY <1>1 DEF Paid, Dated
<1>7. Statuses[o] # "NoRow" /\ Statuses[o] = row.status
  BY <1>1, <1>2 DEF Statuses
<1>8. cmd # "DeleteOrder" =>
        /\ new.status = Column(row.status, read.status, StatusSetBy[cmd])
        /\ new.orderPaid = (row.orderPaid \/ cmd = "NotifyOrderPaid")
        /\ new.canceledAt = (row.canceledAt \/ cmd = "CancelOrder")
  BY DEF Saved, Updated
<1>9. cmd = "DeleteOrder" => new = NoRow
  BY DEF Saved
<1>10. RecordInv'
  <2>1. new.status = "NoRow" => new = NoRow
    <3> SUFFICES ASSUME cmd # "DeleteOrder" PROVE new.status # "NoRow"
      BY <1>9
    <3>1. cmd \in Notified \cup {"CancelOrder"}
      BY <1>1 DEF Requested
    <3>2. StatusSetBy[cmd] # "NoRow"
      BY <3>1 DEF StatusSetBy, Notified
    <3> HIDE DEF new, row
    <3>3. QED
      BY <1>2, <1>8, <3>2 DEF Column
  <2> HIDE DEF new, row
  <2>2. QED
    BY <1>1, <1>2, <2>1 DEF RecordInv, OrderingInv, TypeOK
<1>11. cmd = "CancelOrder" => read.status = "PENDING" /\ o \notin late
  BY DEF Allowed, MayCancel
<1>12. cmd \in Notified => <<cmd, o>> \in told /\ cmd # "NotifyOrderDelivered"
  <2> SUFFICES ASSUME cmd \in Notified PROVE <<cmd, o>> \in told /\ cmd # "NotifyOrderDelivered"
    OBVIOUS
  <2>1. PICK m \in job[h].msg : Addressed(m) /\ cmd = m.kind /\ o = m.corr
    BY DEF NoticesInv, Answers
  <2>2. o = m.order
    BY <1>1, <2>1, FreshAssumption DEF Addressed
  <2>3. <<cmd, o>> \in told
    BY <2>1, <2>2 DEF Addressed
  <2>4. QED
    BY <2>3 DEF RecordInv
<1> HIDE DEF row, new
<1>14. CASE cmd = "DeleteOrder"
  <2>1. new.status = "NoRow" /\ ~new.orderPaid /\ ~new.canceledAt
    BY <1>9, <1>14 DEF NoRow
  <2>2. Statuses' = [Statuses EXCEPT ![o] = "NoRow"] /\ Paid' = Paid \ {o} /\ Dated' = Dated \ {o}
    BY <1>5, <2>1
  <2>3. Record!Delete(o)
    BY <1>3, <1>7, <2>2
    DEF Record!Delete, Record!HasRow, Record!Set, Record!claims,
        Statuses, Paid, Dated, Announced, Assured
  <2>4. QED
    BY <1>1, <1>10, <2>3 DEF Record!Next
<1>15. CASE cmd = "CancelOrder"
  <2>1. new.orderPaid = row.orderPaid /\ new.canceledAt
    BY <1>1, <1>8, <1>15
  <2> new.status = "ORDER_CANCELED"
    BY <1>8, <1>11, <1>15 DEF Column, StatusSetBy
  <2>2. /\ Statuses' = [Statuses EXCEPT ![o] = "ORDER_CANCELED"]
        /\ Paid' = Paid /\ Dated' = Dated \cup {o}
    BY <1>5, <1>6, <2>1
  <2>3. Record!Cancel(o)
    BY <1>3, <1>7, <1>11, <1>15, <2>2
    DEF Record!Cancel, Record!HasRow, Record!Set, Record!claims,
        Statuses, Paid, Dated, Announced, Assured
  <2>4. QED
    BY <1>1, <1>10, <2>3 DEF Record!Next
<1>16. ASSUME NEW k \in Notified \ {"NotifyOrderDelivered"}, cmd = k
       PROVE  Record!Notice(k, StatusSetBy[k], o)
  <2> k # "DeleteOrder" /\ k # "CancelOrder"
    BY DEF Notified
  <2> new.status = row.status \/ new.status = StatusSetBy[k]
    BY <1>8, <1>16 DEF Column
  <2>1. /\ new.orderPaid = (row.orderPaid \/ k = "NotifyOrderPaid")
        /\ new.canceledAt = row.canceledAt
    BY <1>1, <1>8, <1>16
  <2>2. Statuses' = [Statuses EXCEPT ![o] = StatusSetBy[k]] \/ Statuses' = Statuses
    BY <1>5, <1>7, <2>1 DEF Statuses
  <2>3. Paid' = (IF k = "NotifyOrderPaid" THEN Paid \cup {o} ELSE Paid) /\ Dated' = Dated
    BY <1>5, <1>6, <2>1
  <2>4. <<k, o>> \in told
    BY <1>12, <1>16
  <2>5. QED
    BY <1>3, <1>7, <2>2, <2>3, <2>4
    DEF Record!Notice, Record!HasRow, Record!Set, Record!claims,
        Statuses, Paid, Dated, Announced, Assured
<1>17. CASE cmd \in Notified
  <2>1. /\ StatusSetBy["NotifyOrderPaid"] = "ORDER_PAID"
        /\ StatusSetBy["NotifyOrderDispatched"] = "ORDER_DISPATCHED"
        /\ StatusSetBy["OrderFailedToBeBilled"] = "PENDING"
    BY DEF StatusSetBy
  <2>2. cmd \in {"NotifyOrderPaid", "NotifyOrderDispatched", "OrderFailedToBeBilled"}
    BY <1>12, <1>17 DEF Notified
  <2>3. Record!Notice(cmd, StatusSetBy[cmd], o)
    BY <1>12, <1>16, <1>17
  <2>4. QED
    BY <1>1, <1>10, <2>1, <2>2, <2>3 DEF Record!Next
<1>18. QED
  BY <1>1, <1>14, <1>15, <1>17 DEF Requested

\* A refusal promises nothing.
LEMMA RefusedAssures ==
  ASSUME NEW h \in Slots, NEW w, End(h, "refused", w)
  PROVE  Assured' = Assured
  BY DEF End, Told, Assured

\* A step that leaves the table, the news and the promises alone.
LEMMA RecordUntouched ==
  ASSUME RecordInv, UNCHANGED <<rows, placed, late, told, cancels, Assured>>
  PROVE  UNCHANGED Record!vars /\ RecordInv'
<1>1. UNCHANGED <<Statuses, Paid, Dated, Announced>>
  BY DEF Statuses, Paid, Dated, Announced
<1>2. RecordInv'
  BY DEF RecordInv
<1>3. QED
  BY <1>1, <1>2 DEF Record!vars, Record!table, Record!claims,
     Statuses, Paid, Dated, Announced, Assured

LEMMA PublishCanceledRecord ==
  ASSUME OrderingInv, RecordInv, NEW h \in Slots, PublishCanceled(h)
  PROVE  Record!Next /\ RecordInv'
<1> PICK o \in Orders : o = job[h].id
  BY DEF PublishCanceled, OrderingInv, JobsAreBacked, Backed
<1>1. o \in placed /\ Canceled(o)
  BY DEF PublishCanceled, OrderingInv, JobsAreBacked, Backed
<1>2. /\ cancels' = [cancels EXCEPT ![o] = @ + 1] /\ cancels \in [Orders -> Nat]
      /\ UNCHANGED <<rows, placed, late, told, answers>>
  BY DEF PublishCanceled, OrderingInv, TypeOK, outside
<1>3. Announced' = Announced \cup {o}
  BY <1>1, <1>2 DEF Announced
<1>4. UNCHANGED <<Statuses, Paid, Dated, Assured>>
  BY <1>2 DEF Statuses, Paid, Dated, Assured
<1>5. o \in Dated \/ Statuses[o] = "NoRow"
  BY <1>1 DEF Canceled, Dated, Statuses, NoRow
<1>6. Record!Publish(o)
  BY <1>1, <1>2, <1>3, <1>4, <1>5
  DEF Record!Publish, Record!HasRow, Record!table, Statuses, Paid, Dated, Announced, Assured
<1>7. RecordInv'
  BY <1>2 DEF RecordInv
<1>8. QED
  BY <1>6, <1>7 DEF Record!Next

LEMMA HubRecord ==
  ASSUME OrderingInv, RecordInv, NEW h \in Slots, NEW broken \in BOOLEAN, Hub(h, broken)
  PROVE  [Record!Next]_(Record!vars) /\ RecordInv'
<1>1. UNCHANGED <<rows, placed, late, told, cancels>>
  BY DEF Hub, outside
<1>2. CASE ~broken /\ job[h].cmd = "CancelOrder"
  <2>1. PICK o \in Orders : o = job[h].id /\ cancels[o] > 0
    BY <1>2 DEF Hub, OrderingInv, JobsAreBacked, Backed
  <2>2. answers' = answers \cup {<<o, "canceled", TRUE>>}
    BY <1>2, <2>1 DEF Hub, End, Told
  <2>3. Assured' = Assured \cup {o}
    BY <2>1, <2>2 DEF Assured
  <2>4. o \in Announced /\ UNCHANGED <<Statuses, Paid, Dated, Announced>>
    BY <1>1, <2>1 DEF Statuses, Paid, Dated, Announced
  <2>5. Record!Assure(o)
    BY <1>1, <2>3, <2>4
    DEF Record!Assure, Record!table, Statuses, Paid, Dated, Announced, Assured
  <2>6. RecordInv'
    BY <1>1 DEF RecordInv
  <2>7. QED
    BY <2>1, <2>5, <2>6 DEF Record!Next
<1>3. CASE broken
  BY <1>1, <1>3, RefusedAssures, RecordUntouched DEF Hub
<1>4. CASE job[h].cmd # "CancelOrder"
  <2>1. answers' = answers
    BY <1>4 DEF Hub, End, Told
  <2>2. QED
    BY <1>1, <2>1, RecordUntouched DEF Assured
<1>5. QED
  BY <1>2, <1>3, <1>4

LEMMA HandleRecord ==
  ASSUME OrderingInv, NoticesInv, RecordInv, NEW h \in Slots, Handle(h)
  PROVE  [Record!Next]_(Record!vars) /\ RecordInv'
<1>1. CASE Save(h)
  <2>1. UNCHANGED Assured
    BY <1>1 DEF Save, Assured
  <2>2. QED
    BY <1>1, <2>1, SaveRecord DEF Save, outside
<1>2. ASSUME NEW applied \in BOOLEAN, NEW broken \in BOOLEAN, SaveThrows(h, applied, broken)
      PROVE  [Record!Next]_(Record!vars) /\ RecordInv'
  <2>1. UNCHANGED Assured /\ UNCHANGED <<placed, late, told, cancels>>
    BY <1>2, RefusedAssures DEF SaveThrows, outside
  <2>2. CASE applied
    BY <1>2, <2>1, <2>2, SaveRecord DEF SaveThrows
  <2>3. CASE ~applied
    BY <1>2, <2>1, <2>3, RecordUntouched DEF SaveThrows
  <2>4. QED
    BY <2>2, <2>3
<1>3. CASE Refuse(h) \/ PublishThrows(h)
  <2>1. UNCHANGED Assured /\ UNCHANGED <<rows, placed, late, told, cancels>>
    BY <1>3, RefusedAssures DEF Refuse, PublishThrows, outside
  <2>2. QED
    BY <2>1, RecordUntouched
<1>4. CASE \/ \E m \in BagToSet(net) : Consume(h, m)
           \/ Load(h) \/ \E broken \in BOOLEAN : Abandon(h, broken)
  <2>1. UNCHANGED Assured /\ UNCHANGED <<rows, placed, late, told, cancels>>
    BY <1>4 DEF Consume, Load, Abandon, outside, Assured
  <2>2. QED
    BY <2>1, RecordUntouched
<1>5. QED
  BY <1>1, <1>2, <1>3, <1>4, PublishCanceledRecord, HubRecord DEF Handle

LEMMA RecordStep ==
  OrderingInv /\ NoticesInv /\ RecordInv /\ [Next]_vars =>
    [Record!Next]_(Record!vars) /\ RecordInv'
<1> SUFFICES ASSUME OrderingInv, NoticesInv, RecordInv, [Next]_vars
             PROVE  [Record!Next]_(Record!vars) /\ RecordInv'
  OBVIOUS
<1>1. CASE \E o \in Orders, inserted, threw \in BOOLEAN : PlaceOrder(o, inserted, threw)
  BY <1>1, PlaceOrderRecord DEF OrderingInv, NoticesInv
<1>2. CASE \E o \in Orders : DayPasses(o)
  BY <1>2, DayPassesRecord
<1>3. CASE \E o \in Orders, k \in Notified \ {"NotifyOrderDelivered"} : Notify(k, o)
  BY <1>3, NotifyRecord
<1>4. CASE \E h \in Slots : Handle(h)
  BY <1>4, HandleRecord
<1>5. CASE \/ \E o \in Orders, h \in Slots, cmd \in Requested : Request(h, cmd, o)
           \/ \E m \in BagToSet(net) : Skip(m)
           \/ Crash
           \/ UNCHANGED vars
  <2>1. UNCHANGED Assured /\ UNCHANGED <<rows, placed, late, told, cancels>>
    BY <1>5 DEF Request, Skip, Crash, vars, outside, Assured
  <2>2. QED
    BY <2>1, RecordUntouched
<1>6. QED
  BY <1>1, <1>2, <1>3, <1>4, <1>5 DEF Next

\* The handlers, which read, save and publish apart from each other, in any
\* number and with crashes and failures between their steps, change the table as
\* single commands would, one row and one command at a time.
THEOREM ImplementsTheRecord == Safety => ImplementsRecord
<1>1. Safety => []RecordInv
  BY RecordInit, RecordStep, OrderingInvariant, NoticesInvariant, PTL DEF Safety
<1>2. OrderingInv /\ NoticesInv /\ RecordInv /\ [Next]_vars => [Record!Next]_(Record!vars)
  BY RecordStep
<1>3. Init => Record!Init
  BY RecordInit
<1>4. QED
  BY <1>1, <1>2, <1>3, OrderingInvariant, NoticesInvariant, PTL
  DEF Safety, ImplementsRecord, Record!Spec
==============================================================================
