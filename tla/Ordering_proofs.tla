--------------------------- MODULE Ordering_proofs ---------------------------
(***************************************************************************)
(* Proofs about Ordering, for every set of orders and of slots, and every  *)
(* bound.                                                                  *)
(***************************************************************************)
EXTENDS Ordering, OrderEvents_proofs

(***************************************************************************)
(* The pieces a step is made of.                                           *)
(***************************************************************************)

\* What is in a queue of Ordering may be taken off it and put back.
LEMMA InboxSend ==
  ASSUME NEW B, IsABag(B), BagToSet(B) \subseteq Inbox,
         NEW S, S \subseteq Inbox
  PROVE  IsABag(Send(B, S)) /\ BagToSet(Send(B, S)) \subseteq Inbox
  BY SendBag

LEMMA InboxReplace ==
  ASSUME NEW B, IsABag(B), BagToSet(B) \subseteq Inbox, NEW m
  PROVE  IsABag(Replace(B, m, {})) /\ BagToSet(Replace(B, m, {})) \subseteq Inbox
  BY ReplaceBag

\* A redelivery of a message of Ordering is one.
LEMMA Redelivered ==
  ASSUME NEW m \in Inbox, NEW n \in 0..Retries
  PROVE  [m EXCEPT !.tries = n] \in Inbox
  BY DEF Inbox, Message

LEMMA IdleIsJob == Idle \in Job
  BY DEF Idle, Job, NoRow, Row

\* A save leaves a row, and one that was canceled stays so unless deleted.
LEMMA SavedRow ==
  ASSUME NEW cmd \in (Requested \cup Notified), NEW row \in Row, NEW read \in Row
  PROVE  /\ Saved(cmd, row, read) \in Row
         /\ row.canceledAt => \/ Saved(cmd, row, read).canceledAt
                              \/ Saved(cmd, row, read) = NoRow
         /\ cmd = "CancelOrder" => Saved(cmd, row, read).canceledAt
<1>1. CASE cmd = "DeleteOrder"
  BY <1>1 DEF Saved, NoRow, Row
<1>2. CASE cmd # "DeleteOrder"
  <2>1. StatusSetBy[cmd] \in OrderStatus
    BY <1>2 DEF Requested, Notified, StatusSetBy, OrderStatus
  <2>2. Saved(cmd, row, read) = Updated(row, cmd, read)
    BY <1>2 DEF Saved
  <2>3. Column(row.status, read.status, StatusSetBy[cmd]) \in OrderStatus \cup {"NoRow"}
    BY <2>1 DEF Column, Row
  <2>4. row.orderPaid \in BOOLEAN /\ row.canceledAt \in BOOLEAN
    BY DEF Row
  <2>5. Updated(row, cmd, read) \in Row
    BY <2>3, <2>4, ZenonT(30) DEF Updated, Row
  <2>6. Updated(row, cmd, read).canceledAt = (row.canceledAt \/ cmd = "CancelOrder")
    BY DEF Updated
  <2>7. QED
    BY <2>2, <2>5, <2>6
<1>3. QED
  BY <1>1, <1>2

\* A job that goes on in another phase, or ends, is a job.
LEMMA JobMoves ==
  ASSUME TypeOK, NEW h \in Slots, NEW pc \in {"load", "save", "publish", "hub"}
  PROVE  /\ [job EXCEPT ![h].pc = pc] \in [Slots -> Job]
         /\ [job EXCEPT ![h].wrote = TRUE, ![h].pc = pc] \in [Slots -> Job]
         /\ \A r \in Row : [job EXCEPT ![h].pc = pc, ![h].read = r] \in [Slots -> Job]
         /\ [job EXCEPT ![h] = Idle] \in [Slots -> Job]
<1>1. job \in [Slots -> Job] /\ job[h] \in Job /\ Idle \in Job
  BY IdleIsJob DEF TypeOK
<1>2. /\ [job[h] EXCEPT !.pc = pc] \in Job
      /\ [job[h] EXCEPT !.wrote = TRUE, !.pc = pc] \in Job
      /\ \A r \in Row : [job[h] EXCEPT !.pc = pc, !.read = r] \in Job
  BY <1>1 DEF Job
<1>3. QED
  BY <1>1, <1>2

LEMMA JobStarts ==
  ASSUME TypeOK, NEW h \in Slots, NEW cmd \in (Requested \cup Notified),
         NEW id \in (Orders \cup {Fresh}), NEW msg \in SUBSET Inbox,
         Start(h, cmd, id, msg)
  PROVE  job' \in [Slots -> Job]
<1>1. [Idle EXCEPT !.pc = "load", !.cmd = cmd, !.id = id, !.msg = msg] \in Job
  BY IdleIsJob DEF Job
<1>2. QED
  BY <1>1 DEF Start, TypeOK

LEMMA EndTypes ==
  ASSUME TypeOK, NEW h \in Slots, NEW answer \in {"canceled", "refused"},
         NEW w \in BOOLEAN, End(h, answer, w),
         job[h].cmd = "CancelOrder" => job[h].id \in Orders
  PROVE  /\ job' \in [Slots -> Job]
         /\ answers' \subseteq Orders \X {"canceled", "refused"} \X BOOLEAN
<1>1. job' \in [Slots -> Job]
  BY JobMoves DEF End
<1>2. Told(h, answer, w) \subseteq Orders \X {"canceled", "refused"} \X BOOLEAN
  BY DEF Told
<1>3. QED
  BY <1>1, <1>2 DEF End, TypeOK

LEMMA FailsType ==
  ASSUME TypeOK, NEW n \in {0, 1}, Fails(n)
  PROVE  failures' \in 0..MaxFailures
  BY BoundAssumption DEF Fails, TypeOK

(***************************************************************************)
(* What a step keeps.                                                      *)
(***************************************************************************)

\* Orders stay placed, events stay published, cancellations stay in the rows.
Kept ==
  /\ placed \subseteq placed'
  /\ \A o \in Orders : cancels[o] > 0 => cancels'[o] > 0
  /\ \A o \in placed : Canceled(o) => Canceled(o)'

LEMMA KeptBacks ==
  ASSUME TypeOK, Kept, NEW j, Backed(j)
  PROVE  Backed(j)'
  BY DEF Kept, Backed, TypeOK

\* Only the job that changed has to be looked at.
LEMMA JobsKept ==
  ASSUME OrderingInv, Kept, NEW h \in Slots,
         \A g \in Slots \ {h} : job'[g] = job[g],
         Backed(job[h])'
  PROVE  JobsAreBacked'
<1>1. ASSUME NEW g \in Slots \ {h} PROVE Backed(job[g])'
  <2>1. \A j : Backed(j) => Backed(j)'
    BY KeptBacks DEF OrderingInv
  <2>2. Backed(job[g])
    BY DEF OrderingInv, JobsAreBacked
  <2>3. QED
    BY <1>1, <2>1, <2>2 DEF Backed
<1>2. QED
  BY <1>1 DEF JobsAreBacked

LEMMA JobsUntouched ==
  ASSUME OrderingInv, Kept, UNCHANGED job
  PROVE  JobsAreBacked'
<1>1. ASSUME NEW g \in Slots PROVE Backed(job[g])'
  <2>1. \A j : Backed(j) => Backed(j)'
    BY KeptBacks DEF OrderingInv
  <2>2. Backed(job[g])
    BY DEF OrderingInv, JobsAreBacked
  <2>3. QED
    BY <2>1, <2>2 DEF Backed
<1>2. QED
  BY <1>1 DEF JobsAreBacked

LEMMA AnswersKept ==
  ASSUME OrderingInv, Kept, UNCHANGED answers
  PROVE  AnswersAreTrue'
  BY DEF OrderingInv, AnswersAreTrue, Kept

\* An idle job has nothing to back.
LEMMA IdleBacked == Backed(Idle)
  BY DEF Backed, Idle

\* A job that ends leaves an answer its phase backs.
LEMMA EndKeeps ==
  ASSUME OrderingInv, TypeOK', Kept, NEW h \in Slots,
         NEW answer \in {"canceled", "refused"}, NEW w \in BOOLEAN,
         End(h, answer, w),
         answer = "canceled" => job[h].pc = "hub"
  PROVE  JobsAreBacked' /\ AnswersAreTrue'
<1>1. job \in [Slots -> Job]
  BY DEF OrderingInv, TypeOK
<1>2. job' = [job EXCEPT ![h] = Idle]
  BY DEF End
<1>3. Backed(job[h])'
  BY <1>1, <1>2 DEF Backed, Idle
<1>4. JobsAreBacked'
  <2>1. \A g \in Slots \ {h} : job'[g] = job[g]
    BY <1>1, <1>2
  <2>2. QED
    BY <1>3, <2>1, JobsKept
<1>5. AnswersAreTrue'
  <2> SUFFICES ASSUME NEW o \in Orders, NEW v \in BOOLEAN,
                      <<o, "canceled", v>> \in answers'
               PROVE  o \in placed' /\ cancels'[o] > 0 /\ Canceled(o)'
    BY DEF AnswersAreTrue
  <2>1. CASE <<o, "canceled", v>> \in answers
    BY <2>1 DEF OrderingInv, AnswersAreTrue, Kept
  <2>2. CASE <<o, "canceled", v>> \in Told(h, answer, w)
    <3>1. job[h].cmd = "CancelOrder" /\ job[h].id = o /\ answer = "canceled"
      BY <2>2 DEF Told
    <3>2. Backed(job[h]) /\ job[h].pc = "hub"
      BY <3>1 DEF OrderingInv, JobsAreBacked
    <3>3. QED
      BY <3>1, <3>2 DEF Backed, Kept
  <2>3. QED
    BY <2>1, <2>2 DEF End
<1>6. QED
  BY <1>4, <1>5

(***************************************************************************)
(* The invariant, action by action.                                        *)
(***************************************************************************)
LEMMA OrderingInvInit == Init => OrderingInv
<1> SUFFICES ASSUME Init PROVE OrderingInv
  OBVIOUS
<1>1. IsABag(net) /\ BagToSet(net) = {}
  BY DEF Init, EmptyBag, SetToBag, BagToSet, IsABag
<1>2. TypeOK
  BY <1>1, IdleIsJob, BoundAssumption DEF Init, TypeOK, NoRow, Row
<1>3. JobsAreBacked
  BY DEF Init, JobsAreBacked, Backed, Idle
<1>4. AnswersAreTrue
  BY DEF Init, AnswersAreTrue
<1>5. QED
  BY <1>2, <1>3, <1>4 DEF OrderingInv

LEMMA PlaceOrderInv ==
  ASSUME OrderingInv, NEW o \in Orders, NEW inserted \in BOOLEAN,
         NEW threw \in BOOLEAN, PlaceOrder(o, inserted, threw)
  PROVE  OrderingInv'
<1>1. TypeOK
  BY DEF OrderingInv
<1>2. rows' \in [Orders -> Row]
  BY <1>1 DEF PlaceOrder, TypeOK, NewRow, Row, OrderStatus
<1>3. failures' \in 0..MaxFailures
  BY <1>1, FailsType DEF PlaceOrder
<1>4. TypeOK'
  BY <1>1, <1>2, <1>3 DEF PlaceOrder, TypeOK, traces
<1>5. Kept
  BY <1>1 DEF PlaceOrder, Kept, Canceled, TypeOK
<1>6. JobsAreBacked' /\ AnswersAreTrue'
  BY <1>5, JobsUntouched, AnswersKept DEF PlaceOrder
<1>7. QED
  BY <1>4, <1>6 DEF OrderingInv

LEMMA DayPassesInv ==
  ASSUME OrderingInv, NEW o \in Orders, DayPasses(o)
  PROVE  OrderingInv'
<1>1. TypeOK'
  BY DEF OrderingInv, DayPasses, TypeOK, traces
<1>2. Kept
  BY DEF DayPasses, Kept, Canceled
<1>3. QED
  BY <1>1, <1>2, JobsUntouched, AnswersKept DEF OrderingInv, DayPasses

LEMMA NotifyInv ==
  ASSUME OrderingInv, NEW k \in Notified, NEW o \in Orders, Notify(k, o)
  PROVE  OrderingInv'
<1> DEFINE c   == IF o \in SameId THEN o ELSE Fresh
           out == Publish(k, o, c, TRUE)
<1>1. out \subseteq Inbox
  <2>1. k \in Kinds /\ c \in Orders \cup {Fresh} /\ TRUE \in BOOLEAN
    BY DEF Notified, Kinds
  <2> HIDE DEF c
  <2>2. out \subseteq {n \in Message : n.kind = k}
    BY <2>1, PublishType
  <2>3. QED
    BY <2>2 DEF Inbox
<1>2. net' = Send(net, out)
  BY DEF Notify
<1> HIDE DEF out
<1>3. IsABag(net') /\ BagToSet(net') \subseteq Inbox
  BY <1>1, <1>2, InboxSend DEF OrderingInv, TypeOK
<1>4. TypeOK'
  <2>1. told' \subseteq Notified \X Orders
    BY DEF OrderingInv, Notify, TypeOK
  <2>2. crashes' \in 0..MaxCrashes
    <3>1. crashes \in 0..MaxCrashes /\ MaxCrashes \in Nat
      BY BoundAssumption DEF OrderingInv, TypeOK
    <3>2. crashes' \in {crashes, crashes + 1} /\ crashes' <= MaxCrashes
      BY <3>1 DEF Notify
    <3>3. QED
      BY <3>1, <3>2
  <2>3. QED
    BY <1>3, <2>1, <2>2 DEF OrderingInv, Notify, TypeOK, traces
<1>5. Kept
  BY DEF Notify, Kept, Canceled
<1>6. QED
  BY <1>4, <1>5, JobsUntouched, AnswersKept DEF OrderingInv, Notify

LEMMA RequestInv ==
  ASSUME OrderingInv, NEW h \in Slots, NEW cmd \in Requested, NEW o \in Orders,
         Request(h, cmd, o)
  PROVE  OrderingInv'
<1>1. TypeOK /\ Start(h, cmd, o, {})
  BY DEF OrderingInv, Request
<1>2. job' \in [Slots -> Job]
  BY <1>1, JobStarts
<1>3. TypeOK'
  BY <1>1, <1>2, BoundAssumption DEF Request, TypeOK, outside, traces
<1>4. Kept
  BY DEF Request, Kept, Canceled, outside
<1>5. Backed(job[h])'
  BY <1>1 DEF Request, Requested, Start, TypeOK, Backed, Idle, outside
<1>6. \A g \in Slots \ {h} : job'[g] = job[g]
  BY <1>1 DEF Start, TypeOK
<1>7. QED
  BY <1>3, <1>4, <1>5, <1>6, JobsKept, AnswersKept DEF OrderingInv, Request

LEMMA ConsumeInv ==
  ASSUME OrderingInv, NEW h \in Slots, NEW m \in BagToSet(net), Consume(h, m)
  PROVE  OrderingInv'
<1>1. TypeOK /\ Start(h, m.kind, CommandId(m), {m})
  BY DEF OrderingInv, Consume
<1>2. m \in Inbox /\ m.kind \in Notified /\ CommandId(m) \in Orders \cup {Fresh}
  BY <1>1 DEF TypeOK, Inbox, Message, CommandId
<1>3. job' \in [Slots -> Job]
  BY <1>1, <1>2, JobStarts
<1>4. IsABag(net') /\ BagToSet(net') \subseteq Inbox
  BY <1>1, InboxReplace DEF Consume, TypeOK
<1>5. TypeOK'
  BY <1>1, <1>3, <1>4 DEF Consume, TypeOK, outside, traces
<1>6. Kept
  BY DEF Consume, Kept, Canceled, outside
<1>7. Backed(job[h])'
  BY <1>1, <1>2 DEF Start, TypeOK, Backed, Idle, Notified
<1>8. \A g \in Slots \ {h} : job'[g] = job[g]
  BY <1>1 DEF Start, TypeOK
<1>9. QED
  BY <1>5, <1>6, <1>7, <1>8, JobsKept, AnswersKept DEF OrderingInv, Consume

LEMMA SkipInv ==
  ASSUME OrderingInv, NEW m \in BagToSet(net), Skip(m)
  PROVE  OrderingInv'
<1>1. TypeOK /\ m \in Message
  BY DEF OrderingInv, TypeOK, Inbox
<1>2. IsABag(net') /\ BagToSet(net') \subseteq Inbox
  BY <1>1, InboxReplace DEF Skip, TypeOK
<1>3. failures' \in 0..MaxFailures
  BY <1>1, FailsType DEF Skip
<1>4. TypeOK'
  BY <1>1, <1>2, <1>3 DEF Skip, TypeOK, outside, Message
<1>5. Kept
  BY DEF Skip, Kept, Canceled, outside
<1>6. QED
  BY <1>4, <1>5, JobsUntouched, AnswersKept DEF OrderingInv, Skip

LEMMA LoadInv ==
  ASSUME OrderingInv, NEW h \in Slots, Load(h)
  PROVE  OrderingInv'
<1> DEFINE j == job[h]
<1>1. TypeOK /\ j \in Job /\ Backed(j)
  BY DEF OrderingInv, TypeOK, JobsAreBacked
<1>2. j.id \in Orders /\ Stored(j.id) \in Row
  BY <1>1 DEF Load, Stored, TypeOK
<1>3. job' = [job EXCEPT ![h].pc = "save", ![h].read = Stored(j.id)]
  BY DEF Load
<1>4. job' \in [Slots -> Job]
  BY <1>1, <1>2, <1>3, JobMoves
<1>5. TypeOK'
  BY <1>1, <1>4 DEF Load, TypeOK, outside, traces
<1>6. Kept
  BY DEF Load, Kept, Canceled, outside
<1>7. Backed(job[h])'
  BY <1>1, <1>2, <1>3 DEF Load, TypeOK, Backed, outside
<1>8. \A g \in Slots \ {h} : job'[g] = job[g]
  BY <1>1, <1>3 DEF TypeOK
<1>9. QED
  BY <1>5, <1>6, <1>7, <1>8, JobsKept, AnswersKept DEF OrderingInv, Load

LEMMA AbandonInv ==
  ASSUME OrderingInv, NEW h \in Slots, NEW broken \in BOOLEAN, Abandon(h, broken)
  PROVE  OrderingInv'
<1> DEFINE again == {m \in job[h].msg : m.tries < Retries}
           back  == {[m EXCEPT !.tries = @ + 1] : m \in again}
           aside == {<<m.queue, m.kind, m.order>> : m \in job[h].msg \ again}
<1>1. TypeOK /\ job[h] \in Job /\ job[h].msg \subseteq Inbox
  BY DEF OrderingInv, TypeOK, Job
<1>2. back \subseteq Inbox
  <2>1. ASSUME NEW m \in again PROVE [m EXCEPT !.tries = @ + 1] \in Inbox
    <3>1. m \in Inbox /\ m.tries \in 0..Retries /\ m.tries < Retries
      BY <1>1 DEF Inbox, Message
    <3>2. m.tries + 1 \in 0..Retries
      BY <3>1, RetriesAssumption
    <3>3. QED
      BY <3>1, <3>2, Redelivered
  <2>2. QED
    BY <2>1
<1>3. aside \subseteq Queues \X Kinds \X Orders
  BY <1>1 DEF Inbox, Message
<1>4. /\ net' = Send(net, back) /\ errorQueue' = errorQueue \cup aside
      /\ job' = [job EXCEPT ![h] = Idle]
      /\ Fails(IF broken THEN 1 ELSE 0)
      /\ UNCHANGED <<rows, outside, cancels, answers, skipped, requests, crashes>>
  BY DEF Abandon
<1> HIDE DEF back, aside
<1>5. IsABag(net') /\ BagToSet(net') \subseteq Inbox
  BY <1>1, <1>2, <1>4, InboxSend DEF TypeOK
<1>6. job' \in [Slots -> Job] /\ failures' \in 0..MaxFailures
  BY <1>1, <1>4, JobMoves, FailsType
<1>7. TypeOK'
  BY <1>1, <1>3, <1>4, <1>5, <1>6 DEF TypeOK, outside
<1>8. Kept
  BY <1>4 DEF Kept, Canceled, outside
<1>9. Backed(job[h])' /\ \A g \in Slots \ {h} : job'[g] = job[g]
  BY <1>1, <1>4 DEF TypeOK, Backed, Idle
<1>10. QED
  BY <1>4, <1>7, <1>8, <1>9, JobsKept, AnswersKept DEF OrderingInv

LEMMA RefuseInv ==
  ASSUME OrderingInv, NEW h \in Slots, Refuse(h)
  PROVE  OrderingInv'
<1>1. TypeOK /\ Backed(job[h]) /\ End(h, "refused", FALSE) /\ job[h].pc = "save"
  BY DEF OrderingInv, JobsAreBacked, Refuse
<1>2. /\ job' \in [Slots -> Job]
      /\ answers' \subseteq Orders \X {"canceled", "refused"} \X BOOLEAN
  BY <1>1, EndTypes DEF Backed
<1>3. TypeOK'
  BY <1>1, <1>2 DEF Refuse, TypeOK, outside, traces
<1>4. Kept
  BY DEF Refuse, Kept, Canceled, outside
<1>5. QED
  BY <1>1, <1>3, <1>4, EndKeeps DEF OrderingInv

\* A handler that is about to save holds a command and the row it loaded.
LEMMA SaveRow ==
  ASSUME OrderingInv, NEW h \in Slots, job[h].pc = "save",
         rows[job[h].id] # NoRow,
         rows' = [rows EXCEPT ![job[h].id] = Saved(job[h].cmd, @, job[h].read)],
         UNCHANGED <<placed, cancels>>
  PROVE  /\ rows' \in [Orders -> Row]
         /\ Kept
         /\ job[h].id \in Orders
         /\ job[h].cmd = "CancelOrder" => rows'[job[h].id].canceledAt
<1> DEFINE id == job[h].id  cmd == job[h].cmd  read == job[h].read
<1>1. /\ rows \in [Orders -> Row] /\ id \in Orders
      /\ cmd \in Requested \cup Notified /\ read \in Row
  BY DEF OrderingInv, TypeOK, Job, JobsAreBacked, Backed
<1> HIDE DEF id, cmd, read
<1>2. rows' = [rows EXCEPT ![id] = Saved(cmd, rows[id], read)]
  BY DEF id, cmd, read
<1>3. /\ Saved(cmd, rows[id], read) \in Row
      /\ rows[id].canceledAt => \/ Saved(cmd, rows[id], read).canceledAt
                                \/ Saved(cmd, rows[id], read) = NoRow
      /\ cmd = "CancelOrder" => Saved(cmd, rows[id], read).canceledAt
  BY <1>1, SavedRow
<1>4. rows' \in [Orders -> Row]
  BY <1>1, <1>2, <1>3
<1>5. rows[id] # NoRow
  BY DEF id
<1>6. Kept
  BY <1>1, <1>2, <1>3, <1>5 DEF Kept, Canceled
<1>7. cmd = "CancelOrder" => rows'[id].canceledAt
  BY <1>1, <1>2, <1>3
<1>8. QED
  BY <1>1, <1>4, <1>6, <1>7 DEF id, cmd

LEMMA SaveInv ==
  ASSUME OrderingInv, NEW h \in Slots, Save(h)
  PROVE  OrderingInv'
<1> DEFINE pc == IF job[h].cmd = "CancelOrder" THEN "publish" ELSE "hub"
<1>1. /\ TypeOK /\ job[h].pc = "save" /\ rows[job[h].id] # NoRow
      /\ rows' = [rows EXCEPT ![job[h].id] = Saved(job[h].cmd, @, job[h].read)]
      /\ UNCHANGED <<net, placed, late, told, cancels, answers, errorQueue,
                     skipped, requests, failures, crashes>>
  BY DEF Save, OrderingInv, outside, traces
<1>2. /\ rows' \in [Orders -> Row] /\ Kept /\ job[h].id \in Orders
      /\ job[h].cmd = "CancelOrder" => rows'[job[h].id].canceledAt
  BY <1>1, SaveRow
<1>3. job' = [job EXCEPT ![h].wrote = TRUE, ![h].pc = pc]
  BY DEF Save
<1>4. pc \in {"load", "save", "publish", "hub"}
  OBVIOUS
<1> HIDE DEF pc
<1>5. job' \in [Slots -> Job]
  BY <1>1, <1>3, <1>4, JobMoves
<1>6. TypeOK'
  BY <1>1, <1>2, <1>5 DEF TypeOK
<1>7. Backed(job[h])'
  <2>1. Backed(job[h]) /\ job \in [Slots -> Job]
    BY DEF OrderingInv, JobsAreBacked, TypeOK
  <2>2. /\ job'[h].pc = pc /\ job'[h].cmd = job[h].cmd /\ job'[h].id = job[h].id
    BY <1>3, <2>1 DEF Job
  <2>3. job[h].cmd = "CancelOrder" => pc = "publish"
    BY DEF pc
  <2>4. job[h].cmd # "CancelOrder" => pc = "hub"
    BY DEF pc
  <2>5. QED
    BY <1>1, <1>2, <2>1, <2>2, <2>3, <2>4 DEF Backed, Canceled
<1>8. \A g \in Slots \ {h} : job'[g] = job[g]
  BY <1>1, <1>3 DEF TypeOK
<1>9. QED
  BY <1>1, <1>2, <1>6, <1>7, <1>8, JobsKept, AnswersKept DEF OrderingInv

LEMMA SaveThrowsInv ==
  ASSUME OrderingInv, NEW h \in Slots, NEW applied \in BOOLEAN,
         NEW broken \in BOOLEAN, SaveThrows(h, applied, broken)
  PROVE  OrderingInv'
<1>1. /\ TypeOK /\ Backed(job[h]) /\ job[h].pc = "save"
      /\ End(h, "refused", applied) /\ Fails(IF broken THEN 1 ELSE 0)
      /\ UNCHANGED <<net, placed, late, told, cancels, errorQueue, skipped,
                     requests, crashes>>
  BY DEF SaveThrows, OrderingInv, JobsAreBacked, outside, traces
<1>2. rows' \in [Orders -> Row] /\ Kept
  <2>1. CASE applied
    <3>1. /\ rows[job[h].id] # NoRow
          /\ rows' = [rows EXCEPT ![job[h].id] = Saved(job[h].cmd, @, job[h].read)]
      BY <2>1 DEF SaveThrows
    <3>2. QED
      BY <1>1, <3>1, SaveRow
  <2>2. CASE ~applied
    BY <1>1, <2>2 DEF SaveThrows, TypeOK, Kept, Canceled
  <2>3. QED
    BY <2>1, <2>2
<1>3. /\ job' \in [Slots -> Job]
      /\ answers' \subseteq Orders \X {"canceled", "refused"} \X BOOLEAN
  BY <1>1, EndTypes DEF Backed
<1>4. failures' \in 0..MaxFailures
  BY <1>1, FailsType
<1>5. TypeOK'
  BY <1>1, <1>2, <1>3, <1>4 DEF TypeOK
<1>6. QED
  BY <1>1, <1>2, <1>5, EndKeeps DEF OrderingInv

LEMMA PublishCanceledInv ==
  ASSUME OrderingInv, NEW h \in Slots, PublishCanceled(h)
  PROVE  OrderingInv'
<1>1. /\ TypeOK /\ Backed(job[h]) /\ job[h].pc = "publish"
      /\ job[h].id \in Orders /\ job[h].cmd = "CancelOrder"
      /\ job' = [job EXCEPT ![h].pc = "hub"]
      /\ cancels' = [cancels EXCEPT ![job[h].id] = cancels[job[h].id] + 1]
      /\ UNCHANGED <<net, rows, placed, late, told, answers, errorQueue, skipped,
                     requests, failures, crashes>>
  BY DEF PublishCanceled, OrderingInv, JobsAreBacked, Backed, outside, traces
<1>2. job' \in [Slots -> Job]
  BY <1>1, JobMoves
<1>3. TypeOK'
  BY <1>1, <1>2 DEF TypeOK
<1>4. Kept
  BY <1>1 DEF TypeOK, Kept, Canceled
<1>5. Backed(job[h])'
  BY <1>1 DEF TypeOK, Backed, Canceled
<1>6. \A g \in Slots \ {h} : job'[g] = job[g]
  BY <1>1 DEF TypeOK
<1>7. QED
  BY <1>1, <1>3, <1>4, <1>5, <1>6, JobsKept, AnswersKept DEF OrderingInv

LEMMA PublishThrowsInv ==
  ASSUME OrderingInv, NEW h \in Slots, PublishThrows(h)
  PROVE  OrderingInv'
<1>1. /\ TypeOK /\ Backed(job[h]) /\ job[h].pc = "publish"
      /\ End(h, "refused", TRUE) /\ Fails(1)
      /\ UNCHANGED <<net, rows, placed, late, told, cancels, errorQueue, skipped,
                     requests, crashes>>
  BY DEF PublishThrows, OrderingInv, JobsAreBacked, outside, traces
<1>2. /\ job' \in [Slots -> Job]
      /\ answers' \subseteq Orders \X {"canceled", "refused"} \X BOOLEAN
  BY <1>1, EndTypes DEF Backed
<1>3. failures' \in 0..MaxFailures
  BY <1>1, FailsType
<1>4. TypeOK'
  BY <1>1, <1>2, <1>3 DEF TypeOK
<1>5. Kept
  BY <1>1 DEF Kept, Canceled
<1>6. QED
  BY <1>1, <1>4, <1>5, EndKeeps DEF OrderingInv

LEMMA HubInv ==
  ASSUME OrderingInv, NEW h \in Slots, NEW broken \in BOOLEAN, Hub(h, broken)
  PROVE  OrderingInv'
<1> DEFINE answer == IF broken THEN "refused" ELSE "canceled"
<1>1. /\ TypeOK /\ Backed(job[h]) /\ job[h].pc = "hub"
      /\ End(h, answer, TRUE) /\ Fails(IF broken THEN 1 ELSE 0)
      /\ UNCHANGED <<net, rows, placed, late, told, cancels, errorQueue, skipped,
                     requests, crashes>>
  BY DEF Hub, OrderingInv, JobsAreBacked, outside, traces
<1>2. answer \in {"canceled", "refused"}
  OBVIOUS
<1> HIDE DEF answer
<1>3. /\ job' \in [Slots -> Job]
      /\ answers' \subseteq Orders \X {"canceled", "refused"} \X BOOLEAN
  BY <1>1, <1>2, EndTypes DEF Backed
<1>4. failures' \in 0..MaxFailures
  BY <1>1, FailsType
<1>5. TypeOK'
  BY <1>1, <1>3, <1>4 DEF TypeOK
<1>6. Kept
  BY <1>1 DEF Kept, Canceled
<1>7. QED
  BY <1>1, <1>2, <1>5, <1>6, EndKeeps DEF OrderingInv

LEMMA CrashInv ==
  ASSUME OrderingInv, Crash
  PROVE  OrderingInv'
<1> DEFINE back == {[m EXCEPT !.tries = 0] : m \in UNION {job[h].msg : h \in Slots}}
<1>1. /\ TypeOK /\ net' = Send(net, back) /\ job' = [h \in Slots |-> Idle]
      /\ crashes < MaxCrashes /\ crashes' = crashes + 1
      /\ UNCHANGED <<rows, placed, late, told, cancels, answers, errorQueue,
                     skipped, requests, failures>>
  BY DEF Crash, OrderingInv, outside, traces
<1>2. back \subseteq Inbox
  <2>1. ASSUME NEW m \in UNION {job[h].msg : h \in Slots}
        PROVE  [m EXCEPT !.tries = 0] \in Inbox
    <3>1. m \in Inbox
      BY <1>1 DEF TypeOK, Job
    <3>2. 0 \in 0..Retries
      BY RetriesAssumption
    <3>3. QED
      BY <3>1, <3>2, Redelivered
  <2>2. QED
    BY <2>1
<1> HIDE DEF back
<1>3. IsABag(net') /\ BagToSet(net') \subseteq Inbox
  BY <1>1, <1>2, InboxSend DEF TypeOK
<1>4. TypeOK'
  BY <1>1, <1>3, IdleIsJob, BoundAssumption DEF TypeOK
<1>5. Kept
  BY <1>1 DEF Kept, Canceled
<1>6. JobsAreBacked'
  BY <1>1 DEF JobsAreBacked, Backed, Idle
<1>7. QED
  BY <1>1, <1>4, <1>5, <1>6, AnswersKept DEF OrderingInv

LEMMA OrderingInvStep == OrderingInv /\ [Next]_vars => OrderingInv'
<1> SUFFICES ASSUME OrderingInv, [Next]_vars PROVE OrderingInv'
  OBVIOUS
<1>1. CASE UNCHANGED vars
  <2>1. Kept
    BY <1>1 DEF vars, outside, Kept, Canceled
  <2>2. TypeOK'
    BY <1>1 DEF vars, outside, traces, OrderingInv, TypeOK
  <2>3. QED
    BY <1>1, <2>1, <2>2, JobsUntouched, AnswersKept DEF OrderingInv, vars
<1>2. CASE \E h \in Slots : Handle(h)
  BY <1>2, ConsumeInv, LoadInv, RefuseInv, SaveInv, PublishCanceledInv,
     PublishThrowsInv, AbandonInv, SaveThrowsInv, HubInv DEF Handle
<1>3. CASE \E o \in Orders :
             \/ \E inserted, threw \in BOOLEAN : PlaceOrder(o, inserted, threw)
             \/ DayPasses(o)
             \/ \E k \in Notified \ {"NotifyOrderDelivered"} : Notify(k, o)
             \/ \E h \in Slots, cmd \in Requested : Request(h, cmd, o)
  BY <1>3, PlaceOrderInv, DayPassesInv, NotifyInv, RequestInv
<1>4. QED
  BY <1>1, <1>2, <1>3, SkipInv, CrashInv DEF Next

(***************************************************************************)
(* Theorems.                                                               *)
(***************************************************************************)

\* The inductive invariant holds in every reachable state.
THEOREM OrderingInvariant == Safety => []OrderingInv
BY OrderingInvInit, OrderingInvStep, PTL DEF Safety

\* Every variable keeps its type, the messages of the queues and of the handlers
\* included (the entities and commands of Ordering).
THEOREM TypeCorrect == Safety => []TypeOK
<1>1. OrderingInv => TypeOK
  BY DEF OrderingInv
<1>2. QED
  BY <1>1, OrderingInvariant, PTL

\* A cancel request told of success has its cancellation in the table and its
\* event published, whatever other handlers of the order do.
THEOREM AnswersTrue == Safety => []AnswersAreTrue
<1>1. OrderingInv => AnswersAreTrue
  BY DEF OrderingInv
<1>2. QED
  BY <1>1, OrderingInvariant, PTL

\* A row is written only where one is, or where its order was never placed.
LEMMA DeletedStep ==
  ASSUME OrderingInv, [Next]_vars, NEW o \in placed, rows[o] = NoRow
  PROVE  rows'[o] = NoRow
<1>1. rows \in [Orders -> Row] /\ o \in Orders
  BY DEF OrderingInv, TypeOK
<1>2. CASE \E p \in Orders, inserted, threw \in BOOLEAN : PlaceOrder(p, inserted, threw)
  BY <1>1, <1>2 DEF PlaceOrder
<1>3. CASE \E h \in Slots : Save(h)
  BY <1>1, <1>3 DEF Save
<1>4. CASE \E h \in Slots, applied, broken \in BOOLEAN : SaveThrows(h, applied, broken)
  BY <1>1, <1>4 DEF SaveThrows
<1>5. CASE UNCHANGED rows
  BY <1>5
<1>6. QED
  BY <1>2, <1>3, <1>4, <1>5
  DEF Next, vars, Handle, DayPasses, Notify, Request, Consume, Skip, Load,
      Abandon, Refuse, PublishCanceled, PublishThrows, Hub, Crash

\* No handler brings a deleted order back, however old the row it holds.
THEOREM DeletedStays == Safety => DeletedStaysDeleted
<1>1. OrderingInv /\ [Next]_vars =>
        [\A o \in placed : rows[o] = NoRow => rows'[o] = NoRow]_vars
  BY DeletedStep
<1>2. QED
  BY <1>1, OrderingInvariant, PTL DEF Safety, DeletedStaysDeleted
==============================================================================
