------------------------------- MODULE Ordering -------------------------------
(***************************************************************************)
(* The Ordering service: the rows of the Orders table, and the command     *)
(* handlers that read a row, change it in memory and save it, on behalf of *)
(* HTTP requests and of the notifications the saga's consumers publish.    *)
(*                                                                         *)
(* A handler awaits between its read and its save, and no column of the    *)
(* row is a concurrency token: two handlers of one order interleave, and   *)
(* SaveChanges writes the columns its own handler changed, nothing else.   *)
(*                                                                         *)
(* What may fail costs one of MaxFailures (the token validation, a query,  *)
(* SaveChanges after all retries of the connection, the publish of an      *)
(* event, the SignalR hub) or one of MaxCrashes (the process is lost, or   *)
(* one of the saga's, which then notifies twice).                          *)
(***************************************************************************)
EXTENDS OrderEvents

CONSTANTS
  SameId,       \* orders whose saga runs under the order's own id
  Slots,        \* handlers that can run at the same time
  MaxRequests,  \* bound on cancel and delete requests
  MaxFailures,  \* bound on failed external calls
  MaxCrashes    \* bound on crashes, of the service and of what notifies it

ASSUME SameIdAssumption == SameId \subseteq Orders
ASSUME BoundAssumption  ==
  MaxRequests \in Nat /\ MaxFailures \in Nat /\ MaxCrashes \in Nat

VARIABLES
  net,         \* the bag of messages in the queues of Ordering
  rows,        \* the Orders table
  placed,      \* orders that PlaceOrder answered or failed to insert
  late,        \* orders placed more than 24 hours ago
  job,         \* the handler each slot runs
  told,        \* notifications published so far: <<kind, order>>
  cancels,     \* how often OrderCanceled was published for the order
  answers,     \* what cancel requests were told: <<order, answer, saved>>
  errorQueue,  \* messages moved to an _error queue: <<queue, kind, order>>
  skipped,     \* consumers that returned on a token: <<kind, order>>
  requests,    \* requests so far
  failures,    \* failed external calls so far
  crashes      \* crashes so far

outside == <<placed, late, told>>
traces  == <<errorQueue, skipped>>
vars == <<net, rows, outside, job, cancels, answers, traces, requests,
          failures, crashes>>

(***************************************************************************)
(* The aggregate.                                                          *)
(***************************************************************************)

OrderStatus == {"PENDING", "ORDER_PAID", "ORDER_DISPATCHED", "ORDER_DELIVERED",
                "ORDER_CANCELED"}

\* OrderStatus, PaymentData.OrderPaid, and whether OrderCancellationDate is set.
Row == [status : OrderStatus \cup {"NoRow"}, orderPaid : BOOLEAN,
        canceledAt : BOOLEAN]

NoRow  == [status |-> "NoRow",   orderPaid |-> FALSE, canceledAt |-> FALSE]
NewRow == [status |-> "PENDING", orderPaid |-> FALSE, canceledAt |-> FALSE]

\* SetCanceledOrderStatusAndTime throws otherwise.  No handler ever sets
\* ORDER_FAILED_TO_BE_BILLED, the other status it lets pass.
MayCancel(row, isLate) == row.status = "PENDING" /\ ~isLate

\* The status each command sets: the commands of the bus are named after the
\* message that sends them.
StatusSetBy ==
  [ CancelOrder           |-> "ORDER_CANCELED",
    NotifyOrderPaid       |-> "ORDER_PAID",
    NotifyOrderDispatched |-> "ORDER_DISPATCHED",
    NotifyOrderDelivered  |-> "ORDER_DELIVERED",
    OrderFailedToBeBilled |-> "PENDING" ]

Requested == {"CancelOrder", "DeleteOrder"}

\* A column is written if it differs from what the handler read.
Column(now, read, new) == IF new = read THEN now ELSE new

\* Deviation: the save writes every column the handler holds.
Updated_AllColumns(row, cmd, read) ==
  [ status     |-> StatusSetBy[cmd],
    orderPaid  |-> read.orderPaid \/ cmd = "NotifyOrderPaid",
    canceledAt |-> read.canceledAt \/ cmd = "CancelOrder" ]

\* The row after a save of cmd by a handler that had read something older.
Updated(row, cmd, read) ==
  [ status     |-> Column(row.status, read.status, StatusSetBy[cmd]),
    orderPaid  |-> row.orderPaid \/ cmd = "NotifyOrderPaid",
    canceledAt |-> row.canceledAt \/ cmd = "CancelOrder" ]

(***************************************************************************)
(* Handlers.  A job waits to load the order, to save it, to publish        *)
(* OrderCanceled, or to tell the hub and end.  msg holds the message of    *)
(* the delivery it runs in, if any; wrote, whether its save was applied.   *)
(***************************************************************************)
Inbox == {m \in Message : m.kind \in Notified}

Job == [pc : {"idle", "load", "save", "publish", "hub"},
        cmd : Requested \cup Notified \cup {"none"},
        id : Orders \cup {Fresh}, read : Row, msg : SUBSET Inbox,
        wrote : BOOLEAN]

Idle == [pc |-> "idle", cmd |-> "none", id |-> Fresh, read |-> NoRow,
         msg |-> {}, wrote |-> FALSE]

Start(h, cmd, id, msg) ==
  /\ job[h] = Idle
  /\ job' = [job EXCEPT ![h] = [Idle EXCEPT !.pc = "load", !.cmd = cmd,
                                            !.id = id, !.msg = msg]]

Fails(n) == failures' = failures + n /\ failures' <= MaxFailures

Init ==
  /\ net        = EmptyBag
  /\ rows       = [o \in Orders |-> NoRow]
  /\ placed     = {}
  /\ late       = {}
  /\ job        = [h \in Slots |-> Idle]
  /\ told       = {}
  /\ cancels    = [o \in Orders |-> 0]
  /\ answers    = {}
  /\ errorQueue = {}
  /\ skipped    = {}
  /\ requests   = 0
  /\ failures   = 0
  /\ crashes    = 0

\* PlaceOrder inserts the row of a new id.  If SaveChanges throws, the commit
\* may have been lost or only its answer.
PlaceOrder(o, inserted, threw) ==
  /\ o \notin placed
  /\ inserted \/ threw
  /\ placed' = placed \cup {o}
  /\ rows' = [rows EXCEPT ![o] = IF inserted THEN NewRow ELSE @]
  /\ Fails(IF threw THEN 1 ELSE 0)
  /\ UNCHANGED <<net, late, told, job, cancels, answers, traces, requests, crashes>>

DayPasses(o) ==
  /\ o \in placed \ late
  /\ late' = late \cup {o}
  /\ UNCHANGED <<net, rows, placed, told, job, cancels, answers, traces,
                 requests, failures, crashes>>

\* Ordering knows nothing of the work: it may be done, and processes lost.
Saga == INSTANCE OrderNews WITH paid <- Orders, sent <- Orders, doubtful <- Orders

\* The saga's consumers.  A second copy of a notification takes a crash of one
\* of their processes.
Notify(k, o) ==
  /\ o \in placed
  /\ Saga!MayTell(k, o)
  /\ told' = told \cup {<<k, o>>}
  /\ crashes' = crashes + (IF <<k, o>> \in told THEN 1 ELSE 0)
  /\ crashes' <= MaxCrashes
  /\ net' = Send(net, Publish(k, o, IF o \in SameId THEN o ELSE Fresh, TRUE))
  /\ UNCHANGED <<rows, placed, late, job, cancels, answers, traces, requests,
                 failures>>

Request(h, cmd, o) ==
  /\ o \in placed
  /\ requests < MaxRequests
  /\ requests' = requests + 1
  /\ Start(h, cmd, o, {})
  /\ UNCHANGED <<net, rows, outside, cancels, answers, traces, failures, crashes>>

\* The consumers of Ordering hand the correlation id of the message to the
\* parameter orderId of the command.
CommandId(m) == m.corr

Waiting(m) == \E q \in OrderingQueues : m \in InFlight(net, q)

Consume(h, m) ==
  /\ Waiting(m)
  /\ m.valid
  /\ net' = Replace(net, m, {})
  /\ Start(h, m.kind, CommandId(m), {m})
  /\ UNCHANGED <<rows, outside, cancels, answers, traces, requests, failures, crashes>>

\* The token does not validate, or the identity server does not answer.
Skip(m) ==
  /\ Waiting(m)
  /\ Fails(IF m.valid THEN 1 ELSE 0)
  /\ net' = Replace(net, m, {})
  /\ skipped' = skipped \cup {<<m.kind, m.order>>}
  /\ UNCHANGED <<rows, outside, job, cancels, answers, errorQueue, requests, crashes>>

Stored(id) == IF id \in Orders THEN rows[id] ELSE NoRow

Load(h) ==
  /\ job[h].pc = "load"
  /\ Stored(job[h].id) # NoRow
  /\ job' = [job EXCEPT ![h].pc = "save", ![h].read = Stored(job[h].id)]
  /\ UNCHANGED <<net, rows, outside, cancels, answers, traces, requests,
                 failures, crashes>>

\* Deviation: the handler also catches what is thrown before its save.
Abandon_Caught(h, broken) ==
  /\ job[h].pc = "load"
  /\ broken \/ Stored(job[h].id) = NoRow
  /\ Fails(IF broken THEN 1 ELSE 0)
  /\ job' = [job EXCEPT ![h] = Idle]
  /\ UNCHANGED <<net, rows, outside, cancels, answers, traces, requests, crashes>>

\* Deviation: one retry too many is granted.
Abandon_OneMore(h, broken) ==
  LET again == {m \in job[h].msg : m.tries <= Retries} IN
  /\ job[h].pc = "load"
  /\ broken \/ Stored(job[h].id) = NoRow
  /\ Fails(IF broken THEN 1 ELSE 0)
  /\ job' = [job EXCEPT ![h] = Idle]
  /\ net' = Send(net, {[m EXCEPT !.tries = @ + 1] : m \in again})
  /\ errorQueue' = errorQueue \cup
       {<<m.queue, m.kind, m.order>> : m \in job[h].msg \ again}
  /\ UNCHANGED <<rows, outside, cancels, answers, skipped, requests, crashes>>

\* Deviation: a message that finds no order is retried for ever.
Abandon_Unlimited(h, broken) ==
  /\ job[h].pc = "load"
  /\ broken \/ Stored(job[h].id) = NoRow
  /\ Fails(IF broken THEN 1 ELSE 0)
  /\ job' = [job EXCEPT ![h] = Idle]
  /\ net' = Send(net, job[h].msg)
  /\ UNCHANGED <<rows, outside, cancels, answers, traces, requests, crashes>>

\* There is no such order, or the query fails: a request is answered with the
\* error, a delivery is retried, and after the last retry set aside.
Abandon(h, broken) ==
  LET again == {m \in job[h].msg : m.tries < Retries} IN
  /\ job[h].pc = "load"
  /\ broken \/ Stored(job[h].id) = NoRow
  /\ Fails(IF broken THEN 1 ELSE 0)
  /\ job' = [job EXCEPT ![h] = Idle]
  /\ net' = Send(net, {[m EXCEPT !.tries = @ + 1] : m \in again})
  /\ errorQueue' = errorQueue \cup
       {<<m.queue, m.kind, m.order>> : m \in job[h].msg \ again}
  /\ UNCHANGED <<rows, outside, cancels, answers, skipped, requests, crashes>>

(***************************************************************************)
(* From the change in memory on, a handler catches what is thrown: a       *)
(* delivery then counts as consumed, a cancel request is told it failed.   *)
(***************************************************************************)
Told(h, answer, wrote) ==
  IF job[h].cmd = "CancelOrder" THEN {<<job[h].id, answer, wrote>>} ELSE {}

End(h, answer, wrote) ==
  /\ job' = [job EXCEPT ![h] = Idle]
  /\ answers' = answers \cup Told(h, answer, wrote)

Allowed(h) ==
  job[h].cmd = "CancelOrder" => MayCancel(job[h].read, job[h].id \in late)

Refuse(h) ==
  /\ job[h].pc = "save"
  /\ ~Allowed(h)
  /\ End(h, "refused", FALSE)
  /\ UNCHANGED <<net, rows, outside, cancels, traces, requests, failures, crashes>>

Saved(cmd, row, read) ==
  IF cmd = "DeleteOrder" THEN NoRow ELSE Updated(row, cmd, read)

\* Deviation: a save that finds its row deleted inserts it again.
Save_Upserts(h) ==
  /\ job[h].pc = "save"
  /\ Allowed(h)
  /\ rows' = [rows EXCEPT ![job[h].id] = Saved(job[h].cmd, @, job[h].read)]
  /\ job' = [job EXCEPT ![h].wrote = TRUE,
                        ![h].pc = IF job[h].cmd = "CancelOrder" THEN "publish" ELSE "hub"]
  /\ UNCHANGED <<net, outside, cancels, answers, traces, requests, failures, crashes>>

\* Deviation: the event is not published.
Save_Unpublished(h) ==
  /\ job[h].pc = "save"
  /\ Allowed(h)
  /\ rows[job[h].id] # NoRow
  /\ rows' = [rows EXCEPT ![job[h].id] = Saved(job[h].cmd, @, job[h].read)]
  /\ job' = [job EXCEPT ![h].wrote = TRUE, ![h].pc = "hub"]
  /\ UNCHANGED <<net, outside, cancels, answers, traces, requests, failures, crashes>>

Save(h) ==
  /\ job[h].pc = "save"
  /\ Allowed(h)
  /\ rows[job[h].id] # NoRow
  /\ rows' = [rows EXCEPT ![job[h].id] = Saved(job[h].cmd, @, job[h].read)]
  /\ job' = [job EXCEPT ![h].wrote = TRUE,
                        ![h].pc = IF job[h].cmd = "CancelOrder" THEN "publish" ELSE "hub"]
  /\ UNCHANGED <<net, outside, cancels, answers, traces, requests, failures, crashes>>

\* SaveChanges throws: the row is gone, which it counts, or the database
\* failed, with the commit lost or only its answer.
SaveThrows(h, applied, broken) ==
  /\ job[h].pc = "save"
  /\ Allowed(h)
  /\ broken \/ rows[job[h].id] = NoRow
  /\ applied => broken /\ rows[job[h].id] # NoRow
  /\ Fails(IF broken THEN 1 ELSE 0)
  /\ rows' = IF applied
             THEN [rows EXCEPT ![job[h].id] = Saved(job[h].cmd, @, job[h].read)]
             ELSE rows
  /\ End(h, "refused", applied)
  /\ UNCHANGED <<net, outside, cancels, traces, requests, crashes>>

PublishCanceled(h) ==
  /\ job[h].pc = "publish"
  /\ cancels' = [cancels EXCEPT ![job[h].id] = @ + 1]
  /\ job' = [job EXCEPT ![h].pc = "hub"]
  /\ UNCHANGED <<net, rows, outside, answers, traces, requests, failures, crashes>>

\* Deviation: a failed publish is logged and the request told it succeeded.
PublishThrows_Ignored(h) ==
  /\ job[h].pc = "publish"
  /\ Fails(1)
  /\ End(h, "canceled", TRUE)
  /\ UNCHANGED <<net, rows, outside, cancels, traces, requests, crashes>>

\* The order stays canceled in the table, and no event tells the saga.
PublishThrows(h) ==
  /\ job[h].pc = "publish"
  /\ Fails(1)
  /\ End(h, "refused", TRUE)
  /\ UNCHANGED <<net, rows, outside, cancels, traces, requests, crashes>>

\* The clients are told of the new status; a deletion only ends.
Hub(h, broken) ==
  /\ job[h].pc = "hub"
  /\ broken => job[h].cmd # "DeleteOrder"
  /\ Fails(IF broken THEN 1 ELSE 0)
  /\ End(h, IF broken THEN "refused" ELSE "canceled", TRUE)
  /\ UNCHANGED <<net, rows, outside, cancels, traces, requests, crashes>>

\* The process is lost: its requests end unanswered, and the broker delivers
\* again what was not acknowledged.
Crash ==
  /\ crashes < MaxCrashes
  /\ \E h \in Slots : job[h] # Idle
  /\ crashes' = crashes + 1
  /\ net' = Send(net, {[m EXCEPT !.tries = 0] : m \in UNION {job[h].msg : h \in Slots}})
  /\ job' = [h \in Slots |-> Idle]
  /\ UNCHANGED <<rows, outside, cancels, answers, traces, requests, failures>>

Handle(h) ==
  \/ \E m \in BagToSet(net) : Consume(h, m)
  \/ Load(h) \/ Refuse(h) \/ Save(h) \/ PublishCanceled(h) \/ PublishThrows(h)
  \/ \E broken \in BOOLEAN :
       \/ Abandon(h, broken)
       \/ \E applied \in BOOLEAN : SaveThrows(h, applied, broken)
       \/ Hub(h, broken)

Next ==
  \/ \E o \in Orders :
       \/ \E inserted, threw \in BOOLEAN : PlaceOrder(o, inserted, threw)
       \/ DayPasses(o)
       \/ \E k \in Notified \ {"NotifyOrderDelivered"} : Notify(k, o)
       \/ \E h \in Slots, cmd \in Requested : Request(h, cmd, o)
  \/ \E h \in Slots : Handle(h)
  \/ \E m \in BagToSet(net) : Skip(m)
  \/ Crash

Safety == Init /\ [][Next]_vars

\* A handler that runs, or that could take a message, goes on.
Spec == Safety /\ \A h \in Slots : WF_vars(Handle(h))

(***************************************************************************)
(* Properties.                                                             *)
(***************************************************************************)

\* Every variable has its type.
TypeOK ==
  /\ IsABag(net) /\ BagToSet(net) \subseteq Inbox
  /\ rows \in [Orders -> Row]
  /\ placed \subseteq Orders /\ late \subseteq placed
  /\ job \in [Slots -> Job]
  /\ told \subseteq Notified \X Orders
  /\ cancels \in [Orders -> Nat]
  /\ answers \subseteq Orders \X {"canceled", "refused"} \X BOOLEAN
  /\ errorQueue \subseteq Queues \X Kinds \X Orders
  /\ skipped \subseteq Kinds \X Orders
  /\ requests \in 0..MaxRequests
  /\ failures \in 0..MaxFailures
  /\ crashes \in 0..MaxCrashes

Quiet == net = EmptyBag /\ \A h \in Slots : job[h] = Idle

Canceled(o) == rows[o].canceledAt \/ rows[o] = NoRow

SetAside(k, o) == \E q \in Queues : <<q, k, o>> \in errorQueue

\* A payment the saga told Ordering of ends up in the order's row, whatever
\* handlers of the order raced its own, unless a consumer gave up on it or the
\* row was deleted: handlers overwrite a row's columns, never a whole row.
PaymentIsRecorded ==
  \A o \in Orders :
    Quiet /\ <<"NotifyOrderPaid", o>> \in told /\ failures = 0 =>
      \/ rows[o].orderPaid \/ rows[o] = NoRow
      \/ SetAside("NotifyOrderPaid", o)

\* A message is set aside only if its order is gone or each of its tries met a
\* failure of its own: the commands of the bus look an order up by the first of
\* their parameters, which OrderPaidCommand names orderId.
DeadLettersHaveNoOrder ==
  \A d \in errorQueue : rows[d[3]] = NoRow \/ failures > Retries

\* What notifications come to depends on the id their saga runs under.  Under
\* the order's own, one is set aside only if the order is gone or each of its
\* tries met a failure of its own (UseMessageRetry).  Under any other no handler
\* finds the order, whatever requests race with it: the row never shows that the
\* order was paid or dispatched, a cancellation is never put back to pending, and
\* where nothing fails every notification is set aside (NotifyOrderPaidConsumer
\* and its like).
NoticesNeedTheirId ==
  /\ \A d \in errorQueue : d[3] \in SameId => rows[d[3]] = NoRow \/ failures > Retries
  /\ \A o \in Orders \ SameId :
       /\ ~rows[o].orderPaid
       /\ rows[o].status \in {"NoRow", "PENDING", "ORDER_CANCELED"}
       /\ rows[o].canceledAt => rows[o].status = "ORDER_CANCELED"
       /\ Quiet /\ failures = 0 => \A t \in told : t[2] = o => SetAside(t[1], o)

\* A deleted order stays deleted, whatever a handler that loaded it before
\* saves afterwards (SaveChanges counts the rows it updated).
DeletedStaysDeleted ==
  [][\A o \in placed : rows[o] = NoRow => rows'[o] = NoRow]_vars

\* A request is told that the order is canceled only after the row had its
\* cancellation saved and the event was published.
AnswersAreTrue ==
  \A o \in Orders :
    (\E w \in BOOLEAN : <<o, "canceled", w>> \in answers) =>
      o \in placed /\ cancels[o] > 0 /\ Canceled(o)

\* A cancel handler past its save has a canceled or deleted row behind it, and
\* past its publish an event as well.
Backed(j) ==
  /\ j.pc # "idle" => j.cmd # "none"
  /\ j.pc \in {"save", "publish", "hub"} => j.id \in Orders
  /\ j.pc = "publish" => j.cmd = "CancelOrder"
  /\ j.cmd = "CancelOrder" => j.id \in placed
  /\ j.cmd = "CancelOrder" /\ j.pc \in {"publish", "hub"} => Canceled(j.id)
  /\ j.cmd = "CancelOrder" /\ j.pc = "hub" => cancels[j.id] > 0

JobsAreBacked == \A h \in Slots : Backed(job[h])

\* The inductive invariant behind the answers.
OrderingInv == TypeOK /\ JobsAreBacked /\ AnswersAreTrue

\* A message of Ordering's queues was told by the saga and carries a valid token,
\* names its order or an id that finds none, and has met a failure in each try
\* so far, unless its order is gone.
Addressed(m) ==
  /\ m.valid
  /\ m.order \in placed /\ <<m.kind, m.order>> \in told
  /\ m.corr = IF m.order \in SameId THEN m.order ELSE Fresh
  /\ m.order \in SameId => rows[m.order] = NoRow \/ m.tries <= failures

\* A handler works for the order and the command of its message, and runs a
\* command of the bus for a message only.
Answers(j) ==
  /\ j.cmd \in Notified => j.msg # {}
  /\ \A m \in j.msg : Addressed(m) /\ j.cmd = m.kind /\ j.id = m.corr

PaidOrGone(o) == rows[o].orderPaid \/ rows[o] = NoRow

\* The notification of the payment waits, or its handler has yet to save.
PaymentUnderWay(o) ==
  LET Pays(m) == m.kind = "NotifyOrderPaid" /\ m.order = o IN
  \/ \E m \in BagToSet(net) : Pays(m)
  \/ \E h \in Slots : job[h].pc \in {"load", "save"} /\ \E m \in job[h].msg : Pays(m)

\* What stands behind PaymentIsRecorded and NoticesNeedTheirId, and is
\* inductive beside OrderingInv: where every notification of a payment is, and
\* what each delivery given up has cost.
NoticesInv ==
  /\ \A o \in Orders : rows[o] # NoRow => o \in placed
  /\ \A t \in told : t[2] \in placed
  /\ \A m \in BagToSet(net) : Addressed(m)
  /\ \A h \in Slots : Answers(job[h])
  /\ \A d \in errorQueue :
       d[3] \in placed /\ (d[3] \in SameId => rows[d[3]] = NoRow \/ failures > Retries)
  /\ \A o \in Orders :
       failures = 0 /\ <<"NotifyOrderPaid", o>> \in told =>
         PaidOrGone(o) \/ PaymentUnderWay(o) \/ SetAside("NotifyOrderPaid", o)

\* An order becomes canceled only while pending and in its first 24 hours: a
\* billed order can't be canceled, says the aggregate.
CancelRespectsStatus ==
  [][\A o \in Orders :
       rows'[o].status = "ORDER_CANCELED" /\ rows[o].status # "ORDER_CANCELED" =>
         rows[o].status = "PENDING" /\ o \notin late]_vars

\* The handlers, which read and save apart and race each other, implement a
\* table whose rows change by one command at a time.
Record == INSTANCE OrderRecord WITH
  status    <- [o \in Orders |-> rows[o].status],
  paid      <- {o \in Orders : rows[o].orderPaid},
  dated     <- {o \in Orders : rows[o].canceledAt},
  published <- {o \in Orders : cancels[o] > 0},
  assured   <- {o \in Orders : \E w \in BOOLEAN : <<o, "canceled", w>> \in answers}

ImplementsRecord == Record!Spec

\* Every message of Ordering's queues is consumed, skipped or set aside, and
\* every handler ends.
WorkEnds == []<>Quiet
==============================================================================
