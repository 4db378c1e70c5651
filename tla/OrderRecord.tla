------------------------------ MODULE OrderRecord ------------------------------
(***************************************************************************)
(* What Ordering promises of the Orders table, without handlers, messages, *)
(* requests or crashes: a row changes by one command at a time, as the     *)
(* command says, on the row as it is then; a notification acts only after  *)
(* the saga told it; no order is canceled after its first day; what a row  *)
(* records of a payment or a cancellation stays as long as the row, and    *)
(* the row stays away once deleted; a cancellation is published after it   *)
(* is recorded, and answered after it is published.                        *)
(*                                                                         *)
(* Of a notification only the status is uncertain: its handler does not    *)
(* write the status it had read, whatever another handler wrote since.     *)
(***************************************************************************)
CONSTANT Orders

VARIABLES
  placed,     \* orders that PlaceOrder answered or failed to insert
  late,       \* orders placed more than 24 hours ago
  told,       \* what the saga told: <<kind, order>>
  status,     \* the OrderStatus of each row, "NoRow" where there is none
  paid,       \* rows with PaymentData.OrderPaid
  dated,      \* rows with an OrderCancellationDate
  published,  \* orders of which OrderCanceled was published
  assured     \* orders whose client was told that they are canceled

table  == <<status, paid, dated>>
claims == <<published, assured>>
vars   == <<placed, late, told, table, claims>>

Init ==
  /\ placed = {} /\ late = {} /\ told = {}
  /\ status = [o \in Orders |-> "NoRow"]
  /\ paid = {} /\ dated = {}
  /\ published = {} /\ assured = {}

HasRow(o) == status[o] # "NoRow"

Set(o, s) == status' = [status EXCEPT ![o] = s]

Place(o) ==
  /\ o \notin placed
  /\ placed' = placed \cup {o}
  /\ Set(o, "PENDING") \/ UNCHANGED status
  /\ UNCHANGED <<late, told, paid, dated, claims>>

Age(o) ==
  /\ o \in placed
  /\ late' = late \cup {o}
  /\ UNCHANGED <<placed, told, table, claims>>

Tell(kind, o) ==
  /\ o \in placed
  /\ kind = "NotifyOrderDispatched" => <<"NotifyOrderPaid", o>> \in told
  /\ told' = told \cup {<<kind, o>>}
  /\ UNCHANGED <<placed, late, table, claims>>

Notice(kind, s, o) ==
  /\ <<kind, o>> \in told
  /\ HasRow(o)
  /\ Set(o, s) \/ UNCHANGED status
  /\ paid' = IF kind = "NotifyOrderPaid" THEN paid \cup {o} ELSE paid
  /\ UNCHANGED <<placed, late, told, dated, claims>>

Cancel(o) ==
  /\ HasRow(o) /\ o \notin late
  /\ Set(o, "ORDER_CANCELED")
  /\ dated' = dated \cup {o}
  /\ UNCHANGED <<placed, late, told, paid, claims>>

Delete(o) ==
  /\ HasRow(o)
  /\ Set(o, "NoRow")
  /\ paid' = paid \ {o} /\ dated' = dated \ {o}
  /\ UNCHANGED <<placed, late, told, claims>>

Publish(o) ==
  /\ o \in placed /\ (o \in dated \/ ~HasRow(o))
  /\ published' = published \cup {o}
  /\ UNCHANGED <<placed, late, told, table, assured>>

Assure(o) ==
  /\ o \in published
  /\ assured' = assured \cup {o}
  /\ UNCHANGED <<placed, late, told, table, published>>

Next ==
  \E o \in Orders :
    \/ Place(o) \/ Age(o) \/ Cancel(o) \/ Delete(o) \/ Publish(o) \/ Assure(o)
    \/ \E kind \in {"NotifyOrderPaid", "NotifyOrderDispatched", "OrderFailedToBeBilled"} :
         Tell(kind, o)
    \/ Notice("NotifyOrderPaid", "ORDER_PAID", o)
    \/ Notice("NotifyOrderDispatched", "ORDER_DISPATCHED", o)
    \/ Notice("OrderFailedToBeBilled", "PENDING", o)

Spec == Init /\ [][Next]_vars
===============================================================================
