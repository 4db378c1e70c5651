------------------------------- MODULE OrderNews -------------------------------
(***************************************************************************)
(* What Ordering hears of its orders, without queues, sagas, retries or    *)
(* redeliveries: a payment is told after it was taken and a dispatch after *)
(* the order left, which it does only once the payment was told.  No order *)
(* is both billed and told to have failed, except a doubtful one: one of   *)
(* which a process may have done work that nobody took note of, or whose   *)
(* record was changed by a commit that got no answer.  Nothing told is     *)
(* taken back, and a delivery is never told.                               *)
(*                                                                         *)
(* The saga with Payment and Delivery keeps to this, and Ordering takes    *)
(* whatever it allows.                                                     *)
(***************************************************************************)
CONSTANT Orders

VARIABLES
  paid,     \* orders Payment has billed
  sent,     \* orders Delivery has dispatched
  told,     \* notifications published: <<kind, order>>
  doubtful  \* orders of which a crash or a lost answer hides what was done

vars == <<paid, sent, told, doubtful>>

Init == paid = {} /\ sent = {} /\ told = {} /\ doubtful = {}

Told(kind, o) == <<kind, o>> \in told

\* Any step may be the one in which a process or an answer is lost; doubts are
\* never cleared.
MayDoubt == doubtful \subseteq doubtful' /\ doubtful' \subseteq Orders

Pay(o) ==
  /\ MayDoubt
  /\ Told("OrderFailedToBeBilled", o) => o \in doubtful'
  /\ paid' = paid \cup {o}
  /\ UNCHANGED <<sent, told>>

Ship(o) ==
  /\ MayDoubt
  /\ Told("NotifyOrderPaid", o)
  /\ sent' = sent \cup {o}
  /\ UNCHANGED <<paid, told>>

\* What may be told of the order now.
MayTell(kind, o) ==
  \/ kind = "NotifyOrderPaid" /\ o \in paid
  \/ kind = "NotifyOrderDispatched" /\ o \in sent /\ Told("NotifyOrderPaid", o)
  \/ kind = "OrderFailedToBeBilled" /\ (o \in paid => o \in doubtful')

Tell(kind, o) ==
  /\ MayDoubt
  /\ MayTell(kind, o)
  /\ told' = told \cup {<<kind, o>>}
  /\ UNCHANGED <<paid, sent>>

Lose ==
  /\ MayDoubt
  /\ UNCHANGED <<paid, sent, told>>

Next ==
  \/ Lose
  \/ \E o \in Orders :
       \/ Pay(o) \/ Ship(o)
       \/ \E kind \in {"NotifyOrderPaid", "NotifyOrderDispatched", "OrderFailedToBeBilled"} :
            Tell(kind, o)

Spec == Init /\ [][Next]_vars
===============================================================================
