------------------------ MODULE ShoppingClient_proofs -------------------------
(***************************************************************************)
(* What holds in every tab, for any products, requests, retries, presses   *)
(* of Submit and failures: ClientInv is inductive.                         *)
(***************************************************************************)
EXTENDS ShoppingClient, TLAPS

\* A step that asks the server for nothing: the requests go on, or those of a
\* page that was left lose their reader.
Frame ==
  /\ UNCHANGED <<shop, placing>>
  /\ \/ UNCHANGED <<call, view>>
     \/ \E kinds \in SUBSET Kinds : "DeleteBasketItem" \in kinds /\ call' = Abandon(kinds)

USE DEF Kinds

\* Leaving a page is such a step.
LEMMA UnloadFrames ==
  ASSUME NEW destination, NEW boot, Unload(destination, boot), UNCHANGED <<shop, placing>>
  PROVE  Frame
  BY DEF Unload, Frame

LEMMA ShowFrames ==
  ASSUME NEW to, NEW shown, Show(to, shown), UNCHANGED <<shop, placing>>
  PROVE  Frame
  BY DEF Show, Frame

LEMMA LoginFrames ==
  ASSUME initCodeFlow, UNCHANGED <<shop, placing>>
  PROVE  Frame
  <1>1. CASE Unload("login", NoNavigation)
    BY <1>1, UnloadFrames
  <1>2. CASE UNCHANGED <<call, view>>
    BY <1>2 DEF Frame
  <1> QED BY <1>1, <1>2 DEF initCodeFlow

LEMMA NavigateFrames ==
  ASSUME NEW to, NavigateTo(to), UNCHANGED <<shop, placing>>
  PROVE  Frame
  <1>1. CASE UNCHANGED <<call, view>>
    BY <1>1 DEF Frame
  <1>2. CASE initCodeFlow
    BY <1>2, LoginFrames
  <1>3. CASE Show(to, NoView)
    BY <1>3, ShowFrames
  <1> QED BY <1>1, <1>2, <1>3 DEF NavigateTo

\* The session and the user's moves ask the server for nothing.
LEMMA SessionFrames ==
  ASSUME SessionStep
  PROVE  Frame
  <1> USE DEF screen
  <1>1. CASE Bootstrap
    <2>1. CASE UNCHANGED <<call, view>>
      BY <1>1, <2>1 DEF Bootstrap, Frame
    <2>2. CASE Show(nav.to, NoView)
      BY <1>1, <2>2, ShowFrames DEF Bootstrap
    <2> QED BY <1>1, <2>1, <2>2 DEF Bootstrap
  <1>2. CASE BootstrapFails
    BY <1>2 DEF BootstrapFails, Frame
  <1>3. CASE DiscoveryLoaded
    BY <1>3, UnloadFrames DEF DiscoveryLoaded, Frame
  <1>4. ASSUME NEW badRequest \in BOOLEAN, DiscoveryFails(badRequest)
        PROVE  Frame
    BY <1>4, UnloadFrames DEF DiscoveryFails, Frame
  <1>5. CASE TokenReceived \/ TokenRefused \/ TokenExpires \/ SilentRefresh
    BY <1>5 DEF TokenReceived, TokenRefused, TokenExpires, SilentRefresh, Frame
  <1> QED BY <1>1, <1>2, <1>3, <1>4, <1>5 DEF SessionStep

LEMMA MovesFrame ==
  ASSUME Moves
  PROVE  Frame
  <1>1. ASSUME NEW to \in Routes, Click(to)
        PROVE  Frame
    BY <1>1, NavigateFrames DEF Click
  <1>2. ASSUME NEW path \in Routes \cup {"", "elsewhere"}, EnterUrl(path)
        PROVE  Frame
    BY <1>2, UnloadFrames DEF EnterUrl
  <1>3. CASE Login
    BY <1>3, LoginFrames DEF Login
  <1>4. CASE Logout
    BY <1>4, UnloadFrames DEF Logout, Frame, screen
  <1>5. ASSUME NEW loggedIn \in BOOLEAN, ComeBack(loggedIn)
        PROVE  Frame
    BY <1>5 DEF ComeBack, Frame
  <1> QED BY <1>1, <1>2, <1>3, <1>4, <1>5 DEF Moves

LEMMA NavigationFrames ==
  ASSUME NavigationStep
  PROVE  Frame
  <1>1. CASE NavigationEnd
    BY <1>1, ShowFrames DEF NavigationEnd
  <1>2. CASE ServeNavigation \/ LoseNavigation \/ RetryNavigation \/ NavigationError
    BY <1>2 DEF ServeNavigation, LoseNavigation, RetryNavigation, NavigationError, Frame
  <1> QED BY <1>1, <1>2 DEF NavigationStep

\* It leaves the orders and what stands behind the requests as they were.
LEMMA FrameKeepsOrders ==
  ASSUME ClientInv, Frame
  PROVE  OneOrderPerSubmit' /\ OrdersAreCurrent' /\ ConfirmedIsOrdered'
  BY DEF ClientInv, Frame, OneOrderPerSubmit, OrdersAreCurrent, ConfirmedIsOrdered,
         Ordered, Basket, shop, placing

LEMMA FrameKeepsCalls ==
  ASSUME ClientInv, Frame
  PROVE  CallsAreBacked'
  <1> USE DEF shop, placing
  <1>1. UNCHANGED <<history, ledger, asked>>
    BY DEF Frame
  <1>2. CASE UNCHANGED <<call, view>>
    BY <1>1, <1>2 DEF ClientInv, CallsAreBacked, Backed, Ordered, Checkouts
  <1>3. ASSUME NEW kinds \in SUBSET Kinds, "DeleteBasketItem" \in kinds, call' = Abandon(kinds)
        PROVE  CallsAreBacked'
    <2>1. \A c \in Calls : \/ call'[c] = NoCall
                           \/ call[c].kind \notin kinds /\ call'[c] = call[c]
                           \/ call'[c] = [call[c] EXCEPT !.live = FALSE] /\ call[c].stage = "sent"
      BY <1>3 DEF Abandon
    <2>2. ASSUME NEW c \in Calls
          PROVE  Backed(call[c])'
      <3> DEFINE k == call[c]
      <3>0. Backed(k) /\ k \in Call
        BY DEF ClientInv, CallsAreBacked, TypeOK
      <3>1. CASE call'[c] = NoCall
        BY <3>1 DEF Backed, NoCall
      <3>2. CASE call[c].kind \notin kinds /\ call'[c] = call[c]
        BY <3>0, <3>2, <1>1, <1>3 DEF Backed, Ordered
      <3>3. CASE call'[c] = [call[c] EXCEPT !.live = FALSE] /\ call[c].stage = "sent"
        <4>1. /\ call'[c].kind = k.kind /\ call'[c].stage = "sent" /\ call'[c].about = k.about
              /\ call'[c].left = k.left /\ call'[c].body = k.body /\ call'[c].live = FALSE
          BY <3>0, <3>3 DEF Call
        <4> QED BY <3>0, <3>3, <4>1, <1>1 DEF Backed, Ordered
      <3> QED BY <2>1, <3>1, <3>2, <3>3
    <2>3. \A c \in Calls : call'[c].kind \in {"GetBasket", "PlaceOrder"} =>
            call'[c].kind = call[c].kind /\ call'[c].about = call[c].about
      <3>1. \A c \in Calls : call[c] \in Call
        BY DEF ClientInv, TypeOK
      <3>2. ASSUME NEW k \in Call
            PROVE  /\ [k EXCEPT !.live = FALSE].kind = k.kind
                   /\ [k EXCEPT !.live = FALSE].about = k.about
        BY <3>2 DEF Call
      <3>3. NoCall.kind = "none"
        BY DEF NoCall
      <3>4. ASSUME NEW c \in Calls, call'[c].kind \in {"GetBasket", "PlaceOrder"}
            PROVE  call'[c].kind = call[c].kind /\ call'[c].about = call[c].about
        BY <2>1, <3>1, <3>2, <3>3, <3>4
      <3> QED BY <3>4
    <2>4. \A c, d \in Checkouts' : call'[c].about = call'[d].about => c = d
      BY <2>3 DEF ClientInv, CallsAreBacked, Checkouts
    <2> QED BY <2>2, <2>4 DEF CallsAreBacked
  <1> QED BY <1>2, <1>3 DEF Frame

(***************************************************************************)
(* A step of one request.                                                  *)
(***************************************************************************)

\* The other requests stay, the shop only grows, and no submit but that of this
\* request has been ordered.
Others(c) ==
  /\ \A d \in Calls \ {c} : call'[d] = call[d]
  /\ Len(history) <= Len(history')
  /\ \A s \in Submits : asked[s] # 0 => asked'[s] = asked[s]
  /\ \A s \in Submits : Ordered(ledger, s) => Ordered(ledger', s)
  /\ \A s \in Submits : Ordered(ledger', s) => Ordered(ledger, s) \/ (call[c].kind = "PlaceOrder" /\ s = call[c].about)
  /\ view'.since = view.since

\* The request is about the submit it was about, or about one just pressed.
SameSubmit(c) ==
  call'[c].kind \in {"GetBasket", "PlaceOrder"} =>
    \/ c \in Checkouts /\ call'[c].about = call[c].about
    \/ asked[call'[c].about] = 0

LEMMA LengthsAreNatural ==
  ASSUME TypeOK
  PROVE  Len(history) \in Nat /\ Len(ledger) \in Nat
  BY DEF TypeOK

LEMMA CallStepKeepsCalls ==
  ASSUME ClientInv, NEW c \in Calls, Others(c), SameSubmit(c), Backed(call[c])',
         Len(history') \in Nat
  PROVE  CallsAreBacked'
  <1>1. ASSUME NEW d \in Calls \ {c}
        PROVE  Backed(call[d])'
    <2>1. Backed(call[d]) /\ call'[d] = call[d] /\ call[d] \in Call
      BY DEF ClientInv, CallsAreBacked, TypeOK, Others
    <2>2. Len(history) \in Nat /\ view.since \in Nat /\ call[d].body \in Nat
          /\ view'.since = view.since /\ Len(history) <= Len(history')
      BY <2>1 DEF ClientInv, TypeOK, Version, Others, Call
    <2>3. CASE call[d].kind \in {"GetBasket", "PlaceOrder"}
      <3>1. /\ call[d].about \in Submits
            /\ asked[call[d].about] \in 1..Len(history)
            /\ asked'[call[d].about] = asked[call[d].about]
        BY <2>1, <2>2, <2>3 DEF Backed, Others
      <3>2. call[c].kind = "PlaceOrder" => call[c].about # call[d].about
        BY <2>3 DEF ClientInv, CallsAreBacked, Checkouts
      <3>3. Ordered(ledger', call[d].about) <=> Ordered(ledger, call[d].about)
        BY <3>1, <3>2 DEF Others
      <3>4. call[d].body <= Len(history) => call[d].body <= Len(history')
        BY <2>2
      <3> QED BY <2>1, <2>2, <2>3, <3>1, <3>3, <3>4 DEF Backed
    <2>4. CASE call[d].kind \notin {"GetBasket", "PlaceOrder"}
      BY <2>1, <2>2, <2>4 DEF Backed
    <2> QED BY <2>3, <2>4
  <1>2. \A d, e \in Checkouts' : call'[d].about = call'[e].about => d = e
    <2>1. ASSUME NEW d \in Checkouts, d # c
          PROVE  asked[call[d].about] # 0
      BY <2>1 DEF Checkouts, ClientInv, CallsAreBacked, Backed
    <2>2. ASSUME NEW d \in Checkouts', d # c
          PROVE  d \in Checkouts /\ call'[d].about = call[d].about
      BY <2>2 DEF Checkouts, Others
    <2>3. ASSUME NEW d \in Checkouts', d # c, c \in Checkouts'
          PROVE  call'[d].about # call'[c].about
      <3>1. call'[c].kind \in {"GetBasket", "PlaceOrder"}
        BY <2>3 DEF Checkouts
      <3>2. CASE c \in Checkouts /\ call'[c].about = call[c].about
        BY <2>2, <2>3, <3>2 DEF ClientInv, CallsAreBacked
      <3>3. CASE asked[call'[c].about] = 0
        BY <2>1, <2>2, <2>3, <3>3
      <3> QED BY <3>1, <3>2, <3>3 DEF SameSubmit
    <2> QED BY <2>2, <2>3 DEF ClientInv, CallsAreBacked
  <1> QED BY <1>1, <1>2 DEF CallsAreBacked

\* Orders stand while the history of the basket grows and submits are pressed.
LEMMA OrdersStand ==
  ASSUME ClientInv, UNCHANGED ledger, confirmed' = confirmed,
         \A s \in Submits : asked[s] # 0 => asked'[s] = asked[s],
         \/ UNCHANGED history
         \/ \E basket \in ShoppingBasket : history' = Append(history, basket)
  PROVE  OneOrderPerSubmit' /\ OrdersAreCurrent' /\ ConfirmedIsOrdered'
  <1>1. OneOrderPerSubmit' /\ ConfirmedIsOrdered'
    BY DEF ClientInv, OneOrderPerSubmit, ConfirmedIsOrdered, Ordered
  <1>2. history \in Seq(ShoppingBasket) /\ ledger \in Seq(PlaceOrder)
    BY DEF ClientInv, TypeOK
  <1>3. Len(history') \in Nat /\ Len(history) <= Len(history')
    BY <1>2
  <1>4. \A v \in 1..Len(history) : history'[v] = history[v]
    BY <1>2
  <1>5. ASSUME NEW i \in 1..Len(ledger)
        PROVE  /\ asked'[ledger[i].checkoutData] \in 1..ledger[i].orderItems
               /\ ledger[i].orderItems <= Len(history')
               /\ Basket(ledger[i].orderItems)' # {}
    <2>1. /\ asked[ledger[i].checkoutData] \in 1..ledger[i].orderItems
          /\ ledger[i].orderItems <= Len(history)
          /\ Basket(ledger[i].orderItems) # {}
      BY DEF ClientInv, OrdersAreCurrent
    <2>2. ledger[i].checkoutData \in Submits /\ ledger[i].orderItems \in Nat
      <3>1. ledger[i] \in PlaceOrder
        BY <1>2
      <3> QED BY <3>1 DEF PlaceOrder, CheckoutData, Version
    <2>3. ledger[i].orderItems \in 1..Len(history)
      BY <2>1, <2>2, <1>2
    <2>4. Basket(ledger[i].orderItems)' = Basket(ledger[i].orderItems)
      BY <2>3, <1>4 DEF Basket
    <2> QED BY <2>1, <2>2, <2>3, <2>4, <1>2, <1>3
  <1>6. OrdersAreCurrent'
    BY <1>5 DEF OrdersAreCurrent
  <1> QED BY <1>1, <1>6

(***************************************************************************)
(* The server's steps.                                                     *)
(***************************************************************************)

LEMMA CurrentIsBasket ==
  ASSUME TypeOK
  PROVE  Len(history) \in Nat \ {0} /\ Current \in ShoppingBasket
  BY DEF TypeOK, Current

\* What a request does at the server.
LEMMA HandledGrows ==
  ASSUME ClientInv, NEW c \in Calls, Handled(c)
  PROVE  \/ UNCHANGED history
         \/ \E basket \in ShoppingBasket : history' = Append(history, basket)
  <1>1. Current \in ShoppingBasket
    BY CurrentIsBasket DEF ClientInv
  <1>2. call[c].kind \in {"AddBasketItem", "DeleteBasketItem"} => call[c].about \in Products
    BY DEF ClientInv, CallsAreBacked, Backed
  <1>3. CASE AddBasketItem(c)
    BY <1>1, <1>2, <1>3 DEF AddBasketItem, ShoppingBasket, ShoppingBasketItem
  <1>4. CASE DeleteBasketItem(c)
    BY <1>1, <1>2, <1>4 DEF DeleteBasketItem, ShoppingBasket, ShoppingBasketItem
  <1>5. CASE GetBasket(c) \/ InsertOrder(c)
    BY <1>5 DEF GetBasket, InsertOrder, shop
  <1> QED BY <1>3, <1>4, <1>5 DEF Handled

LEMMA HandledLengths ==
  ASSUME ClientInv,
         \/ UNCHANGED history
         \/ \E basket \in ShoppingBasket : history' = Append(history, basket)
  PROVE  Len(history') \in Nat /\ Len(history) \in Nat /\ Len(history) <= Len(history')
  <1>1. history \in Seq(ShoppingBasket)
    BY DEF ClientInv, TypeOK
  <1> QED BY <1>1

\* A request that is not an order leaves the ledger.
LEMMA HandledLedger ==
  ASSUME NEW c \in Calls, Handled(c), call[c].kind # "PlaceOrder"
  PROVE  UNCHANGED ledger
  BY DEF Handled, AddBasketItem, DeleteBasketItem, GetBasket, InsertOrder, shop

\* An order that is placed is the first of its submit.
LEMMA InsertKeepsOrders ==
  ASSUME ClientInv, NEW c \in Calls, call[c].stage = "sent", InsertOrder(c),
         UNCHANGED placing
  PROVE  /\ OneOrderPerSubmit' /\ OrdersAreCurrent' /\ ConfirmedIsOrdered'
         /\ Ordered(ledger', call[c].about)
         /\ \A s \in Submits : Ordered(ledger, s) => Ordered(ledger', s)
         /\ \A s \in Submits : Ordered(ledger', s) => Ordered(ledger, s) \/ s = call[c].about
  <1> DEFINE s == call[c].about
             o == buildPlaceOrder(s, call[c].body)
  <1>1. /\ s \in Submits /\ asked[s] \in 1..Len(history) /\ ~Ordered(ledger, s)
        /\ call[c].body \in asked[s]..Len(history)
    BY DEF InsertOrder, ClientInv, CallsAreBacked, Backed
  <1>2. o.checkoutData = s /\ o.orderItems = call[c].body
    BY DEF buildPlaceOrder, mapToOrderItems
  <1>3. ledger \in Seq(PlaceOrder) /\ ledger' = Append(ledger, o) /\ Len(ledger) \in Nat
    BY DEF ClientInv, TypeOK, InsertOrder
  <1>4. /\ Len(ledger') = Len(ledger) + 1
        /\ ledger'[Len(ledger) + 1] = o
        /\ \A i \in 1..Len(ledger) : ledger'[i] = ledger[i]
    <2> HIDE DEF o
    <2> QED BY <1>3
  <1>5. \A i \in 1..Len(ledger') : i \in 1..Len(ledger) \/ i = Len(ledger) + 1
    BY <1>3, <1>4
  <1>6. UNCHANGED <<history, asked, confirmed>>
    BY DEF InsertOrder, placing
  <1>7. \A i \in 1..Len(ledger) : i \in 1..Len(ledger') /\ ledger[i].checkoutData # s
    BY <1>1, <1>3, <1>4 DEF Ordered
  <1>8. Len(ledger) + 1 \in 1..Len(ledger')
    BY <1>3, <1>4
  <1> HIDE DEF o, s
  <1>9. OneOrderPerSubmit'
    <2>1. ASSUME NEW i \in 1..Len(ledger'), NEW j \in 1..Len(ledger'),
                 ledger'[i].checkoutData = ledger'[j].checkoutData
          PROVE  i = j
      BY <2>1, <1>2, <1>4, <1>5, <1>7 DEF ClientInv, OneOrderPerSubmit
    <2> QED BY <2>1 DEF OneOrderPerSubmit
  <1>10. OrdersAreCurrent'
    <2>1. Basket(call[c].body) # {}
      BY DEF InsertOrder
    <2>2. asked[s] \in 1..call[c].body /\ call[c].body <= Len(history)
      BY <1>1, LengthsAreNatural DEF ClientInv
    <2>3. ASSUME NEW i \in 1..Len(ledger')
          PROVE  /\ asked'[ledger'[i].checkoutData] \in 1..ledger'[i].orderItems
                 /\ ledger'[i].orderItems <= Len(history')
                 /\ Basket(ledger[i].orderItems)' # {}
      <3>1. CASE i \in 1..Len(ledger)
        BY <3>1, <1>4, <1>6 DEF ClientInv, OrdersAreCurrent, Basket
      <3>2. CASE i = Len(ledger) + 1
        BY <3>2, <1>2, <1>4, <1>6, <2>1, <2>2 DEF Basket
      <3> QED BY <3>1, <3>2, <1>5
    <2> QED BY <2>3 DEF OrdersAreCurrent
  <1>11. Ordered(ledger', call[c].about)
    BY <1>2, <1>4, <1>8 DEF Ordered, s
  <1>12. \A t \in Submits : Ordered(ledger, t) => Ordered(ledger', t)
    BY <1>4, <1>7 DEF Ordered
  <1>13. \A t \in Submits : Ordered(ledger', t) => Ordered(ledger, t) \/ t = call[c].about
    BY <1>2, <1>4, <1>5 DEF Ordered, s
  <1>14. ConfirmedIsOrdered'
    BY <1>6, <1>12 DEF ClientInv, ConfirmedIsOrdered, TypeOK
  <1> QED BY <1>9, <1>10, <1>11, <1>12, <1>13, <1>14

LEMMA HandledKeepsOrders ==
  ASSUME ClientInv, NEW c \in Calls, call[c].stage = "sent",
         Handled(c) \/ UNCHANGED shop, UNCHANGED placing
  PROVE  /\ OneOrderPerSubmit' /\ OrdersAreCurrent' /\ ConfirmedIsOrdered'
         /\ Len(history') \in Nat /\ Len(history) <= Len(history')
         /\ \A s \in Submits : Ordered(ledger, s) => Ordered(ledger', s)
         /\ \A s \in Submits : Ordered(ledger', s) => Ordered(ledger, s) \/ (call[c].kind = "PlaceOrder" /\ s = call[c].about)
         /\ Handled(c) /\ call[c].kind = "PlaceOrder" => Ordered(ledger', call[c].about)
  <1>1. /\ Len(history') \in Nat /\ Len(history) <= Len(history')
        /\ \/ UNCHANGED history
           \/ \E basket \in ShoppingBasket : history' = Append(history, basket)
    BY HandledGrows, HandledLengths DEF shop
  <1>2. CASE InsertOrder(c)
    <2>1. call[c].kind = "PlaceOrder"
      BY <1>2 DEF InsertOrder
    <2>2. /\ OneOrderPerSubmit' /\ OrdersAreCurrent' /\ ConfirmedIsOrdered'
          /\ Ordered(ledger', call[c].about)
          /\ \A s \in Submits : Ordered(ledger, s) => Ordered(ledger', s)
          /\ \A s \in Submits : Ordered(ledger', s) => Ordered(ledger, s) \/ s = call[c].about
      BY <1>2, InsertKeepsOrders
    <2> QED BY ONLY <1>1, <2>1, <2>2
  <1>3. CASE ~InsertOrder(c)
    <2>1. UNCHANGED ledger
      BY <1>3, HandledLedger DEF Handled, AddBasketItem, DeleteBasketItem, GetBasket, shop
    <2>2. Handled(c) => call[c].kind # "PlaceOrder"
      BY <1>3 DEF Handled, AddBasketItem, DeleteBasketItem, GetBasket
    <2>3. OneOrderPerSubmit' /\ OrdersAreCurrent' /\ ConfirmedIsOrdered'
      BY <1>1, <2>1, OrdersStand DEF placing
    <2>4. \A s \in Submits : Ordered(ledger', s) <=> Ordered(ledger, s)
      BY <2>1 DEF Ordered
    <2> QED BY ONLY <1>1, <2>2, <2>3, <2>4
  <1> QED BY <1>2, <1>3

\* The server's answer is what its request was told, or nobody hears it.
LEMMA Answered ==
  ASSUME ClientInv, NEW c \in Calls, call[c].stage = "sent", NEW stage \in {"done", "failed"},
         NEW body \in Nat, Answer(c, stage, body)
  PROVE  /\ \A d \in Calls \ {c} : call'[d] = call[d]
         /\ \/ call'[c] = NoCall
            \/ /\ call[c].live /\ call'[c].live
               /\ call'[c].stage = stage /\ call'[c].body = body
               /\ call'[c].kind = call[c].kind /\ call'[c].about = call[c].about
               /\ call'[c].left = call[c].left
  <1>1. call \in [Calls -> Call] /\ call[c] \in Call
    BY DEF ClientInv, TypeOK
  <1>2. /\ \A d \in Calls \ {c} : call'[d] = call[d]
        /\ call'[c] = IF call[c].live THEN [call[c] EXCEPT !.stage = stage, !.body = body] ELSE NoCall
    BY <1>1 DEF Answer
  <1> QED BY <1>1, <1>2 DEF Call

\* A step of the server leaves what stands behind the requests and the orders.
LEMMA ServerKeeps ==
  ASSUME ClientInv, NEW c \in Calls, call[c].stage = "sent",
         NEW stage \in {"done", "failed"}, NEW body \in Nat, Answer(c, stage, body),
         Handled(c) \/ UNCHANGED shop, UNCHANGED placing, UNCHANGED view,
         stage = "done" => /\ Handled(c)
                           /\ body = IF call[c].kind = "PlaceOrder" THEN call[c].body
                                     ELSE Len(history'),
         stage = "failed" => body = call[c].body
  PROVE  CallsAreBacked' /\ OneOrderPerSubmit' /\ OrdersAreCurrent' /\ ConfirmedIsOrdered'
  <1>1. /\ OneOrderPerSubmit' /\ OrdersAreCurrent' /\ ConfirmedIsOrdered'
        /\ Len(history') \in Nat /\ Len(history) <= Len(history')
        /\ \A s \in Submits : Ordered(ledger, s) => Ordered(ledger', s)
        /\ \A s \in Submits : Ordered(ledger', s) =>
             Ordered(ledger, s) \/ (call[c].kind = "PlaceOrder" /\ s = call[c].about)
        /\ Handled(c) /\ call[c].kind = "PlaceOrder" => Ordered(ledger', call[c].about)
    BY HandledKeepsOrders
  <1>2. /\ \A d \in Calls \ {c} : call'[d] = call[d]
        /\ \/ call'[c] = NoCall
           \/ /\ call[c].live /\ call'[c].live
              /\ call'[c].stage = stage /\ call'[c].body = body
              /\ call'[c].kind = call[c].kind /\ call'[c].about = call[c].about
              /\ call'[c].left = call[c].left
    BY Answered
  <1>3. Backed(call[c]) /\ call[c] \in Call /\ Len(history) \in Nat /\ view.since \in Nat
    BY LengthsAreNatural DEF ClientInv, CallsAreBacked, TypeOK, Version
  <1>4. UNCHANGED <<asked, confirmed, view>>
    BY DEF placing
  <1>5. Others(c)
    BY <1>1, <1>2, <1>4 DEF Others
  <1>6. SameSubmit(c)
    BY <1>2 DEF SameSubmit, Checkouts, NoCall
  <1>7. Backed(call[c])'
    <2>1. CASE call'[c] = NoCall
      BY <2>1 DEF Backed, NoCall
    <2>2. CASE call'[c] # NoCall
      <3> DEFINE k == call[c]  l == call'[c]
      <3>1. /\ k.live /\ l.live /\ l.stage = stage /\ l.body = body
            /\ l.kind = k.kind /\ l.about = k.about /\ l.left = k.left
        BY <1>2, <2>2
      <3>2. k.body \in Nat /\ k.kind \in Kinds
        BY <1>3 DEF Call, Version, Backed
      <3>3. CASE k.kind = "AddBasketItem"
        BY <1>3, <3>1, <3>3 DEF Backed
      <3>4. CASE k.kind = "DeleteBasketItem"
        BY <1>1, <1>3, <1>4, <3>1, <3>4 DEF Backed
      <3>5. CASE k.kind = "GetBasket"
        <4>1. /\ k.about \in Submits /\ asked[k.about] \in 1..Len(history)
              /\ ~Ordered(ledger', k.about)
          BY <1>1, <1>3, <3>5 DEF Backed
        <4>2. stage = "done" => body = Len(history')
          BY <3>5
        <4>3. asked[k.about] \in 1..Len(history')
              /\ (stage = "done" => body \in asked[k.about]..Len(history'))
          BY <1>1, <1>3, <4>1, <4>2
        <4> QED BY <1>4, <3>1, <3>5, <4>1, <4>3 DEF Backed
      <3>6. CASE k.kind = "PlaceOrder"
        <4>1. /\ k.about \in Submits /\ asked[k.about] \in 1..Len(history) /\ k.left = 0
              /\ k.body \in asked[k.about]..Len(history)
          BY <1>3, <3>6 DEF Backed
        <4>2. body = k.body /\ (stage = "done" => Ordered(ledger', k.about))
          BY <1>1, <3>6
        <4>3. asked[k.about] \in 1..Len(history') /\ body \in asked[k.about]..Len(history')
          BY <1>1, <1>3, <4>1, <4>2
        <4> QED BY <1>4, <3>1, <3>6, <4>1, <4>2, <4>3 DEF Backed
      <3> QED BY <3>2, <3>3, <3>4, <3>5, <3>6
    <2> QED BY <2>1, <2>2
  <1>8. CallsAreBacked'
    BY <1>1, <1>5, <1>6, <1>7, CallStepKeepsCalls
  <1> QED BY <1>1, <1>8

\* The orders, and what stands behind the requests.
OrderingKept ==
  CallsAreBacked' /\ OneOrderPerSubmit' /\ OrdersAreCurrent' /\ ConfirmedIsOrdered'

LEMMA ServerStep ==
  ASSUME ClientInv, NEW c \in Calls, Serve(c) \/ Reject(c) \/ Lose(c)
  PROVE  OrderingKept
  <1>1. call[c].body \in Nat
    BY DEF ClientInv, TypeOK, Call, Version
  <1>2. CASE Serve(c)
    <2>1. Len(history') \in Nat
      BY <1>2, HandledGrows, HandledLengths DEF Serve
    <2>2. UNCHANGED view
      BY <1>2 DEF Serve, screen
    <2> QED BY <1>1, <1>2, <2>1, <2>2, ServerKeeps DEF Serve, OrderingKept
  <1>3. CASE Reject(c)
    <2>1. UNCHANGED view
      BY <1>3 DEF Reject, screen
    <2> QED BY <1>1, <1>3, <2>1, ServerKeeps DEF Reject, OrderingKept
  <1>4. CASE Lose(c)
    <2>1. UNCHANGED view
      BY <1>4 DEF Lose, screen
    <2> QED BY <1>1, <1>4, <2>1, ServerKeeps DEF Lose, OrderingKept
  <1> QED BY <1>2, <1>3, <1>4

(***************************************************************************)
(* The client's steps.                                                     *)
(***************************************************************************)

\* A request is sent as it is, or answered at once with 401.
LEMMA AuthorizedCall ==
  ASSUME NEW k \in Call
  PROVE  /\ Authorized(k) \in Call
         /\ Authorized(k).kind = k.kind /\ Authorized(k).about = k.about
         /\ Authorized(k).left = k.left /\ Authorized(k).body = k.body
         /\ Authorized(k).live = k.live
         /\ Authorized(k).stage \in {k.stage, "failed"}
  BY DEF Authorized, Call

LEMMA ResentCall ==
  ASSUME NEW k \in Call, k.left > 0, k.kind # "none"
  PROVE  /\ Resent(k) \in Call
         /\ Resent(k).kind = k.kind /\ Resent(k).about = k.about
         /\ Resent(k).body = k.body /\ Resent(k).live = k.live /\ Resent(k).stage = "sent"
  <1>1. k.left \in 0..Retries /\ k.left - 1 \in 0..Retries
    BY RetriesAssumption DEF Call
  <1>2. Resent(k) = [k EXCEPT !.stage = "sent", !.left = k.left - 1]
    BY DEF Resent, Call
  <1> QED BY <1>1, <1>2 DEF Call

LEMMA RequestIsCall ==
  ASSUME NEW kind \in Kinds, NEW about \in Products \cup Submits, NEW left \in 0..Retries,
         NEW body \in Nat
  PROVE  Request(kind, about, left, body) \in Call
  BY DEF Request, Call, Version

\* Backed for a step that changes neither the shop nor the visit.
LEMMA ClientKeeps ==
  ASSUME ClientInv, NEW c \in Calls, NEW k,
         call' = [call EXCEPT ![c] = k], UNCHANGED shop, view'.since = view.since,
         \A s \in Submits : asked[s] # 0 => asked'[s] = asked[s],
         SameSubmit(c), Backed(call[c])'
  PROVE  CallsAreBacked'
  <1>1. Len(history') \in Nat /\ Len(history) <= Len(history')
    BY LengthsAreNatural DEF ClientInv, shop
  <1>2. Others(c)
    BY <1>1 DEF Others, shop, ClientInv, TypeOK
  <1> QED BY <1>1, <1>2, CallStepKeepsCalls

\* A request that ends leaves nothing to back.
LEMMA EndKeeps ==
  ASSUME ClientInv, NEW c \in Calls, call' = [call EXCEPT ![c] = NoCall],
         UNCHANGED <<shop, asked>>, view'.since = view.since
  PROVE  CallsAreBacked'
  <1>1. call'[c] = NoCall
    BY DEF ClientInv, TypeOK
  <1>2. SameSubmit(c)
    BY <1>1 DEF SameSubmit, NoCall
  <1>3. Backed(call[c])'
    BY <1>1 DEF Backed, NoCall
  <1> QED BY <1>2, <1>3, ClientKeeps

\* A new request is about a product, or a submit pressed just now.
LEMMA UserKeepsOrders ==
  ASSUME ClientInv, UserStep
  PROVE  OrderingKept
  <1>1. Len(history) \in Nat \ {0} /\ view.since \in Nat
    BY CurrentIsBasket DEF ClientInv, TypeOK, Version
  <1>2. Retries \in Nat
    BY RetriesAssumption
  <1>3. CASE fillForm
    <2>1. Frame /\ UNCHANGED placing
      BY <1>3 DEF fillForm, Frame
    <2> QED BY <2>1, FrameKeepsCalls, FrameKeepsOrders DEF OrderingKept
  <1>4. ASSUME NEW c \in Calls, NEW item \in Products,
               addBasketItem(c, item) \/ deleteItem(c, item)
        PROVE  OrderingKept
    <2>1. UNCHANGED <<shop, placing, view>>
      BY <1>4 DEF addBasketItem, deleteItem, screen
    <2>2. OneOrderPerSubmit' /\ OrdersAreCurrent' /\ ConfirmedIsOrdered'
      BY <2>1, OrdersStand DEF shop, placing
    <2>3. PICK kind \in {"AddBasketItem", "DeleteBasketItem"} :
            /\ call' = [call EXCEPT ![c] = Authorized(Request(kind, item, 0, 0))]
            /\ kind = "DeleteBasketItem" => page = "basket"
      BY <1>4 DEF addBasketItem, deleteItem, addItemToBasket, deleteBasketItem
    <2> DEFINE r == Request(kind, item, 0, 0)
    <2>4. r \in Call
      BY <1>2, RequestIsCall
    <2>5. r.kind = kind /\ r.about = item /\ r.stage = "sent"
      BY DEF Request
    <2> HIDE DEF r
    <2>6. /\ call'[c].kind = kind /\ call'[c].about = item
          /\ call'[c].stage \in {"sent", "failed"}
      BY <2>3, <2>4, <2>5, AuthorizedCall DEF r, ClientInv, TypeOK
    <2>7. Backed(call[c])'
      BY <1>1, <2>1, <2>3, <2>6 DEF Backed, shop, ClientInv, NavigationIsBacked
    <2>8. SameSubmit(c)
      BY <2>6 DEF SameSubmit
    <2>9. CallsAreBacked'
      BY <2>1, <2>3, <2>7, <2>8, ClientKeeps DEF placing
    <2> QED BY <2>2, <2>9 DEF OrderingKept
  <1>5. ASSUME NEW c \in Calls, NEW s \in Submits, submit(c, s)
        PROVE  OrderingKept
    <2>1. /\ UNCHANGED <<shop, view, confirmed>>
          /\ asked[s] = 0 /\ asked' = [asked EXCEPT ![s] = Len(history)]
          /\ call' = [call EXCEPT ![c] = Authorized(Request("GetBasket", s, Retries, 0))]
      BY <1>5 DEF submit, screen, getUserShoppingBasket
    <2>2. asked \in [Submits -> Nat]
      BY DEF ClientInv, TypeOK
    <2>3. asked'[s] = Len(history) /\ \A t \in Submits : asked[t] # 0 => asked'[t] = asked[t]
      BY <2>1, <2>2
    <2>4. OneOrderPerSubmit' /\ OrdersAreCurrent' /\ ConfirmedIsOrdered'
      BY <2>1, <2>3, OrdersStand DEF shop
    <2> DEFINE r == Request("GetBasket", s, Retries, 0)
    <2>5. r \in Call
      BY <1>2, RequestIsCall
    <2>6. r.kind = "GetBasket" /\ r.about = s /\ r.stage = "sent"
      BY DEF Request
    <2> HIDE DEF r
    <2>7. /\ call'[c].kind = "GetBasket" /\ call'[c].about = s
          /\ call'[c].stage \in {"sent", "failed"}
      BY <2>1, <2>5, <2>6, AuthorizedCall DEF r, ClientInv, TypeOK
    <2>8. ~Ordered(ledger, s)
      <3>1. ASSUME NEW i \in 1..Len(ledger), ledger[i].checkoutData = s
            PROVE  FALSE
        <4>1. asked[s] \in 1..ledger[i].orderItems
          BY <3>1 DEF ClientInv, OrdersAreCurrent
        <4>2. ~(0 \in 1..ledger[i].orderItems)
          OBVIOUS
        <4> QED BY <2>1, <4>1, <4>2
      <3> QED BY <3>1 DEF Ordered
    <2>9. Backed(call[c])'
      BY <1>1, <2>1, <2>3, <2>7, <2>8 DEF Backed, shop
    <2>10. SameSubmit(c)
      BY <2>1, <2>7 DEF SameSubmit
    <2>11. CallsAreBacked'
      BY <2>1, <2>3, <2>9, <2>10, ClientKeeps
    <2> QED BY <2>4, <2>11 DEF OrderingKept
  <1> QED BY <1>3, <1>4, <1>5 DEF UserStep

\* The client's half of a request.
ClientStep(c) ==
  Resend(c) \/ handleError(c) \/ ItemAdded(c) \/ ItemDeleted(c) \/ BasketRead(c) \/ OrderPlaced(c)

LEMMA ClientKeepsOrders ==
  ASSUME ClientInv, NEW c \in Calls, ClientStep(c)
  PROVE  OrderingKept
  <1>1. /\ Backed(call[c]) /\ call[c] \in Call /\ call \in [Calls -> Call]
        /\ view \in [body : Nat, since : Nat] /\ Len(history) \in Nat
    BY LengthsAreNatural DEF ClientInv, CallsAreBacked, TypeOK, Version
  <1>2. Retries \in Nat
    BY RetriesAssumption
  <1>3. UNCHANGED <<shop, asked>> /\ view'.since = view.since
    BY <1>1 DEF ClientStep, Resend, handleError, ItemAdded, ItemDeleted, BasketRead,
                OrderPlaced, placing, screen
  <1>4. CASE OrderPlaced(c)
    <2>1. CallsAreBacked'
      BY <1>3, <1>4, EndKeeps DEF OrderPlaced
    <2>2. Ordered(ledger, call[c].about)
      BY <1>1, <1>4 DEF OrderPlaced, Backed
    <2>3. OneOrderPerSubmit' /\ OrdersAreCurrent'
      BY <1>3 DEF ClientInv, shop, OneOrderPerSubmit, OrdersAreCurrent, Basket
    <2>4. ConfirmedIsOrdered'
      BY <1>3, <1>4, <2>2 DEF OrderPlaced, shop, ClientInv, ConfirmedIsOrdered
    <2> QED BY <2>1, <2>3, <2>4 DEF OrderingKept
  <1>5. ASSUME UNCHANGED confirmed
        PROVE  OneOrderPerSubmit' /\ OrdersAreCurrent' /\ ConfirmedIsOrdered'
    BY <1>3, <1>5, OrdersStand DEF shop
  <1>6. CASE handleError(c) \/ ItemAdded(c) \/ ItemDeleted(c)
    <2>1. CallsAreBacked'
      BY <1>3, <1>6, EndKeeps DEF handleError, ItemAdded, ItemDeleted
    <2>2. UNCHANGED confirmed
      BY <1>6 DEF handleError, ItemAdded, ItemDeleted, placing
    <2> QED BY <2>1, <2>2, <1>5 DEF OrderingKept
  <1>7. CASE Resend(c)
    <2> DEFINE r == Resent(call[c])
    <2>1. call' = [call EXCEPT ![c] = Authorized(r)] /\ UNCHANGED <<confirmed, view>>
      BY <1>7 DEF Resend, placing, screen
    <2>2. /\ r \in Call /\ r.kind = call[c].kind /\ r.about = call[c].about
          /\ r.body = call[c].body /\ r.live = call[c].live /\ r.stage = "sent"
      BY <1>1, <1>7, ResentCall DEF Resend, Backed
    <2> HIDE DEF r
    <2>3. call'[c] = Authorized(r)
      BY <1>1, <2>1
    <2>4. /\ call'[c].kind = call[c].kind /\ call'[c].about = call[c].about
          /\ call'[c].body = call[c].body /\ call'[c].live = call[c].live
          /\ call'[c].stage \in {"sent", "failed"}
      BY <2>2, <2>3, AuthorizedCall
    <2>5. call[c].kind # "PlaceOrder" /\ call[c].kind # "none"
      BY <1>1, <1>7 DEF Resend, Backed
    <2>6. Backed(call[c])'
      BY <1>1, <1>3, <2>1, <2>4, <2>5 DEF Backed, shop
    <2>7. SameSubmit(c)
      BY <2>4 DEF SameSubmit, Checkouts
    <2>8. CallsAreBacked'
      BY <1>3, <2>1, <2>6, <2>7, ClientKeeps
    <2> QED BY <2>1, <2>8, <1>5 DEF OrderingKept
  <1>8. CASE BasketRead(c)
    <2> DEFINE r == Request("PlaceOrder", call[c].about, 0, call[c].body)
    <2>1. call' = [call EXCEPT ![c] = Authorized(r)] /\ UNCHANGED <<confirmed, view>>
      BY <1>8 DEF BasketRead, placing, screen, placeUserOrder
    <2>2. /\ call[c].kind = "GetBasket" /\ call[c].about \in Submits
          /\ ~Ordered(ledger, call[c].about)
          /\ asked[call[c].about] \in 1..Len(history)
          /\ call[c].body \in asked[call[c].about]..Len(history)
      BY <1>1, <1>8 DEF BasketRead, Backed
    <2>3. r \in Call
      <3>1. call[c].body \in Nat
        BY <1>1 DEF Call, Version
      <3> QED BY <1>2, <2>2, <3>1, RequestIsCall
    <2>4. /\ r.kind = "PlaceOrder" /\ r.about = call[c].about /\ r.left = 0
          /\ r.body = call[c].body /\ r.stage = "sent"
      BY DEF Request
    <2> HIDE DEF r
    <2>5. call'[c] = Authorized(r)
      BY <1>1, <2>1
    <2>6. /\ call'[c].kind = "PlaceOrder" /\ call'[c].about = call[c].about
          /\ call'[c].left = 0 /\ call'[c].body = call[c].body
          /\ call'[c].stage \in {"sent", "failed"}
      BY <2>3, <2>4, <2>5, AuthorizedCall
    <2>7. Backed(call[c])'
      BY <1>3, <2>1, <2>2, <2>6 DEF Backed, shop
    <2>8. SameSubmit(c)
      BY <2>2, <2>6 DEF SameSubmit, Checkouts
    <2>9. CallsAreBacked'
      BY <1>3, <2>1, <2>7, <2>8, ClientKeeps
    <2> QED BY <2>1, <2>9, <1>5 DEF OrderingKept
  <1> QED BY <1>4, <1>6, <1>7, <1>8 DEF ClientStep

\* Another client only adds versions.
LEMMA OtherClientKeepsOrders ==
  ASSUME ClientInv, NEW basket \in ShoppingBasket, OtherClient(basket)
  PROVE  OrderingKept
  <1>1. /\ history' = Append(history, basket)
        /\ UNCHANGED <<call, ledger, asked, confirmed, view>>
    BY DEF OtherClient, placing, screen
  <1>2. OneOrderPerSubmit' /\ OrdersAreCurrent' /\ ConfirmedIsOrdered'
    BY <1>1, OrdersStand
  <1>3. Len(history') \in Nat /\ Len(history) \in Nat /\ Len(history) <= Len(history')
    BY <1>1, HandledLengths
  <1>4. ASSUME NEW c \in Calls
        PROVE  Backed(call[c])'
    <2>1. /\ Backed(call[c]) /\ call[c].body \in Nat /\ view.since \in Nat
      BY DEF ClientInv, CallsAreBacked, TypeOK, Call, Version
    <2>2. CASE call[c].kind \in {"GetBasket", "PlaceOrder"}
      <3>1. asked[call[c].about] \in 1..Len(history)
        BY <2>1, <2>2 DEF Backed
      <3> QED BY <1>1, <1>3, <2>1, <2>2, <3>1 DEF Backed
    <2>3. CASE call[c].kind \notin {"GetBasket", "PlaceOrder"}
      BY <1>1, <1>3, <2>1, <2>3 DEF Backed
    <2> QED BY <2>2, <2>3
  <1>5. CallsAreBacked'
    BY <1>1, <1>4 DEF CallsAreBacked, Checkouts, ClientInv
  <1> QED BY <1>2, <1>5 DEF OrderingKept

\* Every step keeps the orders and what stands behind the requests.
LEMMA OrdersInductive ==
  ASSUME ClientInv, [Next]_vars
  PROVE  OrderingKept
  <1>1. CASE SessionStep \/ Moves \/ NavigationStep \/ UNCHANGED vars
    <2>1. Frame
      BY <1>1, SessionFrames, MovesFrame, NavigationFrames DEF Frame, vars, screen
    <2> QED BY <2>1, FrameKeepsCalls, FrameKeepsOrders DEF OrderingKept
  <1>2. CASE UserStep
    BY <1>2, UserKeepsOrders
  <1>3. ASSUME NEW c \in Calls, CallStep(c)
        PROVE  OrderingKept
    BY <1>3, ServerStep, ClientKeepsOrders DEF CallStep, ClientStep
  <1>4. ASSUME NEW basket \in ShoppingBasket, OtherClient(basket)
        PROVE  OrderingKept
    BY <1>4, OtherClientKeepsOrders
  <1> QED BY <1>1, <1>2, <1>3, <1>4 DEF Next

(***************************************************************************)
(* The session and the failures keep their types.                          *)
(***************************************************************************)
SessionTypes ==
  /\ tab \in {"blank", "dead", "running", "login", "logout"}
  /\ idp \in {"pending", "ready", "failed"}
  /\ code \in BOOLEAN
  /\ token \in {"none", "valid", "expired"}
  /\ waiting \in BOOLEAN
  /\ failures \in 0..MaxFailures

LEMMA FailsTypes ==
  ASSUME SessionTypes, NEW n \in {0, 1}, Fails(n)
  PROVE  failures' \in 0..MaxFailures
  BY FailuresAssumption DEF SessionTypes, Fails

LEMMA UnloadTypes ==
  ASSUME NEW destination \in {"blank", "login", "logout"}, NEW boot, Unload(destination, boot)
  PROVE  /\ tab' \in {"blank", "dead", "running", "login", "logout"}
         /\ idp' \in {"pending", "ready", "failed"} /\ code' \in BOOLEAN
         /\ waiting' \in BOOLEAN
  BY DEF Unload

LEMMA LoginTypes ==
  ASSUME SessionTypes, initCodeFlow
  PROVE  /\ tab' \in {"blank", "dead", "running", "login", "logout"}
         /\ idp' \in {"pending", "ready", "failed"} /\ code' \in BOOLEAN
         /\ waiting' \in BOOLEAN
  <1>1. CASE Unload("login", NoNavigation)
    BY <1>1, UnloadTypes
  <1>2. CASE waiting' = TRUE /\ UNCHANGED <<tab, idp, code, page, view, filled, call>>
    BY <1>2 DEF SessionTypes
  <1> QED BY <1>1, <1>2 DEF initCodeFlow

LEMMA SessionTypesInductive ==
  ASSUME SessionTypes, [Next]_vars
  PROVE  SessionTypes'
  <1>1. CASE UNCHANGED <<session, failures>>
    BY <1>1 DEF SessionTypes, session
  <1>2. CASE SessionStep
    <2>1. CASE Bootstrap
      BY <2>1 DEF Bootstrap, SessionTypes
    <2>2. CASE BootstrapFails
      BY <2>2, FailsTypes DEF BootstrapFails, SessionTypes
    <2>3. CASE DiscoveryLoaded
      <3>1. CASE Unload("login", NoNavigation)
        BY <2>3, <3>1, UnloadTypes DEF DiscoveryLoaded, SessionTypes
      <3>2. CASE idp' = "ready" /\ UNCHANGED <<tab, code, waiting, screen, call>>
        BY <2>3, <3>2 DEF DiscoveryLoaded, SessionTypes
      <3> QED BY <2>3, <3>1, <3>2 DEF DiscoveryLoaded
    <2>4. ASSUME NEW badRequest \in BOOLEAN, DiscoveryFails(badRequest)
          PROVE  SessionTypes'
      <3>1. CASE Unload("blank", BootAt(Address))
        BY <2>4, <3>1, UnloadTypes, FailsTypes DEF DiscoveryFails, SessionTypes
      <3>2. CASE idp' = "failed" /\ UNCHANGED <<tab, code, waiting, screen, call>>
        BY <2>4, <3>2, FailsTypes DEF DiscoveryFails, SessionTypes
      <3> QED BY <2>4, <3>1, <3>2 DEF DiscoveryFails
    <2>5. CASE TokenReceived \/ SilentRefresh
      BY <2>5 DEF TokenReceived, SilentRefresh, SessionTypes
    <2>6. CASE TokenRefused \/ TokenExpires
      BY <2>6, FailsTypes DEF TokenRefused, TokenExpires, SessionTypes
    <2> QED BY <1>2, <2>1, <2>2, <2>3, <2>4, <2>5, <2>6 DEF SessionStep
  <1>3. CASE Moves
    <2>1. ASSUME NEW to \in Routes, Click(to)
          PROVE  SessionTypes'
      <3>1. CASE initCodeFlow
        BY <2>1, <3>1, LoginTypes DEF Click, SessionTypes
      <3>2. CASE UNCHANGED <<tab, idp, code, waiting>>
        BY <2>1, <3>2 DEF Click, SessionTypes
      <3> QED BY <2>1, <3>1, <3>2 DEF Click, NavigateTo
    <2>2. ASSUME NEW path \in Routes \cup {"", "elsewhere"}, EnterUrl(path)
          PROVE  SessionTypes'
      BY <2>2, UnloadTypes DEF EnterUrl, SessionTypes
    <2>3. CASE Login
      BY <2>3, LoginTypes DEF Login, SessionTypes
    <2>4. CASE Logout
      <3>1. CASE Unload("logout", NoNavigation)
        BY <2>4, <3>1, UnloadTypes DEF Logout, SessionTypes
      <3>2. CASE UNCHANGED <<tab, idp, code, waiting, screen, call>>
        BY <2>4, <3>2 DEF Logout, SessionTypes
      <3> QED BY <2>4, <3>1, <3>2 DEF Logout
    <2>5. ASSUME NEW loggedIn \in BOOLEAN, ComeBack(loggedIn)
          PROVE  SessionTypes'
      BY <2>5 DEF ComeBack, SessionTypes
    <2> QED BY <1>3, <2>1, <2>2, <2>3, <2>4, <2>5 DEF Moves
  <1>4. CASE UserStep
    BY <1>1, <1>4 DEF UserStep, fillForm, addBasketItem, deleteItem, submit
  <1>5. CASE NavigationStep
    <2>1. CASE LoseNavigation
      BY <2>1, FailsTypes DEF LoseNavigation, SessionTypes, session
    <2>2. CASE ServeNavigation \/ RetryNavigation \/ NavigationError \/ NavigationEnd
      BY <1>1, <2>2 DEF ServeNavigation, RetryNavigation, NavigationError, NavigationEnd
    <2> QED BY <1>5, <2>1, <2>2 DEF NavigationStep
  <1>6. ASSUME NEW c \in Calls, CallStep(c)
        PROVE  SessionTypes'
    <2>1. CASE Lose(c)
      BY <2>1, FailsTypes DEF Lose, SessionTypes, session
    <2>2. CASE ClientStep(c) \/ Serve(c) \/ Reject(c)
      BY <1>1, <2>2 DEF ClientStep, Serve, Reject, Resend, handleError, ItemAdded,
                        ItemDeleted, BasketRead, OrderPlaced
    <2> QED BY <1>6, <2>1, <2>2 DEF CallStep, ClientStep
  <1>7. ASSUME NEW basket \in ShoppingBasket, OtherClient(basket)
        PROVE  SessionTypes'
    BY <1>1, <1>7 DEF OtherClient
  <1>8. CASE UNCHANGED vars
    BY <1>1, <1>8 DEF vars
  <1> QED BY <1>2, <1>3, <1>4, <1>5, <1>6, <1>7, <1>8 DEF Next

(***************************************************************************)
(* So do the requests and the shop, which grows.                           *)
(***************************************************************************)
ShopTypes ==
  /\ call \in [Calls -> Call]
  /\ history \in Seq(ShoppingBasket) \ {<<>>}
  /\ ledger \in Seq(PlaceOrder)
  /\ asked \in [Submits -> Nat]
  /\ confirmed \subseteq Submits

Grows == Len(history) <= Len(history') /\ Len(ledger) <= Len(ledger')

LEMMA NoCallIsCall == NoCall \in Call
  BY RetriesAssumption DEF NoCall, Call, Version

LEMMA ShopStays ==
  ASSUME ClientInv, UNCHANGED <<shop, placing>>
  PROVE  /\ history' \in Seq(ShoppingBasket) \ {<<>>} /\ ledger' \in Seq(PlaceOrder)
         /\ asked' \in [Submits -> Nat] /\ confirmed' \subseteq Submits /\ Grows
  BY LengthsAreNatural DEF ClientInv, TypeOK, shop, placing, Grows

LEMMA AbandonTypes ==
  ASSUME ClientInv, NEW kinds, call' = Abandon(kinds)
  PROVE  call' \in [Calls -> Call]
  <1>1. \A c \in Calls : call[c] \in Call
    BY DEF ClientInv, TypeOK
  <1>2. \A k \in Call : [k EXCEPT !.live = FALSE] \in Call
    BY DEF Call
  <1> QED BY <1>1, <1>2, NoCallIsCall DEF Abandon

LEMMA HandledTypes ==
  ASSUME ClientInv, NEW c \in Calls, Handled(c) \/ UNCHANGED shop
  PROVE  history' \in Seq(ShoppingBasket) \ {<<>>} /\ ledger' \in Seq(PlaceOrder) /\ Grows
  <1>1. history \in Seq(ShoppingBasket) \ {<<>>} /\ ledger \in Seq(PlaceOrder)
    BY DEF ClientInv, TypeOK
  <1>2. history' \in Seq(ShoppingBasket) \ {<<>>} /\ Len(history) <= Len(history')
    <2>1. UNCHANGED history \/ \E basket \in ShoppingBasket : history' = Append(history, basket)
      BY HandledGrows DEF shop
    <2> QED BY <1>1, <2>1
  <1>3. CASE InsertOrder(c)
    <2> DEFINE o == buildPlaceOrder(call[c].about, call[c].body)
    <2>1. call[c].about \in Submits /\ call[c].body \in Nat
      BY <1>3 DEF InsertOrder, ClientInv, CallsAreBacked, Backed, TypeOK, Call, Version
    <2>2. o \in PlaceOrder
      BY <2>1 DEF buildPlaceOrder, mapToOrderItems, PlaceOrder, CheckoutData, Version
    <2>3. ledger' = Append(ledger, o)
      BY <1>3 DEF InsertOrder
    <2> HIDE DEF o
    <2> QED BY <1>1, <1>2, <2>2, <2>3 DEF Grows
  <1>4. CASE ~InsertOrder(c)
    <2>1. UNCHANGED ledger
      BY <1>4 DEF Handled, AddBasketItem, DeleteBasketItem, GetBasket, shop
    <2> QED BY <1>1, <1>2, <2>1 DEF Grows
  <1> QED BY <1>3, <1>4

LEMMA AnswerTypes ==
  ASSUME ClientInv, NEW c \in Calls, NEW stage \in {"done", "failed"}, NEW body \in Nat,
         Answer(c, stage, body)
  PROVE  call' \in [Calls -> Call]
  <1>1. call \in [Calls -> Call] /\ call[c] \in Call
    BY DEF ClientInv, TypeOK
  <1>2. [call[c] EXCEPT !.stage = stage, !.body = body] \in Call
    BY <1>1 DEF Call, Version
  <1> QED BY <1>1, <1>2, NoCallIsCall DEF Answer

LEMMA ServerTypes ==
  ASSUME ClientInv, NEW c \in Calls, Serve(c) \/ Reject(c) \/ Lose(c)
  PROVE  ShopTypes' /\ Grows
  <1>1. call[c].body \in Nat
    BY DEF ClientInv, TypeOK, Call, Version
  <1>2. Handled(c) \/ UNCHANGED shop
    BY DEF Serve, Reject, Lose
  <1>3. history' \in Seq(ShoppingBasket) \ {<<>>} /\ ledger' \in Seq(PlaceOrder) /\ Grows
    BY <1>2, HandledTypes
  <1>4. asked' \in [Submits -> Nat] /\ confirmed' \subseteq Submits
    BY DEF Serve, Reject, Lose, placing, ClientInv, TypeOK
  <1>5. PICK stage \in {"done", "failed"}, body \in {call[c].body, Len(history')} :
          Answer(c, stage, body)
    BY DEF Serve, Reject, Lose
  <1>6. Len(history') \in Nat
    BY <1>3
  <1>7. call' \in [Calls -> Call]
    BY <1>1, <1>5, <1>6, AnswerTypes
  <1> QED BY <1>3, <1>4, <1>7 DEF ShopTypes

LEMMA ClientTypes ==
  ASSUME ClientInv, NEW c \in Calls, ClientStep(c)
  PROVE  ShopTypes' /\ Grows
  <1>1. call \in [Calls -> Call] /\ call[c] \in Call /\ Backed(call[c])
    BY DEF ClientInv, TypeOK, CallsAreBacked
  <1>2. UNCHANGED <<shop, asked>>
    BY DEF ClientStep, Resend, handleError, ItemAdded, ItemDeleted, BasketRead, OrderPlaced,
           placing
  <1>3. confirmed' \subseteq Submits
    BY <1>1 DEF ClientStep, Resend, handleError, ItemAdded, ItemDeleted, BasketRead,
                OrderPlaced, placing, Backed, ClientInv, TypeOK
  <1>4. history' \in Seq(ShoppingBasket) \ {<<>>} /\ ledger' \in Seq(PlaceOrder)
        /\ asked' \in [Submits -> Nat] /\ Grows
    BY <1>2, LengthsAreNatural DEF ClientInv, TypeOK, shop, Grows
  <1>5. CASE call' = [call EXCEPT ![c] = NoCall]
    BY <1>1, <1>3, <1>4, <1>5, NoCallIsCall DEF ShopTypes
  <1>6. CASE Resend(c)
    <2>1. Resent(call[c]) \in Call
      BY <1>1, <1>6, ResentCall DEF Resend, Backed
    <2>2. Authorized(Resent(call[c])) \in Call
      BY <2>1, AuthorizedCall
    <2> QED BY <1>1, <1>3, <1>4, <1>6, <2>2 DEF Resend, ShopTypes
  <1>7. CASE BasketRead(c)
    <2>1. call[c].about \in Submits /\ call[c].body \in Nat
      BY <1>1, <1>7 DEF BasketRead, Backed, Call, Version
    <2>2. placeUserOrder(call[c].about, call[c].body) \in Call
      BY <2>1, RequestIsCall, RetriesAssumption DEF placeUserOrder
    <2>3. Authorized(placeUserOrder(call[c].about, call[c].body)) \in Call
      BY <2>2, AuthorizedCall
    <2> QED BY <1>1, <1>3, <1>4, <1>7, <2>3 DEF BasketRead, ShopTypes
  <1> QED BY <1>5, <1>6, <1>7 DEF ClientStep, handleError, ItemAdded, ItemDeleted, OrderPlaced

LEMMA UserTypes ==
  ASSUME ClientInv, UserStep
  PROVE  ShopTypes' /\ Grows
  <1>1. call \in [Calls -> Call] /\ asked \in [Submits -> Nat] /\ Len(history) \in Nat
    BY LengthsAreNatural DEF ClientInv, TypeOK
  <1>2. CASE fillForm
    BY <1>2, ShopStays DEF fillForm, ShopTypes, ClientInv, TypeOK
  <1>3. ASSUME NEW c \in Calls, NEW item \in Products,
               addBasketItem(c, item) \/ deleteItem(c, item)
        PROVE  ShopTypes' /\ Grows
    <2>1. addItemToBasket(item) \in Call /\ deleteBasketItem(item) \in Call
      BY RequestIsCall, RetriesAssumption DEF addItemToBasket, deleteBasketItem
    <2>2. Authorized(addItemToBasket(item)) \in Call /\ Authorized(deleteBasketItem(item)) \in Call
      BY <2>1, AuthorizedCall
    <2>3. call' \in [Calls -> Call]
      BY <1>1, <1>3, <2>2 DEF addBasketItem, deleteItem
    <2>4. UNCHANGED <<shop, placing>>
      BY <1>3 DEF addBasketItem, deleteItem
    <2> QED BY <2>3, <2>4, ShopStays DEF ShopTypes
  <1>4. ASSUME NEW c \in Calls, NEW s \in Submits, submit(c, s)
        PROVE  ShopTypes' /\ Grows
    <2>1. getUserShoppingBasket(s) \in Call
      BY RequestIsCall, RetriesAssumption DEF getUserShoppingBasket
    <2>2. Authorized(getUserShoppingBasket(s)) \in Call
      BY <2>1, AuthorizedCall
    <2>3. call' \in [Calls -> Call] /\ asked' \in [Submits -> Nat]
      BY <1>1, <1>4, <2>2 DEF submit
    <2>4. UNCHANGED <<shop, confirmed>>
      BY <1>4 DEF submit
    <2> QED BY <2>3, <2>4, LengthsAreNatural DEF ShopTypes, ClientInv, TypeOK, shop, Grows
  <1> QED BY <1>2, <1>3, <1>4 DEF UserStep

LEMMA ShopTypesInductive ==
  ASSUME ClientInv, [Next]_vars
  PROVE  ShopTypes' /\ Grows
  <1>1. CASE SessionStep \/ Moves \/ NavigationStep \/ UNCHANGED vars
    <2>1. Frame
      BY <1>1, SessionFrames, MovesFrame, NavigationFrames DEF Frame, vars, screen
    <2>2. call' \in [Calls -> Call]
      BY <2>1, AbandonTypes DEF Frame, ClientInv, TypeOK
    <2> QED BY <2>1, <2>2, ShopStays DEF Frame, ShopTypes
  <1>2. CASE UserStep
    BY <1>2, UserTypes
  <1>3. ASSUME NEW c \in Calls, CallStep(c)
        PROVE  ShopTypes' /\ Grows
    BY <1>3, ServerTypes, ClientTypes DEF CallStep, ClientStep
  <1>4. ASSUME NEW basket \in ShoppingBasket, OtherClient(basket)
        PROVE  ShopTypes' /\ Grows
    <2>1. history \in Seq(ShoppingBasket) /\ history' = Append(history, basket)
      BY <1>4 DEF OtherClient, ClientInv, TypeOK
    <2>2. history' \in Seq(ShoppingBasket) \ {<<>>} /\ Len(history) <= Len(history')
      BY <2>1
    <2>3. UNCHANGED <<call, ledger, placing>>
      BY <1>4 DEF OtherClient
    <2> QED BY <2>2, <2>3, LengthsAreNatural DEF ShopTypes, Grows, placing, ClientInv, TypeOK
  <1> QED BY <1>1, <1>2, <1>3, <1>4 DEF Next

(***************************************************************************)
(* The screen: the navigation and the page, each kept by itself.           *)
(***************************************************************************)
NavInv ==
  /\ nav \in Navigation
  /\ loading \in BOOLEAN
  /\ BarShowsNavigation
  /\ nav.stage # "none" => nav.to \in Routes
  /\ nav.stage = "done" => nav.body >= nav.since
  /\ nav.since <= VersionOf(nav.to)

PageInv ==
  /\ page \in Routes \cup {"none"}
  /\ view \in [body : Version, since : Version]
  /\ filled \in BOOLEAN
  /\ ViewIsOfThisVisit
  /\ page = "basket" => view.since <= Len(history)

BlankBoots == tab = "blank" => nav.stage = "boot"

\* What the shop does underneath.
ShopGoesOn == ShopTypes' /\ Grows

LEMMA ShopLengths ==
  ASSUME ClientInv, ShopGoesOn
  PROVE  /\ Len(history) \in Nat /\ Len(history') \in Nat /\ Len(history) <= Len(history')
         /\ Len(ledger) \in Nat /\ Len(ledger') \in Nat /\ Len(ledger) <= Len(ledger')
  BY LengthsAreNatural DEF ClientInv, ShopGoesOn, ShopTypes, Grows

LEMMA NavStays ==
  ASSUME ClientInv, ShopGoesOn, UNCHANGED <<nav, loading>>
  PROVE  NavInv'
  <1>1. nav.since \in Nat /\ nav.since <= VersionOf(nav.to)
    BY DEF ClientInv, TypeOK, NavigationIsBacked, Navigation
  <1>2. nav'.since <= VersionOf(nav.to)'
    BY <1>1, ShopLengths DEF VersionOf
  <1> QED BY <1>2 DEF NavInv, ClientInv, TypeOK, NavigationIsBacked, BarShowsNavigation

LEMMA NavGone ==
  ASSUME nav' = NoNavigation, loading' = FALSE
  PROVE  NavInv'
  <1>1. nav' = [to |-> "none", stage |-> "none", left |-> 0, body |-> 0, since |-> 0]
    BY DEF NoNavigation
  <1>2. nav' \in Navigation
    BY <1>1, RetriesAssumption DEF Navigation
  <1>3. BarShowsNavigation'
    BY <1>1 DEF BarShowsNavigation
  <1>4. nav'.since <= VersionOf(nav.to)'
    BY <1>1 DEF VersionOf
  <1>5. nav'.stage = "none"
    BY <1>1
  <1>6. loading' \in BOOLEAN
    OBVIOUS
  <1> QED BY <1>2, <1>3, <1>4, <1>5, <1>6 DEF NavInv

LEMMA NavBoots ==
  ASSUME ClientInv, ShopGoesOn, NEW to \in Routes, nav' = BootAt(to), loading' = FALSE
  PROVE  NavInv' /\ BlankBoots'
  <1>1. nav' = [to |-> to, stage |-> "boot", left |-> 0, body |-> 0, since |-> 0]
    BY DEF BootAt, NoNavigation
  <1>2. nav' \in Navigation
    BY <1>1, RetriesAssumption DEF Navigation
  <1>3. BarShowsNavigation'
    BY <1>1 DEF BarShowsNavigation
  <1>4. nav'.since <= VersionOf(nav.to)'
    BY <1>1, ShopLengths DEF VersionOf
  <1>5. nav'.stage = "boot" /\ nav'.to \in Routes
    BY <1>1
  <1>6. loading' \in BOOLEAN
    OBVIOUS
  <1> QED BY <1>2, <1>3, <1>4, <1>5, <1>6 DEF NavInv, BlankBoots

\* A request of a resolver, on its way, answered or failed.
Asks(request) ==
  /\ request \in Navigation
  /\ request.to \in Routes
  /\ request.stage \in {"sent", "done", "failed"}
  /\ request.stage = "done" => request.body >= request.since
  /\ request.since <= VersionOf(request.to)

LEMMA NavAsks ==
  ASSUME ClientInv, ShopGoesOn, NEW request, Asks(request), nav' = request, loading' = TRUE
  PROVE  NavInv'
  <1>1. request.since \in Nat
    BY DEF Asks, Navigation
  <1>2. nav'.since <= VersionOf(nav.to)'
    BY <1>1, ShopLengths DEF VersionOf, Asks
  <1> QED BY <1>2 DEF NavInv, Asks, BarShowsNavigation

LEMMA AuthorizedAsks ==
  ASSUME NEW request, Asks(request)
  PROVE  Asks(Authorized(request))
  <1>1. CASE hasValidAccessToken
    BY <1>1 DEF Authorized
  <1>2. CASE ~hasValidAccessToken
    <2> DEFINE r == [request EXCEPT !.stage = "failed"]
    <2>1. r \in Navigation /\ r.to = request.to /\ r.stage = "failed" /\ r.since = request.since
      BY DEF Asks, Navigation
    <2>2. Authorized(request) = r
      BY <1>2 DEF Authorized
    <2> HIDE DEF r
    <2> QED BY <2>1, <2>2 DEF Asks
  <1> QED BY <1>1, <1>2

LEMMA ResolveAsks ==
  ASSUME ClientInv, NEW to \in Resolved
  PROVE  Asks(Resolve(to))
  <1> USE RetriesAssumption, LengthsAreNatural
          DEF ClientInv, Asks, Navigation, Resolve, Routes, VersionOf, Get
  <1>1. CASE to = "catalog"
    BY <1>1 DEF CatalogResolver, getCatalog
  <1>2. CASE to = "basket"
    BY <1>2 DEF BasketResolver, getUserBasket, EmptyResponse
  <1>3. CASE to = "orders"
    BY <1>3 DEF OrdersResolver, getUserOrders, EmptyResponse
  <1> QED BY <1>1, <1>2, <1>3 DEF Resolved

LEMMA PageStays ==
  ASSUME ClientInv, ShopGoesOn, UNCHANGED <<page, view>>, filled' \in BOOLEAN
  PROVE  PageInv'
  <1>1. view.since \in Nat /\ (page = "basket" => view.since <= Len(history))
    BY DEF ClientInv, TypeOK, NavigationIsBacked, Version
  <1> QED BY <1>1, ShopLengths DEF PageInv, ClientInv, TypeOK, ViewIsOfThisVisit

LEMMA PageShown ==
  ASSUME ClientInv, ShopGoesOn, NEW to \in Routes \cup {"none"},
         NEW body \in Nat, NEW since \in Nat, body >= since, to = "basket" => since <= Len(history),
         page' = to, view' = [body |-> body, since |-> since], filled' \in BOOLEAN
  PROVE  PageInv'
  <1>1. view' \in [body : Version, since : Version] /\ view'.body = body /\ view'.since = since
    BY DEF Version
  <1>2. page' = "basket" => since <= Len(history')
    BY ShopLengths
  <1> QED BY <1>1, <1>2 DEF PageInv, ViewIsOfThisVisit

(***************************************************************************)
(* The steps of the screen.                                                *)
(***************************************************************************)
ScreenKept == NavInv' /\ PageInv' /\ BlankBoots'

LEMMA UnloadScreen ==
  ASSUME ClientInv, ShopGoesOn, NEW destination, NEW boot, Unload(destination, boot),
         \/ destination # "blank" /\ boot = NoNavigation
         \/ \E to \in Routes : boot = BootAt(to)
  PROVE  ScreenKept
  <1>1. PageInv'
    <2>0. filled' \in BOOLEAN
      BY DEF Unload
    <2>1. /\ page' = "none" /\ view' = [body |-> 0, since |-> 0]
          /\ 0 \in Nat /\ 0 >= 0
      BY DEF Unload, NoView
    <2>2. "none" # "basket" /\ "none" \in Routes \cup {"none"}
      OBVIOUS
    <2> QED BY <2>0, <2>1, <2>2, PageShown
  <1>2. CASE destination # "blank" /\ boot = NoNavigation
    BY <1>1, <1>2, NavGone DEF Unload, ScreenKept, BlankBoots
  <1>3. ASSUME NEW to \in Routes, boot = BootAt(to)
        PROVE  ScreenKept
    BY <1>1, <1>3, NavBoots DEF Unload, ScreenKept
  <1> QED BY <1>2, <1>3

LEMMA StayScreen ==
  ASSUME ClientInv, ShopGoesOn, UNCHANGED screen, tab' = tab \/ tab' # "blank"
  PROVE  ScreenKept
  <1>1. UNCHANGED <<nav, loading, page, view, filled>>
    BY DEF screen
  <1>2. filled' \in BOOLEAN
    BY <1>1 DEF ClientInv, TypeOK
  <1>3. BlankBoots'
    BY <1>1 DEF BlankBoots, ClientInv, NavigationIsBacked
  <1> QED BY <1>1, <1>2, <1>3, NavStays, PageStays DEF ScreenKept

\* A route without a resolver, or the answer of one, is shown.
LEMMA ShowScreen ==
  ASSUME ClientInv, ShopGoesOn, NEW to \in Routes, NEW body \in Nat, NEW since \in Nat,
         body >= since, to = "basket" => since <= Len(history),
         Show(to, [body |-> body, since |-> since]), tab' # "blank"
  PROVE  ScreenKept
  BY PageShown, NavGone DEF Show, ScreenKept, BlankBoots

\* The navigation is over, or another one asks; the page stays.
LEMMA StayPage ==
  ASSUME ClientInv, ShopGoesOn, UNCHANGED <<page, view, filled>>, tab' # "blank",
         \/ NavigationCancel
         \/ \E request : Asks(request) /\ nav' = request /\ loading' = TRUE
  PROVE  ScreenKept
  <1>1. PageInv'
    BY PageStays DEF ClientInv, TypeOK
  <1>2. NavInv'
    BY NavGone, NavAsks DEF NavigationCancel
  <1> QED BY <1>1, <1>2 DEF ScreenKept, BlankBoots

LEMMA LoginScreen ==
  ASSUME ClientInv, ShopGoesOn, tab = "running", initCodeFlow,
         idp # "ready" => NavigationCancel \/ UNCHANGED <<nav, loading>>
  PROVE  ScreenKept
  <1>1. CASE Unload("login", NoNavigation)
    BY <1>1, UnloadScreen
  <1>2. CASE idp # "ready" /\ UNCHANGED <<tab, page, view, filled>>
    <2>1. CASE NavigationCancel
      BY <1>2, <2>1, StayPage
    <2>2. CASE UNCHANGED <<nav, loading>>
      BY <1>2, <2>2, StayScreen DEF screen
    <2> QED BY <1>2, <2>1, <2>2
  <1> QED BY <1>1, <1>2 DEF initCodeFlow

LEMMA NavigateScreen ==
  ASSUME ClientInv, ShopGoesOn, tab = "running", NEW to \in Routes, NavigateTo(to)
  PROVE  ScreenKept
  <1>1. CASE NavigationCancel /\ UNCHANGED <<tab, page, view, filled>>
    BY <1>1, StayPage
  <1>2. CASE initCodeFlow /\ (idp # "ready" => NavigationCancel)
    BY <1>2, LoginScreen
  <1>3. CASE /\ to \in Resolved /\ nav' = Authorized(Resolve(to)) /\ loading' = TRUE
             /\ UNCHANGED <<tab, page, view, filled>>
    BY <1>3, ResolveAsks, AuthorizedAsks, StayPage
  <1>4. CASE Show(to, NoView) /\ UNCHANGED tab
    BY <1>4, ShowScreen DEF NoView
  <1> QED BY <1>1, <1>2, <1>3, <1>4 DEF NavigateTo

\* Only Bootstrap and what loads a page anew concern the screen.
LEMMA SessionScreen ==
  ASSUME ClientInv, ShopGoesOn, SessionStep
  PROVE  ScreenKept
  <1>1. CASE Bootstrap
    <2>1. nav.to \in Routes /\ tab' # "blank"
      BY <1>1 DEF Bootstrap, ClientInv, NavigationIsBacked
    <2>2. CASE /\ nav.to \in Resolved /\ nav' = Authorized(Resolve(nav.to)) /\ loading' = TRUE
               /\ UNCHANGED <<page, view, filled>>
      BY <2>1, <2>2, ResolveAsks, AuthorizedAsks, StayPage
    <2>3. CASE Show(nav.to, NoView)
      BY <2>1, <2>3, ShowScreen DEF NoView
    <2>4. CASE NavigationCancel /\ UNCHANGED <<page, view, filled>>
      BY <2>1, <2>4, StayPage
    <2> QED BY <1>1, <2>2, <2>3, <2>4 DEF Bootstrap
  <1>2. CASE BootstrapFails
    <2>1. tab' # "blank" /\ UNCHANGED <<page, view, filled>> /\ nav' = NoNavigation
      BY <1>2 DEF BootstrapFails
    <2>2. loading' = FALSE
      BY <1>2 DEF BootstrapFails, ClientInv, OnlyRunningListens, TypeOK
    <2> QED BY <2>1, <2>2, StayPage DEF NavigationCancel
  <1>3. CASE DiscoveryLoaded
    BY <1>3, UnloadScreen, StayScreen DEF DiscoveryLoaded
  <1>4. ASSUME NEW badRequest \in BOOLEAN, DiscoveryFails(badRequest)
        PROVE  ScreenKept
    <2>1. Address \in Routes
      BY DEF Address, ClientInv, TypeOK, Navigation, Routes
    <2> QED BY <1>4, <2>1, UnloadScreen, StayScreen DEF DiscoveryFails
  <1>5. CASE TokenReceived \/ TokenRefused \/ TokenExpires \/ SilentRefresh
    BY <1>5, StayScreen DEF TokenReceived, TokenRefused, TokenExpires, SilentRefresh
  <1> QED BY <1>1, <1>2, <1>3, <1>4, <1>5 DEF SessionStep

LEMMA MovesScreen ==
  ASSUME ClientInv, ShopGoesOn, Moves
  PROVE  ScreenKept
  <1>1. ASSUME NEW to \in Routes, Click(to)
        PROVE  ScreenKept
    BY <1>1, NavigateScreen DEF Click
  <1>2. ASSUME NEW path \in Routes \cup {"", "elsewhere"}, EnterUrl(path)
        PROVE  ScreenKept
    <2>1. Redirect(path) \in Routes
      BY DEF Redirect, Routes
    <2> QED BY <1>2, <2>1, UnloadScreen DEF EnterUrl
  <1>3. CASE Login
    BY <1>3, LoginScreen DEF Login
  <1>4. CASE Logout
    BY <1>4, UnloadScreen, StayScreen DEF Logout
  <1>5. ASSUME NEW loggedIn \in BOOLEAN, ComeBack(loggedIn)
        PROVE  ScreenKept
    <2>1. nav' = BootAt("home") /\ "home" \in Routes /\ UNCHANGED <<page, view, filled>>
      BY <1>5 DEF ComeBack, Routes
    <2>2. loading' = FALSE
      BY <1>5 DEF ComeBack, ClientInv, OnlyRunningListens, TypeOK
    <2>3. PageInv'
      BY <2>1, PageStays DEF ClientInv, TypeOK
    <2> QED BY <2>1, <2>2, <2>3, NavBoots DEF ScreenKept
  <1> QED BY <1>1, <1>2, <1>3, <1>4, <1>5 DEF Moves

LEMMA NavigationScreen ==
  ASSUME ClientInv, ShopGoesOn, NavigationStep
  PROVE  ScreenKept
  <1>1. CASE nav.stage \notin {"sent", "done", "failed"}
    BY <1>1 DEF NavigationStep, ServeNavigation, LoseNavigation, RetryNavigation,
                NavigationError, NavigationEnd
  <1>2. CASE nav.stage \in {"sent", "done", "failed"}
    <2>1. /\ loading = TRUE /\ tab = "running" /\ nav \in Navigation /\ nav.to \in Routes
          /\ nav.since <= VersionOf(nav.to) /\ (nav.stage = "done" => nav.body >= nav.since)
      BY <1>2 DEF ClientInv, TypeOK, BarShowsNavigation, OnlyRunningListens, NavigationIsBacked
    <2>2. UNCHANGED tab /\ tab' # "blank"
      BY <2>1 DEF NavigationStep, ServeNavigation, LoseNavigation, RetryNavigation,
                  NavigationError, NavigationEnd, session
    <2>3. CASE ServeNavigation
      <3>1. VersionOf(nav.to) \in Nat
        BY LengthsAreNatural DEF VersionOf, ClientInv
      <3> DEFINE request == [nav EXCEPT !.stage = "done", !.body = VersionOf(nav.to)]
      <3>2. Asks(request)
        BY <2>1, <3>1 DEF Asks, Navigation
      <3>3. nav' = request /\ loading' = TRUE /\ UNCHANGED <<page, view, filled>>
        BY <2>1, <2>3 DEF ServeNavigation
      <3> HIDE DEF request
      <3> QED BY <2>2, <3>2, <3>3, StayPage
    <2>4. CASE LoseNavigation
      <3> DEFINE request == [nav EXCEPT !.stage = "failed"]
      <3>1. Asks(request)
        BY <2>1 DEF Asks, Navigation
      <3>2. nav' = request /\ loading' = TRUE /\ UNCHANGED <<page, view, filled>>
        BY <2>1, <2>4 DEF LoseNavigation
      <3> HIDE DEF request
      <3> QED BY <2>2, <3>1, <3>2, StayPage
    <2>5. CASE RetryNavigation
      <3>1. Asks(Resent(nav))
        <4>1. nav.left \in 0..Retries /\ nav.left > 0
          BY <2>1, <2>5 DEF Navigation, RetryNavigation
        <4>2. nav.left - 1 \in 0..Retries
          BY <4>1, RetriesAssumption
        <4>3. /\ Resent(nav) \in Navigation /\ Resent(nav).to = nav.to
              /\ Resent(nav).stage = "sent" /\ Resent(nav).since = nav.since
          BY <2>1, <4>2 DEF Navigation, Resent
        <4> QED BY <2>1, <4>3 DEF Asks
      <3>2. /\ nav' = Authorized(Resent(nav)) /\ loading' = TRUE
            /\ UNCHANGED <<page, view, filled>>
        BY <2>1, <2>5 DEF RetryNavigation
      <3> QED BY <2>2, <3>1, <3>2, AuthorizedAsks, StayPage
    <2>6. CASE NavigationError
      BY <2>2, <2>6, StayPage DEF NavigationError
    <2>7. CASE NavigationEnd
      <3>1. nav.body \in Nat /\ nav.since \in Nat /\ nav.body >= nav.since
        BY <2>1, <2>7 DEF Navigation, NavigationEnd
      <3>2. nav.to = "basket" => nav.since <= Len(history)
        BY <2>1 DEF VersionOf
      <3> QED BY <2>1, <2>2, <2>7, <3>1, <3>2, ShowScreen DEF NavigationEnd
    <2> QED BY <2>3, <2>4, <2>5, <2>6, <2>7 DEF NavigationStep
  <1> QED BY <1>1, <1>2

LEMMA PagesScreen ==
  ASSUME ClientInv, ShopGoesOn, UserStep
  PROVE  ScreenKept
  <1>1. CASE fillForm
    <2>1. UNCHANGED <<nav, loading, page, view, tab>>
      BY <1>1 DEF fillForm, session
    <2>2. filled' \in BOOLEAN
      <3>1. filled' = TRUE
        BY <1>1, Zenon DEF fillForm
      <3> QED BY <3>1
    <2>3. BlankBoots'
      BY <2>1 DEF BlankBoots, ClientInv, NavigationIsBacked
    <2> QED BY <2>1, <2>2, <2>3, NavStays, PageStays DEF ScreenKept
  <1>2. CASE UNCHANGED <<session, screen>>
    BY <1>2, StayScreen DEF session
  <1> QED BY <1>1, <1>2 DEF UserStep, addBasketItem, deleteItem, submit

LEMMA CallsScreen ==
  ASSUME ClientInv, ShopGoesOn, NEW c \in Calls, CallStep(c)
  PROVE  ScreenKept
  <1>1. CASE UNCHANGED <<session, screen>>
    BY <1>1, StayScreen DEF session
  <1>2. CASE ItemDeleted(c)
    <2>1. /\ call[c].body \in Nat /\ view.since \in Nat /\ view.since <= call[c].body
          /\ view \in [body : Version, since : Version] /\ view.since <= Len(history)
      BY <1>2 DEF ItemDeleted, ClientInv, TypeOK, Call, CallsAreBacked, Backed, Version
    <2>2. view' \in [body : Version, since : Version] /\ view'.body = call[c].body
          /\ view'.since = view.since
      BY <1>2, <2>1 DEF ItemDeleted, Version
    <2>3. UNCHANGED <<tab, page, nav, loading, filled>>
      BY <1>2 DEF ItemDeleted, session
    <2>4. page' \in Routes \cup {"none"} /\ filled' \in BOOLEAN /\ BlankBoots'
      BY <2>3 DEF ClientInv, TypeOK, NavigationIsBacked, BlankBoots
    <2>5. view'.since <= Len(history') /\ view'.body >= view'.since
      BY <2>1, <2>2, ShopLengths
    <2>6. PageInv'
      BY <2>2, <2>4, <2>5 DEF PageInv, ViewIsOfThisVisit
    <2> QED BY <2>3, <2>4, <2>6, NavStays DEF ScreenKept
  <1>3. CASE OrderPlaced(c)
    <2>1. tab' # "blank" /\ UNCHANGED <<page, view, filled>>
      BY <1>3 DEF OrderPlaced, session, ClientInv, CallsAreBacked, Backed, OnlyRunningListens
    <2>2. Resolve("catalog") = CatalogResolver /\ "catalog" \in Resolved
      BY DEF Resolve, Resolved
    <2> QED BY <1>3, <2>1, <2>2, ResolveAsks, AuthorizedAsks, StayPage DEF OrderPlaced
  <1> QED BY <1>1, <1>2, <1>3 DEF CallStep, Serve, Reject, Lose, Resend, handleError,
                                  ItemAdded, BasketRead

LEMMA ScreenInductive ==
  ASSUME ClientInv, [Next]_vars
  PROVE  ScreenKept
  <1>1. ShopGoesOn
    BY ShopTypesInductive DEF ShopGoesOn
  <1>2. ASSUME NEW basket \in ShoppingBasket, OtherClient(basket)
        PROVE  ScreenKept
    BY <1>1, <1>2, StayScreen DEF OtherClient, session
  <1>3. CASE UNCHANGED vars
    BY <1>1, <1>3, StayScreen DEF vars, session
  <1> QED BY <1>1, <1>2, <1>3, SessionScreen, MovesScreen, NavigationScreen, PagesScreen,
             CallsScreen DEF Next

(***************************************************************************)
(* Only a running application listens.                                     *)
(***************************************************************************)
LEMMA AbandonListens ==
  ASSUME ClientInv, NEW kinds, call' = Abandon(kinds), NEW c \in Calls, call'[c].live
  PROVE  call[c].live /\ call[c].kind \notin kinds /\ call'[c].kind = call[c].kind
  <1>1. call[c] \in Call
    BY DEF ClientInv, TypeOK
  <1>2. [call[c] EXCEPT !.live = FALSE].live = FALSE
    BY <1>1 DEF Call
  <1> QED BY <1>1, <1>2 DEF Abandon, NoCall

LEMMA UnloadListens ==
  ASSUME ClientInv, NEW destination, NEW boot, Unload(destination, boot)
  PROVE  OnlyRunningListens'
  BY AbandonListens DEF Unload, OnlyRunningListens, ClientInv

\* Nothing new is asked, and the application stays where it was or starts.
LEMMA StillListens ==
  ASSUME ClientInv, tab' = tab \/ tab' = "running",
         loading' => loading \/ tab' = "running",
         UNCHANGED call \/ (\E kinds \in SUBSET Kinds : call' = Abandon(kinds))
  PROVE  OnlyRunningListens'
  BY AbandonListens DEF OnlyRunningListens, ClientInv

\* One request changes.
LEMMA CallListens ==
  ASSUME ClientInv, NEW c \in Calls, UNCHANGED tab, loading' => loading \/ tab = "running",
         \A d \in Calls \ {c} : call'[d] = call[d],
         call'[c].live => tab = "running" /\ call'[c].kind \in Kinds
  PROVE  OnlyRunningListens'
  BY DEF OnlyRunningListens, ClientInv

LEMMA RequestListens ==
  ASSUME NEW kind \in Kinds, NEW about, NEW left, NEW body
  PROVE  Authorized(Request(kind, about, left, body)).kind \in Kinds
  BY DEF Authorized, Request

LEMMA SessionListens ==
  ASSUME ClientInv, SessionStep
  PROVE  OnlyRunningListens'
  <1>1. CASE Bootstrap
    BY <1>1, StillListens DEF Bootstrap, Show
  <1>2. CASE BootstrapFails
    BY <1>2 DEF BootstrapFails, ClientInv, OnlyRunningListens
  <1>3. CASE DiscoveryLoaded
    BY <1>3, UnloadListens, StillListens DEF DiscoveryLoaded, screen
  <1>4. ASSUME NEW badRequest \in BOOLEAN, DiscoveryFails(badRequest)
        PROVE  OnlyRunningListens'
    BY <1>4, UnloadListens, StillListens DEF DiscoveryFails, screen
  <1>5. CASE TokenReceived \/ TokenRefused \/ TokenExpires \/ SilentRefresh
    BY <1>5, StillListens
       DEF TokenReceived, TokenRefused, TokenExpires, SilentRefresh, screen
  <1> QED BY <1>1, <1>2, <1>3, <1>4, <1>5 DEF SessionStep

LEMMA MovesListen ==
  ASSUME ClientInv, Moves
  PROVE  OnlyRunningListens'
  <1>1. ASSUME tab = "running", initCodeFlow,
               idp # "ready" => NavigationCancel \/ UNCHANGED loading
        PROVE  OnlyRunningListens'
    BY <1>1, UnloadListens, StillListens DEF initCodeFlow, NavigationCancel
  <1>2. ASSUME NEW to \in Routes, Click(to)
        PROVE  OnlyRunningListens'
    <2>1. tab = "running" /\ NavigateTo(to)
      BY <1>2 DEF Click
    <2>2. CASE initCodeFlow /\ (idp # "ready" => NavigationCancel)
      BY <1>1, <2>1, <2>2
    <2>3. CASE UNCHANGED <<tab, call>>
      BY <2>1, <2>3, StillListens
    <2>4. CASE Show(to, NoView) /\ UNCHANGED tab
      BY <2>1, <2>4, StillListens DEF Show
    <2> QED BY <2>1, <2>2, <2>3, <2>4 DEF NavigateTo
  <1>3. ASSUME NEW path \in Routes \cup {"", "elsewhere"}, EnterUrl(path)
        PROVE  OnlyRunningListens'
    BY <1>3, UnloadListens DEF EnterUrl
  <1>4. CASE Login
    BY <1>1, <1>4 DEF Login
  <1>5. CASE Logout
    BY <1>5, UnloadListens, StillListens DEF Logout, screen
  <1>6. ASSUME NEW loggedIn \in BOOLEAN, ComeBack(loggedIn)
        PROVE  OnlyRunningListens'
    BY <1>6 DEF ComeBack, ClientInv, OnlyRunningListens
  <1> QED BY <1>2, <1>3, <1>4, <1>5, <1>6 DEF Moves

LEMMA NavigationListens ==
  ASSUME ClientInv, NavigationStep
  PROVE  OnlyRunningListens'
  <1>1. CASE NavigationEnd
    BY <1>1, StillListens DEF NavigationEnd, Show, session
  <1>2. CASE ServeNavigation \/ LoseNavigation \/ RetryNavigation \/ NavigationError
    BY <1>2, StillListens DEF ServeNavigation, LoseNavigation, RetryNavigation,
                              NavigationError, NavigationCancel, session
  <1> QED BY <1>1, <1>2 DEF NavigationStep

LEMMA UserListens ==
  ASSUME ClientInv, UserStep
  PROVE  OnlyRunningListens'
  <1>1. CASE fillForm
    <2>1. UNCHANGED <<tab, loading, call>>
      BY <1>1 DEF fillForm, session
    <2> QED BY <2>1, StillListens
  <1>2. ASSUME NEW c \in Calls, NEW kind \in Kinds, NEW about, NEW left, NEW body,
               call' = [call EXCEPT ![c] = Authorized(Request(kind, about, left, body))],
               tab = "running", UNCHANGED <<tab, loading>>
        PROVE  OnlyRunningListens'
    <2>1. /\ call'[c] = Authorized(Request(kind, about, left, body))
          /\ \A d \in Calls \ {c} : call'[d] = call[d]
      BY <1>2 DEF ClientInv, TypeOK
    <2> QED BY <1>2, <2>1, RequestListens, CallListens
  <1>3. ASSUME NEW c \in Calls, NEW item \in Products, addBasketItem(c, item)
        PROVE  OnlyRunningListens'
    BY <1>2, <1>3 DEF addBasketItem, addItemToBasket, session, screen
  <1>4. ASSUME NEW c \in Calls, NEW item \in Products, deleteItem(c, item)
        PROVE  OnlyRunningListens'
    BY <1>2, <1>4 DEF deleteItem, deleteBasketItem, session, screen
  <1>5. ASSUME NEW c \in Calls, NEW s \in Submits, submit(c, s)
        PROVE  OnlyRunningListens'
    BY <1>2, <1>5 DEF submit, getUserShoppingBasket, session, screen
  <1> QED BY <1>1, <1>3, <1>4, <1>5 DEF UserStep

LEMMA CallsListen ==
  ASSUME ClientInv, NEW c \in Calls, CallStep(c)
  PROVE  OnlyRunningListens'
  <1>1. /\ call \in [Calls -> Call] /\ call[c] \in Call
        /\ (call[c].live => tab = "running" /\ call[c].kind \in Kinds)
        /\ (call[c].stage = "done" => call[c].live)
    BY DEF ClientInv, TypeOK, OnlyRunningListens, CallsAreBacked, Backed
  <1>2. UNCHANGED tab
    BY DEF CallStep, Serve, Reject, Lose, Resend, handleError, ItemAdded, ItemDeleted,
           BasketRead, OrderPlaced, session
  <1>3. loading' => loading \/ tab = "running"
    BY <1>1 DEF CallStep, Serve, Reject, Lose, Resend, handleError, ItemAdded, ItemDeleted,
           BasketRead, OrderPlaced, screen, NavigationCancel
  <1>4. CASE call' = [call EXCEPT ![c] = NoCall]
    BY <1>1, <1>2, <1>3, <1>4, CallListens DEF NoCall
  <1>5. CASE Serve(c) \/ Reject(c) \/ Lose(c)
    <2>1. call[c].stage = "sent" /\ (Handled(c) \/ UNCHANGED shop) /\ call[c].body \in Nat
      BY <1>1, <1>5 DEF Serve, Reject, Lose, Call, Version
    <2>2. Len(history') \in Nat
      BY <2>1, HandledTypes
    <2>3. PICK stage \in {"done", "failed"}, body \in {call[c].body, Len(history')} :
            Answer(c, stage, body)
      BY <1>5 DEF Serve, Reject, Lose
    <2>4. /\ \A d \in Calls \ {c} : call'[d] = call[d]
          /\ call'[c] = NoCall \/ (call[c].live /\ call'[c].kind = call[c].kind)
      BY <2>1, <2>2, <2>3, Answered
    <2> QED BY <1>1, <1>2, <1>3, <2>4, CallListens DEF NoCall
  <1>6. CASE Resend(c)
    <2>1. call' = [call EXCEPT ![c] = Authorized(Resent(call[c]))]
      BY <1>6 DEF Resend
    <2>2. /\ Authorized(Resent(call[c])).live = call[c].live
          /\ Authorized(Resent(call[c])).kind = call[c].kind
      BY <1>1 DEF Authorized, Resent, Call
    <2>3. call'[c] = Authorized(Resent(call[c])) /\ \A d \in Calls \ {c} : call'[d] = call[d]
      BY <1>1, <2>1
    <2> QED BY <1>1, <1>2, <1>3, <2>2, <2>3, CallListens
  <1>7. CASE BasketRead(c)
    <2>1. /\ call'[c] = Authorized(Request("PlaceOrder", call[c].about, 0, call[c].body))
          /\ \A d \in Calls \ {c} : call'[d] = call[d]
      BY <1>1, <1>7 DEF BasketRead, placeUserOrder
    <2>2. tab = "running"
      BY <1>1, <1>7 DEF BasketRead
    <2> QED BY <1>2, <1>3, <2>1, <2>2, RequestListens, CallListens
  <1> QED BY <1>4, <1>5, <1>6, <1>7 DEF CallStep, handleError, ItemAdded, ItemDeleted,
                                        OrderPlaced

LEMMA ListeningInductive ==
  ASSUME ClientInv, [Next]_vars
  PROVE  OnlyRunningListens'
  <1>1. ASSUME NEW basket \in ShoppingBasket, OtherClient(basket)
        PROVE  OnlyRunningListens'
    BY <1>1, StillListens DEF OtherClient, session, screen
  <1>2. CASE UNCHANGED vars
    BY <1>2, StillListens DEF vars, session, screen
  <1> QED BY <1>1, <1>2, SessionListens, MovesListen, NavigationListens, UserListens,
             CallsListen DEF Next

(***************************************************************************)
(* The invariant and what follows.                                         *)
(***************************************************************************)
LEMMA ClientInvInit ==
  ASSUME Init
  PROVE  ClientInv
  <1> USE DEF Init
  <1>1. TypeOK
    <2>1. nav \in Navigation
      <3>1. nav = [to |-> "home", stage |-> "boot", left |-> 0, body |-> 0, since |-> 0]
        BY DEF NoNavigation
      <3>2. "home" \in Routes \cup {"none"} /\ 0 \in 0..Retries
        BY RetriesAssumption DEF Routes
      <3> QED BY ONLY <3>1, <3>2 DEF Navigation
    <2>2. call \in [Calls -> Call]
      BY NoCallIsCall
    <2>3. history \in Seq(ShoppingBasket) \ {<<>>} /\ ledger \in Seq(PlaceOrder)
      BY DEF ShoppingBasket
    <2>4. view \in [body : Version, since : Version]
      BY DEF NoView, Version
    <2>5. code \in BOOLEAN /\ waiting \in BOOLEAN /\ loading \in BOOLEAN /\ filled \in BOOLEAN
      OBVIOUS
    <2>6. failures \in 0..MaxFailures
      BY FailuresAssumption
    <2> QED BY <2>1, <2>2, <2>3, <2>4, <2>5, <2>6 DEF TypeOK
  <1>2. BarShowsNavigation /\ ViewIsOfThisVisit
    BY DEF BarShowsNavigation, ViewIsOfThisVisit, NoView, NoNavigation
  <1>3. OneOrderPerSubmit /\ OrdersAreCurrent /\ ConfirmedIsOrdered
    BY DEF OneOrderPerSubmit, OrdersAreCurrent, ConfirmedIsOrdered
  <1>4. CallsAreBacked /\ OnlyRunningListens
    BY DEF CallsAreBacked, Backed, Checkouts, OnlyRunningListens, NoCall
  <1>5. NavigationIsBacked
    BY DEF NavigationIsBacked, NoNavigation, VersionOf, Routes
  <1> QED BY <1>1, <1>2, <1>3, <1>4, <1>5 DEF ClientInv

LEMMA ClientInvInductive ==
  ASSUME ClientInv, [Next]_vars
  PROVE  ClientInv'
  <1>1. OrderingKept /\ ScreenKept /\ OnlyRunningListens'
    BY OrdersInductive, ScreenInductive, ListeningInductive
  <1>2. ShopTypes' /\ SessionTypes'
    BY ShopTypesInductive, SessionTypesInductive DEF SessionTypes, ClientInv, TypeOK
  <1>3. TypeOK'
    BY <1>1, <1>2 DEF TypeOK, ShopTypes, SessionTypes, ScreenKept, NavInv, PageInv
  <1>4. NavigationIsBacked'
    BY <1>1 DEF NavigationIsBacked, ScreenKept, NavInv, PageInv, BlankBoots
  <1> QED BY <1>1, <1>3, <1>4 DEF ClientInv, OrderingKept, ScreenKept, NavInv, PageInv

\* Everything the client keeps: the orders, the screen, and what stands behind
\* its requests, for any number of products, submits, retries and failures.
THEOREM ClientInvariant == Safety => []ClientInv
  <1>1. Init => ClientInv
    BY ClientInvInit
  <1>2. ClientInv /\ [Next]_vars => ClientInv'
    BY ClientInvInductive
  <1> QED BY <1>1, <1>2, PTL DEF Safety

\* Every variable of the client has its type.
THEOREM ClientTypeCorrect == Safety => []TypeOK
  <1>1. ClientInv => TypeOK
    BY DEF ClientInv
  <1> QED BY <1>1, ClientInvariant, PTL

\* The progress bar shows a navigation and nothing else (NavComponent).
THEOREM BarIsRight == Safety => []BarShowsNavigation
  <1>1. ClientInv => BarShowsNavigation
    BY DEF ClientInv
  <1> QED BY <1>1, ClientInvariant, PTL

\* A page never shows what is older than the visit to it (the resolvers).
THEOREM ViewIsCurrent == Safety => []ViewIsOfThisVisit
  <1>1. ClientInv => ViewIsOfThisVisit
    BY DEF ClientInv
  <1> QED BY <1>1, ClientInvariant, PTL

\* A press of Submit never places two orders (OrderService.placeOrder).
THEOREM OneOrder == Safety => []OneOrderPerSubmit
  <1>1. ClientInv => OneOrderPerSubmit
    BY DEF ClientInv
  <1> QED BY <1>1, ClientInvariant, PTL

\* An order takes a basket no older than its press of Submit, and not an empty
\* one (OrderService.placeOrder, PlaceOrderCommandValidator).
THEOREM OrdersCurrent == Safety => []OrdersAreCurrent
  <1>1. ClientInv => OrdersAreCurrent
    BY DEF ClientInv
  <1> QED BY <1>1, ClientInvariant, PTL

\* The client never reports an order that was not placed (CheckoutComponent).
THEOREM ConfirmedOrdered == Safety => []ConfirmedIsOrdered
  <1>1. ClientInv => ConfirmedIsOrdered
    BY DEF ClientInv
  <1> QED BY <1>1, ClientInvariant, PTL

(***************************************************************************)
(* The promise about ordering the client implements (Checkout).            *)
(***************************************************************************)

LEMMA PromiseInit == Init => Promise!Init
  BY DEF Init, Promise!Init

\* A step that neither places an order nor touches the basket or a button.
LEMMA PromiseStays ==
  ASSUME UNCHANGED <<history, ledger, asked, confirmed>>
  PROVE  [Promise!Next]_(Promise!vars)
  BY DEF Promise!vars

LEMMA FramePromise ==
  ASSUME Frame
  PROVE  [Promise!Next]_(Promise!vars)
  BY PromiseStays DEF Frame, shop, placing

\* A new version of the basket.
LEMMA ChangePromise ==
  ASSUME NEW basket \in ShoppingBasket, history' = Append(history, basket),
         UNCHANGED <<ledger, asked, confirmed>>
  PROVE  Promise!Next
  <1>1. Promise!Change(basket)
    BY DEF Promise!Change
  <1>2. basket \in SUBSET Products
    BY DEF ShoppingBasket, ShoppingBasketItem
  <1> QED BY <1>1, <1>2 DEF Promise!Next

\* An order is placed for a press that has none, of a basket read since.
LEMMA InsertPromise ==
  ASSUME ClientInv, NEW c \in Calls, call[c].stage = "sent", InsertOrder(c),
         UNCHANGED <<asked, confirmed>>
  PROVE  Promise!Next
  <1> PICK s \in Submits, v \in 1..Len(history) :
         /\ s = call[c].about /\ v = call[c].body
         /\ asked[s] \in 1..Len(history) /\ v \in asked[s]..Len(history)
         /\ ~Ordered(ledger, s)
    <2>1. Backed(call[c]) /\ call[c].kind = "PlaceOrder"
      BY DEF InsertOrder, ClientInv, CallsAreBacked
    <2>2. Len(history) \in Nat
      BY CurrentIsBasket DEF ClientInv
    <2> QED BY <2>1, <2>2 DEF Backed
  <1> DEFINE o == [checkoutData |-> s, orderItems |-> v]
  <1>1. Len(history) \in Nat /\ v # 0 /\ asked[s] > 0
    BY CurrentIsBasket DEF ClientInv
  <1>2. /\ ledger' = Append(ledger, o) /\ ledger \in Seq(PlaceOrder)
        /\ history' = history /\ history[v] # {}
    BY <1>1 DEF InsertOrder, buildPlaceOrder, mapToOrderItems, Basket, ClientInv, TypeOK
  <1>3. ~Promise!Placed(s)
    BY DEF Ordered, Promise!Placed
  <1>4. Promise!Place(s, v)
    BY <1>1, <1>2, <1>3 DEF Promise!Place
  <1> QED BY <1>4 DEF Promise!Next

LEMMA HandledPromise ==
  ASSUME ClientInv, NEW c \in Calls, call[c].stage = "sent", Handled(c),
         UNCHANGED <<asked, confirmed>>
  PROVE  [Promise!Next]_(Promise!vars)
  <1>1. CASE InsertOrder(c)
    BY <1>1, InsertPromise
  <1>2. CASE AddBasketItem(c) \/ DeleteBasketItem(c) \/ GetBasket(c)
    <2>1. UNCHANGED ledger
      BY <1>2 DEF AddBasketItem, DeleteBasketItem, GetBasket, shop
    <2>2. CASE UNCHANGED history
      BY <2>1, <2>2, PromiseStays
    <2>3. ASSUME NEW basket \in ShoppingBasket, history' = Append(history, basket)
          PROVE  Promise!Next
      BY <2>1, <2>3, ChangePromise
    <2> QED BY <2>2, <2>3, HandledGrows
  <1> QED BY <1>1, <1>2 DEF Handled

LEMMA ServerPromise ==
  ASSUME ClientInv, NEW c \in Calls, Serve(c) \/ Reject(c) \/ Lose(c)
  PROVE  [Promise!Next]_(Promise!vars)
  <1>1. UNCHANGED <<asked, confirmed>> /\ call[c].stage = "sent"
    BY DEF Serve, Reject, Lose, placing
  <1>2. Handled(c) \/ UNCHANGED <<history, ledger>>
    BY DEF Serve, Reject, Lose, shop
  <1> QED BY <1>1, <1>2, HandledPromise, PromiseStays

\* The client acts on the success of an order that is in the ledger.
LEMMA ConfirmPromise ==
  ASSUME ClientInv, NEW c \in Calls, OrderPlaced(c)
  PROVE  Promise!Next
  <1> PICK s \in Submits : s = call[c].about /\ Ordered(ledger, s)
    BY DEF OrderPlaced, ClientInv, CallsAreBacked, Backed
  <1>1. confirmed' = confirmed \cup {s} /\ UNCHANGED <<history, ledger, asked>>
    BY DEF OrderPlaced, shop
  <1>2. Promise!Confirm(s)
    BY <1>1 DEF Ordered, Promise!Confirm, Promise!Placed
  <1> QED BY <1>2 DEF Promise!Next

LEMMA CallPromise ==
  ASSUME ClientInv, NEW c \in Calls, CallStep(c)
  PROVE  [Promise!Next]_(Promise!vars)
  <1>1. CASE Serve(c) \/ Reject(c) \/ Lose(c)
    BY <1>1, ServerPromise
  <1>2. CASE OrderPlaced(c)
    BY <1>2, ConfirmPromise
  <1>3. CASE Resend(c) \/ handleError(c) \/ ItemAdded(c) \/ ItemDeleted(c) \/ BasketRead(c)
    <2>1. UNCHANGED <<history, ledger, asked, confirmed>>
      BY <1>3 DEF Resend, handleError, ItemAdded, ItemDeleted, BasketRead, shop, placing
    <2> QED BY <2>1, PromiseStays
  <1> QED BY <1>1, <1>2, <1>3 DEF CallStep

LEMMA UserPromise ==
  ASSUME ClientInv, UserStep
  PROVE  [Promise!Next]_(Promise!vars)
  <1>1. ASSUME NEW c \in Calls, NEW s \in Submits, submit(c, s)
        PROVE  Promise!Next
    <2>1. Promise!Press(s)
      BY <1>1 DEF submit, shop, Promise!Press
    <2> QED BY <2>1 DEF Promise!Next
  <1>2. CASE fillForm \/ \E c \in Calls, item \in Products :
                            addBasketItem(c, item) \/ deleteItem(c, item)
    <2>1. UNCHANGED <<history, ledger, asked, confirmed>>
      BY <1>2 DEF fillForm, addBasketItem, deleteItem, shop, placing
    <2> QED BY <2>1, PromiseStays
  <1> QED BY <1>1, <1>2 DEF UserStep

LEMMA PromiseStep == ClientInv /\ [Next]_vars => [Promise!Next]_(Promise!vars)
  <1> SUFFICES ASSUME ClientInv, [Next]_vars
               PROVE  [Promise!Next]_(Promise!vars)
    OBVIOUS
  <1>1. CASE SessionStep \/ Moves \/ NavigationStep
    BY <1>1, SessionFrames, MovesFrame, NavigationFrames, FramePromise
  <1>2. CASE UserStep
    BY <1>2, UserPromise
  <1>3. CASE \E c \in Calls : CallStep(c)
    BY <1>3, CallPromise
  <1>4. CASE \E basket \in ShoppingBasket : OtherClient(basket)
    BY <1>4, ChangePromise DEF OtherClient, placing
  <1>5. CASE UNCHANGED vars
    BY <1>5, PromiseStays DEF vars, shop, placing
  <1> QED BY <1>1, <1>2, <1>3, <1>4, <1>5 DEF Next

\* With its pages, navigations, tokens, requests, retries and losses the client
\* does nothing about ordering but what the promise allows: one order per press,
\* of a basket with items that was current at the press or later, and success
\* only of an order that exists (checkout.component.ts, order.service.ts).
THEOREM ImplementsThePromise == Safety => ImplementsCheckout
  BY PromiseInit, PromiseStep, ClientInvariant, PTL
  DEF Safety, ImplementsCheckout, Promise!Spec
===============================================================================
