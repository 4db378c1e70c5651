---------------------------- MODULE ShoppingClient ----------------------------
(***************************************************************************)
(* One browser tab with the Angular client: it boots, logs its user in,    *)
(* navigates, shows pages, and sends requests whose answers arrive when    *)
(* they like, after the user has moved on or left the tab.                 *)
(*                                                                         *)
(* The shop behind the gateway is reduced to what the client relies on: it *)
(* rejects a request without a valid token, and serves any other at once,  *)
(* at some moment between the request and its answer.  Its state is the    *)
(* history of the user's basket and the ledger of the orders placed.       *)
(*                                                                         *)
(* What may fail costs one of MaxFailures: a request or its answer, what   *)
(* the client loads at its start, the exchange of the code, the token.     *)
(***************************************************************************)
EXTENDS ClientRequests, FiniteSets

CONSTANTS
  OthersShop,   \* whether another client of the user changes the basket
  MaxFailures   \* bound on failures

ASSUME OthersAssumption   == OthersShop \in BOOLEAN
ASSUME FailuresAssumption == MaxFailures \in Nat

VARIABLES
  tab,        \* the page: being loaded, without settings, running, or away
  idp,        \* the discovery document: pending, ready or failed
  code,       \* the page was entered with an authorization code
  token,      \* the access token in the session storage
  waiting,    \* initCodeFlow waits for the discovery document
  page,       \* the route whose component is shown
  nav,        \* the navigation under way
  loading,    \* NavComponent.loading: the progress bar
  view,       \* the version the page shows, and the one its visit began at
  filled,     \* the checkout form is valid
  call,       \* the requests of the pages
  history,    \* every version of the user's basket at the server
  ledger,     \* the orders placed at the server
  asked,      \* the version current when the user pressed Submit; 0: not yet
  confirmed,  \* the submits whose success the client acted on
  failures    \* failures so far

session == <<tab, idp, code, token, waiting>>
screen  == <<page, nav, loading, view, filled>>
shop    == <<history, ledger>>
placing == <<asked, confirmed>>
vars == <<session, screen, call, shop, placing, failures>>

NoView == [body |-> 0, since |-> 0]

Basket(v) == IF v = 0 THEN {} ELSE history[v]

Current == history[Len(history)]

Fails(n) == failures' = failures + n /\ failures' <= MaxFailures

Init ==
  /\ tab       = "blank"
  /\ idp       = "pending"
  /\ code      = FALSE
  /\ token     = "none"
  /\ waiting   = FALSE
  /\ page      = "none"
  /\ nav       = [NoNavigation EXCEPT !.to = "home", !.stage = "boot"]
  /\ loading   = FALSE
  /\ view      = NoView
  /\ filled    = FALSE
  /\ call      = [c \in Calls |-> NoCall]
  /\ history   = <<{}>>
  /\ ledger    = <<>>
  /\ asked     = [s \in Submits |-> 0]
  /\ confirmed = {}
  /\ failures  = 0

(***************************************************************************)
(* The session.                                                            *)
(***************************************************************************)

hasValidAccessToken == token = "valid"

\* The claims stay in the session storage beside an expired token.
identityClaims == token # "none"

\* The interceptor adds the token to what goes to the gateway; the gateway
\* answers 401 without a valid one.
Authorized(request) ==
  IF hasValidAccessToken THEN request ELSE [request EXCEPT !.stage = "failed"]

\* One of the retries is used.
Resent(request) == [request EXCEPT !.stage = "sent", !.left = @ - 1]

\* Nobody waits for the answers to these requests any longer.
Abandon(kinds) ==
  [c \in Calls |-> CASE call[c].kind \notin kinds -> call[c]
                     [] call[c].stage = "sent"    -> [call[c] EXCEPT !.live = FALSE]
                     [] OTHER                     -> NoCall]

\* The browser unloads the page: subscriptions, timers and forms are gone.
Unload(destination, boot) ==
  /\ tab'     = destination
  /\ nav'     = boot
  /\ idp'     = "pending"
  /\ code'    = FALSE
  /\ waiting' = FALSE
  /\ page'    = "none"
  /\ loading' = FALSE
  /\ view'    = NoView
  /\ filled'  = FALSE
  /\ call'    = Abandon(Kinds)

BootAt(to) == [NoNavigation EXCEPT !.to = to, !.stage = "boot"]

\* With the discovery document the browser goes to the identity provider;
\* without, the client waits for it, which after a failure is for ever.
initCodeFlow ==
  \/ /\ idp = "ready"
     /\ Unload("login", NoNavigation)
  \/ /\ idp # "ready"
     /\ waiting' = TRUE
     /\ UNCHANGED <<tab, idp, code, page, view, filled, call>>

Login ==
  /\ tab = "running"
  /\ ~hasValidAccessToken
  /\ initCodeFlow
  /\ idp # "ready" => UNCHANGED <<nav, loading>>
  /\ UNCHANGED <<token, shop, placing, failures>>

\* The claims and the token are dropped; without the discovery document there
\* is no logout page to go to.
Logout ==
  /\ tab = "running"
  /\ hasValidAccessToken
  /\ token' = "none"
  /\ \/ idp = "ready" /\ Unload("logout", NoNavigation)
     \/ idp # "ready" /\ UNCHANGED <<tab, idp, code, waiting, screen, call>>
  /\ UNCHANGED <<shop, placing, failures>>

\* Both redirectUri and postLogoutRedirectUri are /home.
ComeBack(loggedIn) ==
  /\ tab \in {"login", "logout"}
  /\ loggedIn => tab = "login"
  /\ tab'  = "blank"
  /\ nav'  = BootAt("home")
  /\ code' = loggedIn
  /\ UNCHANGED <<idp, token, waiting, page, loading, view, filled, call, shop,
                 placing, failures>>

\* The code is exchanged; the profile loaded with it is only kept.
TokenReceived ==
  /\ tab = "running" /\ idp = "ready" /\ code
  /\ token' = "valid"
  /\ code'  = FALSE
  /\ UNCHANGED <<tab, idp, waiting, screen, call, shop, placing, failures>>

TokenRefused ==
  /\ tab = "running" /\ idp = "ready" /\ code
  /\ Fails(1)
  /\ code' = FALSE
  /\ UNCHANGED <<tab, idp, token, waiting, screen, call, shop, placing>>

\* setupAutomaticSilentRefresh keeps the token valid unless its timer or its
\* request comes late.
TokenExpires ==
  /\ token = "valid"
  /\ Fails(1)
  /\ token' = "expired"
  /\ UNCHANGED <<tab, idp, code, waiting, screen, call, shop, placing>>

SilentRefresh ==
  /\ tab = "running" /\ idp = "ready" /\ token = "expired"
  /\ token' = "valid"
  /\ UNCHANGED <<tab, idp, code, waiting, screen, call, shop, placing, failures>>

(***************************************************************************)
(* Navigation.                                                             *)
(***************************************************************************)

canActivate(to) == to \in Private => hasValidAccessToken

Resolve(to) ==
  CASE to = "catalog" -> CatalogResolver
    [] to = "basket"  -> BasketResolver(identityClaims, Len(history))
    [] to = "orders"  -> OrdersResolver(identityClaims, Len(ledger))

\* The component of the new route replaces that of the old one, which no
\* longer shows answers to its deletions.
Show(to, shown) ==
  /\ page'    = to
  /\ view'    = shown
  /\ nav'     = NoNavigation
  /\ loading' = FALSE
  /\ filled'  = FALSE
  /\ call'    = Abandon({"DeleteBasketItem"})

\* NavigationCancel or NavigationError: the page stays.
\* Deviation: a cancelled navigation leaves the progress bar on.
NavigationCancel_Loading == nav' = NoNavigation /\ UNCHANGED loading

NavigationCancel == nav' = NoNavigation /\ loading' = FALSE

\* A navigation cancels the one under way, passes the guard or starts the
\* login, and waits for its resolver if it has one.
NavigateTo(to) ==
  \/ /\ to = page
     /\ NavigationCancel
     /\ UNCHANGED <<tab, idp, code, waiting, page, view, filled, call>>
  \/ /\ to # page /\ ~canActivate(to)
     /\ initCodeFlow
     /\ idp # "ready" => NavigationCancel
  \/ /\ to # page /\ canActivate(to) /\ to \in Resolved
     /\ nav' = Authorized(Resolve(to))
     /\ loading' = TRUE
     /\ UNCHANGED <<tab, idp, code, waiting, page, view, filled, call>>
  \/ /\ to # page /\ canActivate(to) /\ to \notin Resolved
     /\ Show(to, NoView)
     /\ UNCHANGED <<tab, idp, code, waiting>>

\* The settings have been fetched: the application starts at its URL.
Bootstrap ==
  /\ tab = "blank"
  /\ tab' = "running"
  /\ \/ /\ canActivate(nav.to) /\ nav.to \in Resolved
        /\ nav' = Authorized(Resolve(nav.to))
        /\ loading' = TRUE
        /\ UNCHANGED <<waiting, page, view, filled, call>>
     \/ /\ canActivate(nav.to) /\ nav.to \notin Resolved
        /\ Show(nav.to, NoView)
        /\ UNCHANGED waiting
     \/ /\ ~canActivate(nav.to)
        /\ NavigationCancel
        /\ waiting' = TRUE
        /\ UNCHANGED <<page, view, filled, call>>
  /\ UNCHANGED <<idp, code, token, shop, placing, failures>>

\* Nothing catches it: the page stays blank.
BootstrapFails ==
  /\ tab = "blank"
  /\ Fails(1)
  /\ tab' = "dead"
  /\ nav' = NoNavigation
  /\ UNCHANGED <<idp, code, token, waiting, page, loading, view, filled, call, shop, placing>>

\* A login that waited for the document begins.
DiscoveryLoaded ==
  /\ tab = "running" /\ idp = "pending"
  /\ \/ waiting /\ Unload("login", NoNavigation)
     \/ ~waiting /\ idp' = "ready" /\ UNCHANGED <<tab, code, waiting, screen, call>>
  /\ UNCHANGED <<token, shop, placing, failures>>

\* The address bar keeps the old address until a navigation ends.
Address ==
  CASE page # "none"   -> page
    [] nav.to # "none" -> nav.to
    [] OTHER           -> "home"

\* location.reload() on a 400, else the error is logged.
DiscoveryFails(badRequest) ==
  /\ tab = "running" /\ idp = "pending"
  /\ Fails(1)
  /\ \/ badRequest /\ Unload("blank", BootAt(Address))
     \/ ~badRequest /\ idp' = "failed" /\ UNCHANGED <<tab, code, waiting, screen, call>>
  /\ UNCHANGED <<token, shop, placing>>

\* The user enters an address or reloads the page.
EnterUrl(path) ==
  /\ tab \in {"dead", "running"}
  /\ Unload("blank", BootAt(Redirect(path)))
  /\ UNCHANGED <<token, shop, placing, failures>>

\* The links of NavComponent, and CHECKOUT under a basket that is not empty.
Linked(to) ==
  \/ to = "home"
  \/ to \in Resolved /\ hasValidAccessToken
  \/ to = "checkout" /\ page = "basket" /\ Basket(view.body) # {}

Click(to) ==
  /\ tab = "running"
  /\ Linked(to)
  /\ NavigateTo(to)
  /\ UNCHANGED <<token, shop, placing, failures>>

\* Only the versions of the basket and of the orders are told apart.
VersionOf(to) ==
  CASE to = "basket" -> Len(history)
    [] to = "orders" -> Len(ledger)
    [] OTHER         -> 0

ServeNavigation ==
  /\ nav.stage = "sent"
  /\ nav' = [nav EXCEPT !.stage = "done", !.body = VersionOf(nav.to)]
  /\ UNCHANGED <<session, page, loading, view, filled, call, shop, placing, failures>>

LoseNavigation ==
  /\ nav.stage = "sent"
  /\ Fails(1)
  /\ nav' = [nav EXCEPT !.stage = "failed"]
  /\ UNCHANGED <<session, page, loading, view, filled, call, shop, placing>>

\* Deviation: retry() instead of retry(3).
RetryNavigation_Unlimited ==
  /\ nav.stage = "failed"
  /\ nav' = Authorized([nav EXCEPT !.stage = "sent"])
  /\ UNCHANGED <<session, page, loading, view, filled, call, shop, placing, failures>>

\* Deviation: one retry too many.
RetryNavigation_OneMore ==
  /\ nav.stage = "failed" /\ nav.left >= 0
  /\ nav' = Authorized(Resent(nav))
  /\ UNCHANGED <<session, page, loading, view, filled, call, shop, placing, failures>>

RetryNavigation ==
  /\ nav.stage = "failed" /\ nav.left > 0
  /\ nav' = Authorized(Resent(nav))
  /\ UNCHANGED <<session, page, loading, view, filled, call, shop, placing, failures>>

\* Deviation: handleResultError instead: an empty answer takes the place of the
\* one that failed.
NavigationError_EmptyResult ==
  /\ nav.stage = "failed" /\ nav.left = 0
  /\ Show(nav.to, [body |-> 0, since |-> nav.since])
  /\ UNCHANGED <<session, shop, placing, failures>>

\* handleError logs and throws again: NavigationError.
NavigationError ==
  /\ nav.stage = "failed" /\ nav.left = 0
  /\ NavigationCancel
  /\ UNCHANGED <<session, page, view, filled, call, shop, placing, failures>>

NavigationEnd ==
  /\ nav.stage = "done"
  /\ Show(nav.to, [body |-> nav.body, since |-> nav.since])
  /\ UNCHANGED <<session, shop, placing, failures>>

(***************************************************************************)
(* The pages.                                                              *)
(***************************************************************************)

Changing == {c \in Calls : call[c].stage = "sent" /\
                           call[c].kind \in {"AddBasketItem", "DeleteBasketItem"}}

\* Bound: each request on its way may add a version.
Room == Len(history) + Cardinality(Changing) < MaxVersions

addBasketItem(c, item) ==
  /\ tab = "running" /\ page = "catalog"
  /\ call[c] = NoCall
  /\ Room
  /\ call' = [call EXCEPT ![c] = Authorized(addItemToBasket(item))]
  /\ UNCHANGED <<session, screen, shop, placing, failures>>

deleteItem(c, item) ==
  /\ tab = "running" /\ page = "basket"
  /\ item \in Basket(view.body)
  /\ identityClaims
  /\ call[c] = NoCall
  /\ Room
  /\ call' = [call EXCEPT ![c] = Authorized(deleteBasketItem(item))]
  /\ UNCHANGED <<session, screen, shop, placing, failures>>

\* Every field of the form is required.
fillForm ==
  /\ tab = "running" /\ page = "checkout"
  /\ ~filled
  /\ filled' = TRUE
  /\ UNCHANGED <<session, page, nav, loading, view, call, shop, placing, failures>>

\* Deviation: the order is made from the basket the client showed last.
submit_Shown(c, s) ==
  /\ tab = "running" /\ page = "checkout"
  /\ filled /\ identityClaims
  /\ asked[s] = 0
  /\ call[c] = NoCall
  /\ asked' = [asked EXCEPT ![s] = Len(history)]
  /\ \E v \in 1..Len(history) :
       call' = [call EXCEPT ![c] = Authorized(placeUserOrder(s, v))]
  /\ UNCHANGED <<session, screen, shop, confirmed, failures>>

\* The button stays enabled while a submit is under way.
submit(c, s) ==
  /\ tab = "running" /\ page = "checkout"
  /\ filled /\ identityClaims
  /\ asked[s] = 0
  /\ call[c] = NoCall
  /\ asked' = [asked EXCEPT ![s] = Len(history)]
  /\ call' = [call EXCEPT ![c] = Authorized(getUserShoppingBasket(s))]
  /\ UNCHANGED <<session, screen, shop, confirmed, failures>>

(***************************************************************************)
(* The server.  Its answer waits for the client, if anyone is waiting.     *)
(***************************************************************************)

Answer(c, stage, body) ==
  call' = [call EXCEPT ![c] =
             IF @.live THEN [@ EXCEPT !.stage = stage, !.body = body] ELSE NoCall]

AddBasketItem(c) ==
  /\ call[c].kind = "AddBasketItem"
  /\ history' = Append(history, Current \cup {call[c].about})
  /\ UNCHANGED ledger

\* Removing what is not there changes nothing.
DeleteBasketItem(c) ==
  /\ call[c].kind = "DeleteBasketItem"
  /\ history' = IF call[c].about \in Current
                THEN Append(history, Current \ {call[c].about})
                ELSE history
  /\ UNCHANGED ledger

GetBasket(c) ==
  /\ call[c].kind = "GetBasket"
  /\ UNCHANGED shop

\* An order without items is refused.
InsertOrder(c) ==
  /\ call[c].kind = "PlaceOrder"
  /\ Basket(call[c].body) # {}
  /\ ledger' = Append(ledger, buildPlaceOrder(call[c].about, call[c].body))
  /\ UNCHANGED history

Handled(c) == AddBasketItem(c) \/ DeleteBasketItem(c) \/ GetBasket(c) \/ InsertOrder(c)

\* What is ordered is kept with the answer.
Serve(c) ==
  /\ call[c].stage = "sent"
  /\ Handled(c)
  /\ Answer(c, "done", IF call[c].kind = "PlaceOrder" THEN call[c].body
                       ELSE Len(history'))
  /\ UNCHANGED <<session, screen, placing, failures>>

\* DeleteBasketItem throws if there is no basket, PlaceOrder validates its items.
Reject(c) ==
  /\ call[c].stage = "sent"
  /\ \/ call[c].kind = "DeleteBasketItem" /\ Current = {}
     \/ call[c].kind = "PlaceOrder" /\ Basket(call[c].body) = {}
  /\ Answer(c, "failed", call[c].body)
  /\ UNCHANGED <<session, screen, shop, placing, failures>>

\* The request is lost, or only its answer.
Lose(c) ==
  /\ call[c].stage = "sent"
  /\ Fails(1)
  /\ Handled(c) \/ UNCHANGED shop
  /\ Answer(c, "failed", call[c].body)
  /\ UNCHANGED <<session, screen, placing>>

\* Another tab, or the Razor client.
OtherClient(basket) ==
  /\ OthersShop
  /\ basket # Current
  /\ Room
  /\ history' = Append(history, basket)
  /\ UNCHANGED <<session, screen, call, ledger, placing, failures>>

(***************************************************************************)
(* The answers.                                                            *)
(***************************************************************************)

\* Deviation: retry() instead of retry(3).
Resend_Unlimited(c) ==
  /\ call[c].stage = "failed" /\ call[c].left > 0
  /\ call' = [call EXCEPT ![c] = Authorized([@ EXCEPT !.stage = "sent"])]
  /\ UNCHANGED <<session, screen, shop, placing, failures>>

Resend(c) ==
  /\ call[c].stage = "failed" /\ call[c].left > 0
  /\ call' = [call EXCEPT ![c] = Authorized(Resent(@))]
  /\ UNCHANGED <<session, screen, shop, placing, failures>>

\* Deviation: handleResultError(..., result) instead: the error counts as a result.
handleError_Result(c) ==
  /\ call[c].stage = "failed" /\ call[c].left = 0
  /\ call' = [call EXCEPT ![c] = NoCall]
  /\ confirmed' = IF call[c].kind = "PlaceOrder" THEN confirmed \cup {call[c].about}
                  ELSE confirmed
  /\ UNCHANGED <<session, screen, shop, asked, failures>>

\* handleError throws again, and no subscriber takes the error.
handleError(c) ==
  /\ call[c].stage = "failed" /\ call[c].left = 0
  /\ call' = [call EXCEPT ![c] = NoCall]
  /\ UNCHANGED <<session, screen, shop, placing, failures>>

ItemAdded(c) ==
  /\ call[c].stage = "done" /\ call[c].kind = "AddBasketItem"
  /\ call' = [call EXCEPT ![c] = NoCall]
  /\ UNCHANGED <<session, screen, shop, placing, failures>>

\* The page shows the answer, whichever it showed before.
ItemDeleted(c) ==
  /\ call[c].stage = "done" /\ call[c].kind = "DeleteBasketItem"
  /\ call' = [call EXCEPT ![c] = NoCall]
  /\ view' = [view EXCEPT !.body = call[c].body]
  /\ UNCHANGED <<session, page, nav, loading, filled, shop, placing, failures>>

\* Deviation: the client goes on when the basket was read.
BasketRead_Confirms(c) ==
  /\ call[c].stage = "done" /\ call[c].kind = "GetBasket"
  /\ call' = [call EXCEPT ![c] = Authorized(placeUserOrder(@.about, @.body))]
  /\ confirmed' = confirmed \cup {call[c].about}
  /\ UNCHANGED <<session, screen, shop, asked, failures>>

\* mergeMap: the order is placed with what the read returned.
BasketRead(c) ==
  /\ call[c].stage = "done" /\ call[c].kind = "GetBasket"
  /\ call' = [call EXCEPT ![c] = Authorized(placeUserOrder(@.about, @.body))]
  /\ UNCHANGED <<session, screen, shop, placing, failures>>

\* The client goes to the catalog, wherever the user has gone meanwhile.
OrderPlaced(c) ==
  /\ call[c].stage = "done" /\ call[c].kind = "PlaceOrder"
  /\ call' = [call EXCEPT ![c] = NoCall]
  /\ confirmed' = confirmed \cup {call[c].about}
  /\ \/ page = "catalog" /\ NavigationCancel
     \/ page # "catalog" /\ nav' = Authorized(CatalogResolver) /\ loading' = TRUE
  /\ UNCHANGED <<session, page, view, filled, shop, asked, failures>>

(***************************************************************************)
(* The specification.                                                      *)
(***************************************************************************)

NavigationStep ==
  ServeNavigation \/ LoseNavigation \/ RetryNavigation \/ NavigationError \/ NavigationEnd

CallStep(c) ==
  \/ Serve(c) \/ Reject(c) \/ Lose(c) \/ Resend(c) \/ handleError(c)
  \/ ItemAdded(c) \/ ItemDeleted(c) \/ BasketRead(c) \/ OrderPlaced(c)

SessionStep ==
  \/ Bootstrap \/ BootstrapFails \/ DiscoveryLoaded
  \/ \E badRequest \in BOOLEAN : DiscoveryFails(badRequest)
  \/ TokenReceived \/ TokenRefused \/ TokenExpires \/ SilentRefresh

\* The user goes to another page, by a link, an address, a login or a logout.
Moves ==
  \/ \E to \in Routes : Click(to)
  \/ \E path \in Routes \cup {"", "elsewhere"} : EnterUrl(path)
  \/ Login \/ Logout
  \/ \E loggedIn \in BOOLEAN : ComeBack(loggedIn)

UserStep ==
  \/ fillForm
  \/ \E c \in Calls : \/ \E item \in Products : addBasketItem(c, item) \/ deleteItem(c, item)
                      \/ \E s \in Submits : submit(c, s)

Next ==
  \/ SessionStep
  \/ Moves
  \/ UserStep
  \/ NavigationStep
  \/ \E c \in Calls : CallStep(c)
  \/ \E basket \in ShoppingBasket : OtherClient(basket)

Safety == Init /\ [][Next]_vars

\* A request is answered or fails, and the client goes on when it is.
Spec == Safety /\ WF_vars(NavigationStep) /\ \A c \in Calls : WF_vars(CallStep(c))

(***************************************************************************)
(* Properties.                                                             *)
(***************************************************************************)

\* Every variable has its type.
TypeOK ==
  /\ tab \in {"blank", "dead", "running", "login", "logout"}
  /\ idp \in {"pending", "ready", "failed"}
  /\ code \in BOOLEAN
  /\ token \in {"none", "valid", "expired"}
  /\ waiting \in BOOLEAN
  /\ page \in Routes \cup {"none"}
  /\ nav \in Navigation
  /\ loading \in BOOLEAN
  /\ view \in [body : Version, since : Version]
  /\ filled \in BOOLEAN
  /\ call \in [Calls -> Call]
  /\ history \in Seq(ShoppingBasket) \ {<<>>}
  /\ ledger \in Seq(PlaceOrder)
  /\ asked \in [Submits -> Nat]
  /\ confirmed \subseteq Submits
  /\ failures \in 0..MaxFailures

\* The progress bar is on exactly while a navigation waits for its resolver,
\* however it ends: NavigationEnd, NavigationCancel, NavigationError, or with
\* the page (subscribeToRoutingEvents).
BarShowsNavigation == loading <=> nav.stage \in {"sent", "done", "failed"}

\* What a basket or orders page shows is no older than the visit: an item added
\* and an order placed before it began are there, and no answer of an earlier
\* visit replaces it (the resolvers, deleteBasketItem's subscription).
ViewIsOfThisVisit == view.body >= view.since

Ordered(orders, s) == \E i \in 1..Len(orders) : orders[i].checkoutData = s

\* One press of Submit places one order at most, whatever is lost and sent
\* again (retry(3) in placeOrder covers the read of the basket alone).
OneOrderPerSubmit ==
  \A i, j \in 1..Len(ledger) :
    ledger[i].checkoutData = ledger[j].checkoutData => i = j

\* An order takes a basket that was current when Submit was pressed or later,
\* and one with items, however old the basket page is that led to it.
OrdersAreCurrent ==
  \A i \in 1..Len(ledger) :
    /\ asked[ledger[i].checkoutData] \in 1..ledger[i].orderItems
    /\ ledger[i].orderItems <= Len(history)
    /\ Basket(ledger[i].orderItems) # {}

\* The client goes to the catalog for an order that exists.
ConfirmedIsOrdered ==
  \A s \in confirmed : Ordered(ledger, s)

\* What stands behind a request: the submit it is about was pressed, the basket
\* it carries was read since, it is sent only while there is no order of that
\* submit and answered only with one; an answer to a deletion is no older than
\* the visit that shows it.
Backed(k) ==
  /\ k.stage # "idle" => k.kind # "none"
  /\ k.stage = "done" => k.live
  /\ k.kind \in {"AddBasketItem", "DeleteBasketItem"} => k.about \in Products
  /\ k.kind = "DeleteBasketItem" /\ k.live =>
       view.since <= Len(history) /\ (k.stage = "done" => view.since <= k.body)
  /\ k.kind \in {"GetBasket", "PlaceOrder"} =>
       k.about \in Submits /\ asked[k.about] \in 1..Len(history)
  /\ k.kind = "GetBasket" => ~Ordered(ledger, k.about)
  /\ k.kind = "GetBasket" /\ k.stage = "done" => k.body \in asked[k.about]..Len(history)
  /\ k.kind = "PlaceOrder" =>
       /\ k.left = 0
       /\ k.body \in asked[k.about]..Len(history)
       /\ k.stage = "sent" => ~Ordered(ledger, k.about)
       /\ k.stage = "done" => Ordered(ledger, k.about)

Checkouts == {c \in Calls : call[c].kind \in {"GetBasket", "PlaceOrder"}}

CallsAreBacked ==
  /\ \A c \in Calls : Backed(call[c])
  /\ \A c, d \in Checkouts : call[c].about = call[d].about => c = d

\* A navigation waits for a resolver, and a visit began at a version that was.
NavigationIsBacked ==
  /\ nav.stage # "none" => nav.to \in Routes
  /\ tab = "blank" => nav.stage = "boot"
  /\ nav.stage = "done" => nav.body >= nav.since
  /\ nav.since <= VersionOf(nav.to)
  /\ page = "basket" => view.since <= Len(history)

\* Only a running application waits for answers: what leaves it leaves none behind.
OnlyRunningListens ==
  /\ loading => tab = "running"
  /\ \A c \in Calls : call[c].live => tab = "running" /\ call[c].kind \in Kinds

\* The inductive invariant behind the orders and the views.
ClientInv ==
  /\ TypeOK
  /\ BarShowsNavigation
  /\ ViewIsOfThisVisit
  /\ OneOrderPerSubmit
  /\ OrdersAreCurrent
  /\ ConfirmedIsOrdered
  /\ CallsAreBacked
  /\ NavigationIsBacked
  /\ OnlyRunningListens

\* The client and the server implement the promise about ordering, with pages,
\* requests, tokens and losses hidden.
Promise == INSTANCE Checkout WITH
  baskets <- history,
  pressed <- asked,
  orders  <- ledger

ImplementsCheckout == Promise!Spec

\* If the user rests, the navigation ends: a lost answer, a rejected token or a
\* cancelled page does not leave the client waiting (retry(3)).
NavigationEnds == []<><<Moves>>_vars \/ []<>~loading

\* Every request of a page ends (retry(3) again, and no retry elsewhere).
CallsEnd == \A c \in Calls : []<>(call[c] = NoCall)
===============================================================================
