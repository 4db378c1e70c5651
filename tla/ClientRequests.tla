---------------------------- MODULE ClientRequests ----------------------------
(***************************************************************************)
(* What the Angular client asks the shop for: its routes and who may enter *)
(* them, the data each page resolves, and the requests of its services.    *)
(*                                                                         *)
(* A basket is the set of products in it.  Quantities and prices decide    *)
(* nothing in the client: a change of theirs only makes another version,   *)
(* and baskets and lists of orders travel as the number of their version.  *)
(***************************************************************************)
EXTENDS Naturals, Sequences

CONSTANTS
  Products,     \* products of the catalog
  Submits,      \* presses of the button Submit, one name for each
  Calls,        \* requests of the pages that can be under way at once
  Retries,      \* how often a failed GET is sent again: retry(3)
  MaxVersions   \* bound on the versions of the user's basket

ASSUME RetriesAssumption  == Retries \in Nat
ASSUME VersionsAssumption == MaxVersions \in Nat

(***************************************************************************)
(* Routes.                                                                 *)
(***************************************************************************)

Routes == {"home", "catalog", "basket", "orders", "checkout", "404"}

\* The routes with canActivate: [AuthGuard].
Private == {"basket", "orders", "checkout"}

\* The routes that wait for a resolver, '' -> /home, and '**' -> /404.
Resolved == {"catalog", "basket", "orders"}

Redirect(path) ==
  CASE path = ""           -> "home"
    [] path \notin Routes  -> "404"
    [] OTHER               -> path

(***************************************************************************)
(* Data.                                                                   *)
(***************************************************************************)

CatalogItem == Products

\* An item is known by its productId.
ShoppingBasketItem == Products

ShoppingBasket == SUBSET ShoppingBasketItem

\* An answer without a body is 0, and shows as an empty basket or list.
Version == Nat

CheckoutData == Submits

\* What is ordered: for whom, and the items of the basket as it was read.
PlaceOrder == [checkoutData : CheckoutData, orderItems : Version]

(***************************************************************************)
(* Requests.  kind names the operation of the gateway, left how often the  *)
(* request is sent again when it fails, body what has been answered.       *)
(***************************************************************************)

Kinds == {"AddBasketItem", "DeleteBasketItem", "GetBasket", "PlaceOrder"}

\* A call is idle, on its way to the server, or answered.  Whoever asked may
\* have gone: then the answer is not live.
Call == [kind  : Kinds \cup {"none"},
         stage : {"idle", "sent", "done", "failed"},
         about : Products \cup Submits \cup {"nothing"},
         left  : 0..Retries, body : Version, live : BOOLEAN]

NoCall == [kind |-> "none", stage |-> "idle", about |-> "nothing",
           left |-> 0, body |-> 0, live |-> FALSE]

Request(kind, about, left, body) ==
  [kind |-> kind, stage |-> "sent", about |-> about,
   left |-> left, body |-> body, live |-> TRUE]

\* A POST and a DELETE are sent once: neither service retries them.
addItemToBasket(item) == Request("AddBasketItem", item, 0, 0)

deleteBasketItem(item) == Request("DeleteBasketItem", item, 0, 0)

\* The basket is read before the order is placed, retry(3) on the read alone.
getUserShoppingBasket(data) == Request("GetBasket", data, Retries, 0)

mapToOrderItems(basket) == basket

buildPlaceOrder(data, basket) ==
  [checkoutData |-> data, orderItems |-> mapToOrderItems(basket)]

\* Deviation: the retry covers the PUT as well as the read.
placeUserOrder_Retried(data, basket) == Request("PlaceOrder", data, Retries, basket)

placeUserOrder(data, basket) == Request("PlaceOrder", data, 0, basket)

(***************************************************************************)
(* Resolvers.  A navigation is none, booting with the page, or waits for   *)
(* its resolver; since is the version current when it began.               *)
(***************************************************************************)

Navigation == [to : Routes \cup {"none"},
               stage : {"none", "boot", "sent", "done", "failed"},
               left : 0..Retries, body : Nat, since : Nat]

NoNavigation == [to |-> "none", stage |-> "none", left |-> 0, body |-> 0, since |-> 0]

Get(to, since) ==
  [to |-> to, stage |-> "sent", left |-> Retries, body |-> 0, since |-> since]

getCatalog == Get("catalog", 0)
getUserBasket(since) == Get("basket", since)
getUserOrders(since) == Get("orders", since)

\* new HttpResponse(): nothing is asked, nothing is known.
EmptyResponse(to) ==
  [to |-> to, stage |-> "done", left |-> 0, body |-> 0, since |-> 0]

CatalogResolver == getCatalog

BasketResolver(claims, since) ==
  IF claims THEN getUserBasket(since) ELSE EmptyResponse("basket")

OrdersResolver(claims, since) ==
  IF claims THEN getUserOrders(since) ELSE EmptyResponse("orders")
===============================================================================
