------------------------------- MODULE Basket --------------------------------
(***************************************************************************)
(* The basket of one user: a document in Redis that the requests of        *)
(* Basket.API read, change and store again in separate calls, asking the   *)
(* Discount service about every item in between, while Discount changes    *)
(* its coupons, and drops and rebuilds their table whenever it starts.     *)
(*                                                                         *)
(* A basket maps each product to an item; quantity 0 means that there is   *)
(* none.  A product stands for its productId and its productName.  Price   *)
(* and colour are copied along and decide nothing here.                    *)
(***************************************************************************)
EXTENDS Naturals

CONSTANTS
  Products,     \* products of the catalog
  Requests,     \* requests of the user that can be under way at once
  Quantities,   \* quantities the clients add
  Amounts,      \* amounts of coupons
  Seed,         \* the coupons MigrateDatabase inserts
  NoBasket,     \* what Redis returns for a missing key
  MaxRequests,  \* bound on requests
  MaxChanges,   \* bound on changes of coupons and starts of Discount
  MaxFailures   \* bound on failing calls to Redis, Discount and PostgreSQL

\* An item added has discount 0: both clients send that.
ShoppingBasketItem == [quantity : Nat, discount : Amounts \cup {0}]

ShoppingBasket == [Products -> ShoppingBasketItem]

ASSUME QuantitiesAssumption == Quantities \subseteq Nat \ {0}
ASSUME AmountsAssumption    == Amounts \subseteq Nat
ASSUME SeedAssumption       == Seed \in [Products -> SUBSET Amounts]
ASSUME NoBasketAssumption   == NoBasket \notin ShoppingBasket
ASSUME BoundsAssumption     ==
  MaxRequests \in Nat /\ MaxChanges \in Nat /\ MaxFailures \in 0..50

VARIABLES
  store,      \* the document in Redis
  coupons,    \* the rows of table Coupon: the amounts of each product
  table,      \* whether the table exists
  migration,  \* where MigrateDatabase stands
  unseeded,   \* the products whose rows it has still to insert
  job,        \* the requests
  added,      \* how much of each product AddBasketItem has stored
  started, changes, failures   \* budgets spent

discount == <<coupons, table, migration, unseeded>>
vars == <<store, discount, job, added, started, changes, failures>>

NoItem == [quantity |-> 0, discount |-> 0]

\* new ShoppingBasket(userId)
Empty == [p \in Products |-> NoItem]

Items(basket) == {p \in Products : basket[p].quantity # 0}

Units(basket) ==
  [p \in Products |-> IF basket = NoBasket THEN 0 ELSE basket[p].quantity]

(***************************************************************************)
(* A request.  seen is the document it read, copy the basket it works on,  *)
(* todo the items whose discount it has not asked for.  Two facts about    *)
(* the time since its read are kept beside: alone, that no other request   *)
(* stored a basket, and steady, that Discount was up and kept its coupons. *)
(***************************************************************************)

Operations ==
  {"GetBasket", "AddBasketItem", "DeleteBasketItem", "UpdateBasket", "DeleteBasket"}

Job ==
  [op : Operations \cup {"none"}, item : Products \cup {"none"},
   quantity : Quantities \cup {0},
   stage : {"idle", "read", "discounts", "write", "reread", "answered", "failed", "lost"},
   seen : ShoppingBasket \cup {NoBasket}, copy : ShoppingBasket \cup {NoBasket},
   todo : SUBSET Products, shouldUpdate : BOOLEAN,
   alone : BOOLEAN, steady : BOOLEAN]

Idle ==
  [op |-> "none", item |-> "none", quantity |-> 0, stage |-> "idle",
   seen |-> NoBasket, copy |-> NoBasket, todo |-> {}, shouldUpdate |-> FALSE,
   alone |-> TRUE, steady |-> FALSE]

Init ==
  /\ store     = NoBasket
  /\ coupons   = Seed
  /\ table     = TRUE
  /\ migration = "done"
  /\ unseeded  = {}
  /\ job       = [r \in Requests |-> Idle]
  /\ added     = [p \in Products |-> 0]
  /\ started   = 0
  /\ changes   = 0
  /\ failures  = 0

Fails == failures < MaxFailures /\ failures' = failures + 1

Request(r, op, item, quantity, stage, copy) ==
  /\ job[r] = Idle
  /\ started < MaxRequests
  /\ started' = started + 1
  /\ job' = [job EXCEPT ![r] = [Idle EXCEPT !.op = op, !.item = item, !.quantity = quantity,
                                            !.stage = stage, !.copy = copy]]
  /\ UNCHANGED <<store, discount, added, changes, failures>>

\* The endpoints.  UpdateBasket stores what it can deserialize of its body:
\* the items have a private setter, so it is a basket without any.
Begin(r) ==
  \/ Request(r, "GetBasket", "none", 0, "read", NoBasket)
  \/ \E p \in Products, q \in Quantities : Request(r, "AddBasketItem", p, q, "read", NoBasket)
  \/ \E p \in Products : Request(r, "DeleteBasketItem", p, 0, "read", NoBasket)
  \/ Request(r, "UpdateBasket", "none", 0, "write", Empty)
  \/ Request(r, "DeleteBasket", "none", 0, "write", NoBasket)

(***************************************************************************)
(* The first await: repository.GetBasket.                                  *)
(***************************************************************************)

\* What the request goes on with after it read the document.
Read(r, stage, copy, todo) ==
  /\ job[r].stage = "read"
  /\ job' = [job EXCEPT ![r] = [@ EXCEPT !.stage = stage, !.seen = store, !.copy = copy,
                                         !.todo = todo, !.alone = TRUE,
                                         !.steady = (migration = "done")]]
  /\ UNCHANGED <<store, discount, added, started, changes, failures>>

GetUserBasketAndCheckForItemsDiscount(r) ==
  /\ job[r].op = "GetBasket"
  /\ \/ store = NoBasket /\ Read(r, "answered", Empty, {})
     \/ store # NoBasket /\ Items(store) = {} /\ Read(r, "answered", store, {})
     \/ store # NoBasket /\ Items(store) # {} /\ Read(r, "discounts", store, Items(store))

\* Deviation: an item that is there already is replaced.
AddItem_Replaces(basket, p, q) ==
  [basket EXCEPT ![p] = [quantity |-> q, discount |-> 0]]

\* Deviation: a new item is added and then counted once more.
AddItem_NoElse(basket, p, q) ==
  [basket EXCEPT ![p].quantity = @ + (IF @ = 0 THEN q + q ELSE q)]

\* A new item has the client's discount, 0; one that is there keeps its own.
AddItem(basket, p, q) ==
  [basket EXCEPT ![p] = [quantity |-> @.quantity + q,
                         discount |-> IF @.quantity = 0 THEN 0 ELSE @.discount]]

AddItemToBasket(r) ==
  /\ job[r].op = "AddBasketItem"
  /\ Read(r, "write",
          AddItem(IF store = NoBasket THEN Empty ELSE store, job[r].item, job[r].quantity), {})

\* basket.Items of a missing basket throws.
DeleteBasketItem(r) ==
  /\ job[r].op = "DeleteBasketItem"
  /\ \/ store = NoBasket /\ Read(r, "failed", NoBasket, {})
     \/ /\ store # NoBasket
        /\ job[r].item \notin Items(store)
        /\ Read(r, "answered", store, {})
     \/ /\ store # NoBasket
        /\ job[r].item \in Items(store)
        /\ Read(r, "write", [store EXCEPT ![job[r].item] = NoItem], {})

(***************************************************************************)
(* The loop over the items, with an await for each.                        *)
(***************************************************************************)

\* No row of the product counts as a coupon of amount 0; of several any.
Offered(p) == IF coupons[p] = {} THEN {0} ELSE coupons[p]

\* Deviation: the flag is forgotten.
UpdateItemDiscount_Forgotten(j, p, amount) == [j EXCEPT !.copy[p].discount = amount]

\* Deviation: the flag says whether the last item changed.
UpdateItemDiscount_LastOnly(j, p, amount) ==
  [j EXCEPT !.copy[p].discount = amount, !.shouldUpdate = (j.copy[p].discount # amount)]

UpdateItemDiscount(j, p, amount) ==
  [j EXCEPT !.copy[p].discount = amount,
            !.shouldUpdate = @ \/ j.copy[p].discount # amount]

\* The basket is stored once all items are done, if one has changed.
CheckForBasketItemsDiscountUpdate(j) ==
  CASE j.todo # {}                    -> j
    [] j.todo = {} /\ j.shouldUpdate  -> [j EXCEPT !.stage = "write"]
    [] j.todo = {} /\ ~j.shouldUpdate -> [j EXCEPT !.stage = "answered"]

GetDiscount(r) ==
  /\ job[r].stage = "discounts"
  /\ table
  /\ \E p \in job[r].todo : \E amount \in Offered(p) :
       job' = [job EXCEPT ![r] = CheckForBasketItemsDiscountUpdate(
                                   [UpdateItemDiscount(job[r], p, amount) EXCEPT
                                      !.todo = job[r].todo \ {p}])]
  /\ UNCHANGED <<store, discount, added, started, changes, failures>>

\* Deviation: the request is tried again, as often as it takes.
DiscountFails_Retried(r) ==
  /\ job[r].stage = "discounts"
  /\ job' = [job EXCEPT ![r].stage = "read"]
  /\ UNCHANGED <<store, discount, added, started, changes, failures>>

\* The first failing call ends the request: the retry policy of the client
\* logs before it retries, through a logger that is never set.
DiscountFails(r) ==
  /\ job[r].stage = "discounts"
  /\ \/ /\ migration # "done"
        /\ job' = [job EXCEPT ![r].stage = "failed"]
        /\ UNCHANGED failures
     \/ Fails /\ job' = [job EXCEPT ![r].stage = "lost"]
  /\ UNCHANGED <<store, discount, added, started, changes>>

(***************************************************************************)
(* The last awaits: the repository's SetStringAsync or RemoveAsync, and    *)
(* GetBasket once more.                                                    *)
(***************************************************************************)

\* Redis holds the basket of the request, which goes on or has failed.
Stored(r, stage) ==
  /\ store' = job[r].copy
  /\ job'   = [s \in Requests |-> IF s = r THEN [job[r] EXCEPT !.stage = stage]
                                           ELSE [job[s] EXCEPT !.alone = FALSE]]
  /\ added' = IF job[r].op = "AddBasketItem"
              THEN [added EXCEPT ![job[r].item] = @ + job[r].quantity]
              ELSE added

\* Deviation: a basket without items is removed rather than stored.
SetBasket_RemovesEmpty(r) ==
  /\ job[r].stage = "write"
  /\ store' = IF job[r].copy = Empty THEN NoBasket ELSE job[r].copy
  /\ job' = [s \in Requests |-> IF s = r THEN [job[r] EXCEPT !.stage = "reread"]
                                         ELSE [job[s] EXCEPT !.alone = FALSE]]
  /\ added' = IF job[r].op = "AddBasketItem"
              THEN [added EXCEPT ![job[r].item] = @ + job[r].quantity]
              ELSE added
  /\ UNCHANGED <<discount, started, changes, failures>>

SetBasket(r) ==
  /\ job[r].stage = "write"
  /\ Stored(r, IF job[r].op = "DeleteBasket" THEN "answered" ELSE "reread")
  /\ UNCHANGED <<discount, started, changes, failures>>

\* The call fails, before or after Redis has done its work.
WriteFails(r) ==
  /\ job[r].stage = "write"
  /\ Fails
  /\ \/ Stored(r, "lost")
     \/ job' = [job EXCEPT ![r].stage = "lost"] /\ UNCHANGED <<store, added>>
  /\ UNCHANGED <<discount, started, changes>>

\* AddItemToBasket ignores what it reads; ToDto of a missing basket throws.
Reread(r) ==
  /\ job[r].stage = "reread"
  /\ job' = [job EXCEPT ![r].stage =
               IF store = NoBasket /\ job[r].op # "AddBasketItem" THEN "failed" ELSE "answered"]
  /\ UNCHANGED <<store, discount, added, started, changes, failures>>

ReadFails(r) ==
  /\ job[r].stage \in {"read", "reread"}
  /\ Fails
  /\ job' = [job EXCEPT ![r].stage = "lost"]
  /\ UNCHANGED <<store, discount, added, started, changes>>

\* The response, a 200 or a 500, is sent.
End(r) ==
  /\ job[r].stage \in {"answered", "failed", "lost"}
  /\ job' = [job EXCEPT ![r] = Idle]
  /\ UNCHANGED <<store, discount, added, started, changes, failures>>

(***************************************************************************)
(* Discount.                                                               *)
(***************************************************************************)

\* What a request asked before may be answered differently now.
Unsteady == [r \in Requests |-> [job[r] EXCEPT !.steady = FALSE]]

Changes ==
  /\ changes < MaxChanges
  /\ changes' = changes + 1
  /\ job' = Unsteady
  /\ UNCHANGED <<store, added, started, failures>>

\* Rows of one product differ in their amount.
CreateDiscount(p, amount) ==
  /\ table /\ amount \notin coupons[p]
  /\ coupons' = [coupons EXCEPT ![p] = @ \cup {amount}]
  /\ Changes
  /\ UNCHANGED <<table, migration, unseeded>>

\* WHERE Id = @Id: a row of p gets another product and amount.
UpdateDiscount(p, old, q, new) ==
  /\ table /\ old \in coupons[p] /\ new \notin coupons[q]
  /\ coupons' = [x \in Products |-> (coupons[x] \ (IF x = p THEN {old} ELSE {}))
                                      \cup (IF x = q THEN {new} ELSE {})]
  /\ Changes
  /\ UNCHANGED <<table, migration, unseeded>>

\* WHERE ProductName = @ProductName: all rows of p.
DeleteDiscount(p) ==
  /\ table /\ coupons[p] # {}
  /\ coupons' = [coupons EXCEPT ![p] = {}]
  /\ Changes
  /\ UNCHANGED <<table, migration, unseeded>>

Restart ==
  /\ migration = "done"
  /\ migration' = "drop"
  /\ Changes
  /\ UNCHANGED <<coupons, table, unseeded>>

Migrates(from, to) ==
  /\ migration = from
  /\ migration' = to
  /\ UNCHANGED <<store, job, added, started, changes, failures>>

DropTable ==
  /\ Migrates("drop", "create")
  /\ table'   = FALSE
  /\ coupons' = [p \in Products |-> {}]
  /\ UNCHANGED unseeded

CreateTable ==
  /\ Migrates("create", "insert")
  /\ table'    = TRUE
  /\ unseeded' = {p \in Products : Seed[p] # {}}
  /\ UNCHANGED coupons

InsertCoupon ==
  /\ \E p \in unseeded : /\ coupons'  = [coupons EXCEPT ![p] = @ \cup Seed[p]]
                         /\ unseeded' = unseeded \ {p}
  /\ Migrates("insert", "insert")
  /\ UNCHANGED table

Migrated ==
  /\ unseeded = {}
  /\ Migrates("insert", "done")
  /\ UNCHANGED <<coupons, table, unseeded>>

\* Deviation: Discount serves after a failed migration.
MigrationFails_GivesUp ==
  /\ migration # "done"
  /\ Fails
  /\ migration' = "done"
  /\ unseeded'  = {}
  /\ UNCHANGED <<store, coupons, table, job, added, started, changes>>

\* catch (NpgsqlException): from the beginning, 50 times at most, which
\* MaxFailures does not reach.
MigrationFails ==
  /\ migration # "done"
  /\ Fails
  /\ migration' = "drop"
  /\ unseeded'  = {}
  /\ UNCHANGED <<store, coupons, table, job, added, started, changes>>

MigrateDatabase ==
  DropTable \/ CreateTable \/ InsertCoupon \/ Migrated \/ MigrationFails

DiscountStep ==
  \/ \E p \in Products : \/ \E a \in Amounts : CreateDiscount(p, a)
                         \/ \E a, b \in Amounts, q \in Products : UpdateDiscount(p, a, q, b)
                         \/ DeleteDiscount(p)
  \/ Restart
  \/ MigrateDatabase

(***************************************************************************)
(* The specification.                                                      *)
(***************************************************************************)

Handle(r) ==
  \/ GetUserBasketAndCheckForItemsDiscount(r) \/ AddItemToBasket(r) \/ DeleteBasketItem(r)
  \/ GetDiscount(r) \/ DiscountFails(r)
  \/ SetBasket(r) \/ WriteFails(r) \/ Reread(r) \/ ReadFails(r)
  \/ End(r)

Next ==
  \/ \E r \in Requests : Begin(r) \/ Handle(r)
  \/ DiscountStep

Safety == Init /\ [][Next]_vars

\* A call of a request returns or throws, and a migration goes on.
Spec == Safety /\ WF_vars(MigrateDatabase) /\ \A r \in Requests : WF_vars(Handle(r))

(***************************************************************************)
(* Properties.                                                             *)
(***************************************************************************)

\* Every variable has its type.
TypeOK ==
  /\ store \in ShoppingBasket \cup {NoBasket}
  /\ coupons \in [Products -> SUBSET Amounts]
  /\ table \in BOOLEAN
  /\ migration \in {"done", "drop", "create", "insert"}
  /\ unseeded \in SUBSET Products
  /\ job \in [Requests -> Job]
  /\ added \in [Products -> Nat]
  /\ started \in 0..MaxRequests /\ changes \in 0..MaxChanges /\ failures \in 0..MaxFailures

\* However requests overtake and fail, the basket counts no more of a product
\* than AddBasketItem has stored: nothing is added twice, and what was deleted
\* comes back at most as often as it was added (BasketService).
NothingIsCountedTwice == \A p \in Products : Units(store)[p] <= added[p]

\* The units a request should leave of what it read.
Outcome(j) ==
  CASE j.op = "GetBasket"                        -> Units(j.seen)
    [] j.op = "AddBasketItem"                    -> [Units(j.seen) EXCEPT ![j.item] = @ + j.quantity]
    [] j.op = "DeleteBasketItem"                 -> [Units(j.seen) EXCEPT ![j.item] = 0]
    [] j.op \in {"UpdateBasket", "DeleteBasket"} -> [p \in Products |-> 0]

Blind == {"UpdateBasket", "DeleteBasket"}

\* An update is lost, or a deletion undone, only if two requests overlap: one
\* that no other store came between replaces the very basket it read, and
\* leaves it with its own change, although it reads and stores in separate
\* calls (BasketService).
LossTakesARace ==
  \A r \in Requests :
    job[r].alone =>
      /\ job[r].stage = "write" /\ job[r].op \notin Blind => store = job[r].seen
      /\ job[r].stage = "answered" => Units(store) = Outcome(job[r])

\* A basket read while nobody else stores one and Discount keeps its coupons
\* carries, for every item, a discount the coupons offer, in Redis as well
\* (CheckForBasketItemsDiscountUpdate, ShouldUpdateBasket).
DiscountsAreOffered ==
  \A r \in Requests :
    /\ job[r].op = "GetBasket" /\ job[r].stage = "answered"
    /\ job[r].alone /\ job[r].steady /\ store # NoBasket
    => \A p \in Items(store) : store[p].discount \in Offered(p)

\* If no call of it fails, a request fails only because of a store by another
\* one, because Discount is starting while it reads, or for an item of no
\* basket: the basket it stored is there when it reads it again (UpdateBasket,
\* ToDto).
FailuresAreExplained ==
  \A r \in Requests :
    /\ job[r].stage = "failed" /\ job[r].alone
    /\ job[r].op = "GetBasket" => job[r].steady
    => job[r].op = "DeleteBasketItem" /\ job[r].seen = NoBasket

\* What a request works on, at each stage of it.
JobIsExact(j) ==
  /\ j.op = "none" <=> j.stage = "idle"
  /\ j.op = "AddBasketItem" => j.quantity \in Quantities
  /\ j.op \in {"AddBasketItem", "DeleteBasketItem"} => j.item \in Products
  /\ j.stage = "read" => j.op \notin Blind /\ ~j.shouldUpdate
  /\ j.stage = "discounts" => j.op = "GetBasket" /\ j.seen # NoBasket
  /\ j.stage = "reread" => j.op # "DeleteBasket"
  /\ j.stage \in {"write", "reread", "answered"} => j.todo = {}
  /\ j.stage \in {"discounts", "write", "reread", "answered"} =>
       /\ Units(j.copy) = Outcome(j)
       /\ j.op # "DeleteBasket" => j.copy # NoBasket
       /\ j.op = "GetBasket" /\ j.seen # NoBasket /\ ~j.shouldUpdate => j.copy = j.seen

\* A request that is alone finds in Redis what it read, and then what it stored.
AloneIsUndisturbed(j) ==
  j.alone =>
    /\ j.stage \in {"discounts", "write"} /\ j.op \notin Blind => store = j.seen
    /\ j.stage \in {"reread", "answered"} =>
         \/ store = j.copy
         \/ j.op = "GetBasket" /\ j.stage = "answered" /\ store = NoBasket /\ j.seen = NoBasket

\* A steady reader has the current discount of every item it has asked about.
SteadyIsCurrent(j) ==
  j.steady =>
    /\ migration = "done"
    /\ j.op = "GetBasket" /\ j.stage \in {"discounts", "write", "reread", "answered"} =>
         \A p \in Items(j.copy) \ j.todo : j.copy[p].discount \in Offered(p)

\* What a request has read was counted before.
ReadsAreCounted ==
  \A r \in Requests, p \in Products : Units(job[r].seen)[p] <= added[p]

\* The inductive invariant of the basket.
BasketInv ==
  /\ TypeOK
  /\ migration \in {"done", "insert"} => table
  /\ NothingIsCountedTwice
  /\ ReadsAreCounted
  /\ \A r \in Requests : /\ JobIsExact(job[r])
                         /\ AloneIsUndisturbed(job[r])
                         /\ SteadyIsCurrent(job[r])
  /\ FailuresAreExplained

\* Every request is answered: a failing call ends it, for no policy repeats
\* one without end (BasketService, GrpcPolicies).
RequestsEnd == \A r \in Requests : []<>(job[r].stage = "idle")

\* After a start, and the failures in it, Discount has its table again (the
\* retries of MigrateDatabase).
DiscountReturns == []<>(migration = "done" /\ table)
===============================================================================
