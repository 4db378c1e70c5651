---------------------------- MODULE Basket_proofs -----------------------------
(***************************************************************************)
(* What holds of the basket of every user, for any products, coupons,      *)
(* requests, starts of Discount and failures: BasketInv is inductive.      *)
(***************************************************************************)
EXTENDS Basket, TLAPS

(***************************************************************************)
(* Baskets and what is counted in them.                                    *)
(***************************************************************************)

LEMMA EmptyBasket ==
  /\ Empty \in ShoppingBasket /\ Empty # NoBasket
  /\ Units(Empty) = [p \in Products |-> 0]
  /\ Units(NoBasket) = [p \in Products |-> 0]
  /\ Items(Empty) = {}
  <1>1. Empty \in ShoppingBasket
    BY DEF Empty, NoItem, ShoppingBasket, ShoppingBasketItem
  <1>2. Empty # NoBasket
    BY <1>1, NoBasketAssumption
  <1> QED BY <1>1, <1>2 DEF Units, Items, Empty, NoItem

LEMMA BasketUnits ==
  ASSUME NEW b \in ShoppingBasket
  PROVE  /\ b # NoBasket
         /\ Units(b) = [p \in Products |-> b[p].quantity]
         /\ Units(b) \in [Products -> Nat]
  <1>1. b # NoBasket
    BY NoBasketAssumption
  <1> QED BY <1>1 DEF Units, ShoppingBasket, ShoppingBasketItem

LEMMA UnitsType ==
  ASSUME NEW b \in ShoppingBasket \cup {NoBasket}
  PROVE  Units(b) \in [Products -> Nat]
  BY BasketUnits, EmptyBasket

\* An item added, or taken out, changes the units of its product alone.
LEMMA AddedUnits ==
  ASSUME NEW b \in ShoppingBasket, NEW p \in Products, NEW q \in Quantities
  PROVE  /\ AddItem(b, p, q) \in ShoppingBasket
         /\ Units(AddItem(b, p, q)) = [Units(b) EXCEPT ![p] = @ + q]
  <1>1. q \in Nat
    BY QuantitiesAssumption
  <1>2. AddItem(b, p, q) =
          [x \in Products |->
             IF x = p THEN [quantity |-> b[p].quantity + q,
                            discount |-> IF b[p].quantity = 0 THEN 0 ELSE b[p].discount]
                      ELSE b[x]]
    BY DEF AddItem, ShoppingBasket, ShoppingBasketItem
  <1>3. \A x \in Products : b[x] \in ShoppingBasketItem
    BY DEF ShoppingBasket
  <1>4. AddItem(b, p, q) \in ShoppingBasket
    BY <1>1, <1>2, <1>3 DEF ShoppingBasket, ShoppingBasketItem
  <1>5. \A x \in Products : Units(AddItem(b, p, q))[x] = [Units(b) EXCEPT ![p] = @ + q][x]
    <2> TAKE x \in Products
    <2>1. Units(AddItem(b, p, q))[x] = AddItem(b, p, q)[x].quantity /\ Units(b)[x] = b[x].quantity
      BY <1>4, BasketUnits
    <2>2. Units(b) \in [Products -> Nat]
      BY BasketUnits
    <2>3. AddItem(b, p, q)[x].quantity = IF x = p THEN b[p].quantity + q ELSE b[x].quantity
      BY <1>2
    <2> QED BY <2>1, <2>2, <2>3
  <1>6. /\ Units(AddItem(b, p, q)) \in [Products -> Nat]
        /\ [Units(b) EXCEPT ![p] = @ + q] \in [Products -> Nat]
    BY <1>1, <1>4, BasketUnits
  <1> QED BY <1>4, <1>5, <1>6

LEMMA RemovedUnits ==
  ASSUME NEW b \in ShoppingBasket, NEW p \in Products
  PROVE  /\ [b EXCEPT ![p] = NoItem] \in ShoppingBasket
         /\ Units([b EXCEPT ![p] = NoItem]) = [Units(b) EXCEPT ![p] = 0]
  <1> DEFINE c == [b EXCEPT ![p] = NoItem]
  <1>1. c \in ShoppingBasket
    BY DEF ShoppingBasket, NoItem, ShoppingBasketItem
  <1>2. \A x \in Products : c[x].quantity = IF x = p THEN 0 ELSE b[x].quantity
    BY DEF ShoppingBasket, NoItem
  <1>3. /\ Units(c) = [x \in Products |-> c[x].quantity]
        /\ Units(b) = [x \in Products |-> b[x].quantity]
    BY <1>1, BasketUnits
  <1>4. Units(c) = [Units(b) EXCEPT ![p] = 0]
    <2> HIDE DEF c
    <2> QED BY <1>2, <1>3
  <1> QED BY <1>1, <1>4

\* A discount changes no units, and no other item.
LEMMA DiscountedUnits ==
  ASSUME NEW b \in ShoppingBasket, NEW p \in Products, NEW a \in Amounts \cup {0}
  PROVE  /\ [b EXCEPT ![p].discount = a] \in ShoppingBasket
         /\ Units([b EXCEPT ![p].discount = a]) = Units(b)
         /\ Items([b EXCEPT ![p].discount = a]) = Items(b)
         /\ [b EXCEPT ![p].discount = a][p].discount = a
         /\ \A x \in Products \ {p} : [b EXCEPT ![p].discount = a][x] = b[x]
         /\ b[p].discount = a => [b EXCEPT ![p].discount = a] = b
  <1> DEFINE c == [b EXCEPT ![p].discount = a]
  <1>1. b \in [Products -> ShoppingBasketItem] /\ b[p] \in ShoppingBasketItem
    BY DEF ShoppingBasket
  <1>2. /\ c[p] = [b[p] EXCEPT !.discount = a]
        /\ \A x \in Products \ {p} : c[x] = b[x]
    BY <1>1
  <1>3. c[p] \in ShoppingBasketItem /\ c[p].discount = a /\ c[p].quantity = b[p].quantity
    BY <1>1, <1>2 DEF ShoppingBasketItem
  <1>4. c \in ShoppingBasket
    BY <1>1, <1>3 DEF ShoppingBasket
  <1>5. Units(c) = Units(b)
    <2>1. \A x \in Products : c[x].quantity = b[x].quantity
      BY <1>2, <1>3
    <2>2. Units(c) = [x \in Products |-> c[x].quantity]
      BY <1>4, BasketUnits
    <2>3. Units(b) = [x \in Products |-> b[x].quantity]
      BY BasketUnits
    <2> HIDE DEF c
    <2> QED BY <2>1, <2>2, <2>3
  <1>6. Items(c) = Items(b)
    BY <1>2, <1>3 DEF Items
  <1>7. ASSUME b[p].discount = a  PROVE c = b
    <2>1. c[p] = b[p]
      BY <1>1, <1>2, <1>7 DEF ShoppingBasketItem
    <2> QED BY <1>1, <1>2, <1>4, <2>1 DEF ShoppingBasket
  <1> QED BY <1>2, <1>3, <1>4, <1>5, <1>6, <1>7

(***************************************************************************)
(* Types.                                                                  *)
(***************************************************************************)

Stages ==
  {"idle", "read", "discounts", "write", "reread", "answered", "failed", "lost"}

LEMMA IdleIsJob == Idle \in Job
  BY DEF Idle, Job

\* The changes a step makes to a request keep it one.
LEMMA JobChanges ==
  ASSUME NEW j \in Job, NEW stage \in Stages
  PROVE  /\ [j EXCEPT !.stage = stage] \in Job
         /\ [j EXCEPT !.alone = FALSE] \in Job
         /\ [j EXCEPT !.steady = FALSE] \in Job
  <1>1. [j EXCEPT !.stage = stage] \in Job
    BY DEF Job, Stages
  <1>2. [j EXCEPT !.alone = FALSE] \in Job
    BY DEF Job
  <1>3. [j EXCEPT !.steady = FALSE] \in Job
    BY DEF Job
  <1> QED BY <1>1, <1>2, <1>3

LEMMA JobReads ==
  ASSUME NEW j \in Job, NEW stage \in Stages, NEW seen \in ShoppingBasket \cup {NoBasket},
         NEW copy \in ShoppingBasket \cup {NoBasket}, NEW todo \in SUBSET Products,
         NEW steady \in BOOLEAN
  PROVE  [j EXCEPT !.stage = stage, !.seen = seen, !.copy = copy, !.todo = todo,
                   !.alone = TRUE, !.steady = steady] \in Job
  BY DEF Job, Stages

\* A request that starts, as a record.
LEMMA JobStarts ==
  ASSUME NEW op \in Operations, NEW item \in Products \cup {"none"},
         NEW quantity \in Quantities \cup {0}, NEW stage \in Stages,
         NEW copy \in ShoppingBasket \cup {NoBasket}
  PROVE  [Idle EXCEPT !.op = op, !.item = item, !.quantity = quantity,
                      !.stage = stage, !.copy = copy] \in Job
  BY DEF Job, Stages, Idle

LEMMA OfferedAmounts ==
  ASSUME TypeOK, NEW p \in Products
  PROVE  Offered(p) \subseteq Amounts \cup {0}
  BY DEF TypeOK, Offered

\* n is request j after item p of its basket was given the discount a.
WithDiscount(n, j, p, a) ==
  /\ n \in Job
  /\ n.op = j.op /\ n.item = j.item /\ n.quantity = j.quantity /\ n.seen = j.seen
  /\ n.alone = j.alone /\ n.steady = j.steady
  /\ n.todo = j.todo \ {p}
  /\ n.copy = [j.copy EXCEPT ![p].discount = a]
  /\ n.shouldUpdate = (j.shouldUpdate \/ j.copy[p].discount # a)
  /\ n.stage \in {j.stage, "write", "answered"}
  /\ n.stage = "answered" => j.stage = "answered" \/ ~n.shouldUpdate
  /\ n.stage # j.stage => n.todo = {}

AfterDiscount(j, p, a) ==
  CheckForBasketItemsDiscountUpdate([UpdateItemDiscount(j, p, a) EXCEPT !.todo = j.todo \ {p}])

LEMMA Discounted ==
  ASSUME NEW j \in Job, j.copy \in ShoppingBasket, NEW p \in Products,
         NEW a \in Amounts \cup {0}
  PROVE  WithDiscount(AfterDiscount(j, p, a), j, p, a)
  <1> DEFINE s == j.shouldUpdate \/ j.copy[p].discount # a
             c == [j.copy EXCEPT ![p].discount = a]
             m == [j EXCEPT !.copy = c, !.shouldUpdate = s, !.todo = j.todo \ {p}]
             n == AfterDiscount(j, p, a)
  <1>1. s \in BOOLEAN /\ c \in ShoppingBasket
    BY DiscountedUnits
  <1>2. [UpdateItemDiscount(j, p, a) EXCEPT !.todo = j.todo \ {p}] = m
    BY DEF UpdateItemDiscount, Job
  <1> HIDE DEF s, c
  <1>3. m \in Job
    BY <1>1 DEF Job
  <1>4. /\ m.op = j.op /\ m.item = j.item /\ m.quantity = j.quantity /\ m.seen = j.seen
        /\ m.alone = j.alone /\ m.steady = j.steady /\ m.stage = j.stage
        /\ m.todo = j.todo \ {p} /\ m.copy = c /\ m.shouldUpdate = s
    BY DEF Job
  <1>9. n = CheckForBasketItemsDiscountUpdate(m)
    BY <1>2 DEF AfterDiscount
  <1> HIDE DEF m, n
  <1>5. \/ n = m
        \/ n = [m EXCEPT !.stage = "write"] /\ m.todo = {}
        \/ n = [m EXCEPT !.stage = "answered"] /\ m.todo = {} /\ ~m.shouldUpdate
    <2>1. m.shouldUpdate \in BOOLEAN
      BY <1>3 DEF Job
    <2> QED BY <1>9, <2>1, Zenon DEF CheckForBasketItemsDiscountUpdate
  <1>6. /\ n \in Job
        /\ n.op = m.op /\ n.item = m.item /\ n.quantity = m.quantity /\ n.seen = m.seen
        /\ n.alone = m.alone /\ n.steady = m.steady
        /\ n.todo = m.todo /\ n.copy = m.copy /\ n.shouldUpdate = m.shouldUpdate
        /\ n.stage \in {m.stage, "write", "answered"}
        /\ n.stage = "answered" => m.stage = "answered" \/ ~n.shouldUpdate
        /\ n.stage # m.stage => n.todo = {}
    BY <1>3, <1>5 DEF Job
  <1>7. n.copy = [j.copy EXCEPT ![p].discount = a]
    BY <1>4, <1>6 DEF c
  <1>8. n.shouldUpdate = (j.shouldUpdate \/ j.copy[p].discount # a)
    BY <1>4, <1>6, Zenon DEF s
  <1>10. /\ n.stage \in {j.stage, "write", "answered"}
         /\ n.stage = "answered" => j.stage = "answered" \/ ~n.shouldUpdate
         /\ n.stage # j.stage => n.todo = {}
    BY <1>4, <1>6, Zenon
  <1>11. WithDiscount(n, j, p, a)
    <2>1. /\ n.op = j.op /\ n.item = j.item /\ n.quantity = j.quantity /\ n.seen = j.seen
          /\ n.alone = j.alone /\ n.steady = j.steady /\ n.todo = j.todo \ {p}
      BY <1>4, <1>6
    <2> QED BY <2>1, <1>6, <1>7, <1>8, <1>10, Zenon DEF WithDiscount
  <1> QED BY <1>11 DEF n

\* The outcome depends on the operation and on what it read.
LEMMA SameOutcome ==
  ASSUME NEW j, NEW n,
         n.op = j.op, n.item = j.item, n.quantity = j.quantity, n.seen = j.seen
  PROVE  Outcome(n) = Outcome(j)
  BY DEF Outcome

\* A read goes on with what it read, changed as the operation asks.
ReadStep(r) ==
  \E stage \in {"discounts", "write", "answered", "failed"},
     copy \in ShoppingBasket \cup {NoBasket}, todo \in SUBSET Products :
    /\ Read(r, stage, copy, todo)
    /\ job[r].op \in {"GetBasket", "AddBasketItem", "DeleteBasketItem"}
    /\ stage = "discounts" => job[r].op = "GetBasket" /\ store # NoBasket
    /\ stage = "failed" => job[r].op = "DeleteBasketItem" /\ store = NoBasket
    /\ stage # "failed" => /\ copy # NoBasket
                           /\ Units(copy) = Outcome([job[r] EXCEPT !.seen = store])
    /\ job[r].op = "GetBasket" => /\ Items(copy) \ todo = {}
                                  /\ stage # "write"
                                  /\ store # NoBasket => copy = store
    /\ stage \in {"write", "answered"} => todo = {}
    /\ stage = "answered" => copy = store \/ (job[r].op = "GetBasket" /\ store = NoBasket)

LEMMA ReadSteps ==
  ASSUME TypeOK, NEW r \in Requests, JobIsExact(job[r]),
         \/ GetUserBasketAndCheckForItemsDiscount(r)
         \/ AddItemToBasket(r)
         \/ DeleteBasketItem(r)
  PROVE  ReadStep(r)
  <1> DEFINE j == [job[r] EXCEPT !.seen = store]
  <1> USE DEF ReadStep
  <1>1. /\ store \in ShoppingBasket \cup {NoBasket} /\ NoBasket \notin ShoppingBasket
        /\ Empty \in ShoppingBasket
    BY EmptyBasket, NoBasketAssumption DEF TypeOK
  <1>2. /\ j.op = job[r].op /\ j.item = job[r].item /\ j.quantity = job[r].quantity
        /\ j.seen = store
    BY DEF TypeOK, Job
  <1>3. CASE GetUserBasketAndCheckForItemsDiscount(r)
    <2>1. job[r].op = "GetBasket"
      BY <1>3 DEF GetUserBasketAndCheckForItemsDiscount
    <2>2. Outcome(j) = Units(store)
      BY <1>2, <2>1 DEF Outcome
    <2>3. CASE store = NoBasket /\ Read(r, "answered", Empty, {})
      <3>1. Units(Empty) = Outcome(j) /\ Items(Empty) \ {} = {}
        BY <2>2, <2>3, EmptyBasket
      <3> QED BY <1>1, <2>1, <2>3, <3>1
    <2>4. CASE store # NoBasket /\ Items(store) = {} /\ Read(r, "answered", store, {})
      BY <1>1, <2>1, <2>2, <2>4
    <2>5. CASE store # NoBasket /\ Items(store) # {} /\ Read(r, "discounts", store, Items(store))
      <3>1. Items(store) \in SUBSET Products
        BY DEF Items
      <3> QED BY <1>1, <2>1, <2>2, <2>5, <3>1
    <2> QED BY <1>3, <2>3, <2>4, <2>5 DEF GetUserBasketAndCheckForItemsDiscount
  <1>4. CASE AddItemToBasket(r)
    <2> DEFINE b == IF store = NoBasket THEN Empty ELSE store
               c == AddItem(b, job[r].item, job[r].quantity)
    <2>1. /\ job[r].op = "AddBasketItem"
          /\ job[r].item \in Products /\ job[r].quantity \in Quantities
      BY <1>4 DEF AddItemToBasket, JobIsExact
    <2>2. b \in ShoppingBasket /\ Units(b) = Units(store)
      BY <1>1, EmptyBasket
    <2>3. c \in ShoppingBasket /\ Units(c) = [Units(b) EXCEPT ![job[r].item] = @ + job[r].quantity]
      BY <2>1, <2>2, AddedUnits
    <2>4. Units(c) = Outcome(j)
      BY <1>2, <2>1, <2>2, <2>3 DEF Outcome
    <2>5. Read(r, "write", c, {})
      BY <1>4 DEF AddItemToBasket
    <2> HIDE DEF c
    <2> QED BY <1>1, <2>1, <2>3, <2>4, <2>5
  <1>5. CASE DeleteBasketItem(r)
    <2>1. job[r].op = "DeleteBasketItem" /\ job[r].item \in Products
      BY <1>5 DEF DeleteBasketItem, JobIsExact
    <2>2. Outcome(j) = [Units(store) EXCEPT ![job[r].item] = 0]
      BY <1>2, <2>1 DEF Outcome
    <2>3. CASE store = NoBasket /\ Read(r, "failed", NoBasket, {})
      BY <2>1, <2>3
    <2>4. CASE store # NoBasket /\ job[r].item \notin Items(store) /\ Read(r, "answered", store, {})
      <3>1. store \in ShoppingBasket
        BY <1>1, <2>4
      <3>2. store[job[r].item].quantity = 0
        BY <2>1, <2>4 DEF Items
      <3>3. Units(store) = [Units(store) EXCEPT ![job[r].item] = 0]
        BY <2>1, <3>1, <3>2, BasketUnits
      <3> QED BY <1>1, <2>1, <2>2, <2>4, <3>1, <3>3
    <2>5. CASE /\ store # NoBasket /\ job[r].item \in Items(store)
               /\ Read(r, "write", [store EXCEPT ![job[r].item] = NoItem], {})
      <3> DEFINE c == [store EXCEPT ![job[r].item] = NoItem]
      <3>1. c \in ShoppingBasket /\ Units(c) = Outcome(j)
        BY <1>1, <2>1, <2>2, <2>5, RemovedUnits
      <3>2. Read(r, "write", c, {})
        BY <2>5
      <3> HIDE DEF c
      <3> QED BY <1>1, <2>1, <3>1, <3>2
    <2> QED BY <1>5, <2>3, <2>4, <2>5 DEF DeleteBasketItem
  <1> QED BY <1>3, <1>4, <1>5

\* What a step of a request does to the other requests and to Discount.
LEMMA HandleFrames ==
  ASSUME NEW r \in Requests, Begin(r) \/ Handle(r)
  PROVE  UNCHANGED <<discount, changes>>
  BY DEF Begin, Handle, Request, GetUserBasketAndCheckForItemsDiscount, AddItemToBasket,
     DeleteBasketItem, Read, GetDiscount, DiscountFails, SetBasket, WriteFails, Reread,
     ReadFails, End

\* The shapes of a step: one request changes its stage, reads, is discounted,
\* starts, ends, or has Redis store its basket.
StageStep(r) ==
  /\ \E stage \in {"answered", "failed", "lost"} :
       /\ job' = [job EXCEPT ![r].stage = stage]
       /\ stage = "answered" => job[r].stage = "reread"
       /\ stage = "failed" =>
            \/ job[r].stage = "discounts" /\ migration # "done"
            \/ job[r].stage = "reread" /\ store = NoBasket
  /\ job[r].stage \in {"discounts", "write", "read", "reread"}
  /\ UNCHANGED <<store, discount, added, started, changes>>
  /\ UNCHANGED failures \/ Fails

StoreStep(r) ==
  /\ job[r].stage = "write"
  /\ \E stage \in {"reread", "answered", "lost"} :
       /\ stage = "reread" => job[r].op # "DeleteBasket"
       /\ Stored(r, stage)
  /\ UNCHANGED <<discount, started, changes>>
  /\ UNCHANGED failures \/ Fails

LEMMA HandleSteps ==
  ASSUME TypeOK, NEW r \in Requests, JobIsExact(job[r]), Handle(r)
  PROVE  ReadStep(r) \/ GetDiscount(r) \/ StageStep(r) \/ StoreStep(r) \/ End(r)
  <1>1. CASE \/ GetUserBasketAndCheckForItemsDiscount(r)
             \/ AddItemToBasket(r)
             \/ DeleteBasketItem(r)
    BY <1>1, ReadSteps
  <1>2. CASE DiscountFails(r)
    BY <1>2 DEF DiscountFails, StageStep
  <1>3. CASE SetBasket(r)
    BY <1>3 DEF SetBasket, StoreStep
  <1>4. CASE WriteFails(r)
    BY <1>4 DEF WriteFails, StageStep, StoreStep
  <1>5. CASE Reread(r)
    BY <1>5 DEF Reread, StageStep
  <1>6. CASE ReadFails(r)
    BY <1>6 DEF ReadFails, StageStep
  <1> QED BY <1>1, <1>2, <1>3, <1>4, <1>5, <1>6 DEF Handle

\* A request that begins is not blind unless it has all it stores.
BeginStep(r) ==
  /\ job[r] = Idle
  /\ \E n \in Job :
       /\ job' = [job EXCEPT ![r] = n]
       /\ JobIsExact(n)
       /\ n.stage \in {"read", "write"} /\ (n.stage = "write" => n.op \in Blind)
       /\ n.seen = NoBasket /\ n.alone /\ ~n.steady
  /\ started' \in 0..MaxRequests
  /\ UNCHANGED <<store, discount, added, changes, failures>>

LEMMA BeginSteps ==
  ASSUME TypeOK, NEW r \in Requests, Begin(r)
  PROVE  BeginStep(r)
  <1>1. SUFFICES ASSUME NEW op \in Operations, NEW item \in Products \cup {"none"},
                        NEW quantity \in Quantities \cup {0}, NEW stage \in {"read", "write"},
                        NEW copy \in ShoppingBasket \cup {NoBasket},
                        Request(r, op, item, quantity, stage, copy),
                        stage = "read" => op \notin Blind,
                        stage = "write" => op \in Blind,
                        op = "AddBasketItem" => quantity \in Quantities,
                        op \in {"AddBasketItem", "DeleteBasketItem"} => item \in Products,
                        op = "UpdateBasket" => copy = Empty,
                        op = "DeleteBasket" => copy = NoBasket
                 PROVE  BeginStep(r)
    <2>1. Empty \in ShoppingBasket
      BY EmptyBasket
    <2> QED BY <2>1 DEF Begin, Operations, Blind
  <1> DEFINE n == [Idle EXCEPT !.op = op, !.item = item, !.quantity = quantity,
                               !.stage = stage, !.copy = copy]
  <1>2. n \in Job
    BY JobStarts DEF Stages
  <1>3. /\ n.op = op /\ n.item = item /\ n.quantity = quantity /\ n.stage = stage
        /\ n.copy = copy /\ n.seen = NoBasket /\ n.todo = {} /\ n.shouldUpdate = FALSE
        /\ n.alone = TRUE /\ n.steady = FALSE
    BY DEF Idle
  <1>4. /\ job[r] = Idle /\ job' = [job EXCEPT ![r] = n]
        /\ started' \in 0..MaxRequests
        /\ UNCHANGED <<store, discount, added, changes, failures>>
    BY <1>1, BoundsAssumption DEF Request, TypeOK
  <1> HIDE DEF n
  <1>5. stage = "write" => Units(n.copy) = Outcome(n) /\ (n.op # "DeleteBasket" => n.copy # NoBasket)
    BY <1>1, <1>3, EmptyBasket DEF Outcome, Blind
  <1>6. JobIsExact(n)
    BY <1>1, <1>3, <1>5 DEF JobIsExact, Blind, Operations
  <1> QED BY <1>1, <1>2, <1>3, <1>4, <1>6 DEF BeginStep

LEMMA Bounds ==
  ASSUME TypeOK
  PROVE  /\ Fails => failures' \in 0..MaxFailures
         /\ Changes => changes' \in 0..MaxChanges
  BY BoundsAssumption DEF TypeOK, Fails, Changes

Exact == \A r \in Requests : JobIsExact(job[r])

\* One item of the basket is given a discount that is offered.
DiscountedStep(r) ==
  /\ \E p \in job[r].todo : \E a \in Offered(p) : \E n \in Job :
       /\ job' = [job EXCEPT ![r] = n]
       /\ p \in Products /\ a \in Amounts \cup {0}
       /\ WithDiscount(n, job[r], p, a)
  /\ job[r].op = "GetBasket" /\ job[r].seen # NoBasket
  /\ job[r].copy \in ShoppingBasket /\ job[r].stage = "discounts"
  /\ UNCHANGED <<store, discount, added, started, changes, failures>>

LEMMA DiscountSteps ==
  ASSUME TypeOK, Exact, NEW r \in Requests, GetDiscount(r)
  PROVE  DiscountedStep(r)
  <1>1. job[r] \in Job /\ JobIsExact(job[r]) /\ job[r].stage = "discounts"
    BY DEF TypeOK, Exact, GetDiscount
  <1>2. /\ job[r].op = "GetBasket" /\ job[r].seen # NoBasket
        /\ job[r].copy \in ShoppingBasket
    BY <1>1 DEF JobIsExact, Job
  <1>3. PICK p \in job[r].todo : \E a \in Offered(p) :
          job' = [job EXCEPT ![r] = AfterDiscount(job[r], p, a)]
    BY DEF GetDiscount, AfterDiscount
  <1>4. PICK a \in Offered(p) : job' = [job EXCEPT ![r] = AfterDiscount(job[r], p, a)]
    BY <1>3
  <1>5. p \in Products /\ a \in Amounts \cup {0}
    BY <1>1, OfferedAmounts DEF Job
  <1>6. WithDiscount(AfterDiscount(job[r], p, a), job[r], p, a)
    BY <1>1, <1>2, <1>5, Discounted
  <1>7. AfterDiscount(job[r], p, a) \in Job
    BY <1>6 DEF WithDiscount
  <1>8. UNCHANGED <<store, discount, added, started, changes, failures>>
    BY DEF GetDiscount
  <1> QED BY <1>1, <1>2, <1>3, <1>4, <1>5, <1>6, <1>7, <1>8, Zenon DEF DiscountedStep

LEMMA HandleTypes ==
  ASSUME TypeOK, Exact, NEW r \in Requests, Begin(r) \/ Handle(r)
  PROVE  TypeOK'
  <1> USE DEF discount
  <1>1. job \in [Requests -> Job] /\ job[r] \in Job /\ JobIsExact(job[r])
        /\ store \in ShoppingBasket \cup {NoBasket}
    BY DEF TypeOK, Exact
  <1>2. CASE BeginStep(r)
    BY <1>1, <1>2 DEF BeginStep, TypeOK
  <1>3. CASE ReadStep(r)
    <2>1. PICK stage \in Stages, copy \in ShoppingBasket \cup {NoBasket}, todo \in SUBSET Products :
            Read(r, stage, copy, todo)
      BY <1>3 DEF ReadStep, Stages
    <2>2. job' \in [Requests -> Job]
      BY <1>1, <2>1, JobReads DEF Read
    <2> QED BY <2>1, <2>2 DEF Read, TypeOK
  <1>4. CASE GetDiscount(r)
    <2>4. job' \in [Requests -> Job]
      BY <1>1, <1>4, DiscountSteps DEF DiscountedStep
    <2> QED BY <1>4, <2>4 DEF GetDiscount, TypeOK
  <1>5. CASE StageStep(r)
    <2>1. job' \in [Requests -> Job]
      BY <1>1, <1>5, JobChanges DEF StageStep, Stages
    <2> QED BY <1>5, <2>1, Bounds DEF StageStep, TypeOK
  <1>6. CASE StoreStep(r)
    <2>1. PICK stage \in Stages : Stored(r, stage)
      BY <1>6 DEF StoreStep, Stages
    <2>2. job' \in [Requests -> Job]
      BY <1>1, <2>1, JobChanges DEF Stored
    <2>3. store' \in ShoppingBasket \cup {NoBasket}
      BY <1>1, <2>1 DEF Stored, Job
    <2>4. added' \in [Products -> Nat]
      <3>1. job[r].op = "AddBasketItem" => job[r].item \in Products /\ job[r].quantity \in Nat
        BY <1>1, QuantitiesAssumption DEF JobIsExact
      <3> QED BY <2>1, <3>1 DEF Stored, TypeOK
    <2> QED BY <1>6, <2>2, <2>3, <2>4, Bounds DEF StoreStep, TypeOK
  <1>7. CASE End(r)
    <2>1. job' \in [Requests -> Job]
      BY <1>1, <1>7, IdleIsJob DEF End
    <2> QED BY <1>7, <2>1 DEF End, TypeOK
  <1> QED BY <1>1, <1>2, <1>3, <1>4, <1>5, <1>6, <1>7, BeginSteps, HandleSteps

\* What Discount does to the requests: nothing, or it makes them unsteady.
LEMMA DiscountFrames ==
  ASSUME TypeOK, DiscountStep
  PROVE  /\ UNCHANGED <<store, added, started>>
         /\ job' = Unsteady \/ (job' = job /\ migration # "done")
  BY DEF DiscountStep, MigrateDatabase, CreateDiscount, UpdateDiscount, DeleteDiscount, Restart,
     Changes, DropTable, CreateTable, InsertCoupon, Migrated, MigrationFails, Migrates

LEMMA DiscountTypes ==
  ASSUME TypeOK, migration \in {"done", "insert"} => table, DiscountStep
  PROVE  TypeOK' /\ (migration' \in {"done", "insert"} => table')
  <1> USE DEF TypeOK
  <1>1. job' \in [Requests -> Job]
    <2>1. Unsteady \in [Requests -> Job]
      BY JobChanges, "idle" \in Stages DEF Unsteady, Stages
    <2> QED BY <2>1, DiscountFrames
  <1>2. UNCHANGED <<store, added, started>>
    BY DiscountFrames
  <1>3. ASSUME NEW p \in Products, NEW a \in Amounts, CreateDiscount(p, a)
        PROVE  TypeOK' /\ (migration' \in {"done", "insert"} => table')
    BY <1>1, <1>2, <1>3, Bounds DEF CreateDiscount, Changes
  <1>4. ASSUME NEW p \in Products, NEW a \in Amounts, NEW q \in Products, NEW b \in Amounts,
               UpdateDiscount(p, a, q, b)
        PROVE  TypeOK' /\ (migration' \in {"done", "insert"} => table')
    BY <1>1, <1>2, <1>4, Bounds DEF UpdateDiscount, Changes
  <1>5. ASSUME NEW p \in Products, DeleteDiscount(p)
        PROVE  TypeOK' /\ (migration' \in {"done", "insert"} => table')
    BY <1>1, <1>2, <1>5, Bounds DEF DeleteDiscount, Changes
  <1>6. CASE Restart
    BY <1>1, <1>2, <1>6, Bounds DEF Restart, Changes
  <1>7. CASE DropTable
    BY <1>1, <1>2, <1>7 DEF DropTable, Migrates
  <1>8. CASE CreateTable
    BY <1>1, <1>2, <1>8 DEF CreateTable, Migrates
  <1>9. CASE InsertCoupon
    BY <1>1, <1>2, <1>9, SeedAssumption DEF InsertCoupon, Migrates
  <1>10. CASE Migrated
    BY <1>1, <1>2, <1>10 DEF Migrated, Migrates
  <1>11. CASE MigrationFails
    BY <1>1, <1>2, <1>11, Bounds DEF MigrationFails
  <1> QED BY <1>3, <1>4, <1>5, <1>6, <1>7, <1>8, <1>9, <1>10, <1>11 DEF DiscountStep, MigrateDatabase
(***************************************************************************)
(* What BasketInv says of one request, as a fact about the request and     *)
(* the values of the variables: st the document in Redis, mg the migration,*)
(* cs the coupons, ad what was added.                                      *)
(***************************************************************************)

Undisturbed(j, st) ==
  j.alone =>
    /\ j.stage \in {"discounts", "write"} /\ j.op \notin Blind => st = j.seen
    /\ j.stage \in {"reread", "answered"} =>
         \/ st = j.copy
         \/ j.op = "GetBasket" /\ j.stage = "answered" /\ st = NoBasket /\ j.seen = NoBasket

OfferedBy(cs, p) == IF cs[p] = {} THEN {0} ELSE cs[p]

UpToDate(j, mg, cs) ==
  j.steady =>
    /\ mg = "done"
    /\ j.op = "GetBasket" /\ j.stage \in {"discounts", "write", "reread", "answered"} =>
         \A p \in Items(j.copy) \ j.todo : j.copy[p].discount \in OfferedBy(cs, p)

Explained(j) ==
  /\ j.stage = "failed" /\ j.alone
  /\ j.op = "GetBasket" => j.steady
  => j.op = "DeleteBasketItem" /\ j.seen = NoBasket

Counted(b, ad) == \A p \in Products : Units(b)[p] <= ad[p]

Good(j, st, mg, cs, ad) ==
  /\ JobIsExact(j)
  /\ Undisturbed(j, st)
  /\ UpToDate(j, mg, cs)
  /\ Explained(j)
  /\ Counted(j.seen, ad)

AllGood == \A r \in Requests : Good(job[r], store, migration, coupons, added)

LEMMA InvParts ==
  BasketInv <=> /\ TypeOK
                /\ migration \in {"done", "insert"} => table
                /\ Counted(store, added)
                /\ AllGood
  BY DEF BasketInv, NothingIsCountedTwice, ReadsAreCounted, AloneIsUndisturbed, SteadyIsCurrent,
     FailuresAreExplained, AllGood, Good, Undisturbed, UpToDate, Explained, Counted,
     Offered, OfferedBy

LEMMA NextParts ==
  /\ TypeOK'
  /\ migration' \in {"done", "insert"} => table'
  /\ Counted(store', added')
  /\ \A r \in Requests : Good(job'[r], store', migration', coupons', added')
  => BasketInv'
  BY DEF BasketInv, NothingIsCountedTwice, ReadsAreCounted, AloneIsUndisturbed, SteadyIsCurrent,
     FailuresAreExplained, AllGood, Good, Undisturbed, UpToDate, Explained, Counted,
     Offered, OfferedBy

\* A request that only changes its stage, to one that fits.
LEMMA ExactMoves ==
  ASSUME NEW j \in Job, JobIsExact(j), j.stage # "idle",
         NEW stage \in {"reread", "answered", "failed", "lost"},
         stage = "reread" => j.op # "DeleteBasket",
         stage \in {"reread", "answered"} => j.stage \in {"write", "reread"}
  PROVE  JobIsExact([j EXCEPT !.stage = stage])
  <1> DEFINE n == [j EXCEPT !.stage = stage]
  <1>1. /\ n.op = j.op /\ n.item = j.item /\ n.quantity = j.quantity /\ n.seen = j.seen
        /\ n.copy = j.copy /\ n.todo = j.todo /\ n.shouldUpdate = j.shouldUpdate
        /\ n.stage = stage
    BY DEF Job
  <1> HIDE DEF n
  <1>2. Outcome(n) = Outcome(j)
    BY <1>1, SameOutcome
  <1>3. JobIsExact(n)
    BY <1>1, <1>2 DEF JobIsExact
  <1> QED BY <1>3 DEF n

\* A request that another one overtook, or that Discount made unsteady.
LEMMA GoodOvertaken ==
  ASSUME NEW j \in Job, NEW st, NEW mg, NEW cs, NEW ad \in [Products -> Nat],
         Good(j, st, mg, cs, ad), NEW st2, NEW ad2 \in [Products -> Nat],
         \A p \in Products : ad[p] <= ad2[p]
  PROVE  Good([j EXCEPT !.alone = FALSE], st2, mg, cs, ad2)
  <1> DEFINE n == [j EXCEPT !.alone = FALSE]
  <1>1. /\ n.op = j.op /\ n.item = j.item /\ n.quantity = j.quantity /\ n.seen = j.seen
        /\ n.copy = j.copy /\ n.todo = j.todo /\ n.shouldUpdate = j.shouldUpdate
        /\ n.stage = j.stage /\ n.steady = j.steady /\ ~n.alone
    BY DEF Job
  <1> HIDE DEF n
  <1>2. Outcome(n) = Outcome(j)
    BY <1>1, SameOutcome
  <1>3. JobIsExact(n)
    BY <1>1, <1>2 DEF JobIsExact, Good
  <1>4. UpToDate(n, mg, cs)
    BY <1>1 DEF Good, UpToDate
  <1>5. Counted(n.seen, ad2)
    <2> SUFFICES ASSUME NEW p \in Products PROVE Units(n.seen)[p] <= ad2[p]
      BY DEF Counted
    <2>1. Units(j.seen)[p] \in Nat /\ ad[p] \in Nat /\ ad2[p] \in Nat
      <3>1. j.seen \in ShoppingBasket \cup {NoBasket}
        BY DEF Job
      <3> QED BY <3>1, UnitsType
    <2>2. Units(j.seen)[p] <= ad[p] /\ ad[p] <= ad2[p]
      BY DEF Good, Counted
    <2> QED BY <1>1, <2>1, <2>2
  <1>6. Undisturbed(n, st2) /\ Explained(n)
    BY <1>1 DEF Undisturbed, Explained
  <1>7. Good(n, st2, mg, cs, ad2)
    BY <1>3, <1>4, <1>5, <1>6 DEF Good
  <1> QED BY <1>7 DEF n

LEMMA GoodUnsteady ==
  ASSUME NEW j \in Job, NEW st, NEW mg, NEW cs, NEW ad, Good(j, st, mg, cs, ad),
         NEW mg2, NEW cs2
  PROVE  Good([j EXCEPT !.steady = FALSE], st, mg2, cs2, ad)
  <1> DEFINE n == [j EXCEPT !.steady = FALSE]
  <1>1. /\ n.op = j.op /\ n.item = j.item /\ n.quantity = j.quantity /\ n.seen = j.seen
        /\ n.copy = j.copy /\ n.todo = j.todo /\ n.shouldUpdate = j.shouldUpdate
        /\ n.stage = j.stage /\ n.alone = j.alone /\ ~n.steady
    BY DEF Job
  <1> HIDE DEF n
  <1>2. Outcome(n) = Outcome(j)
    BY <1>1, SameOutcome
  <1>3. JobIsExact(n)
    BY <1>1, <1>2 DEF JobIsExact, Good
  <1>4. Undisturbed(n, st) /\ Counted(n.seen, ad)
    BY <1>1 DEF Undisturbed, Good
  <1>5. UpToDate(n, mg2, cs2) /\ Explained(n)
    BY <1>1 DEF UpToDate, Explained, Good
  <1>6. Good(n, st, mg2, cs2, ad)
    BY <1>3, <1>4, <1>5 DEF Good
  <1> QED BY <1>6 DEF n
(***************************************************************************)
(* One request changes, and nothing else that the invariant is about.      *)
(***************************************************************************)

LEMMA OneChanges ==
  ASSUME TypeOK, AllGood, NEW r \in Requests, NEW n \in Job,
         job' = [job EXCEPT ![r] = n], UNCHANGED <<store, discount, added>>,
         Good(n, store, migration, coupons, added)
  PROVE  \A s \in Requests : Good(job'[s], store', migration', coupons', added')
  <1> SUFFICES ASSUME NEW s \in Requests
               PROVE  Good(job'[s], store, migration, coupons, added)
    BY DEF discount
  <1>1. job'[s] = IF s = r THEN n ELSE job[s]
    BY DEF TypeOK
  <1> QED BY <1>1 DEF AllGood

LEMMA BeginIsGood ==
  ASSUME TypeOK, AllGood, NEW r \in Requests, BeginStep(r)
  PROVE  \A s \in Requests : Good(job'[s], store', migration', coupons', added')
  <1>1. PICK n \in Job :
          /\ job' = [job EXCEPT ![r] = n]
          /\ JobIsExact(n)
          /\ n.stage \in {"read", "write"} /\ (n.stage = "write" => n.op \in Blind)
          /\ n.seen = NoBasket /\ n.alone /\ ~n.steady
    BY DEF BeginStep
  <1>2. Counted(n.seen, added)
    <2>1. Units(n.seen) = [p \in Products |-> 0]
      BY <1>1, EmptyBasket
    <2> SUFFICES ASSUME NEW p \in Products PROVE Units(n.seen)[p] <= added[p]
      BY DEF Counted
    <2>2. Units(n.seen)[p] = 0
      BY <2>1
    <2>3. added[p] \in Nat
      BY DEF TypeOK
    <2> HIDE DEF Units
    <2> QED BY <2>2, <2>3
  <1>3. Good(n, store, migration, coupons, added)
    BY <1>1, <1>2 DEF Good, Undisturbed, UpToDate, Explained
  <1> QED BY <1>1, <1>3, OneChanges DEF BeginStep

LEMMA ReadIsGood ==
  ASSUME TypeOK, AllGood, Counted(store, added), NEW r \in Requests, ReadStep(r)
  PROVE  \A s \in Requests : Good(job'[s], store', migration', coupons', added')
  <1> DEFINE j == job[r]
  <1>1. PICK stage \in {"discounts", "write", "answered", "failed"},
             copy \in ShoppingBasket \cup {NoBasket}, todo \in SUBSET Products :
          /\ Read(r, stage, copy, todo)
          /\ j.op \in {"GetBasket", "AddBasketItem", "DeleteBasketItem"}
          /\ stage = "discounts" => j.op = "GetBasket" /\ store # NoBasket
          /\ stage = "failed" => j.op = "DeleteBasketItem" /\ store = NoBasket
          /\ stage # "failed" => /\ copy # NoBasket
                                 /\ Units(copy) = Outcome([j EXCEPT !.seen = store])
          /\ j.op = "GetBasket" => /\ Items(copy) \ todo = {}
                                   /\ stage # "write"
                                   /\ store # NoBasket => copy = store
          /\ stage \in {"write", "answered"} => todo = {}
          /\ stage = "answered" => copy = store \/ (j.op = "GetBasket" /\ store = NoBasket)
    BY DEF ReadStep
  <1>2. j \in Job /\ JobIsExact(j) /\ j.stage = "read" /\ store \in ShoppingBasket \cup {NoBasket}
    BY <1>1 DEF TypeOK, AllGood, Good, Read
  <1> DEFINE n == [j EXCEPT !.stage = stage, !.seen = store, !.copy = copy, !.todo = todo,
                            !.alone = TRUE, !.steady = (migration = "done")]
             m == [j EXCEPT !.seen = store]
  <1>3. n \in Job
    <2>1. stage \in Stages /\ (migration = "done") \in BOOLEAN
      BY DEF Stages
    <2> HIDE DEF j
    <2> QED BY <1>2, <2>1, JobReads
  <1>4. job' = [job EXCEPT ![r] = n] /\ UNCHANGED <<store, discount, added>>
    BY <1>1 DEF Read
  <1>5. /\ n.op = j.op /\ n.item = j.item /\ n.quantity = j.quantity /\ n.seen = store
        /\ n.copy = copy /\ n.todo = todo /\ n.stage = stage
    BY <1>2 DEF Job
  <1>6. n.shouldUpdate = j.shouldUpdate /\ n.steady = (migration = "done")
    BY <1>2 DEF Job
  <1>7. m.op = j.op /\ m.item = j.item /\ m.quantity = j.quantity /\ m.seen = store
    BY <1>2 DEF Job
  <1> HIDE DEF n
  <1>8. Outcome(n) = Outcome(m)
    BY <1>5, <1>7, SameOutcome
  <1> HIDE DEF m
  <1>9. stage # "failed" => Units(copy) = Outcome(n)
    BY <1>1, <1>8 DEF m
  <1>10. ~j.shouldUpdate /\ j.op # "none"
    BY <1>2 DEF JobIsExact
  <1>11. JobIsExact(n)
    BY <1>1, <1>2, <1>5, <1>6, <1>9, <1>10 DEF JobIsExact
  <1>12. Undisturbed(n, store)
    BY <1>1, <1>5 DEF Undisturbed
  <1>13. UpToDate(n, migration, coupons)
    BY <1>1, <1>5, <1>6 DEF UpToDate
  <1>14. Explained(n) /\ Counted(n.seen, added)
    BY <1>1, <1>5 DEF Explained
  <1>15. Good(n, store, migration, coupons, added)
    BY <1>11, <1>12, <1>13, <1>14 DEF Good
  <1> QED BY <1>3, <1>4, <1>15, OneChanges

LEMMA DiscountIsGood ==
  ASSUME TypeOK, AllGood, NEW r \in Requests, DiscountedStep(r)
  PROVE  \A s \in Requests : Good(job'[s], store', migration', coupons', added')
  <1> DEFINE j == job[r]
  <1>1. j \in Job /\ Good(j, store, migration, coupons, added)
    BY DEF TypeOK, AllGood
  <1>2. PICK p \in j.todo : \E a \in Offered(p) : \E n \in Job :
          /\ job' = [job EXCEPT ![r] = n]
          /\ p \in Products /\ a \in Amounts \cup {0}
          /\ WithDiscount(n, j, p, a)
    BY DEF DiscountedStep
  <1>3. PICK a \in Offered(p) : \E n \in Job :
          /\ job' = [job EXCEPT ![r] = n]
          /\ p \in Products /\ a \in Amounts \cup {0}
          /\ WithDiscount(n, j, p, a)
    BY <1>2
  <1>4. PICK n \in Job :
          /\ job' = [job EXCEPT ![r] = n]
          /\ p \in Products /\ a \in Amounts \cup {0}
          /\ WithDiscount(n, j, p, a)
    BY <1>3
  <1>5. /\ j.op = "GetBasket" /\ j.seen # NoBasket
        /\ j.copy \in ShoppingBasket /\ j.stage = "discounts"
        /\ UNCHANGED <<store, discount, added>>
    BY DEF DiscountedStep
  <1> HIDE DEF j
  <1>6. /\ n.op = j.op /\ n.item = j.item /\ n.quantity = j.quantity /\ n.seen = j.seen
        /\ n.todo = j.todo \ {p} /\ n.copy = [j.copy EXCEPT ![p].discount = a]
        /\ n.stage \in {"discounts", "write", "answered"}
    BY <1>4, <1>5 DEF WithDiscount
  <1>7. n.alone = j.alone /\ n.steady = j.steady
    BY <1>4, Zenon DEF WithDiscount
  <1>8. n.shouldUpdate = (j.shouldUpdate \/ j.copy[p].discount # a)
    BY <1>4, Zenon DEF WithDiscount
  <1>9. /\ n.stage = "answered" => ~n.shouldUpdate
        /\ n.stage # "discounts" => n.todo = {}
    <2>1. /\ n.stage = "answered" => j.stage = "answered" \/ ~n.shouldUpdate
          /\ n.stage # j.stage => n.todo = {}
      BY <1>4, Zenon DEF WithDiscount
    <2> QED BY <2>1, <1>5
  <1>10. /\ Units(n.copy) = Units(j.copy) /\ Items(n.copy) = Items(j.copy)
         /\ n.copy \in ShoppingBasket
         /\ n.copy[p].discount = a
         /\ \A x \in Products \ {p} : n.copy[x] = j.copy[x]
         /\ j.copy[p].discount = a => n.copy = j.copy
    <2> DEFINE c == [j.copy EXCEPT ![p].discount = a]
    <2>1. /\ c \in ShoppingBasket
          /\ Units(c) = Units(j.copy) /\ Items(c) = Items(j.copy)
          /\ c[p].discount = a
          /\ \A x \in Products \ {p} : c[x] = j.copy[x]
          /\ j.copy[p].discount = a => c = j.copy
      BY <1>4, <1>5, DiscountedUnits
    <2>2. n.copy = c
      BY <1>6
    <2> HIDE DEF c
    <2> QED BY <2>1, <2>2
  <1>11. ~n.shouldUpdate => ~j.shouldUpdate /\ n.copy = j.copy
    BY <1>8, <1>10
  <1>12. JobIsExact(j) /\ Undisturbed(j, store) /\ UpToDate(j, migration, coupons)
         /\ Counted(j.seen, added)
    BY <1>1 DEF Good
  <1>13. n.copy # NoBasket
    BY <1>10, BasketUnits
  <1>14. Outcome(n) = Outcome(j)
    BY <1>6, SameOutcome
  <1>15. ~n.shouldUpdate => n.copy = n.seen
    BY <1>5, <1>6, <1>11, <1>12 DEF JobIsExact
  <1>16. Units(n.copy) = Outcome(n)
    BY <1>5, <1>10, <1>12, <1>14 DEF JobIsExact
  <1>17. JobIsExact(n)
    BY <1>5, <1>6, <1>9, <1>13, <1>15, <1>16 DEF JobIsExact
  <1>18. Undisturbed(n, store)
    <2>1. CASE ~n.alone
      BY <2>1 DEF Undisturbed
    <2>2. CASE n.alone
      <3>1. j.alone
        BY <2>2, <1>7, Zenon
      <3>2. store = j.seen
        BY <3>1, <1>5, <1>12 DEF Undisturbed, Blind
      <3>3. n.stage = "answered" => store = n.copy
        BY <3>2, <1>6, <1>9, <1>15
      <3> QED BY <3>2, <3>3, <1>6 DEF Undisturbed
    <2> QED BY <2>1, <2>2
  <1>19. UpToDate(n, migration, coupons)
    <2> SUFFICES ASSUME n.steady
                 PROVE  /\ migration = "done"
                        /\ \A x \in Items(n.copy) \ n.todo : n.copy[x].discount \in OfferedBy(coupons, x)
      BY DEF UpToDate
    <2>1. j.steady
      BY <1>7, Zenon
    <2>2. /\ migration = "done"
          /\ \A x \in Items(j.copy) \ j.todo : j.copy[x].discount \in OfferedBy(coupons, x)
      BY <2>1, <1>5, <1>12 DEF UpToDate
    <2>3. ASSUME NEW x \in Items(n.copy) \ n.todo
          PROVE  n.copy[x].discount \in OfferedBy(coupons, x)
      <3>1. CASE x = p
        BY <3>1, <1>3, <1>10 DEF Offered, OfferedBy
      <3>2. CASE x # p
        <4>1. x \in Items(j.copy) \ j.todo /\ x \in Products \ {p}
          BY <3>2, <1>6, <1>10 DEF Items
        <4> QED BY <4>1, <2>2, <1>10
      <3> QED BY <3>1, <3>2
    <2> QED BY <2>2, <2>3
  <1>20. Explained(n) /\ Counted(n.seen, added)
    BY <1>6, <1>12 DEF Explained
  <1>21. Good(n, store, migration, coupons, added)
    BY <1>17, <1>18, <1>19, <1>20 DEF Good
  <1> QED BY <1>4, <1>5, <1>21, OneChanges
LEMMA IdleIsGood ==
  ASSUME TypeOK
  PROVE  \A st, mg, cs : Good(Idle, st, mg, cs, added)
  <1>1. JobIsExact(Idle)
    BY DEF JobIsExact, Idle, Blind
  <1>2. ASSUME NEW p \in Products PROVE Units(NoBasket)[p] <= added[p]
    <2>1. Units(NoBasket)[p] = 0
      BY EmptyBasket
    <2>2. added[p] \in Nat
      BY DEF TypeOK
    <2> QED BY <2>1, <2>2
  <1>3. Counted(Idle.seen, added)
    BY <1>2 DEF Idle, Counted
  <1>4. \A st, mg, cs : Undisturbed(Idle, st) /\ UpToDate(Idle, mg, cs) /\ Explained(Idle)
    BY DEF Undisturbed, UpToDate, Explained, Idle
  <1> QED BY <1>1, <1>3, <1>4 DEF Good

LEMMA EndIsGood ==
  ASSUME TypeOK, AllGood, NEW r \in Requests, End(r)
  PROVE  \A s \in Requests : Good(job'[s], store', migration', coupons', added')
  <1>1. job' = [job EXCEPT ![r] = Idle] /\ UNCHANGED <<store, discount, added>>
    BY DEF End
  <1> QED BY <1>1, IdleIsJob, IdleIsGood, OneChanges

LEMMA StageIsGood ==
  ASSUME TypeOK, AllGood, NEW r \in Requests, StageStep(r)
  PROVE  \A s \in Requests : Good(job'[s], store', migration', coupons', added')
  <1> DEFINE j == job[r]
  <1>1. j \in Job /\ Good(j, store, migration, coupons, added)
    BY DEF TypeOK, AllGood
  <1>2. PICK stage \in {"answered", "failed", "lost"} :
          /\ job' = [job EXCEPT ![r].stage = stage]
          /\ stage = "answered" => j.stage = "reread"
          /\ stage = "failed" =>
               \/ j.stage = "discounts" /\ migration # "done"
               \/ j.stage = "reread" /\ store = NoBasket
    BY DEF StageStep
  <1>3. j.stage \in {"discounts", "write", "read", "reread"} /\ UNCHANGED <<store, discount, added>>
    BY DEF StageStep
  <1> DEFINE n == [j EXCEPT !.stage = stage]
  <1>4. job' = [job EXCEPT ![r] = n]
    BY <1>2
  <1> HIDE DEF j
  <1>5. n \in Job
    BY <1>1, JobChanges DEF Stages
  <1>6. /\ n.op = j.op /\ n.seen = j.seen /\ n.copy = j.copy /\ n.todo = j.todo
        /\ n.stage = stage
    BY <1>1 DEF Job
  <1>7. n.alone = j.alone /\ n.steady = j.steady
    BY <1>1 DEF Job
  <1>8. JobIsExact(n)
    BY <1>1, <1>2, <1>3, ExactMoves DEF Good
  <1> HIDE DEF n
  <1>9. JobIsExact(j) /\ Undisturbed(j, store) /\ UpToDate(j, migration, coupons)
        /\ Counted(j.seen, added)
    BY <1>1 DEF Good
  <1>10. Undisturbed(n, store)
    <2>1. CASE ~n.alone
      BY <2>1 DEF Undisturbed
    <2>2. CASE n.alone /\ stage = "answered"
      <3>1. j.alone
        BY <2>2, <1>7, Zenon
      <3>2. store = j.copy
        BY <3>1, <2>2, <1>2, <1>9 DEF Undisturbed
      <3> QED BY <3>2, <1>6, <2>2 DEF Undisturbed
    <2>3. CASE stage # "answered"
      BY <2>3, <1>6 DEF Undisturbed
    <2> QED BY <2>1, <2>2, <2>3
  <1>11. UpToDate(n, migration, coupons)
    <2>1. CASE ~n.steady
      BY <2>1 DEF UpToDate
    <2>2. CASE n.steady
      <3>1. j.steady
        BY <2>2, <1>7, Zenon
      <3>2. n.stage = "answered" => j.stage = "reread"
        BY <1>2, <1>6
      <3> QED BY <3>1, <3>2, <1>6, <1>9 DEF UpToDate
    <2> QED BY <2>1, <2>2
  <1>12. Explained(n)
    <2> SUFFICES ASSUME n.stage = "failed", n.alone, n.op = "GetBasket" => n.steady
                 PROVE  FALSE
      BY DEF Explained
    <2>1. j.alone /\ (j.op = "GetBasket" => j.steady)
      BY <1>6, <1>7, Zenon
    <2>2. j.stage = "discounts" => migration = "done"
      BY <2>1, <1>9 DEF UpToDate, JobIsExact
    <2>3. j.stage = "reread" /\ store = NoBasket
      BY <2>2, <1>2, <1>6
    <2>4. store = j.copy
      BY <2>1, <2>3, <1>9 DEF Undisturbed
    <2>5. j.op # "DeleteBasket" /\ j.copy # NoBasket
      BY <2>3, <1>9 DEF JobIsExact
    <2> QED BY <2>3, <2>4, <2>5
  <1>13. Counted(n.seen, added)
    BY <1>6, <1>9
  <1>14. Good(n, store, migration, coupons, added)
    BY <1>8, <1>10, <1>11, <1>12, <1>13 DEF Good
  <1> QED BY <1>3, <1>4, <1>5, <1>14, OneChanges

(***************************************************************************)
(* Redis stores a basket.                                                  *)
(***************************************************************************)

\* What is stored counts no more than what was added, with what it adds.
LEMMA StoreCounts ==
  ASSUME TypeOK, AllGood, NEW r \in Requests, StoreStep(r)
  PROVE  /\ \A p \in Products : added[p] <= added'[p]
         /\ added' \in [Products -> Nat]
         /\ Counted(store', added')
  <1> DEFINE j == job[r]
  <1>1. j \in Job /\ JobIsExact(j) /\ Counted(j.seen, added) /\ j.stage = "write"
    BY DEF TypeOK, AllGood, Good, StoreStep
  <1>2. /\ store' = j.copy
        /\ added' = IF j.op = "AddBasketItem" THEN [added EXCEPT ![j.item] = @ + j.quantity] ELSE added
    BY DEF StoreStep, Stored
  <1> HIDE DEF j
  <1>3. j.op \in Operations /\ Units(j.copy) = Outcome(j)
    BY <1>1 DEF JobIsExact, Job
  <1>4. added \in [Products -> Nat] /\ Units(j.seen) \in [Products -> Nat]
    BY <1>1, UnitsType DEF TypeOK, Job
  <1>5. \A p \in Products : Units(j.seen)[p] <= added[p]
    BY <1>1 DEF Counted
  <1>6. CASE j.op = "AddBasketItem"
    <2>1. j.item \in Products /\ j.quantity \in Nat
      BY <1>1, <1>6, QuantitiesAssumption DEF JobIsExact
    <2>2. Units(j.copy) = [Units(j.seen) EXCEPT ![j.item] = @ + j.quantity]
      BY <1>3, <1>6 DEF Outcome
    <2>3. added' = [added EXCEPT ![j.item] = @ + j.quantity]
      BY <1>2, <1>6
    <2> DEFINE u == Units(j.seen)
               v == Units(j.copy)
    <2>4. u \in [Products -> Nat] /\ v = [u EXCEPT ![j.item] = @ + j.quantity]
          /\ \A p \in Products : u[p] <= added[p]
      BY <2>2, <1>4, <1>5
    <2> HIDE DEF u, v
    <2>5. \A p \in Products : v[p] <= added'[p] /\ added[p] <= added'[p]
      BY <2>1, <2>3, <2>4, <1>4
    <2>6. added' \in [Products -> Nat]
      BY <2>1, <2>3, <1>4
    <2> QED BY <2>5, <2>6, <1>2 DEF v, Counted
  <1>7. CASE j.op # "AddBasketItem"
    <2>1. added' = added
      BY <1>2, <1>7
    <2>2. j.op = "DeleteBasketItem" => j.item \in Products
      BY <1>1 DEF JobIsExact
    <2> DEFINE u == Units(j.seen)
               v == Units(j.copy)
    <2>3. \/ v = u
          \/ j.item \in Products /\ v = [u EXCEPT ![j.item] = 0]
          \/ v = [p \in Products |-> 0]
      BY <1>3, <1>7, <2>2 DEF Outcome, Operations
    <2>4. u \in [Products -> Nat] /\ \A p \in Products : u[p] <= added[p]
      BY <1>4, <1>5
    <2> HIDE DEF u, v
    <2>5. ASSUME NEW p \in Products PROVE v[p] <= added[p] /\ added[p] <= added[p]
      <3>1. added[p] \in Nat /\ u[p] \in Nat /\ u[p] <= added[p]
        BY <2>4, <1>4
      <3>2. v[p] \in {u[p], 0}
        BY <2>3, <2>4
      <3> QED BY <3>1, <3>2
    <2> QED BY <2>1, <2>5, <1>2, <1>4 DEF v, Counted
  <1> QED BY <1>6, <1>7

LEMMA StoreIsGood ==
  ASSUME TypeOK, AllGood, NEW r \in Requests, StoreStep(r)
  PROVE  \A s \in Requests : Good(job'[s], store', migration', coupons', added')
  <1> DEFINE j == job[r]
  <1>1. j \in Job /\ Good(j, store, migration, coupons, added) /\ j.stage = "write"
    BY DEF TypeOK, AllGood, StoreStep
  <1>2. PICK stage \in {"reread", "answered", "lost"} :
          /\ stage = "reread" => j.op # "DeleteBasket"
          /\ Stored(r, stage)
    BY DEF StoreStep
  <1>3. migration' = migration /\ coupons' = coupons
    BY DEF StoreStep, discount
  <1>4. /\ added \in [Products -> Nat] /\ added' \in [Products -> Nat]
        /\ \A p \in Products : added[p] <= added'[p]
    BY StoreCounts DEF TypeOK
  <1> DEFINE n == [j EXCEPT !.stage = stage]
  <1>5. store' = j.copy /\ job'[r] = n
    BY <1>2 DEF Stored
  <1>6. ASSUME NEW s \in Requests, s # r
        PROVE  Good(job'[s], store', migration', coupons', added')
    <2> DEFINE k == job[s]
    <2>1. job'[s] = [k EXCEPT !.alone = FALSE]
      BY <1>2, <1>6 DEF Stored
    <2>2. k \in Job /\ Good(k, store, migration, coupons, added)
      BY DEF TypeOK, AllGood
    <2> HIDE DEF k
    <2>3. Good([k EXCEPT !.alone = FALSE], store', migration, coupons, added')
      BY <2>2, <1>4, GoodOvertaken
    <2> QED BY <2>1, <2>3, <1>3
  <1> HIDE DEF j
  <1>7. /\ n.op = j.op /\ n.seen = j.seen /\ n.copy = j.copy /\ n.todo = j.todo
        /\ n.stage = stage
    BY <1>1 DEF Job
  <1>8. n.alone = j.alone /\ n.steady = j.steady
    BY <1>1 DEF Job
  <1>9. JobIsExact(n)
    BY <1>1, <1>2, ExactMoves DEF Good
  <1> HIDE DEF n
  <1>10. Undisturbed(n, store')
    BY <1>5, <1>7 DEF Undisturbed
  <1>11. UpToDate(n, migration, coupons)
    <2>1. CASE ~n.steady
      BY <2>1 DEF UpToDate
    <2>2. CASE n.steady
      <3>1. j.steady
        BY <2>2, <1>8, Zenon
      <3> QED BY <3>1, <1>1, <1>7 DEF UpToDate, Good
    <2> QED BY <2>1, <2>2
  <1>12. Explained(n)
    BY <1>7 DEF Explained
  <1>13. Counted(n.seen, added')
    <2> SUFFICES ASSUME NEW p \in Products PROVE Units(n.seen)[p] <= added'[p]
      BY DEF Counted
    <2>1. Units(j.seen)[p] <= added[p]
      BY <1>1 DEF Good, Counted
    <2>2. Units(j.seen)[p] \in Nat
      BY <1>1, UnitsType DEF Job
    <2> HIDE DEF Units
    <2> QED BY <2>1, <2>2, <1>4, <1>7
  <1>14. Good(n, store', migration', coupons', added')
    BY <1>3, <1>9, <1>10, <1>11, <1>12, <1>13 DEF Good
  <1> QED BY <1>5, <1>6, <1>14

\* A step of Discount leaves every request as it is, but unsteady.
LEMMA DiscountStepIsGood ==
  ASSUME TypeOK, AllGood, DiscountStep
  PROVE  \A s \in Requests : Good(job'[s], store', migration', coupons', added')
  <1> SUFFICES ASSUME NEW s \in Requests
               PROVE  Good(job'[s], store', migration', coupons', added')
    OBVIOUS
  <1> DEFINE j == job[s]
  <1>1. store' = store /\ added' = added
    BY DiscountFrames
  <1>2. j \in Job /\ Good(j, store, migration, coupons, added)
    BY DEF TypeOK, AllGood
  <1>3. CASE job' = Unsteady
    <2>1. job'[s] = [j EXCEPT !.steady = FALSE]
      BY <1>3 DEF Unsteady
    <2> HIDE DEF j
    <2>2. Good([j EXCEPT !.steady = FALSE], store, migration', coupons', added)
      BY <1>2, GoodUnsteady
    <2> QED BY <1>1, <2>1, <2>2
  <1>4. CASE job' = job /\ migration # "done"
    <2>1. ~j.steady
      BY <1>2, <1>4 DEF Good, UpToDate
    <2>2. UpToDate(j, migration', coupons')
      BY <2>1 DEF UpToDate
    <2>3. Good(j, store, migration', coupons', added)
      BY <1>2, <2>2 DEF Good
    <2> QED BY <1>1, <1>4, <2>3
  <1> QED BY <1>3, <1>4, DiscountFrames
(***************************************************************************)
(* The inductive invariant.                                                *)
(***************************************************************************)

LEMMA BasketInvInit == Init => BasketInv
  <1> SUFFICES ASSUME Init PROVE BasketInv
    OBVIOUS
  <1>1. TypeOK
    BY BoundsAssumption, SeedAssumption, IdleIsJob DEF Init, TypeOK
  <1>2. migration \in {"done", "insert"} => table
    BY DEF Init
  <1>3. Counted(store, added)
    <2>1. \A p \in Products : Units(NoBasket)[p] = 0 /\ added[p] = 0
      BY EmptyBasket DEF Init
    <2> SUFFICES ASSUME NEW p \in Products PROVE Units(NoBasket)[p] <= added[p]
      BY DEF Counted, Init
    <2> QED BY <2>1
  <1>4. AllGood
    BY <1>1, IdleIsGood DEF Init, AllGood
  <1> QED BY <1>1, <1>2, <1>3, <1>4, InvParts

LEMMA HandleKeepsInv ==
  ASSUME BasketInv, NEW r \in Requests, Begin(r) \/ Handle(r)
  PROVE  BasketInv'
  <1>1. /\ TypeOK /\ Counted(store, added) /\ AllGood /\ Exact /\ JobIsExact(job[r])
        /\ migration \in {"done", "insert"} => table
    BY InvParts DEF AllGood, Good, Exact
  <1>2. TypeOK'
    BY <1>1, HandleTypes
  <1>3. migration' \in {"done", "insert"} => table'
    BY <1>1, HandleFrames DEF discount
  <1>4. BeginStep(r) \/ ReadStep(r) \/ DiscountedStep(r) \/ StageStep(r) \/ StoreStep(r) \/ End(r)
    BY <1>1, BeginSteps, HandleSteps, DiscountSteps
  <1>5. Counted(store', added')
    <2>1. CASE StoreStep(r)
      BY <1>1, <2>1, StoreCounts
    <2>2. CASE BeginStep(r) \/ ReadStep(r) \/ DiscountedStep(r) \/ StageStep(r) \/ End(r)
      <3>1. store' = store /\ added' = added
        BY <2>2 DEF BeginStep, ReadStep, Read, DiscountedStep, StageStep, End
      <3> QED BY <3>1, <1>1
    <2> QED BY <1>4, <2>1, <2>2
  <1>6. \A s \in Requests : Good(job'[s], store', migration', coupons', added')
    BY <1>1, <1>4, BeginIsGood, ReadIsGood, DiscountIsGood, StageIsGood, StoreIsGood, EndIsGood
  <1> QED BY <1>2, <1>3, <1>5, <1>6, NextParts

LEMMA DiscountKeepsInv ==
  ASSUME BasketInv, DiscountStep
  PROVE  BasketInv'
  <1>1. /\ TypeOK /\ Counted(store, added) /\ AllGood
        /\ migration \in {"done", "insert"} => table
    BY InvParts
  <1>2. store' = store /\ added' = added
    BY <1>1, DiscountFrames
  <1>3. Counted(store', added')
    BY <1>1, <1>2
  <1> QED BY <1>1, <1>3, DiscountTypes, DiscountStepIsGood, NextParts

LEMMA BasketInvInductive == BasketInv /\ [Next]_vars => BasketInv'
  <1> SUFFICES ASSUME BasketInv, [Next]_vars PROVE BasketInv'
    OBVIOUS
  <1>1. CASE UNCHANGED vars
    <2>1. /\ TypeOK /\ Counted(store, added) /\ AllGood
          /\ migration \in {"done", "insert"} => table
      BY InvParts
    <2>2. UNCHANGED <<store, coupons, table, migration, unseeded, job, added, started, changes, failures>>
      BY <1>1 DEF vars, discount
    <2>3. TypeOK' /\ (migration' \in {"done", "insert"} => table') /\ Counted(store', added')
      BY <2>1, <2>2 DEF TypeOK
    <2>4. \A s \in Requests : Good(job'[s], store', migration', coupons', added')
      BY <2>1, <2>2 DEF AllGood
    <2> QED BY <2>3, <2>4, NextParts
  <1>2. CASE Next
    BY <1>2, HandleKeepsInv, DiscountKeepsInv DEF Next
  <1> QED BY <1>1, <1>2

\* What stands behind every request holds in every state: types, the basket it
\* works on, and how that relates to Redis and to the coupons (BasketService).
THEOREM BasketInvariant == Safety => []BasketInv
  BY BasketInvInit, BasketInvInductive, PTL DEF Safety

\* A basket counts no more of a product than was added to it, whatever overlaps
\* and fails (BasketService).
THEOREM CountedOnce == Safety => []NothingIsCountedTwice
  <1>1. BasketInv => NothingIsCountedTwice
    BY DEF BasketInv
  <1> QED BY <1>1, BasketInvariant, PTL

\* A request that no other store came between replaces the basket it read, and
\* leaves it with its own change: updates are lost to overlaps only
\* (BasketService).
THEOREM LossesAreRaces == Safety => []LossTakesARace
  <1>1. BasketInv => LossTakesARace
    <2> SUFFICES ASSUME BasketInv, NEW r \in Requests, job[r].alone
                 PROVE  /\ job[r].stage = "write" /\ job[r].op \notin Blind => store = job[r].seen
                        /\ job[r].stage = "answered" => Units(store) = Outcome(job[r])
      BY DEF LossTakesARace
    <2>1. JobIsExact(job[r]) /\ AloneIsUndisturbed(job[r])
      BY DEF BasketInv
    <2>2. job[r].stage = "write" /\ job[r].op \notin Blind => store = job[r].seen
      BY <2>1 DEF AloneIsUndisturbed
    <2>3. CASE job[r].stage = "answered" /\ store = job[r].copy
      BY <2>1, <2>2, <2>3 DEF JobIsExact
    <2>4. CASE job[r].stage = "answered" /\ store # job[r].copy
      <3>1. job[r].op = "GetBasket" /\ store = job[r].seen
        BY <2>1, <2>4 DEF AloneIsUndisturbed
      <3>2. Outcome(job[r]) = Units(job[r].seen)
        BY <3>1 DEF Outcome
      <3> QED BY <2>2, <3>1, <3>2
    <2> QED BY <2>2, <2>3, <2>4
  <1> QED BY <1>1, BasketInvariant, PTL

\* An undisturbed read leaves every item with a discount that the coupons offer
\* (CheckForBasketItemsDiscountUpdate, ShouldUpdateBasket).
THEOREM OffersReachTheBasket == Safety => []DiscountsAreOffered
  <1>1. BasketInv => DiscountsAreOffered
    <2> SUFFICES ASSUME BasketInv, NEW r \in Requests,
                        job[r].op = "GetBasket", job[r].stage = "answered",
                        job[r].alone, job[r].steady, store # NoBasket
                 PROVE  \A p \in Items(store) : store[p].discount \in Offered(p)
      BY DEF DiscountsAreOffered
    <2>1. JobIsExact(job[r]) /\ AloneIsUndisturbed(job[r]) /\ SteadyIsCurrent(job[r])
      BY DEF BasketInv
    <2>2. store = job[r].copy
      BY <2>1 DEF AloneIsUndisturbed
    <2>3. job[r].todo = {}
      BY <2>1 DEF JobIsExact
    <2>4. \A p \in Items(job[r].copy) \ job[r].todo : job[r].copy[p].discount \in Offered(p)
      BY <2>1 DEF SteadyIsCurrent
    <2> QED BY <2>2, <2>3, <2>4
  <1> QED BY <1>1, BasketInvariant, PTL

\* A request whose own calls succeed fails only for another store, a start of
\* Discount while it reads, or an item of no basket (UpdateBasket, ToDto).
THEOREM FailuresHaveCauses == Safety => []FailuresAreExplained
  <1>1. BasketInv => FailuresAreExplained
    BY DEF BasketInv
  <1> QED BY <1>1, BasketInvariant, PTL
===============================================================================
