-------------------------------- MODULE Store --------------------------------
(***************************************************************************)
(* The store: checkout, the stock of products, orders and the QRs they are *)
(* picked up with (routes/wallet.ts, routes/admin-content.ts).             *)
(*                                                                         *)
(* A checkout and a stock movement read before they lock, and so does the  *)
(* creation of a pickup QR, which locks nothing at all; what each does     *)
(* under its locks is one step.  The bootstrap of the wallet is left to    *)
(* WalletLedger: users start with their wallet and welcome grant.          *)
(*                                                                         *)
(* An inventory row that is missing is read like an empty one everywhere,  *)
(* so it is one here.  A product that is not on sale for any reason (its   *)
(* status, its dates, its team funding) is not published.  A store that is *)
(* closed and a pickup QR that has expired only refuse; operators and time *)
(* may bring them about at any moment, and the model simply has requests   *)
(* not succeed.                                                            *)
(***************************************************************************)
EXTENDS Ledger, FiniteSetsExt

CONSTANTS Products, Product0,   \* the products and what they are at the start
          Patches,      \* updates of products, [product, change]
          Baskets,      \* what is bought: partial functions to quantities
          CheckoutKeys, \* Idempotency-Keys of POST /store/checkout
          StockKeys,    \* Idempotency-Keys of stock movements
          Quantities,   \* the signed quantities they move
          MaxTotal,     \* the limit of one operation
          Handlers,     \* requests in flight at a time
          OrderIds, QrIds,   \* bounds: the orders and pickup QRs, 1 .. n
          Welcome       \* the welcome grant every user starts with

Product == [published : BOOLEAN, mode : {"limited", "unlimited"},
            limit : Nat, price : Nat \ {0}]   \* limit 0: no limit per user

(* An update names the columns it changes. *)
Updated(row, change) ==
  [n \in DOMAIN row |-> IF n \in DOMAIN change THEN change[n] ELSE row[n]]

ASSUME StoreAssumption ==
  /\ Product0 \in [Products -> Product]
  /\ \A patch \in Patches :
       /\ patch.product \in Products
       /\ Updated(Product0[patch.product], patch.change) \in Product
  /\ \A b \in Baskets : /\ DOMAIN b \subseteq Products /\ DOMAIN b # {}
                        /\ IsFiniteSet(DOMAIN b)
                        /\ \A p \in DOMAIN b : b[p] \in Nat \ {0}
  /\ Quantities \subseteq Int \ {0}
  /\ OrderIds \subseteq Nat /\ QrIds \subseteq Nat
  /\ MaxTotal \in Nat /\ Welcome \in Nat \ {0}
  /\ Events = {} /\ IsFiniteSet(Users)

VARIABLES product,      \* store_products
          inventory,    \* store_product_inventory
          movement,     \* inventory_movements
          order,        \* store_orders with their items
          qr,           \* qr_sessions of purpose order_pickup
          request,      \* the requests in flight
          acked         \* the checkouts clients were told are done

shopVars == <<product, inventory, movement, order, qr, request, acked>>
vars == <<ledgerVars, shopVars>>

-----------------------------------------------------------------------------

OrderStatus == {"paid", "pickup_requested", "ready_for_pickup", "fulfilled"}

NoOrder == [status |-> "none"]
Order == [status : OrderStatus, user : Users, key : CheckoutKeys, basket : Baskets,
          total : Nat \ {0}, season : Season]

NoQr == [status |-> "none"]
Qr == [status : {"active", "consumed", "expired", "cancelled"},
       order : OrderIds, season : Season]

(* Restocking and adjustments are "stock".  The key of a movement is made  *)
(* of its kind, its product, and the request or order it belongs to.       *)
Movement ==
  [kind : {"stock"}, product : Products, by : StockKeys, quantity : Int]
    \cup [kind : {"reserve", "fulfill"}, product : Products, by : OrderIds, quantity : Int]

Idle == [stage |-> "idle"]
InFlight ==
  [stage : {"checkout"}, user : Users, key : CheckoutKeys, basket : Baskets, season : Season]
    \cup [stage : {"stock"}, product : Products, key : StockKeys, quantity : Quantities]
    \cup [stage : {"qr"}, order : OrderIds, season : Season]

Key == ({"welcome"} \X Users) \cup ({"store"} \X Users \X CheckoutKeys)
Body == {<<>>} \cup Baskets

TypeOK ==
  /\ LedgerTypeOK(Key, Body, Users)
  /\ product \in [Products -> Product]
  /\ inventory \in [Products -> [onHand : Nat, reserved : Nat]]
  /\ movement \subseteq Movement
  /\ order \in [OrderIds -> {NoOrder} \cup Order]
  /\ qr \in [QrIds -> {NoQr} \cup Qr]
  /\ request \in [Handlers -> {Idle} \cup InFlight]
  /\ acked \subseteq Users \X CheckoutKeys \X Baskets

Init ==
  /\ WelcomedInit(Welcome)
  /\ product = Product0
  /\ inventory = [p \in Products |-> [onHand |-> 0, reserved |-> 0]]
  /\ movement = {}
  /\ order = [o \in OrderIds |-> NoOrder]
  /\ qr = [q \in QrIds |-> NoQr]
  /\ request = [h \in Handlers |-> Idle]
  /\ acked = {}

-----------------------------------------------------------------------------

At(h, stage) == request[h].stage = stage
Advance(h, r) == request' = [request EXCEPT ![h] = r]
Finish(h) == request' = [request EXCEPT ![h] = Idle]

Placed(o) == order[o] # NoOrder
Created(q) == qr[q] # NoQr

(* Identifiers are used in order. *)
NextOrder(o) == ~Placed(o) /\ \A n \in OrderIds : n < o => Placed(n)
NextQr(q) == ~Created(q) /\ \A n \in QrIds : n < q => Created(n)

Total(basket) ==
  LET costOf == [p \in DOMAIN basket |-> product[p].price * basket[p]]
  IN  SumFunctionOnSet(costOf, DOMAIN basket)

(* The orders of a user for a product, of every season and status. *)
OrdersOf(u, p) ==
  {o \in OrderIds : Placed(o) /\ order[o].user = u /\ p \in DOMAIN order[o].basket}

Bought(u, p) == MapThenSumSet(LAMBDA o : order[o].basket[p], OrdersOf(u, p))

InStock(p, n) ==
  product[p].mode = "limited" => inventory[p].onHand - inventory[p].reserved >= n

MayBuy(u, p, n) ==
  /\ product[p].published
  /\ InStock(p, n)
  /\ product[p].limit # 0 => Bought(u, p) + n <= product[p].limit

(* The order of an earlier request with this key, in any season. *)
Earlier(u, k) == {o \in OrderIds : Placed(o) /\ order[o].user = u /\ order[o].key = k}

(* POST /store/checkout: the programme and the season are read before any  *)
(* lock.  If the store is closed then, the request ends here.              *)
BeginCheckout(h, u, k, basket) ==
  /\ At(h, "idle")
  /\ Advance(h, [stage |-> "checkout", user |-> u, key |-> k, basket |-> basket,
                 season |-> season])
  /\ UNCHANGED <<ledgerVars, product, inventory, movement, order, qr, acked>>

(* Bug a run must catch: the quantities are not charged for. *)
PurchaseOfOneEach(r) ==
  [key |-> <<"store", r.user, r.key>>, body |-> r.basket, actor |-> r.user,
   season |-> r.season, from |-> <<r.season, r.user>>, to |-> <<r.season, "store">>,
   amount |-> MapThenSumSet(LAMBDA p : product[p].price, DOMAIN r.basket)]

Purchase(r) ==
  [key |-> <<"store", r.user, r.key>>, body |-> r.basket, actor |-> r.user,
   season |-> r.season, from |-> <<r.season, r.user>>, to |-> <<r.season, "store">>,
   amount |-> Total(r.basket)]

(* Only products in limited stock, now, are reserved. *)
Reservable(basket) == {p \in DOMAIN basket : product[p].mode = "limited"}

(* Under the locks of the key, the products and their inventory, and then  *)
(* those of the programme and the accounts: the points, the order and the  *)
(* reservations commit together.                                           *)
Checkout(h, o) ==
  LET r == request[h]
      t == Purchase(r)
      P == Reservable(r.basket)
  IN  /\ At(h, "checkout") /\ NextOrder(o)
      /\ Earlier(r.user, r.key) = {}
      /\ \A p \in DOMAIN r.basket : MayBuy(r.user, p, r.basket[p])
      /\ t.amount <= MaxTotal
      /\ account' = WithAccounts({t.from, t.to})
      /\ CanPost(account', t)
      /\ Post(t)
      /\ order' = [order EXCEPT ![o] =
                     [status |-> "paid", user |-> r.user, key |-> r.key,
                      basket |-> r.basket, total |-> Total(r.basket),
                      season |-> r.season]]
      /\ inventory' = [p \in Products |->
                         IF p \in P THEN [inventory[p] EXCEPT !.reserved = @ + r.basket[p]]
                                    ELSE inventory[p]]
      /\ movement' = movement \cup
                       {[kind |-> "reserve", product |-> p, by |-> o,
                         quantity |-> r.basket[p]] : p \in P}
      /\ acked' = acked \cup {<<r.user, r.key, r.basket>>}
      /\ Finish(h)
      /\ UNCHANGED <<season, product, qr>>

(* Bug a run must catch: the hash of the request is not compared. *)
SameRequestByKey(o, r) == TRUE

SameRequest(o, r) == order[o].basket = r.basket

(* The key has an order: the answer is that order, if it is the same one.  *)
ReplayCheckout(h) ==
  LET r == request[h]
  IN  /\ At(h, "checkout")
      /\ \E o \in Earlier(r.user, r.key) : SameRequest(o, r)
      /\ acked' = acked \cup {<<r.user, r.key, r.basket>>}
      /\ Finish(h)
      /\ UNCHANGED <<ledgerVars, product, inventory, movement, order, qr>>

(* A check fails under the locks, the connection is lost or the process    *)
(* dies: nothing of the transaction remains, and nobody is told it is done. *)
Fail(h) ==
  /\ ~At(h, "idle")
  /\ Finish(h)
  /\ UNCHANGED <<ledgerVars, product, inventory, movement, order, qr, acked>>

-----------------------------------------------------------------------------

StockKnown(p, k) ==
  \E m \in movement : m.kind = "stock" /\ m.product = p /\ m.by = k

(* POST /admin/store/products/:id/inventory looks for its key, which a     *)
(* repeat finds, and for the mode of the product without any lock ...      *)
BeginStock(h, p, k, n) ==
  /\ At(h, "idle")
  /\ ~StockKnown(p, k)
  /\ product[p].mode = "limited"
  /\ Advance(h, [stage |-> "stock", product |-> p, key |-> k, quantity |-> n])
  /\ UNCHANGED <<ledgerVars, product, inventory, movement, order, qr, acked>>

StockAllowed(p, n) ==
  inventory[p].onHand + n >= inventory[p].reserved /\ inventory[p].onHand + n >= 0

(* Bug a run must catch: the key of a movement is not unique. *)
AnyStockKey(p, k) == TRUE

(* The unique key of inventory_movements. *)
FreshStockKey(p, k) == ~StockKnown(p, k)

(* ... and moves the stock under the lock of the inventory row.  The mode  *)
(* may have changed by then.                                               *)
MoveStock(h) ==
  LET r == request[h]
  IN  /\ At(h, "stock")
      /\ StockAllowed(r.product, r.quantity)
      /\ FreshStockKey(r.product, r.key)
      /\ inventory' = [inventory EXCEPT ![r.product].onHand = @ + r.quantity]
      /\ movement' = movement \cup
                       {[kind |-> "stock", product |-> r.product, by |-> r.key,
                         quantity |-> r.quantity]}
      /\ Finish(h)
      /\ UNCHANGED <<ledgerVars, product, order, qr, acked>>

(* PATCH /admin/store/products/:id, under the lock of the product row. *)
PatchProduct(p, change) ==
  LET new == Updated(product[p], change)
  IN  /\ new # product[p]
      /\ new.published => new.price <= MaxTotal
      /\ product' = [product EXCEPT ![p] = new]
      /\ UNCHANGED <<ledgerVars, inventory, movement, order, qr, request, acked>>

-----------------------------------------------------------------------------
(* Orders *)

SetOrder(o, status) == order' = [order EXCEPT ![o].status = status]

(* POST /store/orders/:id/pickup-request. *)
RequestPickup(o) ==
  /\ order[o].status = "paid"
  /\ SetOrder(o, "pickup_requested")
  /\ UNCHANGED <<ledgerVars, product, inventory, movement, qr, request, acked>>

(* PATCH /admin/store/orders/:id/status to ready_for_pickup. *)
MakeReady(o) ==
  /\ order[o].status = "pickup_requested"
  /\ SetOrder(o, "ready_for_pickup")
  /\ UNCHANGED <<ledgerVars, product, inventory, movement, qr, request, acked>>

(* Bug a run must catch: whatever is in limited stock now is taken. *)
LimitedOf(o) == {p \in DOMAIN order[o].basket : product[p].mode = "limited"}

(* The products reserved for an order, whatever their mode is by now. *)
ReservedFor(o) ==
  {p \in Products :
     \E m \in movement : m.kind = "reserve" /\ m.by = o /\ m.product = p}

(* INVENTORY_INCONSISTENT otherwise. *)
CanTake(o) ==
  \A p \in ReservedFor(o) : /\ inventory[p].reserved >= order[o].basket[p]
                            /\ inventory[p].onHand >= order[o].basket[p]

(* transitionOrderInTransaction to fulfilled: what was reserved leaves the *)
(* stock; an order that was handed out before is left as it is.            *)
HandOut(o) ==
  LET basket == order[o].basket
      P == ReservedFor(o)
  IN  IF order[o].status = "fulfilled"
      THEN UNCHANGED <<inventory, movement, order>>
      ELSE /\ CanTake(o)
           /\ inventory' = [p \in Products |->
                              IF p \in P
                              THEN [onHand |-> inventory[p].onHand - basket[p],
                                    reserved |-> inventory[p].reserved - basket[p]]
                              ELSE inventory[p]]
           /\ movement' = movement \cup
                            {[kind |-> "fulfill", product |-> p, by |-> o,
                              quantity |-> -basket[p]] : p \in P}
           /\ SetOrder(o, "fulfilled")

(* PATCH /admin/store/orders/:id/status to fulfilled. *)
Fulfil(o) ==
  /\ order[o].status = "ready_for_pickup"
  /\ HandOut(o)
  /\ UNCHANGED <<ledgerVars, product, qr, request, acked>>

(* POST /store/orders/:id/qr reads the order and then the season ... *)
BeginQr(h, o) ==
  /\ At(h, "idle")
  /\ order[o].status \in {"pickup_requested", "ready_for_pickup"}
  /\ Advance(h, [stage |-> "qr", order |-> o, season |-> season])
  /\ UNCHANGED <<ledgerVars, product, inventory, movement, order, qr, acked>>

(* ... and inserts the QR, comparing neither with what they are by now.    *)
CreateQr(h, q) ==
  /\ At(h, "qr") /\ NextQr(q)
  /\ qr' = [qr EXCEPT ![q] = [status |-> "active", order |-> request[h].order,
                              season |-> request[h].season]]
  /\ Finish(h)
  /\ UNCHANGED <<ledgerVars, product, inventory, movement, order, acked>>

(* DELETE /wallet/qr/:id does not ask for the purpose of the QR. *)
CancelQr(q) ==
  /\ qr[q].status = "active"
  /\ qr' = [qr EXCEPT ![q].status = "cancelled"]
  /\ UNCHANGED <<ledgerVars, product, inventory, movement, order, request, acked>>

(* POST /admin/store/orders/resolve-pickup.  An order that is not ready    *)
(* yet is made ready first; one that was handed out before stays so, and   *)
(* the QR is consumed all the same.  The order's status is read without    *)
(* its lock, but a change in between only makes the request fail.          *)
ResolvePickup(q) ==
  /\ qr[q].status = "active"
  /\ order[qr[q].order].status # "paid"
  /\ HandOut(qr[q].order)
  /\ qr' = [qr EXCEPT ![q].status = "consumed"]
  /\ UNCHANGED <<ledgerVars, product, request, acked>>

(* The confirmation of a reset: orders stay, the QRs of the season expire. *)
Reset ==
  /\ SwitchSeason
  /\ qr' = [q \in QrIds |-> IF qr[q].status = "active" /\ qr[q].season = season
                            THEN [qr[q] EXCEPT !.status = "expired"] ELSE qr[q]]
  /\ UNCHANGED <<product, inventory, movement, order, request, acked>>

Next ==
  \/ Reset
  \/ \E patch \in Patches : PatchProduct(patch.product, patch.change)
  \/ \E o \in OrderIds : RequestPickup(o) \/ MakeReady(o) \/ Fulfil(o)
  \/ \E q \in QrIds : CancelQr(q) \/ ResolvePickup(q)
  \/ \E h \in Handlers :
       \/ \E u \in Users, k \in CheckoutKeys, basket \in Baskets :
            BeginCheckout(h, u, k, basket)
       \/ \E p \in Products, k \in StockKeys, n \in Quantities : BeginStock(h, p, k, n)
       \/ \E o \in OrderIds : BeginQr(h, o) \/ Checkout(h, o)
       \/ \E q \in QrIds : CreateQr(h, q)
       \/ ReplayCheckout(h) \/ MoveStock(h) \/ Fail(h)

Spec == Init /\ [][Next]_vars

-----------------------------------------------------------------------------
(* Properties *)

(* The inventory row of a product is the sum of its movements, whatever    *)
(* checkouts, repeated stock movements, hand-outs and changes of the stock *)
(* mode come between.                                                      *)
SumOf(p, kinds) ==
  LET quantityOf == [m \in movement |-> m.quantity]
  IN  SumFunctionOnSet(quantityOf, {m \in movement : m.product = p /\ m.kind \in kinds})

StockIsJournalled ==
  \A p \in Products :
     /\ inventory[p].onHand = SumOf(p, {"stock", "fulfill"})
     /\ inventory[p].reserved = SumOf(p, {"reserve", "fulfill"})

(* Nothing sold is sold again or taken off the shelf: every order that was *)
(* paid for and not handed out can be handed out, and all of them can      *)
(* (transitionOrderInTransaction never answers INVENTORY_INCONSISTENT).    *)
EveryOrderCanBeHandedOut ==
  /\ \A o \in OrderIds : order[o].status \in OrderStatus \ {"fulfilled"} => CanTake(o)
  /\ \A p \in Products : inventory[p].reserved <= inventory[p].onHand

(* Every order was paid with exactly one transaction, by its buyer and of  *)
(* its total, and every store payment bought an order: a retried checkout, *)
(* even after a reset, neither charges twice nor sells for nothing.        *)
PaymentsOf(o) ==
  {t \in ledger : /\ t.key = <<"store", order[o].user, order[o].key>>
                  /\ t.from = <<order[o].season, order[o].user>>
                  /\ t.amount = order[o].total /\ t.body = order[o].basket}

EveryOrderIsPaidOnce ==
  /\ \A o \in OrderIds : Placed(o) => Cardinality(PaymentsOf(o)) = 1
  /\ \A t \in ledger : t.key[1] = "store" =>
       Cardinality({o \in OrderIds : Placed(o) /\ t \in PaymentsOf(o)}) = 1

(* A buyer who was told the checkout is done has that order, though the    *)
(* request was repeated, and a different one under the same key was not    *)
(* taken for it.                                                           *)
AnsweredCheckoutIsPlaced ==
  \A answer \in acked :
     \E o \in Earlier(answer[1], answer[2]) : order[o].basket = answer[3]

(* docs/wallet.md: a reset makes every QR of the old season invalid.       *)
ClosedSeasonQrsAreDead ==
  \A q \in QrIds : qr[q].status = "active" => qr[q].season = season
=============================================================================
