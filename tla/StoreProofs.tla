----------------------------- MODULE StoreProofs -----------------------------
(***************************************************************************)
(* Theorems about the store, for any products, baskets, buyers, requests,  *)
(* stock movements, orders and seasons: every order is paid exactly once,  *)
(* stock follows its journal, and what was sold can be handed out.         *)
(***************************************************************************)
EXTENDS Store, FiniteSetTheorems, Sums, TLAPS

Tx == Transaction(Key, Body, Users)

(* A request and a QR of an order carry an order that was placed.          *)
RequestedOrdersExist ==
  /\ \A h \in Handlers : At(h, "qr") => Placed(request[h].order)
  /\ \A q \in QrIds : Created(q) => Placed(qr[q].order)

(* What a reservation and a hand-out say of their order.                   *)
MovementsAreOfOrders ==
  \A m \in movement :
     /\ m.kind = "reserve" =>
          /\ Placed(m.by) /\ m.product \in DOMAIN order[m.by].basket
          /\ m.quantity = order[m.by].basket[m.product]
     /\ m.kind = "fulfill" => Placed(m.by) /\ order[m.by].status = "fulfilled"

Sound == TypeOK /\ RequestedOrdersExist /\ MovementsAreOfOrders

-----------------------------------------------------------------------------
(* Rows *)

LEMMA AccountOf ==
  ASSUME NEW s \in Season, NEW o \in Users \cup SystemKeys
  PROVE  <<s, o>> \in Account
BY DEF Account, Owner

LEMMA OrderRow ==
  ASSUME TypeOK, NEW o \in OrderIds
  PROVE  /\ Placed(o) <=> order[o] \in Order
         /\ Placed(o) <=> order[o].status # "none"
         /\ Placed(o) <=> order[o].status \in OrderStatus
         /\ Placed(o) => /\ order[o].user \in Users /\ order[o].basket \in Baskets
                         /\ order[o].season \in Season
BY DEF TypeOK, Placed, Order, NoOrder, OrderStatus

LEMMA QrRow ==
  ASSUME TypeOK, NEW q \in QrIds
  PROVE  /\ Created(q) <=> qr[q] \in Qr
         /\ qr[q].status = "active" => Created(q)
         /\ Created(q) => qr[q].order \in OrderIds
BY DEF TypeOK, Created, Qr, NoQr

LEMMA RequestRow ==
  ASSUME TypeOK, NEW h \in Handlers
  PROVE  /\ At(h, "checkout") =>
              /\ request[h].user \in Users /\ request[h].key \in CheckoutKeys
              /\ request[h].basket \in Baskets /\ request[h].season \in Season
         /\ At(h, "stock") =>
              /\ request[h].product \in Products /\ request[h].key \in StockKeys
              /\ request[h].quantity \in Int
         /\ At(h, "qr") => request[h].order \in OrderIds /\ request[h].season \in Season
<1>1. request[h] \in {Idle} \cup InFlight
  BY DEF TypeOK
<1>2. At(h, "checkout") =>
        request[h] \in [stage : {"checkout"}, user : Users, key : CheckoutKeys, basket : Baskets,
                       season : Season]
  BY <1>1 DEF At, Idle, InFlight
<1>3. At(h, "stock") =>
        request[h] \in [stage : {"stock"}, product : Products, key : StockKeys,
                       quantity : Quantities]
  BY <1>1 DEF At, Idle, InFlight
<1>4. At(h, "qr") => request[h] \in [stage : {"qr"}, order : OrderIds, season : Season]
  BY <1>1 DEF At, Idle, InFlight
<1>5. Quantities \subseteq Int
  BY StoreAssumption
<1> QED BY <1>2, <1>3, <1>4, <1>5

LEMMA BasketRow ==
  ASSUME NEW b \in Baskets
  PROVE  /\ DOMAIN b \subseteq Products /\ DOMAIN b # {} /\ IsFiniteSet(DOMAIN b)
         /\ \A p \in DOMAIN b : b[p] \in Nat \ {0}
BY StoreAssumption

LEMMA InventoryRow ==
  ASSUME TypeOK, NEW p \in Products
  PROVE  inventory[p].onHand \in Nat /\ inventory[p].reserved \in Nat
BY DEF TypeOK

(* A basket costs something: quantities and prices are positive.           *)
LEMMA TotalType ==
  ASSUME TypeOK, NEW b \in Baskets
  PROVE  Total(b) \in Nat \ {0}
<1> DEFINE cost == [p \in DOMAIN b |-> product[p].price * b[p]]
<1>1. \A p \in DOMAIN b : cost[p] \in Nat \ {0}
  <2> SUFFICES ASSUME NEW p \in DOMAIN b PROVE product[p].price * b[p] \in Nat \ {0}
    OBVIOUS
  <2>1. product[p].price \in Nat \ {0} /\ b[p] \in Nat \ {0}
    BY BasketRow DEF TypeOK, Product
  <2>2. \A m, n \in Nat \ {0} : m * n \in Nat \ {0}
    OBVIOUS
  <2> QED BY <2>1, <2>2
<1>2. Total(b) = SumFunctionOnSet(cost, DOMAIN b)
  BY DEF Total
<1> HIDE DEF cost
<1>3. PICK p \in DOMAIN b : TRUE
  BY BasketRow
<1>4. SumFunctionOnSet(cost, DOMAIN b) \in Nat /\ cost[p] <= SumFunctionOnSet(cost, DOMAIN b)
  BY <1>1, BasketRow, SumRemove
<1> QED BY <1>1, <1>2, <1>4

(* An update gives a product row of the table.                             *)
LEMMA UpdatedType ==
  ASSUME NEW patch \in Patches, NEW row \in Product
  PROVE  Updated(row, patch.change) \in Product
<1> DEFINE change == patch.change
           new == Updated(Product0[patch.product], change)
<1>1. new \in Product /\ Product0[patch.product] \in Product
  BY StoreAssumption
<1>2. \A n \in {"published", "mode", "limit", "price"} :
         n \in DOMAIN change => new[n] = change[n]
  BY <1>1 DEF Updated, Product
<1> QED BY <1>1, <1>2 DEF Updated, Product

-----------------------------------------------------------------------------
(* Orders *)

(* Orders stay, with what was bought, and one that was handed out stays so. *)
OrdersKept ==
  \A o \in OrderIds :
     /\ order'[o] # NoOrder <=> order[o] # NoOrder
     /\ order[o] # NoOrder =>
          /\ order'[o].user = order[o].user /\ order'[o].key = order[o].key
          /\ order'[o].basket = order[o].basket /\ order'[o].total = order[o].total
          /\ order'[o].season = order[o].season
     /\ order[o].status = "fulfilled" => order'[o].status = "fulfilled"

LEMMA OrderSet ==
  ASSUME TypeOK, NEW o \in OrderIds, Placed(o), order[o].status # "fulfilled",
         NEW s \in OrderStatus, SetOrder(o, s)
  PROVE  /\ order' \in [OrderIds -> {NoOrder} \cup Order]
         /\ OrdersKept
         /\ order'[o].status = s
         /\ \A n \in OrderIds \ {o} : order'[n] = order[n]
<1>1. order[o] \in Order
  BY OrderRow
<1>2. /\ order'[o] = [order[o] EXCEPT !.status = s]
      /\ \A n \in OrderIds \ {o} : order'[n] = order[n]
  BY DEF TypeOK, SetOrder
<1>3. order'[o] \in Order /\ order'[o].status = s
  BY <1>1, <1>2 DEF Order
<1>4. order'[o] # NoOrder
  BY <1>3 DEF Order, NoOrder, OrderStatus
<1>5. /\ order'[o].user = order[o].user /\ order'[o].key = order[o].key
      /\ order'[o].basket = order[o].basket /\ order'[o].total = order[o].total
      /\ order'[o].season = order[o].season
  BY <1>1, <1>2 DEF Order
<1>6. OrdersKept
  BY <1>2, <1>4, <1>5 DEF OrdersKept, Placed
<1>7. order' \in [OrderIds -> {NoOrder} \cup Order]
  BY <1>3 DEF TypeOK, SetOrder
<1> QED BY <1>2, <1>3, <1>6, <1>7

LEMMA OrdersStay == order' = order => OrdersKept
BY DEF OrdersKept

(* Reservations of an order are of products in its basket.                 *)
LEMMA ReservedProducts ==
  ASSUME Sound, NEW o \in OrderIds, Placed(o)
  PROVE  /\ ReservedFor(o) \subseteq DOMAIN order[o].basket
         /\ ReservedFor(o) \subseteq Products
         /\ \A p \in ReservedFor(o) : order[o].basket[p] \in Nat \ {0}
<1>1. ReservedFor(o) \subseteq DOMAIN order[o].basket /\ ReservedFor(o) \subseteq Products
  BY DEF Sound, MovementsAreOfOrders, ReservedFor
<1> QED BY <1>1, OrderRow, BasketRow DEF Sound

(* A hand-out of what was not handed out before.                           *)
LEMMA HandOutStep ==
  ASSUME Sound, NEW o \in OrderIds, Placed(o), order[o].status # "fulfilled", HandOut(o)
  PROVE  /\ inventory' \in [Products -> [onHand : Nat, reserved : Nat]]
         /\ \A p \in ReservedFor(o) :
              /\ inventory'[p].onHand = inventory[p].onHand - order[o].basket[p]
              /\ inventory'[p].reserved = inventory[p].reserved - order[o].basket[p]
         /\ \A p \in Products \ ReservedFor(o) : inventory'[p] = inventory[p]
         /\ movement' = movement \cup
              {[kind |-> "fulfill", product |-> p, by |-> o,
                quantity |-> -order[o].basket[p]] : p \in ReservedFor(o)}
         /\ movement' \subseteq Movement
         /\ order' \in [OrderIds -> {NoOrder} \cup Order]
         /\ OrdersKept
         /\ order'[o].status = "fulfilled"
         /\ \A n \in OrderIds \ {o} : order'[n] = order[n]
<1> DEFINE P == ReservedFor(o)
           b == order[o].basket
<1>1. /\ CanTake(o) /\ SetOrder(o, "fulfilled")
      /\ inventory' = [p \in Products |->
                         IF p \in P THEN [onHand |-> inventory[p].onHand - b[p],
                                         reserved |-> inventory[p].reserved - b[p]]
                                  ELSE inventory[p]]
      /\ movement' = movement \cup
           {[kind |-> "fulfill", product |-> p, by |-> o, quantity |-> -b[p]] : p \in P}
  BY DEF HandOut
<1>2. P \subseteq Products /\ \A p \in P : b[p] \in Nat
  BY ReservedProducts
<1>3. \A p \in P : /\ inventory[p].onHand - b[p] \in Nat
                   /\ inventory[p].reserved - b[p] \in Nat
  BY <1>1, <1>2, InventoryRow DEF CanTake, Sound
<1>4. inventory' \in [Products -> [onHand : Nat, reserved : Nat]]
  <2>1. \A p \in Products : inventory[p] \in [onHand : Nat, reserved : Nat]
    BY DEF Sound, TypeOK
  <2> HIDE DEF P, b
  <2> QED BY <1>1, <1>3, <2>1
<1>5. movement' \subseteq Movement
  <2>1. \A p \in P : [kind |-> "fulfill", product |-> p, by |-> o, quantity |-> -b[p]] \in Movement
    BY <1>2 DEF Movement
  <2> QED BY <1>1, <2>1 DEF Sound, TypeOK
<1>6. /\ order' \in [OrderIds -> {NoOrder} \cup Order] /\ OrdersKept
      /\ order'[o].status = "fulfilled" /\ \A n \in OrderIds \ {o} : order'[n] = order[n]
  BY <1>1, OrderSet DEF OrderStatus, Sound
<1> HIDE DEF P, b
<1>7. /\ \A p \in P : /\ inventory'[p].onHand = inventory[p].onHand - b[p]
                      /\ inventory'[p].reserved = inventory[p].reserved - b[p]
      /\ \A p \in Products \ P : inventory'[p] = inventory[p]
  BY <1>1, <1>2
<1> QED BY <1>1, <1>4, <1>5, <1>6, <1>7 DEF P, b

(* A checkout that succeeds.                                               *)
LEMMA CheckoutStep ==
  ASSUME TypeOK, NEW h \in Handlers, NEW o \in OrderIds, Checkout(h, o)
  PROVE  LET r == request[h]
             P == Reservable(r.basket)
         IN  /\ r.user \in Users /\ r.key \in CheckoutKeys /\ r.basket \in Baskets
             /\ r.season = season
             /\ ~Placed(o) /\ Earlier(r.user, r.key) = {}
             /\ ~Posted(Purchase(r).key) /\ Purchase(r) \in Tx
             /\ order'[o] \in Order /\ order'[o] # NoOrder
             /\ order'[o].status = "paid" /\ order'[o].basket = r.basket
             /\ order'[o].user = r.user /\ order'[o].key = r.key
             /\ order'[o].season = r.season /\ order'[o].total = Total(r.basket)
             /\ \A n \in OrderIds \ {o} : order'[n] = order[n]
             /\ order' \in [OrderIds -> {NoOrder} \cup Order]
             /\ P \subseteq DOMAIN r.basket /\ P \subseteq Products
             /\ \A p \in P : /\ r.basket[p] \in Nat \ {0}
                            /\ inventory'[p].onHand = inventory[p].onHand
                            /\ inventory'[p].reserved = inventory[p].reserved + r.basket[p]
                            /\ inventory[p].onHand - inventory[p].reserved >= r.basket[p]
             /\ \A p \in Products \ P : inventory'[p] = inventory[p]
             /\ inventory' \in [Products -> [onHand : Nat, reserved : Nat]]
             /\ movement' = movement \cup {[kind |-> "reserve", product |-> p, by |-> o,
                                           quantity |-> r.basket[p]] : p \in P}
             /\ movement' \subseteq Movement
<1> DEFINE r == request[h]
           P == Reservable(r.basket)
           new == [status |-> "paid", user |-> r.user, key |-> r.key, basket |-> r.basket,
                   total |-> Total(r.basket), season |-> r.season]
<1>1. /\ r.user \in Users /\ r.key \in CheckoutKeys /\ r.basket \in Baskets
      /\ r.season \in Season /\ r.season = season
      /\ ~Placed(o) /\ Earlier(r.user, r.key) = {} /\ ~Posted(Purchase(r).key)
  BY RequestRow DEF Checkout, NextOrder, CanPost, StillActive, Purchase
<1>2. order' = [order EXCEPT ![o] = new]
  BY DEF Checkout
<1>3. new \in Order
  BY <1>1, TotalType DEF Order, OrderStatus
<1>4. /\ order'[o] = new /\ \A n \in OrderIds \ {o} : order'[n] = order[n]
      /\ order' \in [OrderIds -> {NoOrder} \cup Order]
  BY <1>2, <1>3 DEF TypeOK
<1>5. new # NoOrder
  BY DEF NoOrder
<1>6. Purchase(r) \in Tx
  <2>1. <<r.season, r.user>> \in Account /\ <<r.season, "store">> \in Account
    BY <1>1, AccountOf DEF SystemKeys
  <2>2. <<"store", r.user, r.key>> \in Key /\ r.basket \in Body
    BY <1>1 DEF Key, Body
  <2> QED BY <1>1, <2>1, <2>2, TotalType DEF Purchase, Tx, Transaction
<1>7. /\ P \subseteq DOMAIN r.basket /\ P \subseteq Products
      /\ \A p \in P : /\ r.basket[p] \in Nat \ {0}
                     /\ inventory[p].onHand - inventory[p].reserved >= r.basket[p]
  BY <1>1, BasketRow DEF Reservable, Checkout, MayBuy, InStock
<1>8. /\ inventory' = [p \in Products |->
                         IF p \in P THEN [inventory[p] EXCEPT !.reserved = @ + r.basket[p]]
                                  ELSE inventory[p]]
      /\ movement' = movement \cup {[kind |-> "reserve", product |-> p, by |-> o,
                                    quantity |-> r.basket[p]] : p \in P}
  BY DEF Checkout
<1>9. movement' \subseteq Movement
  <2>1. \A p \in P :
          [kind |-> "reserve", product |-> p, by |-> o, quantity |-> r.basket[p]] \in Movement
    BY <1>7 DEF Movement
  <2> QED BY <1>8, <2>1 DEF TypeOK
<1>10. ASSUME NEW p \in P
       PROVE  /\ inventory'[p] \in [onHand : Nat, reserved : Nat]
              /\ inventory'[p].onHand = inventory[p].onHand
              /\ inventory'[p].reserved = inventory[p].reserved + r.basket[p]
  <2>1. inventory[p] \in [onHand : Nat, reserved : Nat] /\ r.basket[p] \in Nat
    BY <1>7 DEF TypeOK
  <2>2. inventory'[p] = [inventory[p] EXCEPT !.reserved = @ + r.basket[p]]
    BY <1>7, <1>8
  <2> QED BY <2>1, <2>2
<1>11. \A p \in Products \ P : inventory'[p] = inventory[p]
  BY <1>8
<1>12. inventory' \in [Products -> [onHand : Nat, reserved : Nat]]
  <2>1. \A p \in Products : inventory'[p] \in [onHand : Nat, reserved : Nat]
    BY <1>10, <1>11 DEF TypeOK
  <2> QED BY <1>8, <2>1
<1> QED BY <1>1, <1>3, <1>4, <1>5, <1>6, <1>7, <1>8, <1>9, <1>10, <1>11, <1>12

(* Nothing of the stock, and of orders only their status before the        *)
(* hand-out.                                                               *)
StockKept ==
  /\ UNCHANGED <<inventory, movement>> /\ OrdersKept
  /\ \A o \in OrderIds : order'[o].status = "fulfilled" => order[o].status = "fulfilled"
  /\ order' \in [OrderIds -> {NoOrder} \cup Order]

LEMMA OpenStatusSet ==
  ASSUME TypeOK, NEW o \in OrderIds, Placed(o), order[o].status # "fulfilled",
         NEW s \in OrderStatus \ {"fulfilled"}, SetOrder(o, s), UNCHANGED <<inventory, movement>>
  PROVE  StockKept
BY OrderSet DEF StockKept

LEMMA StockStep ==
  ASSUME Sound, [Next]_vars
  PROVE  \/ StockKept
         \/ \E h \in Handlers, o \in OrderIds : Checkout(h, o)
         \/ \E h \in Handlers : MoveStock(h)
         \/ \E o \in OrderIds : Placed(o) /\ order[o].status # "fulfilled" /\ HandOut(o)
<1>1. ASSUME UNCHANGED <<inventory, movement, order>> PROVE StockKept
  BY <1>1, OrdersStay DEF StockKept, Sound, TypeOK
<1>2. ASSUME NEW o \in OrderIds, order[o].status \in OrderStatus, HandOut(o)
      PROVE  \/ StockKept
             \/ \E n \in OrderIds : Placed(n) /\ order[n].status # "fulfilled" /\ HandOut(n)
  BY <1>1, <1>2, OrderRow DEF HandOut, Sound
<1>3. ASSUME NEW o \in OrderIds, RequestPickup(o) \/ MakeReady(o) PROVE StockKept
  BY <1>3, OrderRow, OpenStatusSet DEF RequestPickup, MakeReady, Sound, OrderStatus
<1>4. ASSUME NEW o \in OrderIds, Fulfil(o) PROVE order[o].status \in OrderStatus /\ HandOut(o)
  BY <1>4 DEF Fulfil, OrderStatus
<1>5. ASSUME NEW q \in QrIds, ResolvePickup(q)
      PROVE  /\ qr[q].order \in OrderIds /\ HandOut(qr[q].order)
             /\ order[qr[q].order].status \in OrderStatus
  BY <1>5, QrRow, OrderRow DEF ResolvePickup, Sound, RequestedOrdersExist
<1> QED BY <1>1, <1>2, <1>3, <1>4, <1>5
    DEF Next, vars, shopVars, Reset, PatchProduct, CancelQr, BeginCheckout, BeginStock, BeginQr,
        CreateQr, ReplayCheckout, Fail

LEMMA OrdersFollow ==
  ASSUME Sound, [Next]_vars
  PROVE  \/ OrdersKept /\ order' \in [OrderIds -> {NoOrder} \cup Order]
         \/ \E h \in Handlers, o \in OrderIds : Checkout(h, o)
<1>1. ASSUME NEW h \in Handlers, MoveStock(h)
      PROVE  OrdersKept /\ order' \in [OrderIds -> {NoOrder} \cup Order]
  BY <1>1, OrdersStay DEF MoveStock, Sound, TypeOK
<1> QED BY <1>1, StockStep, HandOutStep DEF StockKept

-----------------------------------------------------------------------------
(* Type correctness *)

LEMMA PurchaseType ==
  ASSUME TypeOK, NEW t \in Tx, Post(t)
  PROVE  balance' \in [Account -> Int] /\ ledger' \subseteq Tx
<1>1. t.from \in Account /\ t.to \in Account /\ t.amount \in Int
  BY DEF Tx, Transaction
<1>2. balance' \in [Account -> Int]
  BY <1>1 DEF Post, Moved, TypeOK, LedgerTypeOK
<1> QED BY <1>2 DEF Post, TypeOK, LedgerTypeOK, Tx

LEMMA LedgerType == Sound /\ [Next]_vars => LedgerTypeOK(Key, Body, Users)'
<1> SUFFICES ASSUME Sound, [Next]_vars PROVE LedgerTypeOK(Key, Body, Users)'
  OBVIOUS
<1> USE DEF Sound, TypeOK
<1>1. CASE UNCHANGED ledgerVars
  BY <1>1 DEF ledgerVars, LedgerTypeOK
<1>2. CASE SwitchSeason
  <2>1. season' \in Season
    BY <1>2, SeasonAssumption DEF SwitchSeason, LedgerTypeOK, Season
  <2>2. account' \in [Account -> AccountStatus]
    BY <1>2 DEF SwitchSeason, SwitchedAccounts, LedgerTypeOK, AccountStatus
  <2>3. balance' \in [Account -> Int]
    BY <1>2 DEF SwitchSeason, OpenedBalances, LedgerTypeOK
  <2> QED BY <1>2, <2>1, <2>2, <2>3 DEF SwitchSeason, LedgerTypeOK
<1>3. ASSUME NEW h \in Handlers, NEW o \in OrderIds, Checkout(h, o)
      PROVE  LedgerTypeOK(Key, Body, Users)'
  <2>1. Purchase(request[h]) \in Tx /\ Post(Purchase(request[h]))
    BY <1>3, CheckoutStep DEF Checkout
  <2>2. balance' \in [Account -> Int] /\ ledger' \subseteq Tx
    BY <2>1, PurchaseType
  <2>3. account' \in [Account -> AccountStatus]
    BY <1>3 DEF Checkout, WithAccounts, LedgerTypeOK, AccountStatus
  <2>4. season' = season
    BY <1>3 DEF Checkout
  <2> QED BY <2>2, <2>3, <2>4 DEF LedgerTypeOK, Tx
<1> QED BY <1>1, <1>2, <1>3
    DEF Next, vars, Reset, PatchProduct, RequestPickup, MakeReady, Fulfil, CancelQr,
        ResolvePickup, BeginCheckout, BeginStock, BeginQr, CreateQr, ReplayCheckout, MoveStock,
        Fail

LEMMA ProductType ==
  TypeOK /\ [Next]_vars => product' \in [Products -> Product]
<1> SUFFICES ASSUME TypeOK, [Next]_vars PROVE product' \in [Products -> Product]
  OBVIOUS
<1>1. CASE UNCHANGED product
  BY <1>1 DEF TypeOK
<1>2. ASSUME NEW patch \in Patches, PatchProduct(patch.product, patch.change)
      PROVE  product' \in [Products -> Product]
  <2>1. patch.product \in Products /\ product[patch.product] \in Product
    BY StoreAssumption DEF TypeOK
  <2>2. Updated(product[patch.product], patch.change) \in Product
    BY <2>1, UpdatedType
  <2> QED BY <1>2, <2>1, <2>2 DEF PatchProduct, TypeOK
<1> QED BY <1>1, <1>2
    DEF Next, vars, shopVars, Reset, RequestPickup, MakeReady, Fulfil, CancelQr, ResolvePickup,
        BeginCheckout, BeginStock, BeginQr, Checkout, CreateQr, ReplayCheckout, MoveStock, Fail

LEMMA MoveStockStep ==
  ASSUME TypeOK, NEW h \in Handlers, MoveStock(h)
  PROVE  LET r == request[h]
             m == [kind |-> "stock", product |-> r.product, by |-> r.key,
                   quantity |-> r.quantity]
         IN  /\ r.product \in Products /\ m \in Movement
             /\ inventory'[r.product].onHand = inventory[r.product].onHand + r.quantity
             /\ inventory'[r.product].reserved = inventory[r.product].reserved
             /\ inventory'[r.product].onHand >= inventory'[r.product].reserved
             /\ \A p \in Products \ {r.product} : inventory'[p] = inventory[p]
             /\ inventory' \in [Products -> [onHand : Nat, reserved : Nat]]
             /\ m \notin movement /\ movement' = movement \cup {m}
<1> DEFINE r == request[h]
           m == [kind |-> "stock", product |-> r.product, by |-> r.key, quantity |-> r.quantity]
<1>1. r.product \in Products /\ r.key \in StockKeys /\ r.quantity \in Int
  BY RequestRow DEF MoveStock
<1>2. /\ inventory' = [inventory EXCEPT ![r.product].onHand = @ + r.quantity]
      /\ inventory[r.product].onHand + r.quantity >= inventory[r.product].reserved
      /\ movement' = movement \cup {m} /\ ~StockKnown(r.product, r.key)
  BY DEF MoveStock, StockAllowed, FreshStockKey
<1>3. m \in Movement
  BY <1>1 DEF Movement
<1>4. m \notin movement
  BY <1>2 DEF StockKnown
<1>5. inventory[r.product].onHand + r.quantity \in Nat
  BY <1>1, <1>2, InventoryRow
<1>6. inventory[r.product] \in [onHand : Nat, reserved : Nat]
  BY <1>1 DEF TypeOK
<1>7. /\ inventory'[r.product] \in [onHand : Nat, reserved : Nat]
      /\ inventory'[r.product].onHand = inventory[r.product].onHand + r.quantity
      /\ inventory'[r.product].reserved = inventory[r.product].reserved
  <2>1. inventory'[r.product] = [inventory[r.product] EXCEPT !.onHand = @ + r.quantity]
    BY <1>1, <1>2 DEF TypeOK
  <2> QED BY <1>5, <1>6, <2>1
<1>8. \A p \in Products \ {r.product} : inventory'[p] = inventory[p]
  BY <1>1, <1>2 DEF TypeOK
<1>9. inventory' \in [Products -> [onHand : Nat, reserved : Nat]]
  <2>1. \A p \in Products : inventory'[p] \in [onHand : Nat, reserved : Nat]
    BY <1>7, <1>8 DEF TypeOK
  <2>2. inventory' = [p \in Products |-> inventory'[p]]
    BY <1>2 DEF TypeOK
  <2> QED BY <2>1, <2>2
<1> QED BY <1>1, <1>2, <1>3, <1>4, <1>7, <1>8, <1>9

LEMMA StockType ==
  ASSUME Sound, [Next]_vars
  PROVE  /\ inventory' \in [Products -> [onHand : Nat, reserved : Nat]]
         /\ movement' \subseteq Movement
         /\ order' \in [OrderIds -> {NoOrder} \cup Order]
<1>1. CASE StockKept
  BY <1>1 DEF StockKept, Sound, TypeOK
<1>2. ASSUME NEW h \in Handlers, NEW o \in OrderIds, Checkout(h, o)
      PROVE  /\ inventory' \in [Products -> [onHand : Nat, reserved : Nat]]
             /\ movement' \subseteq Movement
             /\ order' \in [OrderIds -> {NoOrder} \cup Order]
  BY <1>2, CheckoutStep DEF Sound
<1>3. ASSUME NEW h \in Handlers, MoveStock(h)
      PROVE  /\ inventory' \in [Products -> [onHand : Nat, reserved : Nat]]
             /\ movement' \subseteq Movement
             /\ order' \in [OrderIds -> {NoOrder} \cup Order]
  <2>1. order' = order
    BY <1>3 DEF MoveStock
  <2> QED BY <1>3, <2>1, MoveStockStep DEF Sound, TypeOK
<1>4. ASSUME NEW o \in OrderIds, Placed(o), order[o].status # "fulfilled", HandOut(o)
      PROVE  /\ inventory' \in [Products -> [onHand : Nat, reserved : Nat]]
             /\ movement' \subseteq Movement
             /\ order' \in [OrderIds -> {NoOrder} \cup Order]
  BY <1>4, HandOutStep
<1> QED BY <1>1, <1>2, <1>3, <1>4, StockStep

LEMMA RequestType == TypeOK /\ [Next]_vars => request' \in [Handlers -> {Idle} \cup InFlight]
<1> SUFFICES ASSUME TypeOK, [Next]_vars PROVE request' \in [Handlers -> {Idle} \cup InFlight]
  OBVIOUS
<1>1. CASE UNCHANGED request
  BY <1>1 DEF TypeOK
<1>2. ASSUME NEW h \in Handlers, Finish(h) PROVE request' \in [Handlers -> {Idle} \cup InFlight]
  BY <1>2 DEF Finish, TypeOK
<1>3. ASSUME NEW h \in Handlers, NEW r \in InFlight, Advance(h, r)
      PROVE  request' \in [Handlers -> {Idle} \cup InFlight]
  BY <1>3 DEF Advance, TypeOK
<1>4. ASSUME NEW h \in Handlers, NEW u \in Users, NEW k \in CheckoutKeys, NEW b \in Baskets,
             BeginCheckout(h, u, k, b)
      PROVE  \E r \in InFlight : Advance(h, r)
  BY <1>4 DEF BeginCheckout, InFlight, TypeOK, LedgerTypeOK
<1>5. ASSUME NEW h \in Handlers, NEW p \in Products, NEW k \in StockKeys, NEW n \in Quantities,
             BeginStock(h, p, k, n)
      PROVE  \E r \in InFlight : Advance(h, r)
  BY <1>5 DEF BeginStock, InFlight
<1>6. ASSUME NEW h \in Handlers, NEW o \in OrderIds, BeginQr(h, o)
      PROVE  \E r \in InFlight : Advance(h, r)
  BY <1>6 DEF BeginQr, InFlight, TypeOK, LedgerTypeOK
<1> QED BY <1>1, <1>2, <1>3, <1>4, <1>5, <1>6
    DEF Next, vars, shopVars, Reset, PatchProduct, RequestPickup, MakeReady, Fulfil, CancelQr,
        ResolvePickup, Checkout, CreateQr, ReplayCheckout, MoveStock, Fail

LEMMA QrType == TypeOK /\ [Next]_vars => qr' \in [QrIds -> {NoQr} \cup Qr]
<1> SUFFICES ASSUME TypeOK, [Next]_vars PROVE qr' \in [QrIds -> {NoQr} \cup Qr]
  OBVIOUS
<1>1. CASE UNCHANGED qr
  BY <1>1 DEF TypeOK
<1>2. ASSUME NEW q \in QrIds, qr[q].status = "active",
             NEW s \in {"consumed", "cancelled", "expired"}
      PROVE  [qr[q] EXCEPT !.status = s] \in Qr
  BY <1>2, QrRow DEF Qr
<1>3. ASSUME NEW q \in QrIds, CancelQr(q) \/ ResolvePickup(q)
      PROVE  qr' \in [QrIds -> {NoQr} \cup Qr]
  BY <1>2, <1>3 DEF CancelQr, ResolvePickup, TypeOK
<1>4. CASE Reset
  <2>1. \A q \in QrIds : qr'[q] \in {NoQr} \cup Qr
    <3> SUFFICES ASSUME NEW q \in QrIds PROVE qr'[q] \in {NoQr} \cup Qr
      OBVIOUS
    <3>1. CASE qr[q].status = "active" /\ qr[q].season = season
      BY <1>2, <1>4, <3>1 DEF Reset
    <3>2. CASE ~(qr[q].status = "active" /\ qr[q].season = season)
      BY <1>4, <3>2 DEF Reset, TypeOK
    <3> QED BY <3>1, <3>2
  <2> QED BY <1>4, <2>1 DEF Reset
<1>5. ASSUME NEW h \in Handlers, NEW q \in QrIds, CreateQr(h, q)
      PROVE  qr' \in [QrIds -> {NoQr} \cup Qr]
  BY <1>5, RequestRow DEF CreateQr, TypeOK, Qr
<1> QED BY <1>1, <1>3, <1>4, <1>5
    DEF Next, vars, shopVars, PatchProduct, RequestPickup, MakeReady, Fulfil,
        BeginCheckout, BeginStock, BeginQr, Checkout, ReplayCheckout, MoveStock, Fail

LEMMA AckedType ==
  TypeOK /\ [Next]_vars => acked' \subseteq Users \X CheckoutKeys \X Baskets
<1> SUFFICES ASSUME TypeOK, [Next]_vars PROVE acked' \subseteq Users \X CheckoutKeys \X Baskets
  OBVIOUS
<1>1. ASSUME NEW h \in Handlers, At(h, "checkout"),
             acked' = acked \cup {<<request[h].user, request[h].key, request[h].basket>>}
      PROVE  acked' \subseteq Users \X CheckoutKeys \X Baskets
  BY <1>1, RequestRow DEF TypeOK
<1>2. CASE UNCHANGED acked
  BY <1>2 DEF TypeOK
<1> QED BY <1>1, <1>2
    DEF Next, vars, shopVars, Reset, PatchProduct, RequestPickup, MakeReady, Fulfil, CancelQr,
        ResolvePickup, BeginCheckout, BeginStock, BeginQr, Checkout, CreateQr, ReplayCheckout,
        MoveStock, Fail

(* Orders that requests and QRs name stay placed: no order is ever deleted. *)
LEMMA PlacedStays ==
  ASSUME Sound, [Next]_vars, NEW o \in OrderIds, Placed(o)
  PROVE  order'[o] # NoOrder /\ order'[o].basket = order[o].basket
<1>1. ASSUME NEW h \in Handlers, NEW n \in OrderIds, Checkout(h, n) PROVE order'[o] = order[o]
  <2>1. n # o
    BY <1>1, CheckoutStep DEF Sound
  <2> QED BY <1>1, <2>1, CheckoutStep DEF Sound
<1> QED BY <1>1, OrdersFollow DEF OrdersKept, Placed

LEMMA RequestedOrdersNext == Sound /\ [Next]_vars => RequestedOrdersExist'
<1> SUFFICES ASSUME Sound, [Next]_vars PROVE RequestedOrdersExist'
  OBVIOUS
<1> USE DEF Sound
<1>1. /\ \A h \in Handlers : At(h, "qr") => request[h].order \in OrderIds
      /\ \A q \in QrIds : Created(q) => qr[q].order \in OrderIds
  BY RequestRow, QrRow
<1>2. /\ \A h \in Handlers : At(h, "qr") => order'[request[h].order] # NoOrder
      /\ \A q \in QrIds : Created(q) => order'[qr[q].order] # NoOrder
  BY <1>1, PlacedStays DEF RequestedOrdersExist
<1>3. ASSUME NEW h \in Handlers, request'[h].stage = "qr" PROVE order'[request'[h].order] # NoOrder
  <2>1. CASE request'[h] = request[h]
    BY <1>2, <1>3, <2>1 DEF At
  <2>2. ASSUME NEW g \in Handlers, Finish(g) PROVE request'[h] = request[h]
    BY <1>3, <2>2 DEF Finish, Idle, TypeOK
  <2>3. ASSUME NEW g \in Handlers, NEW r, r.stage # "qr", Advance(g, r)
        PROVE  request'[h] = request[h]
    BY <1>3, <2>3 DEF Advance, TypeOK
  <2>4. ASSUME NEW g \in Handlers, NEW o \in OrderIds, BeginQr(g, o)
        PROVE  order'[request'[h].order] # NoOrder
    <3>1. CASE g = h
      <4>1. request'[h].order = o /\ Placed(o) /\ order' = order
        BY <2>4, <3>1, OrderRow DEF BeginQr, Advance, TypeOK
      <4> QED BY <4>1 DEF Placed
    <3>2. CASE g # h
      BY <2>1, <2>4, <3>2 DEF BeginQr, Advance, TypeOK
    <3> QED BY <3>1, <3>2
  <2>5. ASSUME NEW g \in Handlers, NEW u \in Users, NEW k \in CheckoutKeys, NEW b \in Baskets,
               BeginCheckout(g, u, k, b)
        PROVE  request'[h] = request[h]
    BY <2>3, <2>5 DEF BeginCheckout
  <2>6. ASSUME NEW g \in Handlers, NEW p \in Products, NEW k \in StockKeys, NEW n \in Quantities,
               BeginStock(g, p, k, n)
        PROVE  request'[h] = request[h]
    BY <2>3, <2>6 DEF BeginStock
  <2>7. CASE UNCHANGED request
    BY <2>1, <2>7
  <2> QED BY <2>1, <2>2, <2>4, <2>5, <2>6, <2>7
      DEF Next, vars, shopVars, Reset, PatchProduct, RequestPickup, MakeReady, Fulfil, CancelQr,
          ResolvePickup, Checkout, CreateQr, ReplayCheckout, MoveStock, Fail
<1>4. ASSUME NEW q \in QrIds, qr'[q] # NoQr PROVE order'[qr'[q].order] # NoOrder
  <2>1. CASE Created(q) /\ qr'[q].order = qr[q].order
    BY <1>2, <2>1
  <2>2. ASSUME NEW p \in QrIds, CancelQr(p) \/ ResolvePickup(p)
        PROVE  Created(q) /\ qr'[q].order = qr[q].order
    <3>1. Created(p) /\ qr[p] \in Qr
      BY <2>2, QrRow DEF CancelQr, ResolvePickup
    <3>2. CASE p = q
      BY <2>2, <3>1, <3>2 DEF CancelQr, ResolvePickup, TypeOK, Qr
    <3>3. CASE p # q
      BY <1>4, <2>2, <3>3 DEF CancelQr, ResolvePickup, TypeOK, Created
    <3> QED BY <3>2, <3>3
  <2>3. CASE Reset
    <3>1. CASE qr'[q] = qr[q]
      BY <1>4, <2>1, <3>1 DEF Created
    <3>2. CASE qr[q].status = "active" /\ qr'[q] = [qr[q] EXCEPT !.status = "expired"]
      <4>1. Created(q) /\ qr[q] \in Qr
        BY <3>2, QrRow
      <4> QED BY <2>1, <3>2, <4>1 DEF Qr
    <3> QED BY <2>3, <3>1, <3>2 DEF Reset
  <2>4. ASSUME NEW h \in Handlers, NEW p \in QrIds, CreateQr(h, p)
        PROVE  order'[qr'[q].order] # NoOrder
    <3>1. CASE p = q
      BY <1>2, <2>4, <3>1 DEF CreateQr, TypeOK
    <3>2. CASE p # q
      BY <1>4, <2>1, <2>4, <3>2 DEF CreateQr, TypeOK, Created
    <3> QED BY <3>1, <3>2
  <2>5. CASE UNCHANGED qr
    BY <1>4, <2>1, <2>5 DEF Created
  <2> QED BY <2>1, <2>2, <2>3, <2>4, <2>5
      DEF Next, vars, shopVars, PatchProduct, RequestPickup, MakeReady, Fulfil, BeginCheckout,
          BeginStock, BeginQr, Checkout, ReplayCheckout, MoveStock, Fail
<1> QED BY <1>3, <1>4 DEF RequestedOrdersExist, At, Created, Placed

LEMMA MovementRow ==
  ASSUME TypeOK, NEW m \in movement
  PROVE  /\ m.kind \in {"stock", "reserve", "fulfill"} /\ m.product \in Products
         /\ m.quantity \in Int
         /\ m.kind # "stock" => m.by \in OrderIds
BY DEF TypeOK, Movement

LEMMA MovementsNext == Sound /\ [Next]_vars => MovementsAreOfOrders'
<1> SUFFICES ASSUME Sound, [Next]_vars PROVE MovementsAreOfOrders'
  OBVIOUS
<1> USE DEF Sound
<1> DEFINE Fits(m) ==
      /\ m.kind = "reserve" =>
           /\ order'[m.by] # NoOrder /\ m.product \in DOMAIN order'[m.by].basket
           /\ m.quantity = order'[m.by].basket[m.product]
      /\ m.kind = "fulfill" => order'[m.by] # NoOrder /\ order'[m.by].status = "fulfilled"
<1>1. ASSUME NEW m \in movement PROVE Fits(m)
  <2>1. CASE m.kind = "reserve"
    <3>1. /\ m.by \in OrderIds /\ Placed(m.by) /\ m.product \in DOMAIN order[m.by].basket
          /\ m.quantity = order[m.by].basket[m.product]
      BY <2>1, MovementRow DEF MovementsAreOfOrders
    <3> QED BY <2>1, <3>1, PlacedStays
  <2>2. CASE m.kind = "fulfill"
    <3>1. m.by \in OrderIds /\ Placed(m.by) /\ order[m.by].status = "fulfilled"
      BY <2>2, MovementRow DEF MovementsAreOfOrders
    <3>2. order'[m.by].status = "fulfilled"
      <4>1. ASSUME NEW h \in Handlers, NEW n \in OrderIds, Checkout(h, n)
            PROVE  order'[m.by] = order[m.by]
        <5>1. n # m.by
          BY <3>1, <4>1, CheckoutStep
        <5> QED BY <3>1, <4>1, <5>1, CheckoutStep
      <4> QED BY <3>1, <4>1, OrdersFollow DEF OrdersKept
    <3> QED BY <2>2, <3>1, <3>2, PlacedStays
  <2> QED BY <2>1, <2>2
<1>2. ASSUME NEW m \in movement' \ movement PROVE Fits(m)
  <2>1. CASE StockKept
    BY <1>2, <2>1 DEF StockKept
  <2>2. ASSUME NEW h \in Handlers, NEW o \in OrderIds, Checkout(h, o) PROVE Fits(m)
    <3> DEFINE b == request[h].basket
    <3>1. PICK p \in Reservable(b) :
            m = [kind |-> "reserve", product |-> p, by |-> o, quantity |-> b[p]]
      BY <1>2, <2>2, CheckoutStep
    <3>2. order'[o] # NoOrder /\ order'[o].basket = b /\ p \in DOMAIN b
      BY <2>2, CheckoutStep
    <3> HIDE DEF b
    <3> QED BY <3>1, <3>2
  <2>3. ASSUME NEW h \in Handlers, MoveStock(h) PROVE Fits(m)
    <3>1. m.kind = "stock"
      BY <1>2, <2>3 DEF MoveStock
    <3> QED BY <3>1
  <2>4. ASSUME NEW o \in OrderIds, Placed(o), order[o].status # "fulfilled", HandOut(o)
        PROVE  Fits(m)
    <3>1. order'[o] # NoOrder
      BY <2>4, PlacedStays
    <3> QED BY <1>2, <2>4, <3>1, HandOutStep
  <2> QED BY <2>1, <2>2, <2>3, <2>4, StockStep
<1>3. \A m \in movement' : Fits(m)
  BY <1>1, <1>2
<1> QED BY <1>3 DEF MovementsAreOfOrders, Placed

LEMMA SoundInit == Init => Sound
<1> SUFFICES ASSUME Init PROVE Sound
  OBVIOUS
<1>1. /\ season \in Season /\ account \in [Account -> AccountStatus]
      /\ ledger = {WelcomeOf(u, Welcome) : u \in Users}
      /\ balance = [a \in Account |->
                     CASE a[1] = 1 /\ a[2] \in Users -> Welcome
                       [] a = <<1, "welcome">> -> -(Welcome * Cardinality(Users))
                       [] OTHER -> 0]
  BY SeasonAssumption DEF Init, WelcomedInit, Season, AccountStatus
<1>2. balance \in [Account -> Int]
  <2>1. Cardinality(Users) \in Nat /\ Welcome \in Nat
    BY FS_CardinalityType, StoreAssumption
  <2>2. -(Welcome * Cardinality(Users)) \in Int
    BY <2>1
  <2> QED BY <1>1, <2>1, <2>2
<1>3. ledger \subseteq Tx
  <2> SUFFICES ASSUME NEW u \in Users PROVE WelcomeOf(u, Welcome) \in Tx
    BY <1>1
  <2>1. 1 \in Season
    BY SeasonAssumption DEF Season
  <2>2. <<1, "welcome">> \in Account /\ <<1, u>> \in Account
    BY <2>1, AccountOf DEF SystemKeys
  <2>3. <<"welcome", u>> \in Key /\ <<>> \in Body
    BY DEF Key, Body
  <2> QED BY <2>1, <2>2, <2>3, StoreAssumption DEF WelcomeOf, Tx, Transaction
<1>4. TypeOK
  BY <1>1, <1>2, <1>3, StoreAssumption DEF Init, TypeOK, LedgerTypeOK, Tx
<1>5. RequestedOrdersExist /\ MovementsAreOfOrders
  BY DEF Init, RequestedOrdersExist, MovementsAreOfOrders, At, Idle, Created
<1> QED BY <1>4, <1>5 DEF Sound

LEMMA SoundNext == Sound /\ [Next]_vars => Sound'
<1> SUFFICES ASSUME Sound, [Next]_vars PROVE Sound'
  OBVIOUS
<1>1. TypeOK'
  BY LedgerType, ProductType, StockType, RequestType, QrType, AckedType DEF Sound, TypeOK
<1> QED BY <1>1, RequestedOrdersNext, MovementsNext DEF Sound

(* Rows keep their types: no stock or reservation is ever negative, every  *)
(* order has a total and every payment an amount of at least one point.    *)
THEOREM StoreTypeCorrect == Spec => []TypeOK
<1>1. Sound => TypeOK
  BY DEF Sound
<1> QED BY <1>1, SoundInit, SoundNext, PTL DEF Spec

-----------------------------------------------------------------------------
(* Orders and payments *)

OneOrderPerKey ==
  \A o, n \in OrderIds :
     /\ Placed(o) /\ Placed(n)
     /\ order[o].user = order[n].user /\ order[o].key = order[n].key
     => o = n

(* UNIQUE (idempotency_key) of ledger_transactions.                        *)
OneTransactionPerKey == \A s, t \in ledger : s.key = t.key => s = t

(* t is what the buyer of o paid for it.                                   *)
PaysFor(t, o) ==
  /\ t.key = <<"store", order[o].user, order[o].key>>
  /\ t.from = <<order[o].season, order[o].user>>
  /\ t.amount = order[o].total /\ t.body = order[o].basket

EveryOrderIsPaid == \A o \in OrderIds : Placed(o) => \E t \in ledger : PaysFor(t, o)

EveryPaymentBought ==
  \A t \in ledger : t.key[1] = "store" => \E o \in OrderIds : Placed(o) /\ PaysFor(t, o)

PaidInv ==
  Sound /\ OneOrderPerKey /\ OneTransactionPerKey /\ EveryOrderIsPaid /\ EveryPaymentBought

LEMMA LedgerFollows ==
  ASSUME [Next]_vars
  PROVE  ledger' = ledger \/ \E h \in Handlers, o \in OrderIds : Checkout(h, o)
BY DEF Next, vars, ledgerVars, Reset, SwitchSeason, PatchProduct, RequestPickup, MakeReady,
       Fulfil, CancelQr, ResolvePickup, BeginCheckout, BeginStock, BeginQr, CreateQr,
       ReplayCheckout, MoveStock, Fail

LEMMA PaidInvNext == PaidInv /\ [Next]_vars => PaidInv'
<1> SUFFICES ASSUME PaidInv, [Next]_vars PROVE PaidInv'
  OBVIOUS
<1>1. Sound /\ Sound'
  BY SoundNext DEF PaidInv
<1>2. ASSUME OrdersKept, ledger' = ledger PROVE PaidInv'
  <2>1. ASSUME NEW o \in OrderIds
        PROVE  /\ order'[o] # NoOrder <=> Placed(o)
               /\ Placed(o) => /\ order'[o].user = order[o].user /\ order'[o].key = order[o].key
                               /\ \A t : PaysFor(t, o)' <=> PaysFor(t, o)
    BY <1>2 DEF OrdersKept, Placed, PaysFor
  <2>2. OneOrderPerKey' /\ OneTransactionPerKey'
    BY <1>2, <2>1 DEF PaidInv, OneOrderPerKey, OneTransactionPerKey, Placed
  <2>3. EveryOrderIsPaid'
    BY <1>2, <2>1 DEF PaidInv, EveryOrderIsPaid, Placed
  <2>4. EveryPaymentBought'
    BY <1>2, <2>1 DEF PaidInv, EveryPaymentBought, Placed
  <2> QED BY <1>1, <2>2, <2>3, <2>4 DEF PaidInv
<1>3. ASSUME NEW h \in Handlers, NEW o \in OrderIds, Checkout(h, o) PROVE PaidInv'
  <2> DEFINE r == request[h]
  <2>0. PICK t : t = Purchase(r)
    OBVIOUS
  <2>1. /\ ~Placed(o) /\ Earlier(r.user, r.key) = {} /\ ~Posted(t.key)
        /\ order'[o] # NoOrder
        /\ order'[o].user = r.user /\ order'[o].key = r.key /\ order'[o].basket = r.basket
        /\ order'[o].season = r.season /\ order'[o].total = Total(r.basket)
        /\ \A n \in OrderIds \ {o} : order'[n] = order[n]
    BY <1>1, <1>3, <2>0, CheckoutStep DEF Sound
  <2>2. ledger' = ledger \cup {t}
    BY <1>3, <2>0 DEF Checkout, Post
  <2>3. /\ t.key = <<"store", r.user, r.key>> /\ t.from = <<r.season, r.user>>
        /\ t.amount = Total(r.basket) /\ t.body = r.basket
    BY <2>0 DEF Purchase
  <2>4. \A n \in OrderIds : order'[n] # NoOrder => n = o \/ Placed(n)
    BY <2>1 DEF Placed
  <2>5. ASSUME NEW n \in OrderIds, Placed(n)
        PROVE  /\ n # o /\ order'[n] = order[n]
               /\ ~(order[n].user = r.user /\ order[n].key = r.key)
               /\ \A s : PaysFor(s, n)' <=> PaysFor(s, n)
    BY <2>1, <2>5 DEF Earlier, PaysFor
  <2>6. OneOrderPerKey'
    BY <2>1, <2>4, <2>5 DEF PaidInv, OneOrderPerKey, Placed
  <2>7. OneTransactionPerKey'
    BY <2>1, <2>2 DEF PaidInv, OneTransactionPerKey, Posted
  <2>8. PaysFor(t, o)'
    BY <2>1, <2>3 DEF PaysFor
  <2>9. EveryOrderIsPaid'
    <3> SUFFICES ASSUME NEW n \in OrderIds, order'[n] # NoOrder
                 PROVE  \E s \in ledger' : PaysFor(s, n)'
      BY DEF EveryOrderIsPaid, Placed
    <3>1. CASE n = o
      BY <2>2, <2>8, <3>1
    <3>2. CASE Placed(n)
      <4>1. PICK s \in ledger : PaysFor(s, n)
        BY <3>2 DEF PaidInv, EveryOrderIsPaid
      <4> QED BY <2>2, <2>5, <3>2, <4>1
    <3> QED BY <2>4, <3>1, <3>2
  <2>10. EveryPaymentBought'
    <3> SUFFICES ASSUME NEW s \in ledger', s.key[1] = "store"
                 PROVE  \E n \in OrderIds : order'[n] # NoOrder /\ PaysFor(s, n)'
      BY DEF EveryPaymentBought, Placed
    <3>1. CASE s = t
      BY <2>1, <2>8, <3>1
    <3>2. CASE s \in ledger
      <4>1. PICK n \in OrderIds : Placed(n) /\ PaysFor(s, n)
        BY <3>2 DEF PaidInv, EveryPaymentBought
      <4>2. order'[n] # NoOrder /\ PaysFor(s, n)'
        BY <2>5, <4>1 DEF Placed
      <4> QED BY <4>2
    <3> QED BY <2>2, <3>1, <3>2
  <2> QED BY <1>1, <2>6, <2>7, <2>9, <2>10 DEF PaidInv
<1>4. CASE \E h \in Handlers, o \in OrderIds : Checkout(h, o)
  BY <1>3, <1>4
<1> QED BY <1>1, <1>2, <1>4, OrdersFollow, LedgerFollows

LEMMA PaidInvInit == Init => PaidInv
<1> SUFFICES ASSUME Init PROVE PaidInv
  OBVIOUS
<1>1. /\ \A t \in ledger : \E u \in Users : t = WelcomeOf(u, Welcome)
      /\ \A o \in OrderIds : ~Placed(o)
  BY DEF Init, WelcomedInit, Placed
<1>2. OneTransactionPerKey /\ \A t \in ledger : t.key[1] # "store"
  BY <1>1 DEF OneTransactionPerKey, WelcomeOf
<1> QED BY <1>1, <1>2, SoundInit DEF PaidInv, OneOrderPerKey, EveryOrderIsPaid, EveryPaymentBought

(* Every order was paid with exactly one transaction of its buyer, of its  *)
(* total, and every store payment bought exactly one order: whatever       *)
(* checkouts are retried, answered late or cut by a reset.                 *)
THEOREM OrdersArePaidOnce == Spec => []EveryOrderIsPaidOnce
<1>1. ASSUME PaidInv PROVE EveryOrderIsPaidOnce
  <2>1. ASSUME NEW o \in OrderIds, Placed(o) PROVE Cardinality(PaymentsOf(o)) = 1
    <3>1. PICK t \in ledger : PaysFor(t, o)
      BY <1>1, <2>1 DEF PaidInv, EveryOrderIsPaid
    <3>2. PaymentsOf(o) = {t}
      BY <1>1, <3>1 DEF PaymentsOf, PaysFor, PaidInv, OneTransactionPerKey
    <3> QED BY <3>2, FS_Singleton
  <2>2. ASSUME NEW t \in ledger, t.key[1] = "store"
        PROVE  Cardinality({o \in OrderIds : Placed(o) /\ t \in PaymentsOf(o)}) = 1
    <3>1. PICK o \in OrderIds : Placed(o) /\ PaysFor(t, o)
      BY <1>1, <2>2 DEF PaidInv, EveryPaymentBought
    <3>2. ASSUME NEW n \in OrderIds, Placed(n), t \in PaymentsOf(n) PROVE n = o
      <4>1. <<"store", order[n].user, order[n].key>> = <<"store", order[o].user, order[o].key>>
        BY <3>1, <3>2 DEF PaymentsOf, PaysFor
      <4> QED BY <1>1, <3>1, <3>2, <4>1 DEF PaidInv, OneOrderPerKey
    <3>3. t \in PaymentsOf(o)
      BY <3>1 DEF PaymentsOf, PaysFor
    <3>4. {n \in OrderIds : Placed(n) /\ t \in PaymentsOf(n)} = {o}
      BY <3>1, <3>2, <3>3
    <3> QED BY <3>4, FS_Singleton
  <2> QED BY <2>1, <2>2 DEF EveryOrderIsPaidOnce
<1> QED BY <1>1, PaidInvInit, PaidInvNext, PTL DEF Spec

LEMMA AckedFollows ==
  ASSUME [Next]_vars
  PROVE  \/ acked' = acked
         \/ \E h \in Handlers : ReplayCheckout(h) \/ \E o \in OrderIds : Checkout(h, o)
BY DEF Next, vars, shopVars, Reset, PatchProduct, RequestPickup, MakeReady, Fulfil, CancelQr,
       ResolvePickup, BeginCheckout, BeginStock, BeginQr, CreateQr, MoveStock, Fail

(* A buyer who was told that the checkout is done has the order that was   *)
(* asked for: a repeated request is answered only with the same basket.    *)
THEOREM AnswersAreOrders == Spec => []AnsweredCheckoutIsPlaced
<1>1. ASSUME Sound, AnsweredCheckoutIsPlaced, [Next]_vars PROVE AnsweredCheckoutIsPlaced'
  <2> DEFINE Has(a, o) == /\ order'[o] # NoOrder /\ order'[o].user = a[1]
                          /\ order'[o].key = a[2] /\ order'[o].basket = a[3]
  <2>1. ASSUME NEW o \in OrderIds, Placed(o)
        PROVE  /\ order'[o] # NoOrder /\ order'[o].user = order[o].user
               /\ order'[o].key = order[o].key /\ order'[o].basket = order[o].basket
    <3>1. ASSUME NEW h \in Handlers, NEW n \in OrderIds, Checkout(h, n)
          PROVE  order'[o] = order[o]
      <4>1. n # o
        BY <1>1, <2>1, <3>1, CheckoutStep DEF Sound
      <4> QED BY <1>1, <3>1, <4>1, CheckoutStep DEF Sound
    <3> QED BY <1>1, <2>1, <3>1, OrdersFollow DEF OrdersKept, Placed
  <2>2. ASSUME NEW a \in acked PROVE \E o \in OrderIds : Has(a, o)
    <3>1. PICK o \in Earlier(a[1], a[2]) : order[o].basket = a[3]
      BY <1>1 DEF AnsweredCheckoutIsPlaced
    <3>2. o \in OrderIds /\ Placed(o) /\ order[o].user = a[1] /\ order[o].key = a[2]
      BY DEF Earlier
    <3> QED BY <2>1, <3>1, <3>2
  <2>3. ASSUME NEW h \in Handlers, NEW o \in OrderIds, Checkout(h, o), NEW a \in acked' \ acked
        PROVE  Has(a, o)
    <3>1. a = <<request[h].user, request[h].key, request[h].basket>>
      BY <2>3 DEF Checkout
    <3> QED BY <1>1, <2>3, <3>1, CheckoutStep DEF Sound
  <2>4. ASSUME NEW h \in Handlers, ReplayCheckout(h), NEW a \in acked' \ acked
        PROVE  \E o \in OrderIds : Has(a, o)
    <3>1. a = <<request[h].user, request[h].key, request[h].basket>>
      BY <2>4 DEF ReplayCheckout
    <3>2. PICK o \in Earlier(request[h].user, request[h].key) : SameRequest(o, request[h])
      BY <2>4 DEF ReplayCheckout
    <3>3. /\ o \in OrderIds /\ Placed(o) /\ order[o].user = a[1] /\ order[o].key = a[2]
          /\ order[o].basket = a[3]
      BY <3>1, <3>2 DEF Earlier, SameRequest
    <3> QED BY <2>1, <3>3
  <2>5. \A a \in acked' : \E o \in OrderIds : Has(a, o)
    BY <1>1, <2>2, <2>3, <2>4, AckedFollows
  <2> QED BY <2>5 DEF AnsweredCheckoutIsPlaced, Earlier, Placed
<1>2. Init => AnsweredCheckoutIsPlaced
  BY DEF Init, AnsweredCheckoutIsPlaced
<1> QED BY <1>1, <1>2, SoundInit, SoundNext, PTL DEF Spec

-----------------------------------------------------------------------------
(* The stock *)

MovementsOf(p) == {m \in movement : m.product = p}

MovementsAreFinite == \A p \in Products : IsFiniteSet(MovementsOf(p))

(* New movements, one of them of the kinds and the product, or none.       *)
LEMMA SumOfGrows ==
  ASSUME movement \subseteq Movement, movement \subseteq movement',
         NEW p, IsFiniteSet(MovementsOf(p)), NEW K,
         NEW x \in movement' \ movement, x.quantity \in Int, x.product = p, x.kind \in K,
         \A m \in movement' \ movement : m.product = p /\ m.kind \in K => m = x
  PROVE  SumOf(p, K) \in Int /\ SumOf(p, K)' = SumOf(p, K) + x.quantity
<1> DEFINE f == [m \in movement |-> m.quantity]
           g == [m \in movement' |-> m.quantity]
           S == {m \in movement : m.product = p /\ m.kind \in K}
<1>1. IsFiniteSet(S) /\ x \notin S
  BY FS_Subset DEF MovementsOf
<1>2. /\ \A m \in S : f[m] \in Int /\ g[m] = f[m]
      /\ g[x] = x.quantity
  BY DEF Movement
<1>3. {m \in movement' : m.product = p /\ m.kind \in K} = S \cup {x}
  OBVIOUS
<1>4. SumOf(p, K) = SumFunctionOnSet(f, S) /\ SumOf(p, K)' = SumFunctionOnSet(g, S \cup {x})
  BY <1>3 DEF SumOf
<1> HIDE DEF f, g, S
<1>5. /\ SumFunctionOnSet(f, S) \in Int
      /\ SumFunctionOnSet(g, S \cup {x}) = g[x] + SumFunctionOnSet(f, S)
  BY <1>1, <1>2, SumExtend
<1> QED BY <1>2, <1>4, <1>5

LEMMA SumOfStays ==
  ASSUME movement \subseteq movement', NEW p, IsFiniteSet(MovementsOf(p)), NEW K,
         \A m \in movement' \ movement : ~(m.product = p /\ m.kind \in K)
  PROVE  SumOf(p, K)' = SumOf(p, K)
<1> DEFINE f == [m \in movement |-> m.quantity]
           g == [m \in movement' |-> m.quantity]
           S == {m \in movement : m.product = p /\ m.kind \in K}
<1>1. IsFiniteSet(S) /\ \A m \in S : g[m] = f[m]
  BY FS_Subset DEF MovementsOf
<1>2. {m \in movement' : m.product = p /\ m.kind \in K} = S
  OBVIOUS
<1>3. SumOf(p, K) = SumFunctionOnSet(f, S) /\ SumOf(p, K)' = SumFunctionOnSet(g, S)
  BY <1>2 DEF SumOf
<1> HIDE DEF f, g, S
<1> QED BY <1>1, <1>3, SumEqual

LEMMA MovementsStayFinite ==
  ASSUME NEW p, IsFiniteSet(MovementsOf(p)), NEW x,
         \A m \in movement' \ movement : m.product = p => m = x
  PROVE  IsFiniteSet(MovementsOf(p))'
<1>1. MovementsOf(p)' \subseteq MovementsOf(p) \cup {x}
  BY DEF MovementsOf
<1>2. IsFiniteSet(MovementsOf(p) \cup {x})
  BY FS_AddElement
<1>3. IsFiniteSet({m \in movement' : m.product = p})
  BY <1>1, <1>2, FS_Subset DEF MovementsOf
<1> QED BY <1>3 DEF MovementsOf

(* The orders that are waiting for a product reserved for them, and how    *)
(* much of it they are waiting for.                                        *)
OpenOrders(p) ==
  {o \in OrderIds : order[o].status \in OrderStatus \ {"fulfilled"} /\ p \in ReservedFor(o)}

WaitingFor(p) ==
  LET quantityOf == [o \in OpenOrders(p) |-> order[o].basket[p]]
  IN  SumFunctionOnSet(quantityOf, OpenOrders(p))

OpenOrdersHoldTheReserve ==
  \A p \in Products : IsFiniteSet(OpenOrders(p)) /\ inventory[p].reserved = WaitingFor(p)

NothingIsOversold == \A p \in Products : inventory[p].reserved <= inventory[p].onHand

StockInv ==
  /\ Sound /\ MovementsAreFinite /\ StockIsJournalled
  /\ OpenOrdersHoldTheReserve /\ NothingIsOversold

LEMMA OpenOrderRow ==
  ASSUME Sound, NEW p \in Products, NEW o \in OpenOrders(p)
  PROVE  o \in OrderIds /\ Placed(o) /\ order[o].basket[p] \in Nat
<1>1. o \in OrderIds /\ Placed(o) /\ p \in ReservedFor(o)
  BY OrderRow DEF OpenOrders, Sound
<1> QED BY <1>1, ReservedProducts

(* The orders waiting for p stay, gain one, or lose one.                   *)
LEMMA WaitingStays ==
  ASSUME NEW p \in Products, OpenOrders(p)' = OpenOrders(p),
         \A o \in OpenOrders(p) : order'[o].basket = order[o].basket
  PROVE  WaitingFor(p)' = WaitingFor(p)
<1>1. [o \in OpenOrders(p) |-> order[o].basket[p]]'
        = [o \in OpenOrders(p) |-> order[o].basket[p]]
  OBVIOUS
<1> QED BY <1>1 DEF WaitingFor

LEMMA WaitingGrows ==
  ASSUME Sound, NEW p \in Products, IsFiniteSet(OpenOrders(p)),
         NEW o, o \notin OpenOrders(p), OpenOrders(p)' = OpenOrders(p) \cup {o},
         \A n \in OpenOrders(p) : order'[n].basket = order[n].basket,
         order'[o].basket[p] \in Int
  PROVE  /\ IsFiniteSet(OpenOrders(p))'
         /\ WaitingFor(p)' = WaitingFor(p) + order'[o].basket[p]
<1> DEFINE S == OpenOrders(p)
           f == [n \in S |-> order[n].basket[p]]
           g == [n \in S \cup {o} |-> order'[n].basket[p]]
<1>1. /\ \A n \in S : f[n] \in Int /\ g[n] = f[n]
      /\ g[o] = order'[o].basket[p]
  BY OpenOrderRow
<1>2. WaitingFor(p) = SumFunctionOnSet(f, S) /\ WaitingFor(p)' = SumFunctionOnSet(g, S \cup {o})
  BY DEF WaitingFor
<1>3. IsFiniteSet(S \cup {o})
  BY FS_AddElement
<1> HIDE DEF f, g
<1>4. /\ SumFunctionOnSet(f, S) \in Int
      /\ SumFunctionOnSet(g, S \cup {o}) = g[o] + SumFunctionOnSet(f, S)
  <2>1. o \notin S /\ IsFiniteSet(S) /\ g[o] \in Int
    BY <1>1
  <2> HIDE DEF S
  <2>2. \A n \in S : f[n] \in Int /\ g[n] = f[n]
    BY <1>1
  <2> QED BY ONLY <2>1, <2>2, SumExtend
<1> QED BY <1>1, <1>2, <1>3, <1>4

LEMMA WaitingShrinks ==
  ASSUME Sound, NEW p \in Products, IsFiniteSet(OpenOrders(p)),
         NEW o \in OpenOrders(p), OpenOrders(p)' = OpenOrders(p) \ {o},
         \A n \in OpenOrders(p) : order'[n].basket = order[n].basket
  PROVE  /\ IsFiniteSet(OpenOrders(p))'
         /\ WaitingFor(p)' = WaitingFor(p) - order[o].basket[p]
<1> DEFINE S == OpenOrders(p)
           f == [n \in S |-> order[n].basket[p]]
           g == [n \in S \ {o} |-> order'[n].basket[p]]
<1>1. /\ \A n \in S : f[n] \in Nat
      /\ \A n \in S \ {o} : g[n] = f[n]
      /\ f[o] = order[o].basket[p]
  BY OpenOrderRow
<1>2. WaitingFor(p) = SumFunctionOnSet(f, S) /\ WaitingFor(p)' = SumFunctionOnSet(g, S \ {o})
  BY DEF WaitingFor
<1>3. IsFiniteSet(S) /\ IsFiniteSet(S \ {o})
  BY FS_Subset
<1> HIDE DEF f, g
<1>4. SumFunctionOnSet(g, S \ {o}) = SumFunctionOnSet(f, S \ {o})
  BY <1>1, <1>3, SumEqual
<1>5. SumFunctionOnSet(f, S \ {o}) = SumFunctionOnSet(f, S) - f[o]
  BY <1>1, <1>3, SumRemove
<1> QED BY <1>1, <1>2, <1>3, <1>4, <1>5

(* The open orders for a product after a step that keeps the orders: those *)
(* that were not handed out by it.                                         *)
LEMMA OpenOrdersFollow ==
  ASSUME Sound, OrdersKept, order' \in [OrderIds -> {NoOrder} \cup Order],
         \A o \in OrderIds : ReservedFor(o)' = ReservedFor(o)
  PROVE  \A p : OpenOrders(p)' = {o \in OpenOrders(p) : order'[o].status # "fulfilled"}
<1>1. \A o \in OrderIds : order'[o].status \in OrderStatus <=> order'[o] # NoOrder
  BY DEF Order, NoOrder, OrderStatus
<1>2. \A o \in OrderIds :
        /\ order[o].status \in OrderStatus <=> order[o] # NoOrder
        /\ order'[o] # NoOrder <=> order[o] # NoOrder
        /\ order[o].status = "fulfilled" => order'[o].status = "fulfilled"
  BY OrderRow DEF OrdersKept, Sound, Placed
<1> QED BY <1>1, <1>2 DEF OpenOrders

LEMMA StockKeptKeeps == ASSUME StockInv, StockKept, Sound' PROVE StockInv'
<1>1. inventory' = inventory /\ movement' = movement
  BY DEF StockKept
<1>2. \A o \in OrderIds : ReservedFor(o)' = ReservedFor(o)
  BY <1>1 DEF ReservedFor
<1>3. \A p : OpenOrders(p)' = OpenOrders(p)
  BY <1>2, OpenOrdersFollow DEF StockKept, StockInv, OpenOrders
<1>4. ASSUME NEW p \in Products PROVE WaitingFor(p)' = WaitingFor(p)
  <2>1. \A o \in OpenOrders(p) : order'[o].basket = order[o].basket
    BY OpenOrderRow DEF StockKept, OrdersKept, StockInv, Placed
  <2> QED BY <1>3, <2>1, WaitingStays
<1>5. /\ \A p : MovementsOf(p)' = MovementsOf(p)
      /\ \A p, K : SumOf(p, K)' = SumOf(p, K)
  BY <1>1 DEF MovementsOf, SumOf
<1>6. MovementsAreFinite' /\ StockIsJournalled' /\ NothingIsOversold'
  BY <1>1, <1>5 DEF StockInv, MovementsAreFinite, StockIsJournalled, NothingIsOversold
<1>7. OpenOrdersHoldTheReserve'
  BY <1>1, <1>3, <1>4 DEF StockInv, OpenOrdersHoldTheReserve
<1> QED BY <1>6, <1>7 DEF StockInv

LEMMA MoveStockKeeps ==
  ASSUME StockInv, NEW h \in Handlers, MoveStock(h), Sound' PROVE StockInv'
<1> DEFINE r == request[h]
<1>0. PICK m : m = [kind |-> "stock", product |-> r.product, by |-> r.key,
                    quantity |-> r.quantity]
  OBVIOUS
<1>1. /\ r.product \in Products /\ m \in Movement
      /\ inventory'[r.product].onHand = inventory[r.product].onHand + r.quantity
      /\ inventory'[r.product].reserved = inventory[r.product].reserved
      /\ inventory'[r.product].onHand >= inventory'[r.product].reserved
      /\ \A p \in Products \ {r.product} : inventory'[p] = inventory[p]
      /\ m \notin movement /\ movement' = movement \cup {m}
      /\ order' = order
  BY <1>0, MoveStockStep DEF StockInv, Sound, MoveStock
<1>2. m.kind = "stock" /\ m.product = r.product /\ m.quantity = r.quantity /\ m.quantity \in Int
  BY <1>0, <1>1 DEF Movement
<1>3. /\ \A p \in Products : IsFiniteSet(MovementsOf(p))
      /\ movement \subseteq Movement /\ movement \subseteq movement'
      /\ m \in movement' \ movement /\ \A x \in movement' \ movement : x = m
  BY <1>1 DEF StockInv, MovementsAreFinite, Sound, TypeOK
<1>4. MovementsAreFinite'
  BY <1>3, MovementsStayFinite DEF MovementsAreFinite
<1>5. ASSUME NEW p \in Products
      PROVE  /\ inventory'[p].onHand = SumOf(p, {"stock", "fulfill"})'
             /\ inventory'[p].reserved = SumOf(p, {"reserve", "fulfill"})'
             /\ inventory'[p].reserved <= inventory'[p].onHand
             /\ inventory'[p].reserved = inventory[p].reserved
  <2>1. /\ inventory[p].onHand = SumOf(p, {"stock", "fulfill"})
        /\ inventory[p].reserved = SumOf(p, {"reserve", "fulfill"})
        /\ inventory[p].reserved <= inventory[p].onHand
    BY DEF StockInv, StockIsJournalled, NothingIsOversold
  <2>2. SumOf(p, {"reserve", "fulfill"})' = SumOf(p, {"reserve", "fulfill"})
    <3>1. \A x \in movement' \ movement : ~(x.product = p /\ x.kind \in {"reserve", "fulfill"})
      BY <1>2, <1>3
    <3> QED BY <1>3, <3>1, SumOfStays
  <2>3. CASE p = r.product
    <3>1. SumOf(p, {"stock", "fulfill"})' = SumOf(p, {"stock", "fulfill"}) + m.quantity
      BY <1>2, <1>3, <2>3, SumOfGrows
    <3> QED BY <1>1, <1>2, <2>1, <2>2, <2>3, <3>1
  <2>4. CASE p # r.product
    <3>1. \A x \in movement' \ movement : ~(x.product = p /\ x.kind \in {"stock", "fulfill"})
      BY <1>2, <1>3, <2>4
    <3>2. SumOf(p, {"stock", "fulfill"})' = SumOf(p, {"stock", "fulfill"})
      BY <1>3, <3>1, SumOfStays
    <3> QED BY <1>1, <2>1, <2>2, <2>4, <3>2
  <2> QED BY <2>3, <2>4
<1>6. \A o \in OrderIds : ReservedFor(o)' = ReservedFor(o)
  BY <1>1, <1>2 DEF ReservedFor
<1>7. ASSUME NEW p \in Products PROVE OpenOrders(p)' = OpenOrders(p) /\ WaitingFor(p)' = WaitingFor(p)
  <2>1. OpenOrders(p)' = OpenOrders(p)
    BY <1>1, <1>6 DEF OpenOrders
  <2> QED BY <1>1, <2>1, WaitingStays
<1>8. OpenOrdersHoldTheReserve'
  BY <1>5, <1>7 DEF StockInv, OpenOrdersHoldTheReserve
<1> QED BY <1>4, <1>5, <1>8 DEF StockInv, StockIsJournalled, NothingIsOversold

LEMMA HandOutKeeps ==
  ASSUME StockInv, NEW o \in OrderIds, Placed(o), order[o].status # "fulfilled", HandOut(o), Sound'
  PROVE  StockInv'
<1> DEFINE P == ReservedFor(o)
           b == order[o].basket
           taken(p) == [kind |-> "fulfill", product |-> p, by |-> o, quantity |-> -b[p]]
<1>1. /\ \A p \in P : /\ inventory'[p].onHand = inventory[p].onHand - b[p]
                     /\ inventory'[p].reserved = inventory[p].reserved - b[p]
      /\ \A p \in Products \ P : inventory'[p] = inventory[p]
      /\ movement' = movement \cup {taken(p) : p \in P}
      /\ OrdersKept /\ order' \in [OrderIds -> {NoOrder} \cup Order]
      /\ order'[o].status = "fulfilled" /\ \A n \in OrderIds \ {o} : order'[n] = order[n]
  BY HandOutStep DEF StockInv
<1>2. P \subseteq Products /\ \A p \in P : b[p] \in Nat
  BY ReservedProducts DEF StockInv
<1>3. \A p \in P : taken(p) \in movement' \ movement
  BY <1>1 DEF StockInv, Sound, MovementsAreOfOrders
<1>4. /\ \A p \in Products : IsFiniteSet(MovementsOf(p))
      /\ movement \subseteq Movement /\ movement \subseteq movement'
  BY <1>1 DEF StockInv, MovementsAreFinite, Sound, TypeOK
<1>5. \A m \in movement' \ movement : m.kind = "fulfill" /\ m.product \in P /\ m = taken(m.product)
  BY <1>1
<1>6. \A p : /\ taken(p).kind = "fulfill" /\ taken(p).product = p /\ taken(p).quantity = -b[p]
  OBVIOUS
<1> HIDE DEF taken
<1>7. MovementsAreFinite'
  <2> SUFFICES ASSUME NEW p \in Products PROVE IsFiniteSet(MovementsOf(p))'
    BY DEF MovementsAreFinite
  <2>1. \A m \in movement' \ movement : m.product = p => m = taken(p)
    BY <1>5
  <2> QED BY <1>4, <2>1, MovementsStayFinite
<1>8. \A n \in OrderIds : ReservedFor(n)' = ReservedFor(n)
  BY <1>4, <1>5 DEF ReservedFor
<1>9. \A p : OpenOrders(p)' = {n \in OpenOrders(p) : order'[n].status # "fulfilled"}
  BY <1>1, <1>8, OpenOrdersFollow DEF StockInv
<1>10. ASSUME NEW p \in Products
       PROVE  /\ inventory[p].onHand \in Nat /\ inventory[p].reserved \in Nat
              /\ inventory[p].onHand = SumOf(p, {"stock", "fulfill"})
              /\ inventory[p].reserved = SumOf(p, {"reserve", "fulfill"})
              /\ inventory[p].reserved <= inventory[p].onHand
              /\ IsFiniteSet(OpenOrders(p)) /\ inventory[p].reserved = WaitingFor(p)
              /\ \A n \in OpenOrders(p) : order'[n].basket = order[n].basket
  <2>1. \A n \in OpenOrders(p) : order'[n].basket = order[n].basket
    BY <1>1, OpenOrderRow DEF StockInv, OrdersKept, Placed
  <2> QED BY <2>1, InventoryRow DEF StockInv, StockIsJournalled, NothingIsOversold,
                OpenOrdersHoldTheReserve, Sound
<1>11. ASSUME NEW p \in P
       PROVE  /\ inventory'[p].onHand = SumOf(p, {"stock", "fulfill"})'
              /\ inventory'[p].reserved = SumOf(p, {"reserve", "fulfill"})'
              /\ inventory'[p].reserved <= inventory'[p].onHand
              /\ IsFiniteSet(OpenOrders(p))' /\ inventory'[p].reserved = WaitingFor(p)'
  <2>1. /\ p \in Products /\ b[p] \in Nat /\ taken(p) \in movement' \ movement
        /\ taken(p).quantity \in Int /\ taken(p).product = p
        /\ \A m \in movement' \ movement : m.product = p => m = taken(p)
    BY <1>2, <1>3, <1>5, <1>6
  <2>2. /\ SumOf(p, {"stock", "fulfill"})' = SumOf(p, {"stock", "fulfill"}) + taken(p).quantity
        /\ SumOf(p, {"reserve", "fulfill"})' = SumOf(p, {"reserve", "fulfill"}) + taken(p).quantity
    BY <1>4, <1>6, <2>1, SumOfGrows
  <2>3. o \in OpenOrders(p)
    BY <2>1, OrderRow DEF OpenOrders, StockInv, Sound
  <2>4. OpenOrders(p)' = OpenOrders(p) \ {o}
    <3>1. \A n \in OpenOrders(p) : order'[n].status # "fulfilled" <=> n # o
      BY <1>1 DEF OpenOrders
    <3> QED BY <1>9, <3>1
  <2>5. IsFiniteSet(OpenOrders(p))' /\ WaitingFor(p)' = WaitingFor(p) - b[p]
    BY <1>10, <2>1, <2>3, <2>4, WaitingShrinks DEF StockInv
  <2>6. inventory'[p].onHand = inventory[p].onHand - b[p]
        /\ inventory'[p].reserved = inventory[p].reserved - b[p]
    BY <1>1
  <2> HIDE DEF b
  <2> QED BY <1>6, <1>10, <2>1, <2>2, <2>5, <2>6
<1>12. ASSUME NEW p \in Products \ P
       PROVE  /\ inventory'[p].onHand = SumOf(p, {"stock", "fulfill"})'
              /\ inventory'[p].reserved = SumOf(p, {"reserve", "fulfill"})'
              /\ inventory'[p].reserved <= inventory'[p].onHand
              /\ IsFiniteSet(OpenOrders(p))' /\ inventory'[p].reserved = WaitingFor(p)'
  <2>1. \A m \in movement' \ movement : m.product # p
    BY <1>5
  <2>2. /\ SumOf(p, {"stock", "fulfill"})' = SumOf(p, {"stock", "fulfill"})
        /\ SumOf(p, {"reserve", "fulfill"})' = SumOf(p, {"reserve", "fulfill"})
    BY <1>4, <2>1, SumOfStays
  <2>3. OpenOrders(p)' = OpenOrders(p)
    <3>1. \A n \in OpenOrders(p) : n # o /\ n \in OrderIds /\ order[n].status # "fulfilled"
      BY DEF OpenOrders
    <3> QED BY <1>1, <1>9, <3>1
  <2>4. WaitingFor(p)' = WaitingFor(p)
    BY <1>10, <2>3, WaitingStays
  <2> QED BY <1>1, <1>10, <2>2, <2>3, <2>4
<1>13. \A p \in Products :
         /\ inventory'[p].onHand = SumOf(p, {"stock", "fulfill"})'
         /\ inventory'[p].reserved = SumOf(p, {"reserve", "fulfill"})'
         /\ inventory'[p].reserved <= inventory'[p].onHand
         /\ IsFiniteSet(OpenOrders(p))' /\ inventory'[p].reserved = WaitingFor(p)'
  BY <1>11, <1>12
<1> QED BY <1>7, <1>13
        DEF StockInv, StockIsJournalled, OpenOrdersHoldTheReserve, NothingIsOversold

LEMMA CheckoutKeeps ==
  ASSUME StockInv, NEW h \in Handlers, NEW o \in OrderIds, Checkout(h, o), Sound'
  PROVE  StockInv'
<1> DEFINE r == request[h]
           b == r.basket
           P == Reservable(b)
           kept(p) == [kind |-> "reserve", product |-> p, by |-> o, quantity |-> b[p]]
<1>1. /\ ~Placed(o) /\ order'[o] # NoOrder /\ order'[o].status = "paid" /\ order'[o].basket = b
      /\ \A n \in OrderIds \ {o} : order'[n] = order[n]
      /\ \A p \in P : /\ p \in Products /\ b[p] \in Nat
                     /\ inventory'[p].onHand = inventory[p].onHand
                     /\ inventory'[p].reserved = inventory[p].reserved + b[p]
                     /\ inventory[p].onHand - inventory[p].reserved >= b[p]
      /\ \A p \in Products \ P : inventory'[p] = inventory[p]
      /\ movement' = movement \cup {kept(p) : p \in P}
  BY CheckoutStep DEF StockInv, Sound
<1>2. \A p \in P : kept(p) \in movement' \ movement
  BY <1>1 DEF StockInv, Sound, MovementsAreOfOrders
<1>3. /\ \A p \in Products : IsFiniteSet(MovementsOf(p))
      /\ movement \subseteq Movement /\ movement \subseteq movement'
  BY <1>1 DEF StockInv, MovementsAreFinite, Sound, TypeOK
<1>4. /\ \A m \in movement' \ movement : /\ m.kind = "reserve" /\ m.by = o /\ m.product \in P
                                       /\ m = kept(m.product)
      /\ \A p : /\ kept(p).kind = "reserve" /\ kept(p).product = p /\ kept(p).by = o
               /\ kept(p).quantity = b[p]
  BY <1>1
<1>5. P \subseteq Products
  BY <1>1
<1> HIDE DEF kept, P, b
<1>6. MovementsAreFinite'
  <2> SUFFICES ASSUME NEW p \in Products PROVE IsFiniteSet(MovementsOf(p))'
    BY DEF MovementsAreFinite
  <2>1. \A m \in movement' \ movement : m.product = p => m = kept(p)
    BY <1>4
  <2> QED BY <1>3, <2>1, MovementsStayFinite
<1>7. /\ \A n \in OrderIds \ {o} : ReservedFor(n)' = ReservedFor(n)
      /\ ReservedFor(o)' = P
  <2>1. ReservedFor(o) = {}
    BY <1>1 DEF StockInv, Sound, MovementsAreOfOrders, ReservedFor
  <2>2. \A n \in OrderIds \ {o} : ReservedFor(n)' = ReservedFor(n)
    BY <1>3, <1>4 DEF ReservedFor
  <2>3. ReservedFor(o)' = P
    BY <1>2, <1>3, <1>4, <1>5, <2>1 DEF ReservedFor
  <2> QED BY <2>2, <2>3
<1>8. ASSUME NEW p \in Products
      PROVE  /\ o \notin OpenOrders(p)
             /\ OpenOrders(p)' = IF p \in P THEN OpenOrders(p) \cup {o} ELSE OpenOrders(p)
             /\ \A n \in OpenOrders(p) : order'[n].basket = order[n].basket
  <2>1. o \notin OpenOrders(p)
    BY <1>1, OrderRow DEF OpenOrders, StockInv, Sound
  <2>2. \A n \in OrderIds \ {o} : n \in OpenOrders(p)' <=> n \in OpenOrders(p)
    BY <1>1, <1>7 DEF OpenOrders
  <2>3. o \in OpenOrders(p)' <=> p \in P
    BY <1>1, <1>7 DEF OpenOrders, OrderStatus
  <2>4. OpenOrders(p) \subseteq OrderIds /\ OpenOrders(p)' \subseteq OrderIds
    BY DEF OpenOrders
  <2>5. CASE p \in P
    BY <1>1, <2>1, <2>2, <2>3, <2>4, <2>5
  <2>6. CASE p \notin P
    <3>1. OpenOrders(p)' = OpenOrders(p)
      BY <2>1, <2>2, <2>3, <2>4, <2>6
    <3> QED BY <1>1, <2>1, <2>4, <2>6, <3>1
  <2> QED BY <2>5, <2>6
<1>9. ASSUME NEW p \in Products
      PROVE  /\ inventory[p].onHand \in Nat /\ inventory[p].reserved \in Nat
             /\ inventory[p].onHand = SumOf(p, {"stock", "fulfill"})
             /\ inventory[p].reserved = SumOf(p, {"reserve", "fulfill"})
             /\ inventory[p].reserved <= inventory[p].onHand
             /\ IsFiniteSet(OpenOrders(p)) /\ inventory[p].reserved = WaitingFor(p)
             /\ SumOf(p, {"stock", "fulfill"})' = SumOf(p, {"stock", "fulfill"})
  <2>1. \A m \in movement' \ movement : ~(m.product = p /\ m.kind \in {"stock", "fulfill"})
    BY <1>4
  <2>2. SumOf(p, {"stock", "fulfill"})' = SumOf(p, {"stock", "fulfill"})
    BY <1>3, <2>1, SumOfStays
  <2> QED BY <2>2, InventoryRow DEF StockInv, StockIsJournalled, NothingIsOversold,
                OpenOrdersHoldTheReserve, Sound
<1>10. ASSUME NEW p \in P
       PROVE  /\ inventory'[p].onHand = SumOf(p, {"stock", "fulfill"})'
              /\ inventory'[p].reserved = SumOf(p, {"reserve", "fulfill"})'
              /\ inventory'[p].reserved <= inventory'[p].onHand
              /\ IsFiniteSet(OpenOrders(p))' /\ inventory'[p].reserved = WaitingFor(p)'
  <2>1. /\ p \in Products /\ b[p] \in Nat /\ kept(p) \in movement' \ movement
        /\ kept(p).quantity = b[p]
        /\ \A m \in movement' \ movement : m.product = p => m = kept(p)
    BY <1>1, <1>2, <1>4
  <2>2. SumOf(p, {"reserve", "fulfill"})' = SumOf(p, {"reserve", "fulfill"}) + kept(p).quantity
    BY <1>3, <1>4, <2>1, SumOfGrows
  <2>3. IsFiniteSet(OpenOrders(p))' /\ WaitingFor(p)' = WaitingFor(p) + b[p]
    <3>1. OpenOrders(p)' = OpenOrders(p) \cup {o} /\ order'[o].basket[p] \in Int
      BY <1>1, <1>8, <2>1
    <3> QED BY <1>1, <1>8, <1>9, <2>1, <3>1, WaitingGrows DEF StockInv
  <2> QED BY <1>1, <1>9, <2>1, <2>2, <2>3
<1>11. ASSUME NEW p \in Products \ P
       PROVE  /\ inventory'[p].onHand = SumOf(p, {"stock", "fulfill"})'
              /\ inventory'[p].reserved = SumOf(p, {"reserve", "fulfill"})'
              /\ inventory'[p].reserved <= inventory'[p].onHand
              /\ IsFiniteSet(OpenOrders(p))' /\ inventory'[p].reserved = WaitingFor(p)'
  <2>1. \A m \in movement' \ movement : m.product # p
    BY <1>4
  <2>2. SumOf(p, {"reserve", "fulfill"})' = SumOf(p, {"reserve", "fulfill"})
    BY <1>3, <2>1, SumOfStays
  <2>3. OpenOrders(p)' = OpenOrders(p) /\ WaitingFor(p)' = WaitingFor(p)
    BY <1>8, WaitingStays
  <2> QED BY <1>1, <1>9, <2>2, <2>3
<1>12. \A p \in Products :
         /\ inventory'[p].onHand = SumOf(p, {"stock", "fulfill"})'
         /\ inventory'[p].reserved = SumOf(p, {"reserve", "fulfill"})'
         /\ inventory'[p].reserved <= inventory'[p].onHand
         /\ IsFiniteSet(OpenOrders(p))' /\ inventory'[p].reserved = WaitingFor(p)'
  BY <1>10, <1>11
<1> QED BY <1>6, <1>12
        DEF StockInv, StockIsJournalled, OpenOrdersHoldTheReserve, NothingIsOversold

LEMMA StockInvInit == Init => StockInv
<1> SUFFICES ASSUME Init PROVE StockInv
  OBVIOUS
<1>1. /\ movement = {} /\ order = [o \in OrderIds |-> NoOrder]
      /\ inventory = [p \in Products |-> [onHand |-> 0, reserved |-> 0]]
  BY DEF Init
<1>2. \A p, K : MovementsOf(p) = {} /\ SumOf(p, K) = 0
  BY <1>1, SumEmpty DEF MovementsOf, SumOf
<1>3. \A p : OpenOrders(p) = {}
  BY <1>1 DEF OpenOrders, NoOrder, OrderStatus
<1>4. \A p : WaitingFor(p) = 0
  BY <1>3, SumEmpty DEF WaitingFor
<1>5. StockIsJournalled /\ NothingIsOversold
  BY <1>1, <1>2 DEF StockIsJournalled, NothingIsOversold
<1>6. MovementsAreFinite /\ OpenOrdersHoldTheReserve
  BY <1>1, <1>2, <1>3, <1>4, FS_EmptySet DEF MovementsAreFinite, OpenOrdersHoldTheReserve
<1> QED BY <1>5, <1>6, SoundInit DEF StockInv

LEMMA StockInvNext == StockInv /\ [Next]_vars => StockInv'
<1> SUFFICES ASSUME StockInv, [Next]_vars PROVE StockInv'
  OBVIOUS
<1>1. Sound /\ Sound'
  BY SoundNext DEF StockInv
<1> QED BY <1>1, StockStep, StockKeptKeeps, CheckoutKeeps, MoveStockKeeps, HandOutKeeps

(* What a row of store_product_inventory says is the sum of the movements  *)
(* of its product, whatever the stock mode was when.                       *)
THEOREM StockFollowsItsJournal == Spec => []StockIsJournalled
<1>1. StockInv => StockIsJournalled
  BY DEF StockInv
<1> QED BY <1>1, StockInvInit, StockInvNext, PTL DEF Spec

(* Every order that was paid for can be handed out, and all of them can:   *)
(* the reserve of a product is what its open orders wait for, and is never *)
(* more than there is.                                                     *)
THEOREM OrdersCanBeHandedOut == Spec => []EveryOrderCanBeHandedOut
<1>1. ASSUME StockInv PROVE EveryOrderCanBeHandedOut
  <2>1. ASSUME NEW o \in OrderIds, order[o].status \in OrderStatus \ {"fulfilled"},
               NEW p \in ReservedFor(o)
        PROVE  /\ inventory[p].reserved >= order[o].basket[p]
               /\ inventory[p].onHand >= order[o].basket[p]
    <3> DEFINE S == OpenOrders(p)
               f == [n \in S |-> order[n].basket[p]]
    <3>1. p \in Products /\ o \in S
      BY <2>1 DEF OpenOrders, ReservedFor
    <3>2. /\ IsFiniteSet(S) /\ inventory[p].reserved = SumFunctionOnSet(f, S)
          /\ inventory[p].reserved <= inventory[p].onHand
          /\ inventory[p].onHand \in Nat /\ inventory[p].reserved \in Nat
      BY <1>1, <3>1, InventoryRow
         DEF StockInv, OpenOrdersHoldTheReserve, NothingIsOversold, WaitingFor, Sound
    <3>3. \A n \in S : f[n] \in Nat
      BY <1>1, <3>1, OpenOrderRow DEF StockInv
    <3>4. f[o] = order[o].basket[p] /\ f[o] \in Nat
      BY <3>1, <3>3
    <3> HIDE DEF S, f
    <3>5. f[o] <= SumFunctionOnSet(f, S)
      BY <3>1, <3>2, <3>3, SumRemove
    <3> QED BY <3>2, <3>4, <3>5
  <2> QED BY <1>1, <2>1 DEF EveryOrderCanBeHandedOut, CanTake, StockInv, NothingIsOversold
<1> QED BY <1>1, StockInvInit, StockInvNext, PTL DEF Spec
=============================================================================
