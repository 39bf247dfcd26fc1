------------------------ MODULE OrderPaymentsProofs ------------------------
(***************************************************************************)
(* Theorems about OrderPayments, for every set of products, carts, orders, *)
(* administrators and concurrent requests: its types, the inductive        *)
(* invariant of checkout and settlement and what follows from it, what a   *)
(* step may never do, the audit trail, and the refinement of the order     *)
(* life cycle.                                                             *)
(***************************************************************************)
EXTENDS OrderPayments, TLAPS

\* A request is one of eight records, told apart by `op`.
LEMMA RequestShape ==
  ASSUME NEW r \in Requests
  PROVE  /\ r.op = "idle" => r = Idle
         /\ r.op = "order" => /\ r.cart \in Carts /\ r.method \in ImmediateMethods
                              /\ r.seen \in Quantities
         /\ r.op = "sweep" => r \in [op : {"sweep"}, cart : Carts, method : AwaitingMethods,
                                     todo : SUBSET Orders]
         /\ r.op = "reserve" => /\ r.cart \in Carts /\ r.method \in AwaitingMethods
                                /\ r.seen \in Quantities
         /\ r.op = "push" => r.order \in Orders
         /\ r.op = "advance" => /\ r.order \in Orders /\ r.product \in Products
                                /\ r.to \in LineStatus
         /\ r.op = "settle" => /\ r.order \in Orders /\ r.admin \in Admins
                               /\ r.confirm \in BOOLEAN
         /\ r.op = "release" => /\ r.order \in Orders /\ r.admin \in Admins
                                /\ r.lines \in SUBSET Products
BY DEF Requests, Idle

LEMMA ContinueTypes ==
  ASSUME NEW w \in Workers, NEW request \in Requests, req \in [Workers -> Requests],
         Continue(w, request)
  PROVE  req' \in [Workers -> Requests]
BY DEF Continue

LEMMA IdleTypes == Idle \in Requests
BY DEF Requests

-----------------------------------------------------------------------------
(* Type correctness.                                                        *)

\* The state a settlement writes.
SettleTypes == /\ payment \in [Orders -> {"NONE", "PENDING", "SUCCEEDED", "FAILED"}]
               /\ status \in [Orders -> {"NONE", "AWAITING_PAYMENT", "PLACED", "PAYMENT_FAILED"}]
               /\ stock \in [Products -> Nat]
               /\ line \in [Orders -> [Products -> [qty : 0..MaxQty, status : LineStatus]]]
               /\ cart \in [Carts -> Quantities]

LEMMA SettlePaidTypes ==
  ASSUME NEW o \in Orders, SettleTypes, SettlePaid(o)
  PROVE  SettleTypes'
<1>1. CASE owner[o] \in Carts
  <2> DEFINE kept == [p \in Products |-> IF line[o][p].qty > 0 THEN 0 ELSE cart[owner[o]][p]]
  <2>1. kept \in Quantities
    BY <1>1, StockAssumption DEF SettleTypes, Quantities
  <2>2. cart' = [cart EXCEPT ![owner[o]] = kept]
    BY DEF SettlePaid
  <2>3. cart' \in [Carts -> Quantities]
    BY <2>1, <2>2 DEF SettleTypes
  <2>4. QED
    BY <2>3 DEF SettleTypes, SettlePaid
<1>2. CASE owner[o] \notin Carts
  BY <1>2 DEF SettleTypes, SettlePaid
<1>3. QED
  BY <1>1, <1>2

LEMMA SettleFailedTypes ==
  ASSUME NEW o \in Orders, NEW lines \in SUBSET Products, SettleTypes, SettleFailed(o, lines)
  PROVE  SettleTypes'
<1>1. stock' \in [Products -> Nat]
  BY StockAssumption DEF SettleTypes, SettleFailed
<1>2. line' \in [Orders -> [Products -> [qty : 0..MaxQty, status : LineStatus]]]
  <2> DEFINE Released(p) == IF p \in lines THEN [line[o][p] EXCEPT !.status = "CANCELLED"]
                                          ELSE line[o][p]
  <2>1. ASSUME NEW p \in Products
        PROVE  Released(p) \in [qty : 0..MaxQty, status : LineStatus]
    <3>1. line[o][p] \in [qty : 0..MaxQty, status : LineStatus]
      BY DEF SettleTypes
    <3>2. [line[o][p] EXCEPT !.status = "CANCELLED"] \in [qty : 0..MaxQty, status : LineStatus]
      BY <3>1 DEF LineStatus
    <3>3. QED
      BY <3>1, <3>2
  <2>2. line' = [line EXCEPT ![o] = [p \in Products |-> Released(p)]]
    BY DEF SettleFailed
  <2> HIDE DEF Released
  <2>3. QED
    BY <2>1, <2>2 DEF SettleTypes
<1>3. QED
  BY <1>1, <1>2 DEF SettleTypes, SettleFailed

LEMMA FailAwaitingTypes ==
  ASSUME NEW o \in Orders, SettleTypes, FailAwaiting(o)
  PROVE  SettleTypes'
<1>1. CASE payment[o] = "PENDING"
  BY <1>1, SettleFailedTypes DEF FailAwaiting, OpenLines
<1>2. CASE payment[o] # "PENDING"
  BY <1>2 DEF FailAwaiting, SettleUntouched, SettleTypes
<1>3. QED
  BY <1>1, <1>2

LEMMA CreateOrderTypes ==
  ASSUME NEW o \in Orders, NEW c \in Carts,
         NEW m \in {"card", "cod", "lipa_namba", "mobile_money"}, NEW seen \in Quantities,
         NEW os \in {"AWAITING_PAYMENT", "PLACED"}, NEW ps \in {"PENDING", "SUCCEEDED"},
         ShopTypes, OrderTypes, Available(seen), CreateOrder(o, c, m, seen, os, ps)
  PROVE  /\ stock' \in [Products -> Nat]
         /\ status' \in [Orders -> {"NONE", "AWAITING_PAYMENT", "PLACED", "PAYMENT_FAILED"}]
         /\ owner' \in [Orders -> Carts \cup {NoCart}]
         /\ method' \in [Orders -> {"none", "card", "cod", "lipa_namba", "mobile_money"}]
         /\ payment' \in [Orders -> {"NONE", "PENDING", "SUCCEEDED", "FAILED"}]
         /\ line' \in [Orders -> [Products -> [qty : 0..MaxQty, status : LineStatus]]]
<1>1. ASSUME NEW p \in Products PROVE stock[p] - seen[p] \in Nat
  BY StockAssumption DEF ShopTypes, Available, Quantities
<1>2. stock' \in [Products -> Nat]
  BY <1>1 DEF CreateOrder
<1>3. line' \in [Orders -> [Products -> [qty : 0..MaxQty, status : LineStatus]]]
  BY DEF CreateOrder, OrderTypes, Quantities, LineStatus
<1>4. QED
  BY <1>2, <1>3 DEF CreateOrder, OrderTypes

\* Every step keeps every variable in its type; stock, in particular, never goes
\* below zero, because a checkout checks its lines under the lock of the products.
LEMMA TypeStep == TypeOK /\ [Next]_vars => TypeOK'
<1> SUFFICES ASSUME TypeOK, [Next]_vars PROVE TypeOK'
  OBVIOUS
<1> USE DEF Workers
<1>1. ASSUME NEW c \in Carts, NEW p \in Products, NEW q \in 1..MaxQty, AddToCart(c, p, q)
      PROVE  TypeOK'
  <2>1. cart' \in [Carts -> Quantities]
    BY <1>1, StockAssumption DEF TypeOK, AddToCart, Quantities
  <2>2. QED
    BY <1>1, <2>1 DEF AddToCart, TypeOK, ShopTypes, OrderTypes, shopVars, orderVars
<1>2. ASSUME NEW c \in Carts, NEW p \in Products, NEW q \in 0..MaxQty, ChangeCartLine(c, p, q)
      PROVE  TypeOK'
  <2>1. cart' \in [Carts -> Quantities]
    BY <1>2, StockAssumption DEF TypeOK, ChangeCartLine, Quantities
  <2>2. QED
    BY <1>2, <2>1 DEF ChangeCartLine, TypeOK, ShopTypes, OrderTypes, shopVars, orderVars
<1>3. ASSUME NEW p \in Products, NEW to \in {"published", "withdrawn", "deleted"}, Reshelve(p, to)
      PROVE  TypeOK'
  BY <1>3 DEF Reshelve, TypeOK, ShopTypes, OrderTypes, orderVars
<1>4. ASSUME NEW w \in Buyers, BuyerRequest(w) PROVE TypeOK'
  <2>1. ASSUME NEW c \in Carts, NEW m \in Methods, BeginCheckout(w, c, m) PROVE TypeOK'
    <3>1. [op |-> "order", cart |-> c, method |-> m, seen |-> cart[c]] \in Requests
      BY <2>1 DEF Requests, TypeOK, BeginCheckout
    <3>2. req' \in [Workers -> Requests]
      BY <2>1, <3>1, ContinueTypes DEF BeginCheckout, TypeOK
    <3>3. QED
      BY <2>1, <3>2 DEF BeginCheckout, TypeOK, ShopTypes, OrderTypes, shopVars, orderVars
  <2>2. ASSUME NEW c \in Carts, NEW m \in Methods, BeginReservation(w, c, m) PROVE TypeOK'
    <3> DEFINE todo == {o \in Owned(c) \cap stale : payment[o] = "PENDING"}
    <3>1. todo \in SUBSET Orders
      BY DEF Owned
    <3>2. [op |-> "sweep", cart |-> c, method |-> m, todo |-> todo] \in Requests
      BY <2>2, <3>1 DEF Requests, BeginReservation
    <3>3. req' \in [Workers -> Requests]
      BY <2>2, <3>2, ContinueTypes DEF BeginReservation, TypeOK
    <3>4. QED
      BY <2>2, <3>3 DEF BeginReservation, TypeOK, ShopTypes, OrderTypes, shopVars, orderVars
  <2>3. CASE PlaceOrder(w)
    <3>1. req[w].cart \in Carts /\ req[w].method \in ImmediateMethods /\ req[w].seen \in Quantities
      BY <2>3, RequestShape DEF PlaceOrder, TypeOK
    <3>2. PICK o \in Orders :
            CreateOrder(o, req[w].cart, req[w].method, req[w].seen, "PLACED",
                        IF req[w].method = "card" THEN "SUCCEEDED" ELSE "PENDING")
      BY <2>3 DEF PlaceOrder
    <3>3. Available(req[w].seen)
      BY <2>3 DEF PlaceOrder
    <3>4. /\ stock' \in [Products -> Nat]
          /\ status' \in [Orders -> {"NONE", "AWAITING_PAYMENT", "PLACED", "PAYMENT_FAILED"}]
          /\ owner' \in [Orders -> Carts \cup {NoCart}]
          /\ method' \in [Orders -> {"none", "card", "cod", "lipa_namba", "mobile_money"}]
          /\ payment' \in [Orders -> {"NONE", "PENDING", "SUCCEEDED", "FAILED"}]
          /\ line' \in [Orders -> [Products -> [qty : 0..MaxQty, status : LineStatus]]]
      <4>1. CASE req[w].method = "card"
        BY <3>1, <3>2, <3>3, <4>1, CreateOrderTypes DEF ImmediateMethods, TypeOK
      <4>2. CASE req[w].method = "cod"
        BY <3>1, <3>2, <3>3, <4>2, CreateOrderTypes DEF ImmediateMethods, TypeOK
      <4>3. QED
        BY <3>1, <4>1, <4>2 DEF ImmediateMethods
    <3>5. cart' \in [Carts -> Quantities]
      <4>1. EmptyCart \in Quantities
        BY StockAssumption DEF EmptyCart, Quantities
      <4>2. QED
        BY <2>3, <4>1 DEF PlaceOrder, TypeOK
    <3>6. req' \in [Workers -> Requests]
      BY <2>3, IdleTypes, ContinueTypes DEF PlaceOrder, TypeOK
    <3>7. QED
      BY <2>3, <3>4, <3>5, <3>6 DEF PlaceOrder, TypeOK, ShopTypes, OrderTypes
  <2>4. ASSUME NEW o \in Orders, SweepOwn(w, o) PROVE TypeOK'
    <3>1. SettleTypes'
      BY <2>4, FailAwaitingTypes DEF SweepOwn, TypeOK, ShopTypes, OrderTypes, SettleTypes
    <3>2. [req[w] EXCEPT !.todo = @ \ {o}] \in Requests
      BY <2>4, RequestShape DEF SweepOwn, TypeOK, Requests
    <3>3. req' \in [Workers -> Requests]
      BY <2>4, <3>2, ContinueTypes DEF SweepOwn, TypeOK
    <3>4. QED
      BY <2>4, <3>1, <3>3 DEF SweepOwn, TypeOK, ShopTypes, OrderTypes, SettleTypes
  <2>5. CASE LockCart(w)
    <3>1. [op |-> "reserve", cart |-> req[w].cart, method |-> req[w].method,
           seen |-> cart[req[w].cart]] \in Requests
      BY <2>5, RequestShape DEF LockCart, TypeOK, Requests
    <3>2. req' \in [Workers -> Requests]
      BY <2>5, <3>1, ContinueTypes DEF LockCart, TypeOK
    <3>3. QED
      BY <2>5, <3>2 DEF LockCart, TypeOK, ShopTypes, OrderTypes, shopVars, orderVars
  <2>6. CASE Reserve(w)
    <3>1. req[w].cart \in Carts /\ req[w].method \in AwaitingMethods /\ req[w].seen \in Quantities
      BY <2>6, RequestShape DEF Reserve, TypeOK
    <3>2. PICK o \in Orders :
            /\ CreateOrder(o, req[w].cart, req[w].method, req[w].seen, "AWAITING_PAYMENT", "PENDING")
            /\ Continue(w, IF req[w].method = "mobile_money" THEN [op |-> "push", order |-> o]
                                                             ELSE Idle)
      BY <2>6 DEF Reserve
    <3>3. Available(req[w].seen)
      BY <2>6 DEF Reserve
    <3>4. /\ stock' \in [Products -> Nat]
          /\ status' \in [Orders -> {"NONE", "AWAITING_PAYMENT", "PLACED", "PAYMENT_FAILED"}]
          /\ owner' \in [Orders -> Carts \cup {NoCart}]
          /\ method' \in [Orders -> {"none", "card", "cod", "lipa_namba", "mobile_money"}]
          /\ payment' \in [Orders -> {"NONE", "PENDING", "SUCCEEDED", "FAILED"}]
          /\ line' \in [Orders -> [Products -> [qty : 0..MaxQty, status : LineStatus]]]
      BY <3>1, <3>2, <3>3, CreateOrderTypes DEF AwaitingMethods, TypeOK
    <3>5. (IF req[w].method = "mobile_money" THEN [op |-> "push", order |-> o] ELSE Idle) \in Requests
      BY IdleTypes DEF Requests
    <3>6. req' \in [Workers -> Requests]
      BY <3>2, <3>5, ContinueTypes DEF TypeOK
    <3>7. QED
      BY <2>6, <3>4, <3>6 DEF Reserve, TypeOK, ShopTypes, OrderTypes
  <2>7. CASE RefuseCheckout(w)
    <3>1. req' \in [Workers -> Requests]
      BY <2>7, IdleTypes, ContinueTypes DEF RefuseCheckout, TypeOK
    <3>2. QED
      BY <2>7, <3>1 DEF RefuseCheckout, TypeOK, ShopTypes, OrderTypes, shopVars, orderVars
  <2>8. CASE PushAccepted(w)
    <3>1. req' \in [Workers -> Requests]
      BY <2>8, IdleTypes, ContinueTypes DEF PushAccepted, TypeOK
    <3>2. QED
      BY <2>8, <3>1 DEF PushAccepted, TypeOK, ShopTypes, OrderTypes, shopVars
  <2>9. CASE PushRefused(w)
    <3>1. SettleTypes'
      BY <2>9, RequestShape, FailAwaitingTypes
      DEF PushRefused, TypeOK, ShopTypes, OrderTypes, SettleTypes
    <3>2. req' \in [Workers -> Requests]
      BY <2>9, IdleTypes, ContinueTypes DEF PushRefused, TypeOK
    <3>3. QED
      BY <2>9, <3>1, <3>2 DEF PushRefused, TypeOK, ShopTypes, OrderTypes, SettleTypes
  <2>10. QED
    BY <1>4, <2>1, <2>2, <2>3, <2>4, <2>5, <2>6, <2>7, <2>8, <2>9 DEF BuyerRequest, CheckoutStep
<1>5. ASSUME NEW w \in Staff, StaffRequest(w) PROVE TypeOK'
  <2>1. ASSUME NEW o \in Orders, NEW p \in Products, NEW to \in LineStatus, BeginAdvance(w, o, p, to)
        PROVE  TypeOK'
    <3>1. [op |-> "advance", order |-> o, product |-> p, to |-> to] \in Requests
      BY DEF Requests
    <3>2. req' \in [Workers -> Requests]
      BY <2>1, <3>1, ContinueTypes DEF BeginAdvance, TypeOK
    <3>3. QED
      BY <2>1, <3>2 DEF BeginAdvance, TypeOK, ShopTypes, OrderTypes, shopVars, orderVars
  <2>2. CASE FinishAdvance(w)
    <3>1. req[w].order \in Orders /\ req[w].product \in Products /\ req[w].to \in LineStatus
      BY <2>2, RequestShape DEF FinishAdvance, TypeOK
    <3>2. stock' \in [Products -> Nat]
      BY <2>2, <3>1, StockAssumption DEF FinishAdvance, TypeOK, ShopTypes, OrderTypes
    <3>3. line' \in [Orders -> [Products -> [qty : 0..MaxQty, status : LineStatus]]]
      <4> DEFINE o == req[w].order
                 p == req[w].product
      <4>1. [line[o][p] EXCEPT !.status = req[w].to] \in [qty : 0..MaxQty, status : LineStatus]
        <5>1. line[o][p] \in [qty : 0..MaxQty, status : LineStatus]
          BY <3>1 DEF TypeOK, OrderTypes
        <5>2. QED
          BY <3>1, <5>1
      <4>2. line' = [line EXCEPT ![o] = [line[o] EXCEPT
                        ![p] = [line[o][p] EXCEPT !.status = req[w].to]]]
        BY <2>2 DEF FinishAdvance
      <4>3. QED
        BY <3>1, <4>1, <4>2 DEF TypeOK, OrderTypes
    <3>4. req' \in [Workers -> Requests]
      BY <2>2, IdleTypes, ContinueTypes DEF FinishAdvance, TypeOK
    <3>5. QED
      BY <2>2, <3>2, <3>3, <3>4 DEF FinishAdvance, TypeOK, ShopTypes, OrderTypes
  <2>3. CASE FailAdvance(w)
    <3>1. req' \in [Workers -> Requests]
      BY <2>3, IdleTypes, ContinueTypes DEF FailAdvance, TypeOK
    <3>2. QED
      BY <2>3, <3>1 DEF FailAdvance, TypeOK, ShopTypes, OrderTypes, shopVars, orderVars
  <2>4. ASSUME NEW a \in Admins, NEW o \in Orders, NEW confirm \in BOOLEAN,
               BeginSettlement(w, a, o, confirm)
        PROVE  TypeOK'
    <3>1. [op |-> "settle", order |-> o, admin |-> a, confirm |-> confirm] \in Requests
      BY DEF Requests
    <3>2. req' \in [Workers -> Requests]
      BY <2>4, <3>1, ContinueTypes DEF BeginSettlement, TypeOK
    <3>3. QED
      BY <2>4, <3>2 DEF BeginSettlement, TypeOK, ShopTypes, OrderTypes, shopVars, orderVars
  <2>5. CASE ConfirmPayment(w)
    <3>1. req[w].order \in Orders /\ req[w].admin \in Admins
      BY <2>5, RequestShape DEF ConfirmPayment, TypeOK
    <3>2. SettleTypes'
      BY <2>5, <3>1, SettlePaidTypes DEF ConfirmPayment, TypeOK, ShopTypes, OrderTypes, SettleTypes
    <3>3. req' \in [Workers -> Requests]
      BY <2>5, IdleTypes, ContinueTypes DEF ConfirmPayment, TypeOK
    <3>4. audited' \in SUBSET (Orders \X BOOLEAN)
      <4>1. audited' = audited \cup {<<req[w].order, TRUE>>}
        BY <2>5 DEF ConfirmPayment
      <4>2. <<req[w].order, TRUE>> \in Orders \X BOOLEAN
        BY <3>1
      <4>3. audited \in SUBSET (Orders \X BOOLEAN)
        BY DEF TypeOK, OrderTypes
      <4>4. QED
        BY <4>1, <4>2, <4>3
    <3>5. settledBy' \in [Orders -> Admins \cup {NoAdmin}]
      BY <2>5, <3>1 DEF ConfirmPayment, TypeOK, OrderTypes
    <3>6. QED
      BY <2>5, <3>2, <3>3, <3>4, <3>5 DEF ConfirmPayment, TypeOK, ShopTypes, OrderTypes, SettleTypes
  <2>6. CASE RejectPayment(w)
    <3>1. [op |-> "release", order |-> req[w].order, admin |-> req[w].admin,
           lines |-> OpenLines(req[w].order)] \in Requests
      BY <2>6, RequestShape DEF RejectPayment, TypeOK, Requests, OpenLines
    <3>2. req' \in [Workers -> Requests]
      BY <2>6, <3>1, ContinueTypes DEF RejectPayment, TypeOK
    <3>3. QED
      BY <2>6, <3>2 DEF RejectPayment, TypeOK, ShopTypes, OrderTypes, shopVars, orderVars
  <2>7. CASE ReleaseLines(w)
    <3>1. req[w].order \in Orders /\ req[w].admin \in Admins /\ req[w].lines \in SUBSET Products
      BY <2>7, RequestShape DEF ReleaseLines, TypeOK
    <3>2. SettleTypes'
      BY <2>7, <3>1, SettleFailedTypes DEF ReleaseLines, TypeOK, ShopTypes, OrderTypes, SettleTypes
    <3>3. req' \in [Workers -> Requests]
      BY <2>7, IdleTypes, ContinueTypes DEF ReleaseLines, TypeOK
    <3>4. audited' \in SUBSET (Orders \X BOOLEAN)
      <4>1. audited' = audited \cup {<<req[w].order, FALSE>>}
        BY <2>7 DEF ReleaseLines
      <4>2. <<req[w].order, FALSE>> \in Orders \X BOOLEAN
        BY <3>1
      <4>3. audited \in SUBSET (Orders \X BOOLEAN)
        BY DEF TypeOK, OrderTypes
      <4>4. QED
        BY <4>1, <4>2, <4>3
    <3>5. settledBy' \in [Orders -> Admins \cup {NoAdmin}]
      BY <2>7, <3>1 DEF ReleaseLines, TypeOK, OrderTypes
    <3>6. QED
      BY <2>7, <3>2, <3>3, <3>4, <3>5 DEF ReleaseLines, TypeOK, ShopTypes, OrderTypes, SettleTypes
  <2>8. CASE SettlementTooLate(w)
    <3>1. req[w].order \in Orders /\ req[w].confirm \in BOOLEAN
      BY <2>8, RequestShape DEF SettlementTooLate, TypeOK
    <3>2. req' \in [Workers -> Requests]
      BY <2>8, IdleTypes, ContinueTypes DEF SettlementTooLate, TypeOK
    <3>3. QED
      BY <2>8, <3>1, <3>2 DEF SettlementTooLate, TypeOK, ShopTypes, OrderTypes, shopVars
  <2>9. QED
    BY <1>5, <2>1, <2>2, <2>3, <2>4, <2>5, <2>6, <2>7, <2>8 DEF StaffRequest
<1>6. ASSUME NEW o \in Orders, PromptArrives(o) PROVE TypeOK'
  BY <1>6 DEF PromptArrives, TypeOK, ShopTypes, OrderTypes, shopVars
<1>7. ASSUME NEW o \in Orders, NEW decision \in {"approved", "rejected"}, BuyerDecides(o, decision)
      PROVE  TypeOK'
  BY <1>7 DEF BuyerDecides, TypeOK, ShopTypes, OrderTypes, shopVars
<1>8. ASSUME NEW o \in Orders, Callback(o) PROVE TypeOK'
  <2>1. SettleTypes'
    BY <1>8, SettlePaidTypes, FailAwaitingTypes DEF Callback, TypeOK, ShopTypes, OrderTypes, SettleTypes
  <2>2. QED
    BY <1>8, <2>1 DEF Callback, TypeOK, ShopTypes, OrderTypes, SettleTypes
<1>9. ASSUME NEW o \in Orders, TimeOut(o) PROVE TypeOK'
  BY <1>9 DEF TimeOut, TypeOK, ShopTypes, OrderTypes, shopVars
<1>10. ASSUME NEW o \in Orders, Expire(o) PROVE TypeOK'
  <2>1. SettleTypes'
    BY <1>10, FailAwaitingTypes DEF Expire, TypeOK, ShopTypes, OrderTypes, SettleTypes
  <2>2. QED
    BY <1>10, <2>1 DEF Expire, TypeOK, ShopTypes, OrderTypes, SettleTypes
<1>11. ASSUME NEW w \in Workers, Crash(w) PROVE TypeOK'
  <2>1. req' \in [Workers -> Requests]
    BY <1>11, IdleTypes, ContinueTypes DEF Crash, TypeOK
  <2>2. QED
    BY <1>11, <2>1 DEF Crash, TypeOK, ShopTypes, OrderTypes, shopVars, orderVars
<1>12. CASE UNCHANGED vars
  BY <1>12 DEF vars, TypeOK, ShopTypes, OrderTypes
<1>13. QED
  BY <1>1, <1>2, <1>3, <1>4, <1>5, <1>6, <1>7, <1>8, <1>9, <1>10, <1>11, <1>12
  DEF Next, CartStep, ShelfStep, ProviderStep, TimeStep

LEMMA InitTypes == Init => TypeOK
<1>1. Init => line \in [Orders -> [Products -> [qty : 0..MaxQty, status : LineStatus]]]
  BY StockAssumption DEF Init, LineStatus
<1>2. QED
  BY <1>1, StockAssumption, IdleTypes DEF Init, TypeOK, ShopTypes, OrderTypes, Quantities, EmptyCart

\* TypeOK is an invariant: whatever the requests and their order, every variable
\* stays in its type and no product is ever oversold.
THEOREM TypeCorrect == Spec => []TypeOK
BY InitTypes, TypeStep, PTL DEF Spec

-----------------------------------------------------------------------------
(* The inductive invariant of checkout and settlement.                      *)

IInv ==
  /\ TypeOK
  /\ OrderAgreesWithPayment
  /\ OneAwaitingOrderPerOwner
  /\ UnpaidNeverFulfilled
  /\ PlacedOnlyIfApproved
  /\ CartLockHolds
  /\ RecordLockHolds
  /\ UnlockedReadsHold

-----------------------------------------------------------------------------
(* The kinds of step, as far as orders, payments and locks can tell.        *)

Quiet == UNCHANGED <<status, owner, method, payment, line>>

\* Nobody takes a lock or begins a request of the back office.
NoNewClaims ==
  \A v \in Workers : req'[v] = req[v] \/ req'[v].op \in {"idle", "order", "sweep", "push"}

PromptKept == \A o \in Orders : prompt[o] = "approved" => prompt'[o] = "approved"

Claim(w) ==
  \/ LockCart(w)
  \/ \E o \in Orders, p \in Products, to \in LineStatus : BeginAdvance(w, o, p, to)
  \/ \E a \in Admins, o \in Orders, confirm \in BOOLEAN : BeginSettlement(w, a, o, confirm)
  \/ RejectPayment(w)

Created(w, o) == /\ w \in Workers /\ o \in Orders /\ status[o] = "NONE"
                 /\ PlaceOrder(w) \/ Reserve(w)
                 /\ \/ /\ req[w].op = "order"
                       /\ CreateOrder(o, req[w].cart, req[w].method, req[w].seen, "PLACED",
                                      IF req[w].method = "card" THEN "SUCCEEDED" ELSE "PENDING")
                    \/ /\ req[w].op = "reserve"
                       /\ CreateOrder(o, req[w].cart, req[w].method, req[w].seen,
                                      "AWAITING_PAYMENT", "PENDING")

SettledFree(o) == /\ payment[o] = "PENDING" /\ ~RecordLocked(o)
                  /\ UNCHANGED <<owner, method>> /\ NoNewClaims

Paid(o) == /\ SettledFree(o) /\ SettlePaid(o)
           /\ method[o] = "mobile_money" => prompt[o] = "approved"

Failed(o) == SettledFree(o) /\ SettleFailed(o, OpenLines(o))

StepKinds ==
  \/ Quiet /\ NoNewClaims
  \/ Quiet /\ \E w \in Workers : Claim(w)
  \/ \E w \in Workers : FinishAdvance(w) /\ NoNewClaims
  \/ \E w \in Workers, o \in Orders : Created(w, o) /\ NoNewClaims
  \/ \E o \in Orders : Paid(o)
  \/ \E o \in Orders : Failed(o)
  \/ \E w \in Workers : ReleaseLines(w) /\ NoNewClaims

LEMMA ContinueClaims ==
  ASSUME NEW w \in Workers, NEW request, TypeOK, Continue(w, request),
         request.op \in {"idle", "order", "sweep", "push"}
  PROVE  NoNewClaims
BY DEF TypeOK, Continue, NoNewClaims

LEMMA StepClassified ==
  ASSUME IInv, [Next]_vars
  PROVE  StepKinds /\ PromptKept
<1> USE DEF Workers, IInv
<1>1. ASSUME NEW c \in Carts, NEW p \in Products, NEW q \in 1..MaxQty, AddToCart(c, p, q)
      PROVE  StepKinds /\ PromptKept
  BY <1>1 DEF AddToCart, orderVars, StepKinds, Quiet, NoNewClaims, PromptKept
<1>2. ASSUME NEW c \in Carts, NEW p \in Products, NEW q \in 0..MaxQty, ChangeCartLine(c, p, q)
      PROVE  StepKinds /\ PromptKept
  BY <1>2 DEF ChangeCartLine, orderVars, StepKinds, Quiet, NoNewClaims, PromptKept
<1>3. ASSUME NEW p \in Products, NEW to \in {"published", "withdrawn", "deleted"}, Reshelve(p, to)
      PROVE  StepKinds /\ PromptKept
  BY <1>3 DEF Reshelve, orderVars, StepKinds, Quiet, NoNewClaims, PromptKept
<1>4. ASSUME NEW w \in Buyers, BuyerRequest(w) PROVE StepKinds /\ PromptKept
  <2>1. ASSUME NEW c \in Carts, NEW m \in Methods, BeginCheckout(w, c, m)
        PROVE  StepKinds /\ PromptKept
    <3>1. NoNewClaims
      BY <2>1, ContinueClaims DEF BeginCheckout
    <3>2. QED
      BY <2>1, <3>1 DEF BeginCheckout, orderVars, StepKinds, Quiet, PromptKept
  <2>2. ASSUME NEW c \in Carts, NEW m \in Methods, BeginReservation(w, c, m)
        PROVE  StepKinds /\ PromptKept
    <3>1. NoNewClaims
      BY <2>2, ContinueClaims DEF BeginReservation
    <3>2. QED
      BY <2>2, <3>1 DEF BeginReservation, orderVars, StepKinds, Quiet, PromptKept
  <2>3. CASE PlaceOrder(w)
    <3>1. NoNewClaims
      BY <2>3, ContinueClaims DEF PlaceOrder, Idle
    <3>2. \E o \in Orders : Created(w, o)
      BY <2>3 DEF PlaceOrder, Created
    <3>3. PromptKept
      BY <2>3 DEF PlaceOrder, PromptKept
    <3>4. QED
      BY <3>1, <3>2, <3>3 DEF StepKinds
  <2>4. ASSUME NEW o \in Orders, SweepOwn(w, o) PROVE StepKinds /\ PromptKept
    <3>1. NoNewClaims
      <4>1. [req[w] EXCEPT !.todo = @ \ {o}].op = "sweep"
        BY <2>4, RequestShape DEF SweepOwn, TypeOK
      <4>2. QED
        BY <2>4, <4>1, ContinueClaims DEF SweepOwn
    <3>2. PromptKept
      BY <2>4 DEF SweepOwn, PromptKept
    <3>3. CASE payment[o] = "PENDING"
      BY <2>4, <3>1, <3>2, <3>3 DEF SweepOwn, FailAwaiting, Failed, SettledFree, StepKinds
    <3>4. CASE payment[o] # "PENDING"
      BY <2>4, <3>1, <3>2, <3>4 DEF SweepOwn, FailAwaiting, SettleUntouched, Quiet, StepKinds
    <3>5. QED
      BY <3>3, <3>4
  <2>5. CASE LockCart(w)
    BY <2>5 DEF LockCart, orderVars, StepKinds, Quiet, PromptKept, Claim
  <2>6. CASE Reserve(w)
    <3>1. NoNewClaims
      <4>1. PICK o \in Orders :
              Continue(w, IF req[w].method = "mobile_money" THEN [op |-> "push", order |-> o]
                                                            ELSE Idle)
        BY <2>6 DEF Reserve
      <4>2. (IF req[w].method = "mobile_money" THEN [op |-> "push", order |-> o]
                                               ELSE Idle).op \in {"push", "idle"}
        BY DEF Idle
      <4>3. QED
        BY <4>1, <4>2, ContinueClaims
    <3>2. \E o \in Orders : Created(w, o)
      BY <2>6 DEF Reserve, Created
    <3>3. PromptKept
      BY <2>6 DEF Reserve, PromptKept
    <3>4. QED
      BY <3>1, <3>2, <3>3 DEF StepKinds
  <2>7. CASE RefuseCheckout(w)
    <3>1. NoNewClaims
      BY <2>7, ContinueClaims DEF RefuseCheckout, Idle
    <3>2. QED
      BY <2>7, <3>1 DEF RefuseCheckout, orderVars, StepKinds, Quiet, PromptKept
  <2>8. CASE PushAccepted(w)
    <3>1. NoNewClaims
      BY <2>8, ContinueClaims DEF PushAccepted, Idle
    <3>2. QED
      BY <2>8, <3>1 DEF PushAccepted, StepKinds, Quiet, PromptKept
  <2>9. CASE PushRefused(w)
    <3> DEFINE o == req[w].order
    <3>1. NoNewClaims
      BY <2>9, ContinueClaims DEF PushRefused, Idle
    <3>2. PromptKept
      BY <2>9 DEF PushRefused, PromptKept
    <3>3. o \in Orders /\ ~RecordLocked(o) /\ FailAwaiting(o) /\ UNCHANGED <<owner, method>>
      BY <2>9, RequestShape DEF PushRefused, TypeOK
    <3>4. CASE payment[o] = "PENDING"
      BY <3>1, <3>2, <3>3, <3>4 DEF FailAwaiting, Failed, SettledFree, StepKinds
    <3>5. CASE payment[o] # "PENDING"
      BY <3>1, <3>2, <3>3, <3>5 DEF FailAwaiting, SettleUntouched, Quiet, StepKinds
    <3>6. QED
      BY <3>4, <3>5
  <2>10. QED
    BY <1>4, <2>1, <2>2, <2>3, <2>4, <2>5, <2>6, <2>7, <2>8, <2>9 DEF BuyerRequest, CheckoutStep
<1>5. ASSUME NEW w \in Staff, StaffRequest(w) PROVE StepKinds /\ PromptKept
  <2>1. ASSUME NEW o \in Orders, NEW p \in Products, NEW to \in LineStatus, BeginAdvance(w, o, p, to)
        PROVE  StepKinds /\ PromptKept
    <3>1. Claim(w)
      BY <2>1 DEF Claim
    <3>2. QED
      BY <2>1, <3>1 DEF BeginAdvance, orderVars, StepKinds, Quiet, PromptKept
  <2>2. CASE FinishAdvance(w)
    <3>1. NoNewClaims
      BY <2>2, ContinueClaims DEF FinishAdvance, Idle
    <3>2. QED
      BY <2>2, <3>1 DEF FinishAdvance, StepKinds, PromptKept
  <2>3. CASE FailAdvance(w)
    <3>1. NoNewClaims
      BY <2>3, ContinueClaims DEF FailAdvance, Idle
    <3>2. QED
      BY <2>3, <3>1 DEF FailAdvance, orderVars, StepKinds, Quiet, PromptKept
  <2>4. ASSUME NEW a \in Admins, NEW o \in Orders, NEW confirm \in BOOLEAN,
               BeginSettlement(w, a, o, confirm)
        PROVE  StepKinds /\ PromptKept
    <3>1. Claim(w)
      BY <2>4 DEF Claim
    <3>2. QED
      BY <2>4, <3>1 DEF BeginSettlement, orderVars, StepKinds, Quiet, PromptKept
  <2>5. CASE ConfirmPayment(w)
    <3> DEFINE o == req[w].order
    <3>1. NoNewClaims
      BY <2>5, ContinueClaims DEF ConfirmPayment, Idle
    <3>2. o \in Orders /\ method[o] # "mobile_money"
      BY <2>5, RequestShape DEF ConfirmPayment, TypeOK, UnlockedReadsHold, ManualMethods
    <3>3. Paid(o)
      BY <2>5, <3>1, <3>2 DEF ConfirmPayment, Paid, SettledFree
    <3>4. PromptKept
      BY <2>5 DEF ConfirmPayment, PromptKept
    <3>5. QED
      BY <3>2, <3>3, <3>4 DEF StepKinds
  <2>6. CASE RejectPayment(w)
    BY <2>6 DEF RejectPayment, orderVars, StepKinds, Quiet, PromptKept, Claim
  <2>7. CASE ReleaseLines(w)
    <3>1. NoNewClaims
      BY <2>7, ContinueClaims DEF ReleaseLines, Idle
    <3>2. QED
      BY <2>7, <3>1 DEF ReleaseLines, StepKinds, PromptKept
  <2>8. CASE SettlementTooLate(w)
    <3>1. NoNewClaims
      BY <2>8, ContinueClaims DEF SettlementTooLate, Idle
    <3>2. QED
      BY <2>8, <3>1 DEF SettlementTooLate, StepKinds, Quiet, PromptKept
  <2>9. QED
    BY <1>5, <2>1, <2>2, <2>3, <2>4, <2>5, <2>6, <2>7, <2>8 DEF StaffRequest
<1>6. ASSUME NEW o \in Orders, PromptArrives(o) PROVE StepKinds /\ PromptKept
  BY <1>6 DEF PromptArrives, TypeOK, OrderTypes, StepKinds, Quiet, NoNewClaims, PromptKept
<1>7. ASSUME NEW o \in Orders, NEW decision \in {"approved", "rejected"}, BuyerDecides(o, decision)
      PROVE  StepKinds /\ PromptKept
  BY <1>7 DEF BuyerDecides, TypeOK, OrderTypes, StepKinds, Quiet, NoNewClaims, PromptKept
<1>8. ASSUME NEW o \in Orders, Callback(o) PROVE StepKinds /\ PromptKept
  <2>1. SettledFree(o) /\ PromptKept
    BY <1>8 DEF Callback, SettledFree, NoNewClaims, PromptKept
  <2>2. CASE prompt[o] = "approved"
    BY <1>8, <2>1, <2>2 DEF Callback, Paid, StepKinds
  <2>3. CASE prompt[o] # "approved"
    BY <1>8, <2>1, <2>3 DEF Callback, FailAwaiting, Failed, StepKinds
  <2>4. QED
    BY <2>2, <2>3
<1>9. ASSUME NEW o \in Orders, TimeOut(o) PROVE StepKinds /\ PromptKept
  BY <1>9 DEF TimeOut, StepKinds, Quiet, NoNewClaims, PromptKept
<1>10. ASSUME NEW o \in Orders, Expire(o) PROVE StepKinds /\ PromptKept
  <2>1. SettledFree(o) /\ PromptKept
    BY <1>10 DEF Expire, SettledFree, NoNewClaims, PromptKept
  <2>2. QED
    BY <1>10, <2>1 DEF Expire, FailAwaiting, Failed, StepKinds
<1>11. ASSUME NEW w \in Workers, Crash(w) PROVE StepKinds /\ PromptKept
  <2>1. NoNewClaims
    BY <1>11, ContinueClaims DEF Crash, Idle
  <2>2. QED
    BY <1>11, <2>1 DEF Crash, orderVars, StepKinds, Quiet, PromptKept
<1>12. CASE UNCHANGED vars
  BY <1>12 DEF vars, StepKinds, Quiet, NoNewClaims, PromptKept
<1>13. QED
  BY <1>1, <1>2, <1>3, <1>4, <1>5, <1>6, <1>7, <1>8, <1>9, <1>10, <1>11, <1>12
  DEF Next, CartStep, ShelfStep, ProviderStep, TimeStep

-----------------------------------------------------------------------------
(* Each part of the invariant, by the kind of step.                         *)

LEMMA AgreementStep ==
  ASSUME IInv, StepKinds PROVE OrderAgreesWithPayment'
<1> USE DEF IInv, TypeOK, OrderTypes
<1>1. ASSUME Quiet PROVE OrderAgreesWithPayment'
  BY <1>1 DEF Quiet, OrderAgreesWithPayment
<1>2. ASSUME NEW w \in Workers, FinishAdvance(w) PROVE OrderAgreesWithPayment'
  BY <1>2 DEF FinishAdvance, OrderAgreesWithPayment
<1>3. ASSUME NEW w \in Workers, NEW o \in Orders, Created(w, o) PROVE OrderAgreesWithPayment'
  <2>1. /\ req[w].op = "order" => req[w].method \in ImmediateMethods
        /\ req[w].op = "reserve" => req[w].method \in AwaitingMethods
    BY <1>3, RequestShape DEF Created
  <2>2. CASE req[w].op = "reserve"
    <3>1. /\ status' = [status EXCEPT ![o] = "AWAITING_PAYMENT"]
          /\ payment' = [payment EXCEPT ![o] = "PENDING"]
          /\ method' = [method EXCEPT ![o] = req[w].method]
      BY <1>3, <2>2 DEF Created, CreateOrder
    <3>2. QED
      BY <2>1, <2>2, <3>1 DEF OrderAgreesWithPayment
  <2>3. CASE req[w].op = "order"
    <3>1. /\ status' = [status EXCEPT ![o] = "PLACED"]
          /\ payment' = [payment EXCEPT ![o] = IF req[w].method = "card" THEN "SUCCEEDED" ELSE "PENDING"]
          /\ method' = [method EXCEPT ![o] = req[w].method]
      BY <1>3, <2>3 DEF Created, CreateOrder
    <3>2. QED
      BY <2>1, <2>3, <3>1 DEF OrderAgreesWithPayment, ImmediateMethods
  <2>4. QED
    BY <1>3, <2>2, <2>3 DEF Created
<1>4. ASSUME NEW o \in Orders, Paid(o) PROVE OrderAgreesWithPayment'
  BY <1>4 DEF Paid, SettledFree, SettlePaid, OrderAgreesWithPayment
<1>5. ASSUME NEW o \in Orders, Failed(o) PROVE OrderAgreesWithPayment'
  BY <1>5 DEF Failed, SettledFree, SettleFailed, OrderAgreesWithPayment
<1>6. ASSUME NEW w \in Workers, ReleaseLines(w) PROVE OrderAgreesWithPayment'
  <2>1. req[w].order \in Orders
    BY <1>6, RequestShape DEF ReleaseLines
  <2>2. QED
    BY <1>6, <2>1 DEF ReleaseLines, SettleFailed, OrderAgreesWithPayment
<1>7. QED
  BY <1>1, <1>2, <1>3, <1>4, <1>5, <1>6 DEF StepKinds

\* An order awaits payment because it did before or because a checkout that holds
\* the lock of its cart has just created it.
LEMMA AwaitingOrigin ==
  ASSUME IInv, StepKinds, NEW o \in Orders, status'[o] = "AWAITING_PAYMENT"
  PROVE  \/ status[o] = "AWAITING_PAYMENT" /\ owner'[o] = owner[o]
         \/ \E w \in Workers : /\ Created(w, o) /\ req[w].op = "reserve"
                              /\ owner'[o] = req[w].cart
<1> USE DEF IInv, TypeOK, OrderTypes
<1> DEFINE Kept == status[o] = "AWAITING_PAYMENT" /\ owner'[o] = owner[o]
<1>1. ASSUME Quiet PROVE Kept
  BY <1>1 DEF Quiet
<1>2. ASSUME NEW w \in Workers, FinishAdvance(w) PROVE Kept
  BY <1>2 DEF FinishAdvance
<1>3. ASSUME NEW w \in Workers, NEW n \in Orders, Created(w, n)
      PROVE  Kept \/ (n = o /\ req[w].op = "reserve" /\ owner'[o] = req[w].cart)
  BY <1>3 DEF Created, CreateOrder
<1>4. ASSUME NEW n \in Orders, Paid(n) PROVE Kept
  BY <1>4 DEF Paid, SettledFree, SettlePaid
<1>5. ASSUME NEW n \in Orders, Failed(n) PROVE Kept
  BY <1>5 DEF Failed, SettledFree, SettleFailed
<1>6. ASSUME NEW w \in Workers, ReleaseLines(w) PROVE Kept
  BY <1>6 DEF ReleaseLines, SettleFailed
<1>7. QED
  BY <1>1, <1>2, <1>3, <1>4, <1>5, <1>6 DEF StepKinds

LEMMA OneAwaitingStep ==
  ASSUME IInv, StepKinds PROVE OneAwaitingOrderPerOwner'
<1> SUFFICES ASSUME NEW o1 \in Orders, NEW o2 \in Orders, o1 # o2,
                    status'[o1] = "AWAITING_PAYMENT", status'[o2] = "AWAITING_PAYMENT",
                    owner'[o1] = owner'[o2]
             PROVE  FALSE
  BY DEF OneAwaitingOrderPerOwner
<1>1. ASSUME NEW w \in Workers, NEW n \in Orders, NEW o \in Orders, o # n,
             Created(w, n), req[w].op = "reserve", owner'[n] = req[w].cart,
             status'[o] = "AWAITING_PAYMENT", owner'[o] = owner'[n]
      PROVE  FALSE
  <2>1. status' = [status EXCEPT ![n] = "AWAITING_PAYMENT"]
        /\ owner' = [owner EXCEPT ![n] = req[w].cart]
    BY <1>1 DEF Created, CreateOrder
  <2>2. o \in Awaiting(req[w].cart)
    BY <1>1, <2>1 DEF IInv, TypeOK, OrderTypes, Awaiting, Owned
  <2>3. QED
    BY <1>1, <2>2 DEF IInv, CartLockHolds
<1>2. QED
  BY <1>1, AwaitingOrigin DEF IInv, OneAwaitingOrderPerOwner

\* A worker that claims something now wrote nothing else.
LEMMA ClaimShape ==
  ASSUME IInv, NEW w \in Workers, Claim(w)
  PROVE  /\ \A v \in Workers \ {w} : req'[v] = req[v]
         /\ req'[w].op = "reserve" =>
              /\ Awaiting(req'[w].cart) = {} /\ ~CartLocked(req'[w].cart) /\ req'[w].cart \in Carts
         /\ req'[w].op = "release" =>
              /\ req[w].op = "settle" /\ req'[w].order = req[w].order
              /\ payment[req'[w].order] = "PENDING" /\ ~RecordLocked(req'[w].order)
              /\ req'[w].lines = OpenLines(req'[w].order)
         /\ req'[w].op = "advance" => status[req'[w].order] = "PLACED"
         /\ req'[w].op = "settle" => /\ method[req'[w].order] \in ManualMethods
                                    /\ status[req'[w].order] # "NONE"
         /\ req'[w].op \in {"reserve", "release", "advance", "settle"}
<1> USE DEF IInv, TypeOK
<1>1. CASE LockCart(w)
  <2>1. req[w].cart \in Carts
    BY <1>1, RequestShape DEF LockCart
  <2>2. req' = [req EXCEPT ![w] = [op |-> "reserve", cart |-> req[w].cart,
                                   method |-> req[w].method, seen |-> cart[req[w].cart]]]
    BY <1>1 DEF LockCart, Continue
  <2>3. QED
    BY <1>1, <2>1, <2>2 DEF LockCart
<1>2. ASSUME NEW o \in Orders, NEW p \in Products, NEW to \in LineStatus, BeginAdvance(w, o, p, to)
      PROVE  req' = [req EXCEPT ![w] = [op |-> "advance", order |-> o, product |-> p, to |-> to]]
             /\ status[o] = "PLACED"
  BY <1>2 DEF BeginAdvance, Continue
<1>3. ASSUME NEW a \in Admins, NEW o \in Orders, NEW confirm \in BOOLEAN,
             BeginSettlement(w, a, o, confirm)
      PROVE  /\ req' = [req EXCEPT ![w] = [op |-> "settle", order |-> o, admin |-> a,
                                           confirm |-> confirm]]
             /\ method[o] \in ManualMethods /\ status[o] # "NONE"
  BY <1>3 DEF BeginSettlement, Continue, OrderAgreesWithPayment
<1>4. CASE RejectPayment(w)
  <2>1. req' = [req EXCEPT ![w] = [op |-> "release", order |-> req[w].order,
                                   admin |-> req[w].admin, lines |-> OpenLines(req[w].order)]]
    BY <1>4 DEF RejectPayment, Continue
  <2>2. QED
    BY <1>4, <2>1 DEF RejectPayment
<1>5. QED
  BY <1>1, <1>2, <1>3, <1>4 DEF Claim

LEMMA CartLockStep ==
  ASSUME IInv, StepKinds PROVE CartLockHolds'
<1> USE DEF IInv, TypeOK
<1>1. CASE Quiet /\ \E w \in Workers : Claim(w)
  <2>1. PICK w \in Workers : Claim(w)
    BY <1>1
  <2>2. ASSUME NEW v \in Workers, req'[v].op = "reserve", NEW o \in Orders
        PROVE  ~(owner'[o] = req'[v].cart /\ status'[o] = "AWAITING_PAYMENT")
    <3>1. Awaiting(req'[v].cart) = {}
      BY <2>1, <2>2, ClaimShape DEF CartLockHolds
    <3>2. QED
      BY <1>1, <3>1 DEF Quiet, Awaiting, Owned
  <2>3. ASSUME NEW v \in Workers, v # w, req'[v].op = "reserve"
        PROVE  req'[v] = req[v] /\ (req'[w].op = "reserve" => req'[v].cart # req'[w].cart)
    BY <2>1, <2>3, ClaimShape DEF CartLocked
  <2>4. ASSUME NEW w1 \in Workers, NEW w2 \in Workers, req'[w1].op = "reserve",
               req'[w2].op = "reserve", req'[w1].cart = req'[w2].cart
        PROVE  w1 = w2
    BY <2>3, <2>4 DEF CartLockHolds
  <2>5. QED
    BY <2>2, <2>4 DEF CartLockHolds, Awaiting, Owned
<1>2. CASE NoNewClaims
  <2>1. ASSUME NEW v \in Workers, req'[v].op = "reserve"
        PROVE  req'[v] = req[v] /\ req[v].op = "reserve" /\ Awaiting(req[v].cart) = {}
    BY <1>2, <2>1 DEF NoNewClaims, CartLockHolds
  <2>2. ASSUME NEW v \in Workers, req'[v].op = "reserve", NEW o \in Orders,
               owner'[o] = req'[v].cart, status'[o] = "AWAITING_PAYMENT"
        PROVE  FALSE
    <3>1. ASSUME NEW w \in Workers, Created(w, o), req[w].op = "reserve", owner'[o] = req[w].cart
          PROVE  FALSE
      <4>1. w = v
        BY <2>1, <2>2, <3>1 DEF CartLockHolds
      <4>2. req'[w].op # "reserve"
        <5>1. CASE PlaceOrder(w)
          BY <5>1 DEF PlaceOrder, Continue, Idle
        <5>2. CASE Reserve(w)
          BY <5>2 DEF Reserve, Continue, Idle
        <5>3. QED
          BY <3>1, <5>1, <5>2 DEF Created
      <4>3. QED
        BY <2>2, <4>1, <4>2
    <3>2. ~(status[o] = "AWAITING_PAYMENT" /\ owner'[o] = owner[o])
      BY <2>1, <2>2 DEF Awaiting, Owned
    <3>3. QED
      BY <2>2, <3>1, <3>2, AwaitingOrigin
  <2>3. QED
    BY <2>1, <2>2 DEF CartLockHolds, Awaiting, Owned
<1>3. QED
  BY <1>1, <1>2 DEF StepKinds, Paid, Failed, SettledFree

LEMMA RecordLockStep ==
  ASSUME IInv, StepKinds PROVE RecordLockHolds'
<1> USE DEF IInv, TypeOK, OrderTypes
<1>1. CASE Quiet /\ \E w \in Workers : Claim(w)
  <2>1. PICK w \in Workers : Claim(w)
    BY <1>1
  <2>2. ASSUME NEW v \in Workers, req'[v].op = "release" PROVE payment'[req'[v].order] = "PENDING"
    BY <1>1, <2>1, <2>2, ClaimShape DEF Quiet, RecordLockHolds
  <2>3. ASSUME NEW v \in Workers, v # w, req'[v].op = "release"
        PROVE  req'[v] = req[v] /\ (req'[w].op = "release" => req'[v].order # req'[w].order)
    BY <2>1, <2>3, ClaimShape DEF RecordLocked
  <2>4. ASSUME NEW w1 \in Workers, NEW w2 \in Workers, req'[w1].op = "release",
               req'[w2].op = "release", req'[w1].order = req'[w2].order
        PROVE  w1 = w2
    BY <2>3, <2>4 DEF RecordLockHolds
  <2>5. QED
    BY <2>2, <2>4 DEF RecordLockHolds
<1>2. CASE NoNewClaims
  <2>1. ASSUME NEW v \in Workers, req'[v].op = "release"
        PROVE  /\ req'[v] = req[v] /\ req[v].op = "release" /\ req[v].order \in Orders
               /\ payment[req[v].order] = "PENDING"
    BY <1>2, <2>1, RequestShape DEF NoNewClaims, RecordLockHolds
  <2>2. ASSUME NEW v \in Workers, req'[v].op = "release"
        PROVE  payment'[req[v].order] = "PENDING"
    <3>1. ASSUME Quiet PROVE payment'[req[v].order] = "PENDING"
      BY <2>1, <2>2, <3>1 DEF Quiet
    <3>2. ASSUME NEW w \in Workers, FinishAdvance(w) PROVE payment'[req[v].order] = "PENDING"
      BY <2>1, <2>2, <3>2 DEF FinishAdvance
    <3>3. ASSUME NEW w \in Workers, NEW o \in Orders, Created(w, o)
          PROVE  payment'[req[v].order] = "PENDING"
      <4>1. req[v].order # o
        BY <2>1, <2>2, <3>3 DEF Created, OrderAgreesWithPayment
      <4>2. \E x : payment' = [payment EXCEPT ![o] = x]
        BY <3>3 DEF Created, CreateOrder
      <4>3. QED
        BY <2>1, <2>2, <4>1, <4>2
    <3>4. ASSUME NEW o \in Orders, Paid(o) PROVE payment'[req[v].order] = "PENDING"
      BY <2>1, <2>2, <3>4 DEF Paid, SettledFree, SettlePaid, RecordLocked
    <3>5. ASSUME NEW o \in Orders, Failed(o) PROVE payment'[req[v].order] = "PENDING"
      BY <2>1, <2>2, <3>5 DEF Failed, SettledFree, SettleFailed, RecordLocked
    <3>6. ASSUME NEW w \in Workers, ReleaseLines(w) PROVE payment'[req[v].order] = "PENDING"
      <4>1. req'[w].op = "idle" /\ req[w].op = "release"
        BY <3>6 DEF ReleaseLines, Continue, Idle
      <4>2. v # w
        BY <2>2, <4>1
      <4>3. req[v].order # req[w].order
        BY <2>1, <2>2, <4>1, <4>2 DEF RecordLockHolds
      <4>4. payment' = [payment EXCEPT ![req[w].order] = "FAILED"]
        BY <3>6 DEF ReleaseLines, SettleFailed
      <4>5. QED
        BY <2>1, <2>2, <4>3, <4>4
    <3>7. QED
      BY <3>1, <3>2, <3>3, <3>4, <3>5, <3>6 DEF StepKinds
  <2>3. QED
    BY <2>1, <2>2 DEF RecordLockHolds
<1>3. QED
  BY <1>1, <1>2 DEF StepKinds, Paid, Failed, SettledFree

LEMMA ApprovalStep ==
  ASSUME IInv, StepKinds, PromptKept PROVE PlacedOnlyIfApproved'
<1> USE DEF IInv, TypeOK, OrderTypes, PlacedOnlyIfApproved, PromptKept
<1>1. ASSUME Quiet PROVE PlacedOnlyIfApproved'
  BY <1>1 DEF Quiet
<1>2. ASSUME NEW w \in Workers, FinishAdvance(w) PROVE PlacedOnlyIfApproved'
  BY <1>2 DEF FinishAdvance
<1>3. ASSUME NEW w \in Workers, NEW o \in Orders, Created(w, o) PROVE PlacedOnlyIfApproved'
  <2>1. req[w].op = "order" => req[w].method # "mobile_money"
    BY RequestShape DEF ImmediateMethods
  <2>2. /\ method' = [method EXCEPT ![o] = req[w].method]
        /\ \/ status' = [status EXCEPT ![o] = "PLACED"] /\ req[w].op = "order"
           \/ status' = [status EXCEPT ![o] = "AWAITING_PAYMENT"]
    BY <1>3 DEF Created, CreateOrder
  <2>3. QED
    BY <2>1, <2>2
<1>4. ASSUME NEW o \in Orders, Paid(o) PROVE PlacedOnlyIfApproved'
  BY <1>4 DEF Paid, SettledFree, SettlePaid
<1>5. ASSUME NEW o \in Orders, Failed(o) PROVE PlacedOnlyIfApproved'
  BY <1>5 DEF Failed, SettledFree, SettleFailed
<1>6. ASSUME NEW w \in Workers, ReleaseLines(w) PROVE PlacedOnlyIfApproved'
  BY <1>6 DEF ReleaseLines, SettleFailed
<1>7. QED
  BY <1>1, <1>2, <1>3, <1>4, <1>5, <1>6 DEF StepKinds

LEMMA UnlockedReadsStep ==
  ASSUME IInv, StepKinds PROVE UnlockedReadsHold'
<1> USE DEF IInv, TypeOK, OrderTypes
<1>1. CASE Quiet /\ \E w \in Workers : Claim(w)
  <2>1. PICK w \in Workers : Claim(w)
    BY <1>1
  <2>2. ASSUME NEW o PROVE OpenLines(o)' = OpenLines(o)
    BY <1>1 DEF Quiet, OpenLines
  <2>3. ASSUME NEW v \in Workers, v # w PROVE req'[v] = req[v]
    BY <2>1, <2>3, ClaimShape
  <2>4. ASSUME NEW v \in Workers, req'[v].op = "advance"
        PROVE  \/ status'[req'[v].order] = "PLACED"
               \/ status'[req'[v].order] = "PAYMENT_FAILED" /\ method'[req'[v].order] = "cod"
    BY <1>1, <2>1, <2>3, <2>4, ClaimShape DEF Quiet, UnlockedReadsHold
  <2>5. ASSUME NEW v \in Workers, req'[v].op \in {"settle", "release"}
        PROVE  status'[req'[v].order] # "NONE" /\ method'[req'[v].order] \in ManualMethods
    BY <1>1, <2>1, <2>3, <2>5, ClaimShape DEF Quiet, UnlockedReadsHold
  <2>6. ASSUME NEW v \in Workers, req'[v].op = "release"
        PROVE  method'[req'[v].order] = "cod" \/ req'[v].lines = OpenLines(req'[v].order)
    BY <1>1, <2>1, <2>3, <2>6, ClaimShape DEF Quiet, UnlockedReadsHold
  <2>7. ASSUME NEW v \in Workers, req'[v].op = "release"
        PROVE  (method[req[v].order] = "cod" \/ req[v].lines = OpenLines(req[v].order))'
    BY <1>1, <2>6, <2>7 DEF Quiet, OpenLines
  <2>8. QED
    BY <2>4, <2>5, <2>7 DEF UnlockedReadsHold
<1>2. CASE NoNewClaims
  <2>1. ASSUME NEW v \in Workers, req'[v].op \in {"advance", "settle", "release"}
        PROVE  req'[v] = req[v] /\ req[v].order \in Orders
    BY <1>2, <2>1, RequestShape DEF NoNewClaims
  <2>2. ASSUME NEW v \in Workers, req[v].op \in {"advance", "settle", "release"},
               req'[v] = req[v], req[v].order \in Orders
        PROVE  /\ req[v].op = "advance" =>
                    \/ status'[req[v].order] = "PLACED"
                    \/ status'[req[v].order] = "PAYMENT_FAILED" /\ method'[req[v].order] = "cod"
               /\ req[v].op \in {"settle", "release"} =>
                    status'[req[v].order] # "NONE" /\ method'[req[v].order] \in ManualMethods
               /\ req[v].op = "release" =>
                    /\ method'[req[v].order] = method[req[v].order]
                    /\ method[req[v].order] = "cod" \/ line'[req[v].order] = line[req[v].order]
    <3> DEFINE n == req[v].order
               Goal == /\ req[v].op = "advance" =>
                            \/ status'[n] = "PLACED"
                            \/ status'[n] = "PAYMENT_FAILED" /\ method'[n] = "cod"
                       /\ req[v].op \in {"settle", "release"} =>
                            status'[n] # "NONE" /\ method'[n] \in ManualMethods
                       /\ req[v].op = "release" =>
                            method'[n] = method[n] /\ (method[n] = "cod" \/ line'[n] = line[n])
    <3>0. /\ req[v].op = "advance" =>
                \/ status[n] = "PLACED"
                \/ status[n] = "PAYMENT_FAILED" /\ method[n] = "cod"
          /\ req[v].op \in {"settle", "release"} =>
                status[n] # "NONE" /\ method[n] \in ManualMethods
          /\ req[v].op = "release" => payment[n] = "PENDING"
          /\ status[n] = "PLACED" /\ payment[n] = "PENDING" => method[n] = "cod"
          /\ n \in Orders
      BY <2>2 DEF UnlockedReadsHold, RecordLockHolds, OrderAgreesWithPayment
    <3>1. ASSUME Quiet PROVE Goal
      BY <3>0, <3>1 DEF Quiet
    <3>2. ASSUME NEW w \in Workers, FinishAdvance(w) PROVE Goal
      <4>1. UNCHANGED <<status, method>>
        BY <3>2 DEF FinishAdvance
      <4>2. CASE req[w].order # n
        <5>1. line'[n] = line[n]
          BY <3>2, <4>2 DEF FinishAdvance
        <5>2. QED
          BY <3>0, <4>1, <5>1
      <4>3. CASE req[w].order = n
        <5>1. status[n] = "PLACED" \/ method[n] = "cod"
          BY <3>2, <4>3 DEF FinishAdvance, UnlockedReadsHold
        <5>2. QED
          BY <3>0, <4>1, <5>1
      <4>4. QED
        BY <4>2, <4>3
    <3>3. ASSUME NEW w \in Workers, NEW o \in Orders, Created(w, o) PROVE Goal
      <4>1. n # o
        BY <2>2, <3>0, <3>3 DEF Created
      <4>2. status'[n] = status[n] /\ method'[n] = method[n] /\ line'[n] = line[n]
        BY <3>0, <3>3, <4>1 DEF Created, CreateOrder
      <4>3. QED
        BY <3>0, <4>2
    <3>4. ASSUME NEW o \in Orders, Paid(o) PROVE Goal
      <4>1. UNCHANGED <<method, line>> /\ status' = [status EXCEPT ![o] = "PLACED"]
        BY <3>4 DEF Paid, SettledFree, SettlePaid
      <4>2. QED
        BY <3>0, <4>1
    <3>5. ASSUME NEW o \in Orders, Failed(o) PROVE Goal
      <4>1. /\ method' = method /\ status' = [status EXCEPT ![o] = "PAYMENT_FAILED"]
            /\ \E x : line' = [line EXCEPT ![o] = x]
        BY <3>5 DEF Failed, SettledFree, SettleFailed
      <4>2. payment[o] = "PENDING" /\ ~RecordLocked(o)
        BY <3>5 DEF Failed, SettledFree
      <4>3. req[v].op = "release" => n # o
        BY <4>2 DEF RecordLocked
      <4>4. QED
        BY <3>0, <4>1, <4>2, <4>3
    <3>6. ASSUME NEW w \in Workers, ReleaseLines(w) PROVE Goal
      <4> DEFINE o == req[w].order
      <4>1. /\ method' = method /\ status' = [status EXCEPT ![o] = "PAYMENT_FAILED"]
            /\ \E x : line' = [line EXCEPT ![o] = x]
        BY <3>6 DEF ReleaseLines, SettleFailed
      <4>2. req[w].op = "release" /\ req'[w].op = "idle" /\ payment[o] = "PENDING"
        BY <3>6 DEF ReleaseLines, Continue, Idle, RecordLockHolds
      <4>3. req[v].op = "release" => n # o
        BY <2>2, <4>2 DEF RecordLockHolds
      <4>4. QED
        BY <3>0, <4>1, <4>2, <4>3
    <3>7. QED
      BY <3>1, <3>2, <3>3, <3>4, <3>5, <3>6 DEF StepKinds
  <2>3. ASSUME NEW v \in Workers, req'[v].op = "release"
        PROVE  (method[req[v].order] = "cod" \/ req[v].lines = OpenLines(req[v].order))'
    <3>1. req'[v] = req[v] /\ req[v].op = "release" /\ req[v].order \in Orders
      BY <2>1, <2>3
    <3>2. /\ method'[req[v].order] = method[req[v].order]
          /\ method[req[v].order] = "cod" \/ line'[req[v].order] = line[req[v].order]
      BY <2>2, <3>1
    <3>3. method[req[v].order] = "cod" \/ req[v].lines = OpenLines(req[v].order)
      BY <3>1 DEF UnlockedReadsHold
    <3>4. QED
      BY <3>1, <3>2, <3>3 DEF OpenLines
  <2>4. QED
    BY <2>1, <2>2, <2>3 DEF UnlockedReadsHold
<1>3. QED
  BY <1>1, <1>2 DEF StepKinds, Paid, Failed, SettledFree

\* A failing payment cancels the lines of an order that is not cash on delivery
\* without exception: none of them moved between the read and the release.
LEMMA UnpaidStep ==
  ASSUME IInv, StepKinds PROVE UnpaidNeverFulfilled'
<1> USE DEF IInv, TypeOK, OrderTypes
<1> DEFINE Unfulfilled(o) ==
      method[o] # "cod" =>
        \A p \in Products : line[o][p].qty > 0 =>
          /\ status[o] = "AWAITING_PAYMENT" => line[o][p].status = "PENDING"
          /\ status[o] = "PAYMENT_FAILED" => line[o][p].status = "CANCELLED"
<1> SUFFICES ASSUME NEW n \in Orders PROVE Unfulfilled(n)'
  BY DEF UnpaidNeverFulfilled
<1>0. Unfulfilled(n)
  BY DEF UnpaidNeverFulfilled
<1>1. ASSUME Quiet PROVE Unfulfilled(n)'
  BY <1>0, <1>1 DEF Quiet
<1>2. ASSUME NEW w \in Workers, FinishAdvance(w) PROVE Unfulfilled(n)'
  <2>1. UNCHANGED <<status, method>>
    BY <1>2 DEF FinishAdvance
  <2>2. CASE req[w].order # n
    <3>1. line'[n] = line[n]
      BY <1>2, <2>2 DEF FinishAdvance
    <3>2. QED
      BY <1>0, <2>1, <3>1
  <2>3. CASE req[w].order = n
    <3>1. status[n] = "PLACED" \/ method[n] = "cod"
      BY <1>2, <2>3 DEF FinishAdvance, UnlockedReadsHold
    <3>2. QED
      BY <2>1, <3>1
  <2>4. QED
    BY <2>2, <2>3
<1>3. ASSUME NEW w \in Workers, NEW o \in Orders, Created(w, o) PROVE Unfulfilled(n)'
  <2>1. /\ line' = [line EXCEPT ![o] = [p \in Products |-> [qty |-> req[w].seen[p], status |-> "PENDING"]]]
        /\ method' = [method EXCEPT ![o] = req[w].method]
        /\ \E x \in {"PLACED", "AWAITING_PAYMENT"} : status' = [status EXCEPT ![o] = x]
    BY <1>3 DEF Created, CreateOrder
  <2>2. QED
    BY <1>0, <2>1
<1>4. ASSUME NEW o \in Orders, Paid(o) PROVE Unfulfilled(n)'
  <2>1. UNCHANGED <<method, line>> /\ status' = [status EXCEPT ![o] = "PLACED"]
    BY <1>4 DEF Paid, SettledFree, SettlePaid
  <2>2. QED
    BY <1>0, <2>1
<1>5. ASSUME NEW o \in Orders, NEW lines \in SUBSET Products, SettleFailed(o, lines),
             UNCHANGED method, method[o] # "cod" => lines = OpenLines(o)
      PROVE  Unfulfilled(n)'
  <2>1. /\ status' = [status EXCEPT ![o] = "PAYMENT_FAILED"]
        /\ line' = [line EXCEPT ![o] =
                      [p \in Products |-> IF p \in lines THEN [line[o][p] EXCEPT !.status = "CANCELLED"]
                                                        ELSE line[o][p]]]
    BY <1>5 DEF SettleFailed
  <2>2. CASE n # o
    BY <1>0, <1>5, <2>1, <2>2
  <2>3. CASE n = o
    <3>1. SUFFICES ASSUME method[o] # "cod", NEW p \in Products, line'[o][p].qty > 0
                   PROVE  line'[o][p].status = "CANCELLED"
      BY <1>5, <2>1, <2>3
    <3>2. CASE p \in lines
      <4>1. line'[o][p] = [line[o][p] EXCEPT !.status = "CANCELLED"]
        BY <2>1, <3>2
      <4>2. line[o][p] \in [qty : 0..MaxQty, status : LineStatus]
        OBVIOUS
      <4>3. QED
        BY <4>1, <4>2
    <3>3. CASE p \notin lines
      BY <1>5, <2>1, <3>1, <3>3 DEF OpenLines
    <3>4. QED
      BY <3>2, <3>3
  <2>4. QED
    BY <2>2, <2>3
<1>6. ASSUME NEW o \in Orders, Failed(o) PROVE Unfulfilled(n)'
  <2>1. OpenLines(o) \in SUBSET Products
    BY DEF OpenLines
  <2>2. QED
    BY <1>5, <1>6, <2>1 DEF Failed, SettledFree
<1>7. ASSUME NEW w \in Workers, ReleaseLines(w) PROVE Unfulfilled(n)'
  <2>1. req[w].order \in Orders /\ req[w].lines \in SUBSET Products
    BY <1>7, RequestShape DEF ReleaseLines
  <2>2. method[req[w].order] # "cod" => req[w].lines = OpenLines(req[w].order)
    BY <1>7 DEF ReleaseLines, UnlockedReadsHold
  <2>3. QED
    BY <1>5, <1>7, <2>1, <2>2 DEF ReleaseLines
<1>8. QED
  BY <1>1, <1>2, <1>3, <1>4, <1>6, <1>7 DEF StepKinds

-----------------------------------------------------------------------------
(* The inductive invariant and what follows from it.                        *)

LEMMA InvInit == Init => IInv
<1>1. Init => /\ OrderAgreesWithPayment /\ OneAwaitingOrderPerOwner
              /\ UnpaidNeverFulfilled /\ PlacedOnlyIfApproved
  BY DEF Init, OrderAgreesWithPayment, OneAwaitingOrderPerOwner, UnpaidNeverFulfilled,
         PlacedOnlyIfApproved
<1>2. Init => CartLockHolds /\ RecordLockHolds /\ UnlockedReadsHold
  BY DEF Init, Idle, CartLockHolds, RecordLockHolds, UnlockedReadsHold
<1>3. QED
  BY <1>1, <1>2, InitTypes DEF IInv

LEMMA InvStep == IInv /\ [Next]_vars => IInv'
<1> SUFFICES ASSUME IInv, [Next]_vars PROVE IInv'
  OBVIOUS
<1>1. TypeOK'
  BY TypeStep DEF IInv
<1>2. StepKinds /\ PromptKept
  BY StepClassified
<1>3. QED
  BY <1>1, <1>2, AgreementStep, OneAwaitingStep, UnpaidStep, ApprovalStep, CartLockStep,
     RecordLockStep, UnlockedReadsStep DEF IInv

THEOREM InvCorrect == Spec => []IInv
BY InvInit, InvStep, PTL DEF Spec

\* The status of an order and the status of its payment agree, whatever races.
THEOREM AgreementCorrect == Spec => []OrderAgreesWithPayment
<1>1. IInv => OrderAgreesWithPayment
  BY DEF IInv
<1>2. QED
  BY <1>1, InvCorrect, PTL

\* However many checkouts a cart owner starts at once, and whatever times out or
\* is settled meanwhile, at most one of the owner's orders awaits payment.
THEOREM OneAwaitingCorrect == Spec => []OneAwaitingOrderPerOwner
<1>1. IInv => OneAwaitingOrderPerOwner
  BY DEF IInv
<1>2. QED
  BY <1>1, InvCorrect, PTL

\* The line of an order that was never paid, cash on delivery apart, is never
\* prepared or shipped, and is cancelled when the payment fails.
THEOREM UnpaidCorrect == Spec => []UnpaidNeverFulfilled
<1>1. IInv => UnpaidNeverFulfilled
  BY DEF IInv
<1>2. QED
  BY <1>1, InvCorrect, PTL

\* A mobile-money order is placed only if the buyer approved the prompt.
THEOREM ApprovalCorrect == Spec => []PlacedOnlyIfApproved
<1>1. IInv => PlacedOnlyIfApproved
  BY DEF IInv
<1>2. QED
  BY <1>1, InvCorrect, PTL

\* The two row locks and the unlocked reads protect what the code relies on.
THEOREM LocksCorrect == Spec => [](CartLockHolds /\ RecordLockHolds /\ UnlockedReadsHold)
<1>1. IInv => CartLockHolds /\ RecordLockHolds /\ UnlockedReadsHold
  BY DEF IInv
<1>2. QED
  BY <1>1, InvCorrect, PTL

-----------------------------------------------------------------------------
\* Only an administrator's settlement of a PENDING payment records who settled it.
LEMMA SettledByStep ==
  ASSUME IInv, [Next]_vars, NEW o \in Orders, payment[o] # "PENDING"
  PROVE  settledBy'[o] = settledBy[o]
<1> USE DEF Workers, IInv, TypeOK, OrderTypes
<1>1. ASSUME NEW w \in Workers, ConfirmPayment(w) PROVE settledBy'[o] = settledBy[o]
  BY <1>1 DEF ConfirmPayment
<1>2. ASSUME NEW w \in Workers, ReleaseLines(w) PROVE settledBy'[o] = settledBy[o]
  BY <1>2 DEF ReleaseLines, RecordLockHolds
<1>3. CASE UNCHANGED settledBy
  BY <1>3
<1>4. ASSUME NEW w \in Buyers, BuyerRequest(w) PROVE UNCHANGED settledBy
  BY <1>4 DEF BuyerRequest, CheckoutStep, BeginCheckout, BeginReservation, PlaceOrder, SweepOwn,
              LockCart, Reserve, RefuseCheckout, PushAccepted, PushRefused, orderVars
<1>5. ASSUME NEW w \in Staff, StaffRequest(w)
      PROVE  ConfirmPayment(w) \/ ReleaseLines(w) \/ UNCHANGED settledBy
  BY <1>5 DEF StaffRequest, BeginAdvance, FinishAdvance, FailAdvance, BeginSettlement,
              RejectPayment, SettlementTooLate, orderVars
<1>6. CartStep \/ ShelfStep => UNCHANGED settledBy
  BY DEF CartStep, ShelfStep, AddToCart, ChangeCartLine, Reshelve, orderVars
<1>7. ProviderStep \/ TimeStep => UNCHANGED settledBy
  BY DEF ProviderStep, TimeStep, PromptArrives, BuyerDecides, Callback, TimeOut, Expire
<1>8. (\E w \in Workers : Crash(w)) \/ UNCHANGED vars => UNCHANGED settledBy
  BY DEF Crash, orderVars, vars
<1>9. QED
  BY <1>1, <1>2, <1>3, <1>4, <1>5, <1>6, <1>7, <1>8 DEF Next

\* What a step does to the money of one order: nothing, its birth, or its settlement.
LEMMA MoneyStep ==
  ASSUME IInv, StepKinds
  PROVE  \/ UNCHANGED <<payment, status, owner>>
         \/ \E w \in Workers, o \in Orders : Created(w, o)
         \/ \E o \in Orders :
              /\ payment[o] = "PENDING" /\ owner' = owner
              /\ \/ /\ payment' = [payment EXCEPT ![o] = "SUCCEEDED"]
                    /\ status' = [status EXCEPT ![o] = "PLACED"]
                 \/ /\ payment' = [payment EXCEPT ![o] = "FAILED"]
                    /\ status' = [status EXCEPT ![o] = "PAYMENT_FAILED"]
<1>1. ASSUME Quiet PROVE UNCHANGED <<payment, status, owner>>
  BY <1>1 DEF Quiet
<1>2. ASSUME NEW w \in Workers, FinishAdvance(w) PROVE UNCHANGED <<payment, status, owner>>
  BY <1>2 DEF FinishAdvance
<1>3. ASSUME NEW o \in Orders, Paid(o)
      PROVE  /\ payment[o] = "PENDING" /\ owner' = owner
             /\ payment' = [payment EXCEPT ![o] = "SUCCEEDED"]
             /\ status' = [status EXCEPT ![o] = "PLACED"]
  BY <1>3 DEF Paid, SettledFree, SettlePaid
<1>4. ASSUME NEW o \in Orders, Failed(o)
      PROVE  /\ payment[o] = "PENDING" /\ owner' = owner
             /\ payment' = [payment EXCEPT ![o] = "FAILED"]
             /\ status' = [status EXCEPT ![o] = "PAYMENT_FAILED"]
  BY <1>4 DEF Failed, SettledFree, SettleFailed
<1>5. ASSUME NEW w \in Workers, ReleaseLines(w)
      PROVE  \E o \in Orders :
               /\ payment[o] = "PENDING" /\ owner' = owner
               /\ payment' = [payment EXCEPT ![o] = "FAILED"]
               /\ status' = [status EXCEPT ![o] = "PAYMENT_FAILED"]
  <2>1. req[w].order \in Orders /\ payment[req[w].order] = "PENDING"
    BY <1>5, RequestShape DEF ReleaseLines, IInv, TypeOK, RecordLockHolds
  <2>2. QED
    BY <1>5, <2>1 DEF ReleaseLines, SettleFailed
<1>6. QED
  BY <1>1, <1>2, <1>3, <1>4, <1>5 DEF StepKinds

\* complete_payment is idempotent: once a payment succeeded or failed, no repeated
\* callback, expiry sweep, refused push or administrator changes it, its order or
\* who settled it.
THEOREM SettledOnce == Spec => SettledForGood
<1> DEFINE Kept == \A o \in Orders : payment[o] \in {"SUCCEEDED", "FAILED"} =>
                     UNCHANGED <<payment[o], status[o], settledBy[o]>>
<1>1. IInv /\ [Next]_vars => [Kept]_vars
  <2> SUFFICES ASSUME IInv, [Next]_vars, NEW o \in Orders, payment[o] \in {"SUCCEEDED", "FAILED"}
               PROVE  UNCHANGED <<payment[o], status[o], settledBy[o]>>
    OBVIOUS
  <2>1. settledBy'[o] = settledBy[o]
    BY SettledByStep
  <2>2. ASSUME NEW w \in Workers, NEW n \in Orders, Created(w, n)
        PROVE  payment'[o] = payment[o] /\ status'[o] = status[o]
    <3>1. /\ \E x : payment' = [payment EXCEPT ![n] = x]
          /\ \E x : status' = [status EXCEPT ![n] = x]
      BY <2>2 DEF Created, CreateOrder
    <3>2. n # o
      BY <2>2 DEF Created, IInv, OrderAgreesWithPayment
    <3>3. QED
      BY <3>1, <3>2 DEF IInv, TypeOK, OrderTypes
  <2>3. ASSUME NEW n \in Orders, payment[n] = "PENDING",
               \/ /\ payment' = [payment EXCEPT ![n] = "SUCCEEDED"]
                  /\ status' = [status EXCEPT ![n] = "PLACED"]
               \/ /\ payment' = [payment EXCEPT ![n] = "FAILED"]
                  /\ status' = [status EXCEPT ![n] = "PAYMENT_FAILED"]
        PROVE  payment'[o] = payment[o] /\ status'[o] = status[o]
    BY <2>3 DEF IInv, TypeOK, OrderTypes
  <2>4. payment'[o] = payment[o] /\ status'[o] = status[o]
    BY <2>2, <2>3, StepClassified, MoneyStep
  <2>5. QED
    BY <2>1, <2>4
<1>2. QED
  BY <1>1, InvCorrect, PTL DEF Spec, SettledForGood

-----------------------------------------------------------------------------
(* The cart of a payment that fails.                                        *)

\* A payment that fails takes nothing out of a cart, whether a callback, a
\* sweep, a refused push or an administrator fails it: the failing branch of
\* complete_payment is the only one that writes FAILED.
THEOREM FailureSparesCarts == Spec => FailureKeepsCarts
<1> DEFINE Fails == \E o \in Orders : payment[o] = "PENDING" /\ payment'[o] = "FAILED"
<1>1. ASSUME IInv, [Next]_vars, Fails PROVE UNCHANGED cart
  <2> USE DEF IInv, TypeOK, OrderTypes
  <2>1. ASSUME NEW w \in Workers, NEW n \in Orders, Created(w, n) PROVE ~Fails
    <3>1. \E x \in {"PENDING", "SUCCEEDED"} : payment' = [payment EXCEPT ![n] = x]
      BY <2>1 DEF Created, CreateOrder
    <3>2. QED
      BY <3>1
  <2>2. ASSUME NEW n \in Orders, Paid(n) PROVE ~Fails
    BY <2>2 DEF Paid, SettledFree, SettlePaid
  <2>3. ASSUME NEW w \in Workers, FinishAdvance(w) PROVE UNCHANGED cart
    BY <2>3 DEF FinishAdvance
  <2>4. ASSUME NEW n \in Orders, Failed(n) PROVE UNCHANGED cart
    BY <2>4 DEF Failed, SettleFailed
  <2>5. ASSUME NEW w \in Workers, ReleaseLines(w) PROVE UNCHANGED cart
    BY <2>5 DEF ReleaseLines, SettleFailed
  <2>6. Quiet => ~Fails
    BY DEF Quiet
  <2>7. QED
    BY <1>1, <2>1, <2>2, <2>3, <2>4, <2>5, <2>6, StepClassified DEF StepKinds
<1>2. IInv /\ [Next]_vars => [Fails => UNCHANGED cart]_vars
  BY <1>1
<1>3. QED
  BY <1>2, InvCorrect, PTL DEF Spec, FailureKeepsCarts

-----------------------------------------------------------------------------
(* The audit trail.                                                         *)

\* No administrator has two settlements of one order in flight at once.
NoRivalSettlements ==
  \A v, w \in Workers :
    (/\ req[v].op \in {"settle", "release"} /\ req[w].op \in {"settle", "release"}
     /\ req[v].order = req[w].order /\ req[v].admin = req[w].admin) => v = w

\* Who settled a payment is recorded when it is settled, and a settlement still
\* in flight is not the one that was recorded.
SettlerKnown ==
  /\ \A o \in Orders : payment[o] \in {"NONE", "PENDING"} => settledBy[o] = NoAdmin
  /\ \A w \in Workers : req[w].op = "settle" => settledBy[req[w].order] # req[w].admin

AuditInv == IInv /\ SettlerKnown /\ AuditAgreesWithPayment

AuditKept == UNCHANGED <<settledBy, audited>>

\* The steps that write the record's settler or the audit log.
LEMMA AuditSteps ==
  ASSUME [Next]_vars
  PROVE  \/ AuditKept
         \/ \E w \in Staff : ConfirmPayment(w) \/ ReleaseLines(w) \/ SettlementTooLate(w)
<1> USE DEF Workers
<1>1. ASSUME NEW w \in Buyers, BuyerRequest(w) PROVE AuditKept
  BY <1>1 DEF AuditKept, BuyerRequest, CheckoutStep, BeginCheckout, BeginReservation, PlaceOrder,
              SweepOwn, LockCart, Reserve, RefuseCheckout, PushAccepted, PushRefused, orderVars
<1>2. ASSUME NEW w \in Staff, StaffRequest(w)
      PROVE  ConfirmPayment(w) \/ ReleaseLines(w) \/ SettlementTooLate(w) \/ AuditKept
  BY <1>2 DEF AuditKept, StaffRequest, BeginAdvance, FinishAdvance, FailAdvance, BeginSettlement,
              RejectPayment, orderVars
<1>3. CartStep \/ ShelfStep => AuditKept
  BY DEF AuditKept, CartStep, ShelfStep, AddToCart, ChangeCartLine, Reshelve, orderVars
<1>4. ProviderStep \/ TimeStep => AuditKept
  BY DEF AuditKept, ProviderStep, TimeStep, PromptArrives, BuyerDecides, Callback, TimeOut, Expire
<1>5. (\E w \in Workers : Crash(w)) \/ UNCHANGED vars => AuditKept
  BY DEF AuditKept, Crash, orderVars, vars
<1>6. QED
  BY <1>1, <1>2, <1>3, <1>4, <1>5 DEF Next

\* Who is settling by hand after a step was already, or has just read a PENDING record.
LEMMA SettlementsInFlight ==
  ASSUME IInv, [Next]_vars, NEW v \in Workers, req'[v].op = "settle"
  PROVE  \/ req'[v] = req[v]
         \/ /\ req'[v].order \in Orders /\ req'[v].admin \in Admins
            /\ payment[req'[v].order] = "PENDING" /\ AuditKept
<1> USE DEF IInv, TypeOK
<1>1. CASE NoNewClaims
  BY <1>1 DEF NoNewClaims
<1>2. ASSUME NEW w \in Workers, Claim(w), v # w PROVE req'[v] = req[v]
  BY <1>2, ClaimShape
<1>3. ASSUME NEW w \in Workers, LockCart(w) \/ RejectPayment(w), v = w PROVE FALSE
  BY <1>3 DEF LockCart, RejectPayment, Continue
<1>4. ASSUME NEW w \in Workers, NEW o \in Orders, NEW p \in Products, NEW to \in LineStatus,
             BeginAdvance(w, o, p, to), v = w
      PROVE  FALSE
  BY <1>4 DEF BeginAdvance, Continue
<1>5. ASSUME NEW w \in Workers, NEW a \in Admins, NEW o \in Orders, NEW confirm \in BOOLEAN,
             BeginSettlement(w, a, o, confirm), v = w
      PROVE  /\ req'[v].order \in Orders /\ req'[v].admin \in Admins
             /\ payment[req'[v].order] = "PENDING" /\ AuditKept
  BY <1>5 DEF BeginSettlement, Continue, AuditKept, orderVars
<1>6. NoNewClaims \/ \E w \in Workers : Claim(w)
  BY StepClassified DEF StepKinds, Paid, Failed, SettledFree
<1>7. QED
  BY <1>1, <1>2, <1>3, <1>4, <1>5, <1>6 DEF Claim

\* What the audit log already says stays true: a settled payment never changes.
LEMMA SettledStays ==
  ASSUME IInv, [Next]_vars, NEW o \in Orders, payment[o] \in {"SUCCEEDED", "FAILED"}
  PROVE  payment'[o] = payment[o]
<1> USE DEF IInv, TypeOK, OrderTypes
<1>1. ASSUME NEW w \in Workers, NEW n \in Orders, Created(w, n) PROVE payment'[o] = payment[o]
  <2>1. n # o
    BY <1>1 DEF Created, OrderAgreesWithPayment
  <2>2. \E x : payment' = [payment EXCEPT ![n] = x]
    BY <1>1 DEF Created, CreateOrder
  <2>3. QED
    BY <2>1, <2>2
<1>2. QED
  BY <1>1, StepClassified, MoneyStep

\* A payment settled by a step was pending: nothing else creates a FAILED record,
\* and only a card is paid at once.
LEMMA UnsettledBefore ==
  ASSUME IInv, [Next]_vars, NEW o \in Orders, payment'[o] \in {"NONE", "PENDING"}
  PROVE  payment[o] \in {"NONE", "PENDING"}
BY SettledStays DEF IInv, TypeOK, OrderTypes

\* A request in flight is not the settlement that a step records.
LEMMA SettlerStep ==
  ASSUME AuditInv, NoRivalSettlements, [Next]_vars
  PROVE  SettlerKnown'
<1> USE DEF AuditInv, IInv, TypeOK, OrderTypes
<1>1. ASSUME NEW o \in Orders, payment'[o] \in {"NONE", "PENDING"} PROVE settledBy'[o] = NoAdmin
  <2>1. settledBy[o] = NoAdmin
    BY <1>1, UnsettledBefore DEF SettlerKnown
  <2>2. ASSUME NEW w \in Staff, ConfirmPayment(w) PROVE settledBy'[o] = NoAdmin
    <3>1. req[w].order # o
      BY <1>1, <2>2 DEF ConfirmPayment, SettlePaid
    <3>2. QED
      BY <2>1, <2>2, <3>1 DEF ConfirmPayment
  <2>3. ASSUME NEW w \in Staff, ReleaseLines(w) PROVE settledBy'[o] = NoAdmin
    <3>1. req[w].order # o
      BY <1>1, <2>3 DEF ReleaseLines, SettleFailed
    <3>2. QED
      BY <2>1, <2>3, <3>1 DEF ReleaseLines
  <2>4. ASSUME NEW w \in Staff, SettlementTooLate(w) PROVE settledBy' = settledBy
    BY <2>4 DEF SettlementTooLate
  <2>5. QED
    BY <2>1, <2>2, <2>3, <2>4, AuditSteps DEF AuditKept
<1>2. ASSUME NEW v \in Workers, req'[v].op = "settle"
      PROVE  settledBy'[req'[v].order] # req'[v].admin
  <2>1. CASE AuditKept /\ req'[v] # req[v]
    BY <1>2, <2>1, SettlementsInFlight, NoneAssumption DEF AuditKept, SettlerKnown
  <2>2. CASE AuditKept /\ req'[v] = req[v]
    BY <1>2, <2>2 DEF AuditKept, SettlerKnown
  <2>3. ASSUME NEW w \in Staff, ConfirmPayment(w) \/ ReleaseLines(w)
        PROVE  settledBy'[req'[v].order] # req'[v].admin
    <3>1. /\ req[w].op \in {"settle", "release"} /\ req' = [req EXCEPT ![w] = Idle]
          /\ settledBy' = [settledBy EXCEPT ![req[w].order] = req[w].admin]
      BY <2>3 DEF ConfirmPayment, ReleaseLines, Continue
    <3>2. v # w /\ req'[v] = req[v]
      BY <1>2, <3>1 DEF Idle, Workers
    <3>3. req[v].order = req[w].order => req[v].admin # req[w].admin
      BY <1>2, <3>1, <3>2 DEF NoRivalSettlements, Workers
    <3>4. req[v].order \in Orders /\ settledBy[req[v].order] # req[v].admin
      BY <1>2, <3>2, RequestShape DEF SettlerKnown
    <3>5. QED
      BY <3>1, <3>2, <3>3, <3>4
  <2>4. ASSUME NEW w \in Staff, SettlementTooLate(w)
        PROVE  settledBy'[req'[v].order] # req'[v].admin
    <3>1. settledBy' = settledBy /\ req' = [req EXCEPT ![w] = Idle]
      BY <2>4 DEF SettlementTooLate, Continue
    <3>2. v # w /\ req'[v] = req[v]
      BY <1>2, <3>1 DEF Idle, Workers
    <3>3. QED
      BY <1>2, <3>1, <3>2 DEF SettlerKnown
  <2>5. QED
    BY <2>1, <2>2, <2>3, <2>4, AuditSteps
<1>3. QED
  BY <1>1, <1>2 DEF SettlerKnown

\* A row is added with the settlement it reports, and by nobody else: a request
\* that comes too late was not recorded as the settler, so it is refused.
LEMMA AuditTrailStep ==
  ASSUME AuditInv, [Next]_vars
  PROVE  AuditAgreesWithPayment'
<1> USE DEF AuditInv, IInv, TypeOK, OrderTypes
<1> SUFFICES ASSUME NEW o \in Orders
             PROVE  /\ <<o, TRUE>> \in audited' => payment'[o] = "SUCCEEDED"
                    /\ <<o, FALSE>> \in audited' => payment'[o] = "FAILED"
  BY DEF AuditAgreesWithPayment
<1>1. /\ <<o, TRUE>> \in audited => payment'[o] = "SUCCEEDED"
      /\ <<o, FALSE>> \in audited => payment'[o] = "FAILED"
  BY SettledStays DEF AuditAgreesWithPayment
<1>2. ASSUME NEW w \in Staff, ConfirmPayment(w)
      PROVE  /\ <<o, TRUE>> \in audited' => payment'[o] = "SUCCEEDED"
             /\ <<o, FALSE>> \in audited' => payment'[o] = "FAILED"
  <2>1. /\ audited' = audited \cup {<<req[w].order, TRUE>>}
        /\ payment' = [payment EXCEPT ![req[w].order] = "SUCCEEDED"]
    BY <1>2 DEF ConfirmPayment, SettlePaid
  <2>2. QED
    BY <1>1, <2>1
<1>3. ASSUME NEW w \in Staff, ReleaseLines(w)
      PROVE  /\ <<o, TRUE>> \in audited' => payment'[o] = "SUCCEEDED"
             /\ <<o, FALSE>> \in audited' => payment'[o] = "FAILED"
  <2>1. /\ audited' = audited \cup {<<req[w].order, FALSE>>}
        /\ payment' = [payment EXCEPT ![req[w].order] = "FAILED"]
    BY <1>3 DEF ReleaseLines, SettleFailed
  <2>2. QED
    BY <1>1, <2>1
<1>4. ASSUME NEW w \in Staff, SettlementTooLate(w) PROVE audited' = audited
  BY <1>4 DEF SettlementTooLate, SettlerKnown, Workers
<1>5. QED
  BY <1>1, <1>2, <1>3, <1>4, AuditSteps DEF AuditKept

\* As long as no administrator has two settlements of one order in flight, what
\* the audit log says of a manual settlement is what happened to the payment,
\* whatever other administrators, callbacks, sweeps and crashes come by.
THEOREM AuditCorrectUnlessRivals ==
  Spec /\ []NoRivalSettlements => []AuditAgreesWithPayment
<1>1. Init => SettlerKnown /\ AuditAgreesWithPayment
  BY DEF Init, Idle, SettlerKnown, AuditAgreesWithPayment
<1>2. AuditInv /\ NoRivalSettlements /\ [Next]_vars => AuditInv'
  <2> SUFFICES ASSUME AuditInv, NoRivalSettlements, [Next]_vars PROVE AuditInv'
    OBVIOUS
  <2>1. IInv'
    BY InvStep DEF AuditInv
  <2>2. QED
    BY <2>1, SettlerStep, AuditTrailStep DEF AuditInv
<1>3. AuditInv => AuditAgreesWithPayment
  BY DEF AuditInv
<1>4. Init => AuditInv
  BY <1>1, InvInit DEF AuditInv
<1>5. QED
  BY <1>2, <1>3, <1>4, PTL DEF Spec

\* The back office has one request in flight at a time.
OneClerk == \A v, w \in Staff : v = w

\* Only the back office advances lines and settles payments by hand.
OfficeRequests == \A w \in Workers : req[w].op \in {"advance", "settle", "release"} => w \in Staff

LEMMA OfficeStep ==
  ASSUME TypeOK, OfficeRequests, [Next]_vars
  PROVE  OfficeRequests'
<1> USE DEF Workers, TypeOK, OfficeRequests
<1>1. ASSUME NEW w \in Buyers, BuyerRequest(w)
      PROVE  req'[w].op \notin {"advance", "settle", "release"}
             /\ \A v \in Workers \ {w} : req'[v] = req[v]
  <2>1. ASSUME NEW c \in Carts, NEW m \in Methods, BeginCheckout(w, c, m) \/ BeginReservation(w, c, m)
        PROVE  \E r : Continue(w, r) /\ r.op \in {"order", "sweep"}
    BY <2>1 DEF BeginCheckout, BeginReservation
  <2>2. ASSUME NEW o \in Orders, SweepOwn(w, o)
        PROVE  \E r : Continue(w, r) /\ r.op = "sweep"
    <3>1. [req[w] EXCEPT !.todo = @ \ {o}].op = "sweep"
      BY <2>2, RequestShape DEF SweepOwn
    <3>2. QED
      BY <2>2, <3>1 DEF SweepOwn
  <2>3. CASE LockCart(w)
    BY <2>3 DEF LockCart, Continue
  <2>4. ASSUME Reserve(w) PROVE \E r : Continue(w, r) /\ r.op \in {"push", "idle"}
    <3>1. PICK o \in Orders :
            Continue(w, IF req[w].method = "mobile_money" THEN [op |-> "push", order |-> o]
                                                          ELSE Idle)
      BY <2>4 DEF Reserve
    <3>2. QED
      BY <3>1 DEF Idle
  <2>5. CASE PlaceOrder(w) \/ RefuseCheckout(w) \/ PushAccepted(w) \/ PushRefused(w)
    BY <2>5 DEF PlaceOrder, RefuseCheckout, PushAccepted, PushRefused, Continue, Idle
  <2>6. QED
    BY <1>1, <2>1, <2>2, <2>3, <2>4, <2>5 DEF BuyerRequest, CheckoutStep, Continue
<1>2. ASSUME NEW w \in Staff, StaffRequest(w) PROVE \E r : Continue(w, r)
  BY <1>2 DEF StaffRequest, BeginAdvance, FinishAdvance, FailAdvance, BeginSettlement,
              ConfirmPayment, RejectPayment, ReleaseLines, SettlementTooLate
<1>3. CartStep \/ ShelfStep \/ ProviderStep \/ TimeStep \/ UNCHANGED vars => UNCHANGED req
  BY DEF CartStep, ShelfStep, ProviderStep, TimeStep, AddToCart, ChangeCartLine, Reshelve,
         PromptArrives, BuyerDecides, Callback, TimeOut, Expire, vars
<1>4. ASSUME NEW w \in Workers, Crash(w) PROVE req' = [req EXCEPT ![w] = Idle]
  BY <1>4 DEF Crash, Continue
<1>5. QED
  BY <1>1, <1>2, <1>3, <1>4 DEF Next, Continue, Idle

LEMMA OfficeCorrect == Spec => []OfficeRequests
<1>1. Init => OfficeRequests
  BY DEF Init, Idle, OfficeRequests
<1>2. QED
  BY <1>1, OfficeStep, TypeCorrect, PTL DEF Spec

\* So the audit log of an office with one request at a time is always right.
THEOREM AuditCorrectForOneClerk ==
  ASSUME OneClerk PROVE Spec => []AuditAgreesWithPayment
<1>1. OfficeRequests => NoRivalSettlements
  BY DEF OneClerk, OfficeRequests, NoRivalSettlements
<1>2. QED
  BY <1>1, OfficeCorrect, AuditCorrectUnlessRivals, PTL

-----------------------------------------------------------------------------
(* Refinement.                                                              *)

LEMMA LifecycleInit == Init => Lifecycle!Init
BY DEF Init, Lifecycle!Init, Phase

LEMMA PhaseFollows ==
  ASSUME IInv, NEW o \in Orders, NEW x, NEW y,
         payment' = [payment EXCEPT ![o] = x], status' = [status EXCEPT ![o] = y]
  PROVE  [n \in Orders |-> Phase(n)]' =
           [[n \in Orders |-> Phase(n)] EXCEPT ![o] = Phase(o)']
<1>1. ASSUME NEW n \in Orders, n # o PROVE Phase(n)' = Phase(n)
  <2>1. payment'[n] = payment[n] /\ status'[n] = status[n]
    BY <1>1 DEF IInv, TypeOK, OrderTypes
  <2>2. QED
    BY <2>1 DEF Phase
<1>2. QED
  BY <1>1, Zenon

\* A step of checkout or settlement is a birth or a settlement of one order in the
\* lifecycle, or none; a reservation finds no other one of its owner.
LEMMA LifecycleStep ==
  ASSUME IInv, [Next]_vars
  PROVE  [Lifecycle!Next]_<<[o \in Orders |-> Phase(o)], owner>>
<1> DEFINE phases == [o \in Orders |-> Phase(o)]
<1> USE DEF IInv, TypeOK, OrderTypes
<1>1. CASE UNCHANGED <<payment, status, owner>>
  BY <1>1 DEF Phase
<1>2. ASSUME NEW w \in Workers, NEW o \in Orders, Created(w, o) PROVE Lifecycle!Next
  <2> DEFINE c == req[w].cart
  <2>1. c \in Carts /\ (req[w].op = "order" => req[w].method \in ImmediateMethods)
    BY <1>2, RequestShape DEF Created
  <2>2. Phase(o) = "unused" /\ owner' = [owner EXCEPT ![o] = c]
    BY <1>2 DEF Created, CreateOrder, OrderAgreesWithPayment, Phase
  <2>3. CASE req[w].op = "reserve"
    <3>1. /\ payment' = [payment EXCEPT ![o] = "PENDING"]
          /\ status' = [status EXCEPT ![o] = "AWAITING_PAYMENT"]
      BY <1>2, <2>3 DEF Created, CreateOrder
    <3>2. phases' = [phases EXCEPT ![o] = "reserved"]
      BY <3>1, PhaseFollows DEF Phase
    <3>3. Lifecycle!Reserved(c) = {}
      <4>1. Awaiting(c) = {}
        BY <2>3 DEF CartLockHolds
      <4>2. QED
        BY <4>1 DEF Lifecycle!Reserved, Phase, Awaiting, Owned, OrderAgreesWithPayment
    <3>4. Lifecycle!Reserve(o, c)
      BY <2>2, <3>2, <3>3 DEF Lifecycle!Reserve, Lifecycle!Born
    <3>5. QED
      BY <2>1, <3>4 DEF Lifecycle!Next
  <2>4. CASE req[w].op = "order"
    <3>1. /\ payment' = [payment EXCEPT ![o] = IF req[w].method = "card" THEN "SUCCEEDED"
                                                                        ELSE "PENDING"]
          /\ status' = [status EXCEPT ![o] = "PLACED"]
      BY <1>2, <2>4 DEF Created, CreateOrder
    <3>2. Phase(o)' \in {"due", "paid"}
      BY <3>1 DEF Phase
    <3>3. phases' = [phases EXCEPT ![o] = Phase(o)']
      BY <3>1, PhaseFollows
    <3>4. Lifecycle!Place(o, c)
      BY <2>2, <3>2, <3>3 DEF Lifecycle!Place, Lifecycle!Born
    <3>5. QED
      BY <2>1, <3>4 DEF Lifecycle!Next
  <2>5. QED
    BY <1>2, <2>3, <2>4 DEF Created
<1>3. ASSUME NEW o \in Orders, payment[o] = "PENDING", owner' = owner,
             \/ /\ payment' = [payment EXCEPT ![o] = "SUCCEEDED"]
                /\ status' = [status EXCEPT ![o] = "PLACED"]
             \/ /\ payment' = [payment EXCEPT ![o] = "FAILED"]
                /\ status' = [status EXCEPT ![o] = "PAYMENT_FAILED"]
      PROVE  Lifecycle!Next
  <2>1. Phase(o) \in {"reserved", "due"} /\ Phase(o)' \in {"paid", "failed"}
    BY <1>3 DEF Phase
  <2>2. phases' = [phases EXCEPT ![o] = Phase(o)']
    BY <1>3, PhaseFollows
  <2>3. Lifecycle!Settle(o)
    BY <1>3, <2>1, <2>2 DEF Lifecycle!Settle
  <2>4. QED
    BY <2>3 DEF Lifecycle!Next
<1>4. QED
  BY <1>1, <1>2, <1>3, StepClassified, MoneyStep

\* Checkout and settlement implement the lifecycle: an order is born reserved, due
\* or paid, settled once, and an owner never has two reserved orders.
THEOREM Refinement == Spec => ImplementsLifecycle
BY LifecycleInit, LifecycleStep, InvCorrect, PTL DEF Spec, ImplementsLifecycle, Lifecycle!Spec
=============================================================================
