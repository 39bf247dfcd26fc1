-------------------------- MODULE OrderStockProofs --------------------------
(***************************************************************************)
(* Theorems about the stock account, for every set of products, orders and *)
(* concurrent requests: units are never lost, and none is counted twice    *)
(* unless a back-office request acts on a line it read before another one  *)
(* moved it.                                                               *)
(***************************************************************************)
EXTENDS OrderPaymentsProofs, OrderStock, FiniteSetTheorems

-----------------------------------------------------------------------------
(* Counting the units that orders hold.                                     *)

UnitsOf(f) == {unit \in Orders \X (1..MaxQty) : unit[2] <= f[unit[1]]}

LEMMA UnitsSplit ==
  ASSUME NEW f \in [Orders -> 0..MaxQty], NEW o \in Orders
  PROVE  LET others == {unit \in UnitsOf(f) : unit[1] # o}
         IN  /\ IsFiniteSet(others) /\ Cardinality(others) \in Nat
             /\ Cardinality(UnitsOf(f)) = Cardinality(others) + f[o]
<1> DEFINE others == {unit \in UnitsOf(f) : unit[1] # o}
           own    == {o} \X (1..f[o])
<1> USE StockAssumption
<1>1. IsFiniteSet(Orders \X (1..MaxQty))
  <2>1. IsFiniteSet(1..MaxQty)
    BY FS_Interval
  <2>2. QED
    BY <2>1, OrdersAssumption, FS_Product
<1>2. others \in SUBSET (Orders \X (1..MaxQty))
  BY DEF UnitsOf
<1>3. IsFiniteSet(others) /\ Cardinality(others) \in Nat
  BY <1>1, <1>2, FS_Subset, FS_CardinalityType
<1>4. IsFiniteSet(own) /\ Cardinality(own) = f[o]
  <2>1. IsFiniteSet({o}) /\ Cardinality({o}) = 1
    BY FS_Singleton
  <2>2. IsFiniteSet(1..f[o]) /\ Cardinality(1..f[o]) = f[o]
    BY FS_Interval
  <2>3. QED
    BY <2>1, <2>2, FS_Product
<1>5. UnitsOf(f) = others \cup own
  BY DEF UnitsOf
<1>6. others \cap own = {}
  OBVIOUS
<1>7. Cardinality(others \cup own) = Cardinality(others) + Cardinality(own) - Cardinality({})
  BY <1>3, <1>4, <1>6, FS_Union
<1>8. QED
  BY <1>3, <1>4, <1>5, <1>7, FS_EmptySet

\* When the lines of one order change, the units held change by what it holds.
LEMMA HeldChange ==
  ASSUME TypeOK, TypeOK', NEW p \in Products, NEW o \in Orders,
         \A n \in Orders \ {o} : line'[n][p] = line[n][p]
  PROVE  /\ Held(p) \in Nat /\ HeldBy(o, p) \in Nat
         /\ Held(p)' \in Nat /\ HeldBy(o, p)' \in Nat
         /\ Held(p)' + HeldBy(o, p) = Held(p) + HeldBy(o, p)'
<1> DEFINE f == [n \in Orders |-> HeldBy(n, p)]
           g == [n \in Orders |-> HeldBy(n, p)']
<1> USE StockAssumption
<1>1. f \in [Orders -> 0..MaxQty]
  BY DEF TypeOK, OrderTypes, HeldBy
<1>2. g \in [Orders -> 0..MaxQty]
  BY DEF TypeOK, OrderTypes, HeldBy
<1>3. Held(p) = Cardinality(UnitsOf(f))
  <2>1. UnitsOf(f) = {unit \in Orders \X (1..MaxQty) : unit[2] <= HeldBy(unit[1], p)}
    BY DEF UnitsOf
  <2>2. QED
    BY <2>1 DEF Held
<1>4. Held(p)' = Cardinality(UnitsOf(g))
  <2>1. UnitsOf(g) = {unit \in Orders \X (1..MaxQty) : unit[2] <= HeldBy(unit[1], p)'}
    BY DEF UnitsOf
  <2>2. QED
    BY <2>1 DEF Held
<1>5. \A n \in Orders \ {o} : f[n] = g[n]
  BY DEF HeldBy, OpenLines
<1>6. f[o] = HeldBy(o, p) /\ g[o] = HeldBy(o, p)'
  OBVIOUS
<1> HIDE DEF f, g
<1>7. {unit \in UnitsOf(f) : unit[1] # o} = {unit \in UnitsOf(g) : unit[1] # o}
  BY <1>5 DEF UnitsOf
<1>8. PICK k \in Nat : /\ Cardinality(UnitsOf(f)) = k + f[o]
                       /\ Cardinality(UnitsOf(g)) = k + g[o]
  BY <1>1, <1>2, <1>7, UnitsSplit
<1>9. f[o] \in Nat /\ g[o] \in Nat
  BY <1>1, <1>2
<1>10. QED
  BY <1>3, <1>4, <1>6, <1>8, <1>9

-----------------------------------------------------------------------------
(* Orders that fail by themselves: never cash on delivery.                  *)

Async(o) == status[o] # "NONE" /\ method[o] # "cod"

\* What is waiting to fail an order without an administrator, a timeout, a sweep
\* that listed it, a push in flight or a prompt on a phone, is about an order
\* that is not cash on delivery.
AsyncOnly ==
  /\ \A o \in stale : Async(o)
  /\ \A o \in Orders : prompt[o] # "none" => Async(o)
  /\ \A w \in Workers : /\ req[w].op = "sweep" => \A o \in req[w].todo : Async(o)
                        /\ req[w].op = "push" => Async(req[w].order)

\* An id that no order has used yet holds nothing.
EmptyUnborn == \A o \in Orders, p \in Products : status[o] = "NONE" => line[o][p].qty = 0

StockInv == IInv /\ AsyncOnly /\ EmptyUnborn

\* Once an order exists, its method never changes and it never disappears.
LEMMA AsyncStays ==
  ASSUME IInv, [Next]_vars, NEW o \in Orders, Async(o)
  PROVE  Async(o)'
<1> USE DEF IInv, TypeOK, OrderTypes, Async
<1>1. ASSUME NEW w \in Workers, NEW n \in Orders, Created(w, n) PROVE Async(o)'
  <2>1. n # o
    BY <1>1 DEF Created
  <2>2. (\E x : status' = [status EXCEPT ![n] = x]) /\ (\E x : method' = [method EXCEPT ![n] = x])
    BY <1>1 DEF Created, CreateOrder
  <2>3. QED
    BY <2>1, <2>2
<1>2. Quiet => Async(o)'
  BY DEF Quiet
<1>3. ASSUME NEW w \in Workers, FinishAdvance(w) PROVE Async(o)'
  BY <1>3 DEF FinishAdvance
<1>4. ASSUME NEW n \in Orders, Paid(n) PROVE Async(o)'
  BY <1>4 DEF Paid, SettledFree, SettlePaid
<1>5. ASSUME NEW n \in Orders, Failed(n) PROVE Async(o)'
  BY <1>5 DEF Failed, SettledFree, SettleFailed
<1>6. ASSUME NEW w \in Workers, ReleaseLines(w) PROVE Async(o)'
  BY <1>6 DEF ReleaseLines, SettleFailed
<1>7. QED
  BY <1>1, <1>2, <1>3, <1>4, <1>5, <1>6, StepClassified DEF StepKinds

LEMMA StatusStays ==
  ASSUME IInv, [Next]_vars, NEW o \in Orders, status'[o] = "NONE"
  PROVE  status[o] = "NONE"
<1> USE DEF IInv, TypeOK, OrderTypes
<1>1. ASSUME NEW w \in Workers, NEW n \in Orders, Created(w, n) PROVE status[o] = "NONE"
  <2>1. \E x : status' = [status EXCEPT ![n] = x]
    BY <1>1 DEF Created, CreateOrder
  <2>2. QED
    BY <1>1, <2>1 DEF Created
<1>2. QED
  BY <1>1, StepClassified, MoneyStep

\* What a step can do to the timeouts and the prompts.
LEMMA TimersStep ==
  ASSUME [Next]_vars, NEW o \in Orders
  PROVE  /\ o \in stale' => o \in stale \/ TimeOut(o)
         /\ prompt'[o] # "none" => prompt[o] # "none" \/ PromptArrives(o)
<1> DEFINE Timers == UNCHANGED <<stale, prompt>>
<1>1. ASSUME NEW w \in Buyers, BuyerRequest(w) PROVE Timers
  BY <1>1 DEF BuyerRequest, CheckoutStep, BeginCheckout, BeginReservation, PlaceOrder,
              SweepOwn, LockCart, Reserve, RefuseCheckout, PushAccepted, PushRefused, orderVars
<1>2. ASSUME NEW w \in Staff, StaffRequest(w) PROVE Timers
  BY <1>2 DEF StaffRequest, BeginAdvance, FinishAdvance, FailAdvance, BeginSettlement,
              ConfirmPayment, RejectPayment, ReleaseLines, SettlementTooLate, orderVars
<1>3. CartStep \/ ShelfStep => Timers
  BY DEF CartStep, ShelfStep, AddToCart, ChangeCartLine, Reshelve, orderVars
<1>4. (\E w \in Workers : Crash(w)) \/ UNCHANGED vars => Timers
  BY DEF Crash, orderVars, vars
<1>5. ASSUME NEW n \in Orders, Callback(n) \/ Expire(n) PROVE Timers
  BY <1>5 DEF Callback, Expire
<1>6. ASSUME NEW n \in Orders, NEW d \in {"approved", "rejected"}, BuyerDecides(n, d)
      PROVE  stale' = stale /\ (prompt'[o] # "none" => prompt[o] # "none")
  BY <1>6 DEF BuyerDecides
<1>7. ASSUME NEW n \in Orders, PromptArrives(n)
      PROVE  stale' = stale /\ (n = o \/ prompt'[o] = prompt[o])
  BY <1>7 DEF PromptArrives
<1>8. ASSUME NEW n \in Orders, TimeOut(n)
      PROVE  prompt' = prompt /\ (n = o \/ (o \in stale' => o \in stale))
  BY <1>8 DEF TimeOut
<1>9. QED
  BY <1>1, <1>2, <1>3, <1>4, <1>5, <1>6, <1>7, <1>8 DEF Next, ProviderStep, TimeStep

\* The steps after which a request is sweeping, or pushing, as it was not before.
LEMMA CheckoutRequests ==
  ASSUME TypeOK, [Next]_vars, NEW v \in Workers, req'[v].op \in {"sweep", "push"}
  PROVE  \/ req'[v] = req[v]
         \/ \E c \in Carts, m \in Methods : BeginReservation(v, c, m)
         \/ \E o \in Orders : SweepOwn(v, o)
         \/ Reserve(v)
<1> DEFINE Goal == \/ req'[v] = req[v]
                   \/ \E c \in Carts, m \in Methods : BeginReservation(v, c, m)
                   \/ \E o \in Orders : SweepOwn(v, o)
                   \/ Reserve(v)
<1> USE DEF Workers, TypeOK
<1>1. ASSUME NEW w \in Workers, NEW r, Continue(w, r), v # w \/ r.op \notin {"sweep", "push"}
      PROVE  req'[v] = req[v]
  BY <1>1 DEF Continue
<1>2. ASSUME NEW w \in Buyers, BuyerRequest(w) PROVE Goal
  <2>1. ASSUME NEW c \in Carts, NEW m \in Methods, BeginCheckout(w, c, m) PROVE Goal
    BY <1>1, <2>1 DEF BeginCheckout
  <2>2. ASSUME NEW c \in Carts, NEW m \in Methods, BeginReservation(w, c, m) PROVE Goal
    BY <1>1, <2>2 DEF BeginReservation
  <2>3. ASSUME NEW o \in Orders, SweepOwn(w, o) PROVE Goal
    BY <1>1, <2>3 DEF SweepOwn
  <2>4. CASE Reserve(w)
    BY <1>1, <2>4 DEF Reserve
  <2>5. CASE PlaceOrder(w) \/ LockCart(w) \/ RefuseCheckout(w) \/ PushAccepted(w) \/ PushRefused(w)
    BY <1>1, <2>5 DEF PlaceOrder, LockCart, RefuseCheckout, PushAccepted, PushRefused, Idle
  <2>6. QED
    BY <1>2, <2>1, <2>2, <2>3, <2>4, <2>5 DEF BuyerRequest, CheckoutStep
<1>3. ASSUME NEW w \in Staff, StaffRequest(w)
      PROVE  \E r : Continue(w, r) /\ r.op \notin {"sweep", "push"}
  <2>1. ASSUME NEW o \in Orders, NEW p \in Products, NEW to \in LineStatus, BeginAdvance(w, o, p, to)
        PROVE  \E r : Continue(w, r) /\ r.op = "advance"
    BY <2>1 DEF BeginAdvance
  <2>2. ASSUME NEW a \in Admins, NEW o \in Orders, NEW confirm \in BOOLEAN,
               BeginSettlement(w, a, o, confirm)
        PROVE  \E r : Continue(w, r) /\ r.op = "settle"
    BY <2>2 DEF BeginSettlement
  <2>3. RejectPayment(w) => \E r : Continue(w, r) /\ r.op = "release"
    BY DEF RejectPayment
  <2>4. FinishAdvance(w) \/ FailAdvance(w) \/ ConfirmPayment(w) \/ ReleaseLines(w)
          \/ SettlementTooLate(w) => Continue(w, Idle)
    BY DEF FinishAdvance, FailAdvance, ConfirmPayment, ReleaseLines, SettlementTooLate
  <2>5. QED
    BY <1>3, <2>1, <2>2, <2>3, <2>4 DEF StaffRequest, Idle
<1>4. CartStep \/ ShelfStep \/ ProviderStep \/ TimeStep \/ UNCHANGED vars => UNCHANGED req
  BY DEF CartStep, ShelfStep, ProviderStep, TimeStep, AddToCart, ChangeCartLine, Reshelve,
         PromptArrives, BuyerDecides, Callback, TimeOut, Expire, vars
<1>5. ASSUME NEW w \in Workers, Crash(w) PROVE Goal
  BY <1>1, <1>5 DEF Crash, Idle
<1>6. QED
  BY <1>1, <1>2, <1>3, <1>4, <1>5 DEF Next

LEMMA AsyncStep ==
  ASSUME IInv, AsyncOnly, [Next]_vars
  PROVE  AsyncOnly'
<1> USE DEF IInv, TypeOK, OrderTypes
<1>1. ASSUME NEW o \in stale' PROVE Async(o)'
  <2>1. o \in Orders
    BY TypeStep
  <2>2. TimeOut(o) => Async(o)
    BY <2>1 DEF TimeOut, OrderAgreesWithPayment, Async
  <2>3. QED
    BY <2>1, <2>2, TimersStep, AsyncStays DEF AsyncOnly
<1>2. ASSUME NEW o \in Orders, prompt'[o] # "none" PROVE Async(o)'
  <2>1. PromptArrives(o) => Async(o)
    BY DEF PromptArrives, AsyncOnly, Workers
  <2>2. QED
    BY <1>2, <2>1, TimersStep, AsyncStays DEF AsyncOnly
<1>3. ASSUME NEW v \in Workers, req'[v].op = "sweep", NEW o \in req'[v].todo PROVE Async(o)'
  <2>1. CASE req'[v] = req[v]
    BY <1>3, <2>1, RequestShape, AsyncStays DEF AsyncOnly
  <2>2. ASSUME NEW c \in Carts, NEW m \in Methods, BeginReservation(v, c, m) PROVE Async(o)'
    <3>1. o \in stale
      BY <1>3, <2>2 DEF BeginReservation, Continue
    <3>2. QED
      BY <3>1, AsyncStays DEF AsyncOnly
  <2>3. ASSUME NEW n \in Orders, SweepOwn(v, n) PROVE Async(o)'
    <3>1. req[v] \in [op : {"sweep"}, cart : Carts, method : AwaitingMethods, todo : SUBSET Orders]
      BY <2>3, RequestShape DEF SweepOwn
    <3>2. req'[v] = [req[v] EXCEPT !.todo = @ \ {n}]
      BY <2>3 DEF SweepOwn, Continue
    <3>3. o \in req[v].todo /\ o \in Orders
      BY <1>3, <3>1, <3>2
    <3>4. QED
      BY <3>1, <3>3, AsyncStays DEF AsyncOnly
  <2>4. ASSUME Reserve(v) PROVE FALSE
    BY <1>3, <2>4 DEF Reserve, Continue, Idle
  <2>5. QED
    BY <1>3, <2>1, <2>2, <2>3, <2>4, CheckoutRequests
<1>4. ASSUME NEW v \in Workers, req'[v].op = "push" 
      PROVE  status'[req'[v].order] # "NONE" /\ method'[req'[v].order] # "cod"
  <2>1. CASE req'[v] = req[v]
    BY <1>4, <2>1, RequestShape, AsyncStays DEF AsyncOnly, Async
  <2>2. ASSUME NEW c \in Carts, NEW m \in Methods, BeginReservation(v, c, m) PROVE FALSE
    BY <1>4, <2>2 DEF BeginReservation, Continue
  <2>3. ASSUME NEW n \in Orders, SweepOwn(v, n) PROVE FALSE
    <3>1. req[v] \in [op : {"sweep"}, cart : Carts, method : AwaitingMethods, todo : SUBSET Orders]
      BY <2>3, RequestShape DEF SweepOwn
    <3>2. req'[v] = [req[v] EXCEPT !.todo = @ \ {n}]
      BY <2>3 DEF SweepOwn, Continue
    <3>3. QED
      BY <1>4, <3>1, <3>2
  <2>4. ASSUME Reserve(v)
        PROVE  status'[req'[v].order] # "NONE" /\ method'[req'[v].order] # "cod"
    <3>1. PICK o \in Orders :
            /\ CreateOrder(o, req[v].cart, req[v].method, req[v].seen, "AWAITING_PAYMENT", "PENDING")
            /\ Continue(v, IF req[v].method = "mobile_money" THEN [op |-> "push", order |-> o]
                                                             ELSE Idle)
      BY <2>4 DEF Reserve
    <3>2. req[v].method = "mobile_money" /\ req'[v].order = o
      BY <1>4, <3>1 DEF Continue, Idle
    <3>3. QED
      BY <3>1, <3>2 DEF CreateOrder
  <2>5. QED
    BY <1>4, <2>1, <2>2, <2>3, <2>4, CheckoutRequests
<1>5. QED
  BY <1>1, <1>2, <1>3, <1>4 DEF AsyncOnly, Async

-----------------------------------------------------------------------------
(* What a step does to stock and lines.                                     *)

\* An order that fails without an administrator: all its open lines are released.
FailedAlone(o) == /\ payment[o] = "PENDING" /\ ~RecordLocked(o) /\ Async(o)
                  /\ SettleFailed(o, OpenLines(o))

GoodsUnmoved == UNCHANGED <<stock, line>>

StockSteps ==
  \/ GoodsUnmoved
  \/ \E w \in Workers, o \in Orders : Created(w, o)
  \/ \E o \in Orders : FailedAlone(o)
  \/ \E w \in Staff : FinishAdvance(w) \/ ReleaseLines(w)

LEMMA StockStepsClassified ==
  ASSUME StockInv, [Next]_vars
  PROVE  StockSteps
<1> USE DEF StockInv, IInv, Workers
<1>1. ASSUME NEW o \in Orders, Async(o), ~RecordLocked(o), FailAwaiting(o)
      PROVE  GoodsUnmoved \/ FailedAlone(o)
  BY <1>1 DEF FailAwaiting, FailedAlone, SettleUntouched, GoodsUnmoved
<1>2. ASSUME NEW w \in Buyers, BuyerRequest(w) PROVE StockSteps
  <2>1. ASSUME NEW o \in Orders, SweepOwn(w, o) PROVE StockSteps
    BY <1>1, <2>1 DEF SweepOwn, AsyncOnly, StockSteps
  <2>2. CASE PushRefused(w)
    BY <1>1, <2>2, RequestShape DEF PushRefused, AsyncOnly, StockSteps, TypeOK
  <2>3. CASE PlaceOrder(w)
    BY <2>3 DEF PlaceOrder, Created, StockSteps
  <2>4. CASE Reserve(w)
    BY <2>4 DEF Reserve, Created, StockSteps
  <2>5. CASE \/ \E c \in Carts, m \in Methods : BeginCheckout(w, c, m) \/ BeginReservation(w, c, m)
             \/ LockCart(w) \/ RefuseCheckout(w) \/ PushAccepted(w)
    BY <2>5 DEF BeginCheckout, BeginReservation, LockCart, RefuseCheckout, PushAccepted,
                shopVars, orderVars, GoodsUnmoved, StockSteps
  <2>6. QED
    BY <1>2, <2>1, <2>2, <2>3, <2>4, <2>5 DEF BuyerRequest, CheckoutStep
<1>3. ASSUME NEW w \in Staff, StaffRequest(w) PROVE StockSteps
  <2>1. FinishAdvance(w) \/ ReleaseLines(w) \/ GoodsUnmoved
    BY <1>3 DEF StaffRequest, BeginAdvance, FailAdvance, BeginSettlement, ConfirmPayment,
                RejectPayment, SettlementTooLate, SettlePaid, shopVars, orderVars, GoodsUnmoved
  <2>2. QED
    BY <2>1 DEF StockSteps
<1>4. CartStep \/ ShelfStep => GoodsUnmoved
  BY DEF CartStep, ShelfStep, AddToCart, ChangeCartLine, Reshelve, orderVars, shopVars, GoodsUnmoved
<1>5. ASSUME NEW o \in Orders, Callback(o) PROVE StockSteps
  <2>1. CASE prompt[o] = "approved"
    BY <1>5, <2>1 DEF Callback, SettlePaid, GoodsUnmoved, StockSteps
  <2>2. CASE prompt[o] # "approved"
    BY <1>1, <1>5, <2>2 DEF Callback, AsyncOnly, StockSteps
  <2>3. QED
    BY <2>1, <2>2
<1>6. ASSUME NEW o \in Orders, Expire(o) PROVE StockSteps
  BY <1>1, <1>6 DEF Expire, AsyncOnly, StockSteps
<1>7. ASSUME NEW o \in Orders,
             PromptArrives(o) \/ TimeOut(o) \/ \E d \in {"approved", "rejected"} : BuyerDecides(o, d)
      PROVE  GoodsUnmoved
  BY <1>7 DEF PromptArrives, TimeOut, BuyerDecides, shopVars, GoodsUnmoved
<1>8. (\E w \in Workers : Crash(w)) \/ UNCHANGED vars => GoodsUnmoved
  BY DEF Crash, orderVars, shopVars, vars, GoodsUnmoved
<1>9. QED
  BY <1>2, <1>3, <1>4, <1>5, <1>6, <1>7, <1>8 DEF Next, ProviderStep, TimeStep, StockSteps

\* The stock invariant: its three parts hold together.
LEMMA UnbornStep ==
  ASSUME StockInv, [Next]_vars
  PROVE  EmptyUnborn'
<1> USE DEF StockInv, IInv, TypeOK, OrderTypes
<1> SUFFICES ASSUME NEW n \in Orders, NEW p \in Products, status'[n] = "NONE"
             PROVE  line'[n][p].qty = 0
  BY DEF EmptyUnborn
<1>1. ASSUME status[n] = "NONE", line'[n][p].qty = line[n][p].qty PROVE line'[n][p].qty = 0
  BY <1>1 DEF EmptyUnborn
<1>2. CASE GoodsUnmoved
  BY <1>1, <1>2, StatusStays DEF GoodsUnmoved
<1>3. ASSUME NEW w \in Workers, NEW o \in Orders, Created(w, o) PROVE line'[n][p].qty = 0
  <2>1. /\ \E x \in {"PLACED", "AWAITING_PAYMENT"} : status' = [status EXCEPT ![o] = x]
        /\ \E x : line' = [line EXCEPT ![o] = x]
    BY <1>3 DEF Created, CreateOrder
  <2>2. n # o
    BY <2>1
  <2>3. QED
    BY <1>1, <2>1, <2>2
<1>4. ASSUME NEW o \in Orders, NEW lines, SettleFailed(o, lines) PROVE line'[n][p].qty = 0
  <2>1. /\ status' = [status EXCEPT ![o] = "PAYMENT_FAILED"]
        /\ \E x : line' = [line EXCEPT ![o] = x]
    BY <1>4 DEF SettleFailed
  <2>2. QED
    BY <1>1, <2>1
<1>5. ASSUME NEW w \in Staff, FinishAdvance(w) PROVE line'[n][p].qty = 0
  <2>1. /\ status' = status
        /\ line' = [line EXCEPT ![req[w].order][req[w].product].status = req[w].to]
    BY <1>5 DEF FinishAdvance
  <2>2. line'[n][p].qty = line[n][p].qty
    BY <2>1
  <2>3. QED
    BY <1>1, <2>1, <2>2
<1>6. QED
  BY <1>2, <1>3, <1>4, <1>5, StockStepsClassified, RequestShape
  DEF StockSteps, FailedAlone, ReleaseLines, Workers

LEMMA StockInvCorrect == Spec => []StockInv
<1>1. Init => AsyncOnly /\ EmptyUnborn
  BY DEF Init, Idle, AsyncOnly, EmptyUnborn
<1>2. StockInv /\ [Next]_vars => StockInv'
  BY InvStep, AsyncStep, UnbornStep DEF StockInv
<1>3. QED
  BY <1>1, <1>2, InvInit, PTL DEF Spec, StockInv

-----------------------------------------------------------------------------
(* The account of one product, by the kind of step.                         *)

LEMMA SameAddend ==
  ASSUME NEW a \in Nat, NEW b \in Nat, NEW c \in Nat, a + c = b + c
  PROVE  a = b
OBVIOUS

\* The account holds all units of p, and at least as many after the step.
Kept(p)   == stock'[p] + Held(p)' >= stock[p] + Held(p)
Exact(p)  == stock'[p] + Held(p)' = stock[p] + Held(p)

LEMMA UnmovedAccount ==
  ASSUME GoodsUnmoved, NEW p \in Products
  PROVE  Exact(p)
BY DEF GoodsUnmoved, Exact, Held, HeldBy, OpenLines

\* A new order takes from the shelf what its lines hold.
LEMMA CreatedAccount ==
  ASSUME StockInv, TypeOK', NEW w \in Workers, NEW o \in Orders, Created(w, o), NEW p \in Products
  PROVE  Exact(p)
<1> USE DEF StockInv, IInv, TypeOK, ShopTypes, OrderTypes
<1> USE StockAssumption
<1>1. req[w].seen \in Quantities
  BY RequestShape DEF Created
<1>2. /\ stock' = [n \in Products |-> stock[n] - req[w].seen[n]]
      /\ line' = [line EXCEPT ![o] = [n \in Products |-> [qty |-> req[w].seen[n], status |-> "PENDING"]]]
  BY DEF Created, CreateOrder
<1>3. HeldBy(o, p) = 0
  BY DEF Created, EmptyUnborn, HeldBy
<1>4. HeldBy(o, p)' = req[w].seen[p]
  <2>1. line'[o][p] = [qty |-> req[w].seen[p], status |-> "PENDING"]
    BY <1>2
  <2>2. req[w].seen[p] \in 0..MaxQty
    BY <1>1 DEF Quantities
  <2>3. QED
    BY <2>1, <2>2 DEF HeldBy, OpenLines
<1>5. /\ Held(p) \in Nat /\ Held(p)' \in Nat /\ HeldBy(o, p)' \in Nat
      /\ Held(p)' + HeldBy(o, p) = Held(p) + HeldBy(o, p)'
  BY <1>2, HeldChange
<1>6. stock'[p] = stock[p] - HeldBy(o, p)' /\ stock[p] \in Nat
  BY <1>2, <1>4
<1>7. QED
  BY <1>3, <1>5, <1>6 DEF Exact

\* A failed payment puts back the quantity of every line it cancels; a line that
\* was cancelled already is put back a second time.
LEMMA FailedAccount ==
  ASSUME TypeOK, TypeOK', NEW o \in Orders, NEW lines \in SUBSET Products, SettleFailed(o, lines),
         NEW p \in Products
  PROVE  Kept(p) /\ (lines \subseteq OpenLines(o) => Exact(p))
<1> USE DEF TypeOK, ShopTypes, OrderTypes
<1> USE StockAssumption
<1>1. /\ stock' = [n \in Products |-> IF n \in lines THEN stock[n] + line[o][n].qty ELSE stock[n]]
      /\ line' = [line EXCEPT ![o] =
                    [n \in Products |-> IF n \in lines THEN [line[o][n] EXCEPT !.status = "CANCELLED"]
                                                       ELSE line[o][n]]]
  BY DEF SettleFailed
<1>2. /\ Held(p) \in Nat /\ Held(p)' \in Nat /\ HeldBy(o, p) \in Nat /\ HeldBy(o, p)' \in Nat
      /\ Held(p)' + HeldBy(o, p) = Held(p) + HeldBy(o, p)'
  BY <1>1, HeldChange
<1>3. stock[p] \in Nat /\ line[o][p] \in [qty : 0..MaxQty, status : LineStatus]
  OBVIOUS
<1>4. CASE p \in lines
  <2>1. line'[o][p] = [line[o][p] EXCEPT !.status = "CANCELLED"] /\ stock'[p] = stock[p] + line[o][p].qty
    BY <1>1, <1>4
  <2>2. HeldBy(o, p)' = 0
    BY <1>3, <2>1 DEF HeldBy, OpenLines
  <2>3. HeldBy(o, p) <= line[o][p].qty /\ (p \in OpenLines(o) => HeldBy(o, p) = line[o][p].qty)
    BY <1>3 DEF HeldBy
  <2>4. line[o][p].qty \in Nat
    BY <1>3
  <2>5. Kept(p)
    BY <1>2, <1>3, <2>1, <2>2, <2>3, <2>4 DEF Kept
  <2>6. p \in OpenLines(o) => Exact(p)
    BY <1>2, <1>3, <2>1, <2>2, <2>3, <2>4 DEF Exact
  <2>7. QED
    BY <1>4, <2>5, <2>6
<1>5. CASE p \notin lines
  <2>1. line'[o][p] = line[o][p] /\ stock'[p] = stock[p]
    BY <1>1, <1>5
  <2>2. HeldBy(o, p)' = HeldBy(o, p)
    BY <2>1 DEF HeldBy, OpenLines
  <2>3. Held(p)' = Held(p)
    BY <1>2, <2>2, SameAddend
  <2>4. QED
    BY <1>2, <1>3, <2>1, <2>3 DEF Kept, Exact
<1>6. QED
  BY <1>4, <1>5

\* An advance that cancels puts the line's quantity back; one that finds the line
\* cancelled since it read it, whatever it writes, adds units.
LEMMA LineAccount ==
  ASSUME TypeOK, TypeOK', NEW o \in Orders, NEW n \in Products, NEW to \in LineStatus,
         line' = [line EXCEPT ![o][n].status = to],
         stock' = IF to = "CANCELLED" THEN [stock EXCEPT ![n] = @ + line[o][n].qty] ELSE stock,
         NEW p \in Products
  PROVE  Kept(p) /\ (to \in ValidTransitions[line[o][n].status] => Exact(p))
<1> USE DEF TypeOK, ShopTypes, OrderTypes
<1> USE StockAssumption
<1>1. /\ Held(p) \in Nat /\ Held(p)' \in Nat /\ HeldBy(o, p) \in Nat /\ HeldBy(o, p)' \in Nat
      /\ Held(p)' + HeldBy(o, p) = Held(p) + HeldBy(o, p)'
  BY HeldChange
<1>2. stock[p] \in Nat /\ line[o][p] \in [qty : 0..MaxQty, status : LineStatus]
      /\ line[o][p].qty \in Nat
  OBVIOUS
<1>3. CASE p # n
  <2>1. line'[o][p] = line[o][p] /\ stock'[p] = stock[p]
    BY <1>3
  <2>2. HeldBy(o, p)' = HeldBy(o, p)
    BY <2>1 DEF HeldBy, OpenLines
  <2>3. Held(p)' = Held(p)
    BY <1>1, <2>2, SameAddend
  <2>4. QED
    BY <1>1, <1>2, <2>1, <2>3 DEF Kept, Exact
<1>4. CASE p = n
  <2>1. line'[o][p] = [line[o][p] EXCEPT !.status = to]
    BY <1>4
  <2>2. line'[o][p].qty = line[o][p].qty /\ line'[o][p].status = to
    BY <1>2, <2>1
  <2>3. HeldBy(o, p) = IF line[o][p].status = "CANCELLED" THEN 0 ELSE line[o][p].qty
    BY <1>2 DEF HeldBy, OpenLines
  <2>4. HeldBy(o, p)' = IF to = "CANCELLED" THEN 0 ELSE line[o][p].qty
    BY <1>2, <2>2 DEF HeldBy, OpenLines
  <2>5. stock'[p] = IF to = "CANCELLED" THEN stock[p] + line[o][p].qty ELSE stock[p]
    BY <1>4
  <2>6. Kept(p)
    BY <1>1, <1>2, <2>3, <2>4, <2>5 DEF Kept
  <2>7. ASSUME line[o][p].status # "CANCELLED" PROVE Exact(p)
    <3>1. CASE to = "CANCELLED"
      BY <1>1, <1>2, <2>3, <2>4, <2>5, <2>7, <3>1 DEF Exact
    <3>2. CASE to # "CANCELLED"
      <4>1. Held(p)' = Held(p)
        BY <1>1, <2>3, <2>4, <2>7, <3>2, SameAddend
      <4>2. QED
        BY <2>5, <3>2, <4>1 DEF Exact
    <3>3. QED
      BY <3>1, <3>2
  <2>8. to \in ValidTransitions[line[o][p].status] => line[o][p].status # "CANCELLED"
    BY DEF ValidTransitions
  <2>9. QED
    BY <1>4, <2>6, <2>7, <2>8
<1>5. QED
  BY <1>3, <1>4

LEMMA AdvanceAccount ==
  ASSUME TypeOK, TypeOK', NEW w \in Workers, FinishAdvance(w), NEW p \in Products
  PROVE  Kept(p) /\ (req[w].to \in ValidTransitions[line[req[w].order][req[w].product].status]
                       => Exact(p))
<1>1. req[w].order \in Orders /\ req[w].product \in Products /\ req[w].to \in LineStatus
  BY RequestShape DEF FinishAdvance, TypeOK
<1>2. /\ line' = [line EXCEPT ![req[w].order][req[w].product].status = req[w].to]
      /\ stock' = IF req[w].to = "CANCELLED"
                    THEN [stock EXCEPT ![req[w].product] = @ + line[req[w].order][req[w].product].qty]
                    ELSE stock
  BY DEF FinishAdvance
<1>3. QED
  BY <1>1, <1>2, LineAccount DEF Kept, Exact

-----------------------------------------------------------------------------
(* Units are never lost.                                                    *)

LEMMA InitAccount == Init => StockConserved
<1> SUFFICES ASSUME Init, NEW p \in Products PROVE stock[p] + Held(p) = InitStock
  BY DEF StockConserved
<1>1. \A o \in Orders : HeldBy(o, p) = 0
  BY DEF Init, HeldBy, OpenLines
<1>2. {unit \in Orders \X (1..MaxQty) : unit[2] <= HeldBy(unit[1], p)} = {}
  BY <1>1, StockAssumption
<1>3. Held(p) = 0
  BY <1>2, FS_EmptySet DEF Held
<1>4. QED
  BY <1>3, StockAssumption DEF Init

LEMMA HeldNat ==
  ASSUME NEW p \in Products
  PROVE  Held(p) \in Nat /\ Held(p)' \in Nat
<1>1. IsFiniteSet(1..MaxQty)
  BY StockAssumption, FS_Interval
<1>2. IsFiniteSet(Orders \X (1..MaxQty))
  BY <1>1, OrdersAssumption, FS_Product
<1>3. QED
  BY <1>2, FS_Subset, FS_CardinalityType DEF Held

\* No step takes units out of the account.
LEMMA NothingLost ==
  ASSUME StockInv, TypeOK', [Next]_vars, NEW p \in Products
  PROVE  Kept(p)
<1>0. /\ stock[p] \in Nat /\ stock'[p] \in Nat /\ Held(p) \in Nat /\ Held(p)' \in Nat
  BY HeldNat DEF StockInv, IInv, TypeOK, ShopTypes
<1>1. Exact(p) => Kept(p)
  BY <1>0 DEF Exact, Kept
<1>2. GoodsUnmoved => Kept(p)
  BY <1>1, UnmovedAccount
<1>3. ASSUME NEW w \in Workers, NEW o \in Orders, Created(w, o) PROVE Kept(p)
  BY <1>1, <1>3, CreatedAccount
<1>4. ASSUME NEW o \in Orders, FailedAlone(o) PROVE Kept(p)
  <2>1. OpenLines(o) \in SUBSET Products
    BY DEF OpenLines
  <2>2. QED
    BY <1>4, <2>1, FailedAccount DEF FailedAlone, StockInv, IInv
<1>5. ASSUME NEW w \in Staff, FinishAdvance(w) PROVE Kept(p)
  BY <1>5, AdvanceAccount DEF StockInv, IInv, Workers
<1>6. ASSUME NEW w \in Staff, ReleaseLines(w) PROVE Kept(p)
  <2>1. req[w].order \in Orders /\ req[w].lines \in SUBSET Products /\ SettleFailed(req[w].order, req[w].lines)
    BY <1>6, RequestShape DEF ReleaseLines, StockInv, IInv, TypeOK, Workers
  <2>2. QED
    BY <2>1, FailedAccount DEF StockInv, IInv
<1>7. QED
  BY <1>2, <1>3, <1>4, <1>5, <1>6, StockStepsClassified DEF StockSteps

\* No interleaving of checkouts, cancellations, failed payments, crashes and
\* stale back-office requests makes a unit disappear: all a product started with
\* is on the shelf or in a line that is not cancelled.
THEOREM StockNeverLostCorrect == Spec => []StockNeverLost
<1>1. StockInv /\ StockInv' /\ StockNeverLost /\ [Next]_vars => StockNeverLost'
  <2> SUFFICES ASSUME StockInv, StockInv', StockNeverLost, [Next]_vars, NEW p \in Products
               PROVE  stock'[p] + Held(p)' >= InitStock
    BY DEF StockNeverLost
  <2>1. TypeOK /\ TypeOK'
    BY DEF StockInv, IInv
  <2>2. stock[p] \in Nat /\ stock'[p] \in Nat /\ Held(p) \in Nat /\ Held(p)' \in Nat
    BY <2>1, HeldNat DEF TypeOK, ShopTypes
  <2>3. Kept(p)
    BY <2>1, NothingLost
  <2>4. stock[p] + Held(p) >= InitStock
    BY DEF StockNeverLost
  <2>5. QED
    BY <2>2, <2>3, <2>4, StockAssumption DEF Kept
<1>2. Init => StockNeverLost
  BY InitAccount, HeldNat, InitTypes, StockAssumption
  DEF StockConserved, StockNeverLost, TypeOK, ShopTypes
<1>3. QED
  BY <1>1, <1>2, StockInvCorrect, PTL DEF Spec

-----------------------------------------------------------------------------
(* Units are counted twice only after a stale read.                         *)

\* What a back-office request read of a line still holds: the transition it is
\* about to make is one the line allows now, and the lines it is about to release
\* are not cancelled yet.
FreshReads ==
  \A w \in Workers :
    /\ req[w].op = "advance" =>
         req[w].to \in ValidTransitions[line[req[w].order][req[w].product].status]
    /\ req[w].op = "release" => req[w].lines \subseteq OpenLines(req[w].order)

LEMMA NothingCountedTwice ==
  ASSUME StockInv, TypeOK', FreshReads, [Next]_vars, NEW p \in Products
  PROVE  Exact(p)
<1>1. ASSUME NEW o \in Orders, FailedAlone(o) PROVE Exact(p)
  <2>1. OpenLines(o) \in SUBSET Products
    BY DEF OpenLines
  <2>2. QED
    BY <1>1, <2>1, FailedAccount DEF FailedAlone, StockInv, IInv
<1>2. ASSUME NEW w \in Staff, FinishAdvance(w) PROVE Exact(p)
  <2>1. req[w].to \in ValidTransitions[line[req[w].order][req[w].product].status]
    BY <1>2 DEF FinishAdvance, FreshReads, Workers
  <2>2. QED
    BY <1>2, <2>1, AdvanceAccount DEF StockInv, IInv, Workers
<1>3. ASSUME NEW w \in Staff, ReleaseLines(w) PROVE Exact(p)
  <2>1. /\ req[w].order \in Orders /\ req[w].lines \in SUBSET Products
        /\ SettleFailed(req[w].order, req[w].lines)
    BY <1>3, RequestShape DEF ReleaseLines, StockInv, IInv, TypeOK, Workers
  <2>2. req[w].lines \subseteq OpenLines(req[w].order)
    BY <1>3 DEF ReleaseLines, FreshReads, Workers
  <2>3. QED
    BY <2>1, <2>2, FailedAccount DEF StockInv, IInv
<1>4. QED
  BY <1>1, <1>2, <1>3, UnmovedAccount, CreatedAccount, StockStepsClassified DEF StockSteps

\* As long as no back-office request is left with a line that another one moved
\* since it was read, every unit is counted exactly once: the unlocked read of
\* advance_order_item_status and of settle_manual_payment is the only way in
\* which cancelled stock comes back twice.
THEOREM StockConservedIfFresh == Spec /\ []FreshReads => []StockConserved
<1>1. StockInv /\ StockInv' /\ FreshReads /\ StockConserved /\ [Next]_vars => StockConserved'
  <2> SUFFICES ASSUME StockInv, StockInv', FreshReads, StockConserved, [Next]_vars,
                      NEW p \in Products
               PROVE  stock'[p] + Held(p)' = InitStock
    BY DEF StockConserved
  <2>1. TypeOK'
    BY DEF StockInv, IInv
  <2>2. QED
    BY <2>1, NothingCountedTwice DEF Exact, StockConserved
<1>2. QED
  BY <1>1, InitAccount, StockInvCorrect, PTL DEF Spec

-----------------------------------------------------------------------------
(* An office with one request at a time reads nothing stale.                *)

\* What a step leaves of the line that a request in flight relies on.
LEMMA LineUndisturbed ==
  ASSUME OneClerk, StockInv, OfficeRequests, [Next]_vars, NEW v \in Workers,
         req[v].op \in {"advance", "release"}, req'[v] = req[v]
  PROVE  line'[req[v].order] = line[req[v].order]
<1> DEFINE n == req[v].order
<1> USE DEF StockInv, IInv, TypeOK, OrderTypes
<1>1. n \in Orders /\ v \in Staff
  BY RequestShape DEF OfficeRequests
<1>2. status[n] # "NONE"
  BY DEF UnlockedReadsHold
<1>3. ASSUME NEW w \in Workers, NEW o \in Orders, Created(w, o) PROVE line'[n] = line[n]
  BY <1>1, <1>2, <1>3 DEF Created, CreateOrder
<1>4. ASSUME NEW o \in Orders, FailedAlone(o) PROVE line'[n] = line[n]
  <2>1. o # n
    <3>1. CASE req[v].op = "release"
      BY <1>4, <3>1 DEF FailedAlone, RecordLocked
    <3>2. CASE req[v].op = "advance"
      <4>1. payment[n] = "PENDING" => method[n] = "cod"
        BY <1>1, <3>2 DEF UnlockedReadsHold, OrderAgreesWithPayment
      <4>2. QED
        BY <1>4, <4>1 DEF FailedAlone, Async
    <3>3. QED
      BY <3>1, <3>2
  <2>2. \E x : line' = [line EXCEPT ![o] = x]
    BY <1>4 DEF FailedAlone, SettleFailed
  <2>3. QED
    BY <1>1, <2>1, <2>2
<1>5. ASSUME NEW w \in Staff, FinishAdvance(w) \/ ReleaseLines(w) PROVE FALSE
  <2>1. w = v /\ req' = [req EXCEPT ![w] = Idle]
    BY <1>1, <1>5 DEF OneClerk, FinishAdvance, ReleaseLines, Continue
  <2>2. QED
    BY <2>1 DEF Idle
<1>6. QED
  BY <1>3, <1>4, <1>5, StockStepsClassified DEF StockSteps, GoodsUnmoved

\* A request that begins to rely on a line has just read it.
LEMMA ReadsBegin ==
  ASSUME IInv, [Next]_vars, NEW v \in Workers, req'[v].op \in {"advance", "release"},
         req'[v] # req[v]
  PROVE  /\ line' = line
         /\ req'[v].op = "advance" =>
              req'[v].to \in ValidTransitions[line[req'[v].order][req'[v].product].status]
         /\ req'[v].op = "release" => req'[v].lines = OpenLines(req'[v].order)
<1> DEFINE Goal == /\ line' = line
                   /\ req'[v].op = "advance" =>
                        req'[v].to \in ValidTransitions[line[req'[v].order][req'[v].product].status]
                   /\ req'[v].op = "release" => req'[v].lines = OpenLines(req'[v].order)
<1> USE DEF IInv, TypeOK
<1>1. PICK w \in Workers : Quiet /\ Claim(w)
  BY StepClassified DEF StepKinds, NoNewClaims, Paid, Failed, SettledFree
<1>2. w = v
  BY <1>1, ClaimShape
<1>3. line' = line
  BY <1>1 DEF Quiet
<1>4. ASSUME NEW o \in Orders, NEW p \in Products, NEW to \in LineStatus, BeginAdvance(w, o, p, to)
      PROVE  Goal
  BY <1>2, <1>3, <1>4 DEF BeginAdvance, Continue
<1>5. ASSUME LockCart(w) PROVE FALSE
  BY <1>2, <1>5 DEF LockCart, Continue
<1>6. ASSUME NEW a \in Admins, NEW o \in Orders, NEW confirm \in BOOLEAN,
             BeginSettlement(w, a, o, confirm)
      PROVE  FALSE
  BY <1>2, <1>6 DEF BeginSettlement, Continue
<1>7. CASE RejectPayment(w)
  BY <1>2, <1>3, <1>7 DEF RejectPayment, Continue
<1>8. QED
  BY <1>1, <1>4, <1>5, <1>6, <1>7 DEF Claim

LEMMA OneClerkFreshStep ==
  ASSUME OneClerk, StockInv, StockInv', OfficeRequests, FreshReads, [Next]_vars
  PROVE  FreshReads'
<1> SUFFICES ASSUME NEW v \in Workers, req'[v].op \in {"advance", "release"}
             PROVE  /\ req'[v].op = "advance" =>
                         req'[v].to \in ValidTransitions[line'[req'[v].order][req'[v].product].status]
                    /\ req'[v].op = "release" =>
                         \A p \in req'[v].lines : /\ p \in Products
                                                  /\ line'[req'[v].order][p].qty > 0
                                                  /\ line'[req'[v].order][p].status # "CANCELLED"
  BY DEF FreshReads, OpenLines
<1>1. CASE req'[v] # req[v]
  BY <1>1, ReadsBegin DEF StockInv, OpenLines
<1>2. CASE req'[v] = req[v]
  BY <1>2, LineUndisturbed DEF FreshReads, OpenLines
<1>3. QED
  BY <1>1, <1>2

\* So an office with one request at a time conserves the stock.
THEOREM OneClerkConservesStock ==
  ASSUME OneClerk PROVE Spec => []StockConserved
<1>1. Init => FreshReads
  BY DEF Init, Idle, FreshReads
<1>2. StockInv /\ StockInv' /\ OfficeRequests /\ FreshReads /\ [Next]_vars => FreshReads'
  BY OneClerkFreshStep
<1>3. Spec => []FreshReads
  BY <1>1, <1>2, StockInvCorrect, OfficeCorrect, PTL DEF Spec
<1>4. QED
  BY <1>3, StockConservedIfFresh, PTL

=============================================================================
