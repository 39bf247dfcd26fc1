--------------------------- MODULE OrderPayments ---------------------------
(***************************************************************************)
(* Checkout, payment settlement and line fulfilment of the marketplace     *)
(* (backend/apps/orders/services.py and backend/apps/payments/outcomes.py, *)
(* with the views that call them).                                         *)
(*                                                                         *)
(* A request is a thread of a web worker that talks to PostgreSQL at READ  *)
(* COMMITTED.  What it reads before it takes a row lock stays in its       *)
(* memory: `req[w]` is that memory, and a request is split into two        *)
(* actions exactly where the code reads, then waits for a lock.  A row     *)
(* lock is held from the step that takes it to the one that commits, so    *)
(* "locked" is a predicate over `req`.                                     *)
(***************************************************************************)
EXTENDS Naturals, OrderLines

CONSTANTS
  Products,   \* products on sale
  Carts,      \* cart owners: a customer, or a guest's cart token
  Orders,     \* order ids not yet used (bounds the number of orders)
  Admins,     \* administrators who settle manual payments
  Buyers,     \* checkout requests that can be in flight at once
  Staff,      \* back-office requests that can be in flight at once
  Methods,    \* payment methods on offer
  InitStock,  \* stock of every product at the start
  MaxQty,     \* largest quantity of a cart line (bounds the data)
  Crashes,    \* TRUE if a worker may die in the middle of a request
  NoCart, NoAdmin

ASSUME MethodsAssumption == Methods \subseteq {"card", "cod", "lipa_namba", "mobile_money"}
ASSUME StockAssumption   == InitStock \in Nat /\ MaxQty \in Nat
ASSUME WorkerAssumption  == Buyers \cap Staff = {}
ASSUME NoneAssumption    == NoCart \notin Carts /\ NoAdmin \notin Admins
ASSUME CrashAssumption   == Crashes \in BOOLEAN

VARIABLES
  shelf,      \* Product: published, withdrawn (or its shop unapproved), deleted
  stock,      \* Product.stock_quantity
  cart,       \* CartItem.quantity by cart and product, 0 when there is no line
  status,     \* Order.status
  owner,      \* the cart (customer or guest token) the order was placed from
  method,     \* PaymentRecord.method
  payment,    \* PaymentRecord.status
  settledBy,  \* PaymentRecord.settled_by
  line,       \* OrderItem quantity and status by order and product
  stale,      \* orders whose payment has been pending longer than its timeout
  prompt,     \* what the buyer's phone did with the mobile-money prompt
  told,       \* what the checkout request answered about a mobile-money order
  audited,    \* AuditLog rows of manual settlements: <<order, confirmed?>>
  req         \* the in-memory state of each request in flight

vars == <<shelf, stock, cart, status, owner, method, payment, settledBy,
          line, stale, prompt, told, audited, req>>

Workers == Buyers \cup Staff

ManualMethods   == {"cod", "lipa_namba"}
AwaitingMethods == {"lipa_namba", "mobile_money"}
ImmediateMethods == {"card", "cod"}

Quantities == [Products -> 0..MaxQty]
EmptyCart  == [p \in Products |-> 0]
HasLines(quantities) == \E p \in Products : quantities[p] > 0

Idle == [op |-> "idle"]
Requests ==
       {Idle}
  \cup [op : {"order"}, cart : Carts, method : ImmediateMethods, seen : Quantities]
  \cup [op : {"sweep"}, cart : Carts, method : AwaitingMethods, todo : SUBSET Orders]
  \cup [op : {"reserve"}, cart : Carts, method : AwaitingMethods, seen : Quantities]
  \cup [op : {"push"}, order : Orders]
  \cup [op : {"advance"}, order : Orders, product : Products, to : LineStatus]
  \cup [op : {"settle"}, order : Orders, admin : Admins, confirm : BOOLEAN]
  \cup [op : {"release"}, order : Orders, admin : Admins, lines : SUBSET Products]

\* Where every variable lives; stock is a PositiveIntegerField.
ShopTypes ==
  /\ shelf \in [Products -> {"published", "withdrawn", "deleted"}]
  /\ stock \in [Products -> Nat]

OrderTypes ==
  /\ status \in [Orders -> {"NONE", "AWAITING_PAYMENT", "PLACED", "PAYMENT_FAILED"}]
  /\ owner \in [Orders -> Carts \cup {NoCart}]
  /\ method \in [Orders -> {"none", "card", "cod", "lipa_namba", "mobile_money"}]
  /\ payment \in [Orders -> {"NONE", "PENDING", "SUCCEEDED", "FAILED"}]
  /\ settledBy \in [Orders -> Admins \cup {NoAdmin}]
  /\ line \in [Orders -> [Products -> [qty : 0..MaxQty, status : LineStatus]]]
  /\ stale \in SUBSET Orders
  /\ prompt \in [Orders -> {"none", "sent", "approved", "rejected"}]
  /\ told \in [Orders -> {"nothing", "accepted", "payment_failed"}]
  /\ audited \in SUBSET (Orders \X BOOLEAN)

TypeOK ==
  /\ ShopTypes
  /\ cart \in [Carts -> Quantities]
  /\ OrderTypes
  /\ req \in [Workers -> Requests]

Init ==
  /\ shelf = [p \in Products |-> "published"]
  /\ stock = [p \in Products |-> InitStock]
  /\ cart = [c \in Carts |-> EmptyCart]
  /\ status = [o \in Orders |-> "NONE"]
  /\ owner = [o \in Orders |-> NoCart]
  /\ method = [o \in Orders |-> "none"]
  /\ payment = [o \in Orders |-> "NONE"]
  /\ settledBy = [o \in Orders |-> NoAdmin]
  /\ line = [o \in Orders |-> [p \in Products |-> [qty |-> 0, status |-> "PENDING"]]]
  /\ stale = {}
  /\ prompt = [o \in Orders |-> "none"]
  /\ told = [o \in Orders |-> "nothing"]
  /\ audited = {}
  /\ req = [w \in Workers |-> Idle]

orderVars  == <<status, owner, method, payment, settledBy, line, stale, prompt, told, audited>>
shopVars   == <<shelf, stock>>

-----------------------------------------------------------------------------
(* The buyer's cart and the vendor's shelf, as far as checkout sees them.   *)

\* CartItemCreateView: adds to a line, the sum checked against current stock.
AddToCart(c, p, q) ==
  /\ shelf[p] = "published"
  /\ cart[c][p] + q <= stock[p]
  /\ cart[c][p] + q <= MaxQty
  /\ cart' = [cart EXCEPT ![c][p] = @ + q]
  /\ UNCHANGED <<shopVars, orderVars, req>>

\* CartItemDetailView.patch and .delete: a new quantity within stock, or none.
ChangeCartLine(c, p, q) ==
  /\ cart[c][p] > 0
  /\ q <= stock[p]
  /\ cart' = [cart EXCEPT ![c][p] = q]
  /\ UNCHANGED <<shopVars, orderVars, req>>

\* Publish, unpublish and soft delete of a product by its vendor.
Reshelve(p, to) ==
  /\ shelf[p] # "deleted"
  /\ shelf' = [shelf EXCEPT ![p] = to]
  /\ UNCHANGED <<stock, cart, orderVars, req>>

-----------------------------------------------------------------------------
(* Effects shared by the handlers.                                          *)

\* Mutant: the lookup of the owner's orders finds none (a guest's are missed).
Owned_NoGuests(c) == {}

Owned(c)    == {o \in Orders : owner[o] = c}
Awaiting(c) == {o \in Owned(c) : status[o] = "AWAITING_PAYMENT"}

CartLocked(c) == \E w \in Workers : req[w].op = "reserve" /\ req[w].cart = c

RecordLocked(o) == \E w \in Workers : req[w].op = "release" /\ req[w].order = o

OpenLines(o) == {p \in Products : line[o][p].qty > 0 /\ line[o][p].status # "CANCELLED"}

\* CartItem.unavailable_reason is None for every line, on the locked products.
Available(seen) ==
  \A p \in Products : seen[p] > 0 => shelf[p] = "published" /\ seen[p] <= stock[p]

\* _create_order and PaymentRecord.objects.create: the lines take their stock.
CreateOrder(o, c, m, seen, orderStatus, paymentStatus) ==
  /\ status' = [status EXCEPT ![o] = orderStatus]
  /\ owner' = [owner EXCEPT ![o] = c]
  /\ method' = [method EXCEPT ![o] = m]
  /\ payment' = [payment EXCEPT ![o] = paymentStatus]
  /\ line' = [line EXCEPT ![o] = [p \in Products |-> [qty |-> seen[p], status |-> "PENDING"]]]
  /\ stock' = [p \in Products |-> stock[p] - seen[p]]

\* Mutant: the payment succeeds and the order is left waiting.
SettlePaid_OrderForgotten(o) ==
  /\ payment' = [payment EXCEPT ![o] = "SUCCEEDED"]
  /\ UNCHANGED <<status, stock, line, cart>>

\* complete_payment with success=True: paid, placed, and the ordered products
\* leave the owner's cart.
SettlePaid(o) ==
  /\ payment' = [payment EXCEPT ![o] = "SUCCEEDED"]
  /\ status' = [status EXCEPT ![o] = "PLACED"]
  /\ cart' = [cart EXCEPT ![owner[o]] =
                [p \in Products |-> IF line[o][p].qty > 0 THEN 0 ELSE @[p]]]
  /\ UNCHANGED <<stock, line>>

\* Mutant: the reserved stock is not given back.
SettleFailed_NoRelease(o, lines) ==
  /\ payment' = [payment EXCEPT ![o] = "FAILED"]
  /\ status' = [status EXCEPT ![o] = "PAYMENT_FAILED"]
  /\ line' = [line EXCEPT ![o] =
                [p \in Products |-> IF p \in lines THEN [@[p] EXCEPT !.status = "CANCELLED"]
                                                   ELSE @[p]]]
  /\ UNCHANGED <<stock, cart>>

\* Mutant: the cart is emptied whatever the outcome.
SettleFailed_CartEmptied(o, lines) ==
  /\ payment' = [payment EXCEPT ![o] = "FAILED"]
  /\ status' = [status EXCEPT ![o] = "PAYMENT_FAILED"]
  /\ cart' = [cart EXCEPT ![owner[o]] = EmptyCart]
  /\ UNCHANGED <<stock, line>>

\* complete_payment with success=False, releasing the lines it read as open.
SettleFailed(o, lines) ==
  /\ payment' = [payment EXCEPT ![o] = "FAILED"]
  /\ status' = [status EXCEPT ![o] = "PAYMENT_FAILED"]
  /\ stock' = [p \in Products |-> IF p \in lines THEN stock[p] + line[o][p].qty ELSE stock[p]]
  /\ line' = [line EXCEPT ![o] =
                [p \in Products |-> IF p \in lines THEN [@[p] EXCEPT !.status = "CANCELLED"]
                                                   ELSE @[p]]]
  /\ UNCHANGED cart

\* complete_payment leaves a record that is no longer PENDING untouched.
SettleUntouched == UNCHANGED <<payment, status, stock, line, cart>>

\* Mutant: a settled record is failed again by a repeated or late call.
FailAwaiting_NotIdempotent(o) == SettleFailed(o, OpenLines(o))

\* Mutant: a payment that timed out is left PENDING.
FailAwaiting_Ignored(o) == SettleUntouched

\* complete_payment(success=False) of an order no line of which can be advanced
\* (it is not PLACED): reading its lines and locking their products commute with
\* every other request, so they are one step.
FailAwaiting(o) ==
  IF payment[o] = "PENDING" THEN SettleFailed(o, OpenLines(o)) ELSE SettleUntouched

Continue(w, request) == req' = [req EXCEPT ![w] = request]

-----------------------------------------------------------------------------
(* Checkout: _place_order and its four methods.                             *)

\* Card and cash on delivery: the cart lines are read with no lock at all.
BeginCheckout(w, c, m) ==
  /\ req[w] = Idle
  /\ m \in ImmediateMethods \cap Methods
  /\ HasLines(cart[c])
  /\ Continue(w, [op |-> "order", cart |-> c, method |-> m, seen |-> cart[c]])
  /\ UNCHANGED <<shopVars, cart, orderVars>>

\* The products are locked, re-validated and sold, and the whole cart deleted.
PlaceOrder(w) ==
  LET r == req[w] IN
  /\ r.op = "order"
  /\ Available(r.seen)
  /\ \E o \in Orders :
       /\ status[o] = "NONE"
       /\ CreateOrder(o, r.cart, r.method, r.seen, "PLACED",
                      IF r.method = "card" THEN "SUCCEEDED" ELSE "PENDING")
  /\ cart' = [cart EXCEPT ![r.cart] = EmptyCart]
  /\ Continue(w, Idle)
  /\ UNCHANGED <<shelf, settledBy, stale, prompt, told, audited>>

\* Mobile money and Lipa Namba: the owner's timed-out payments are listed first.
BeginReservation(w, c, m) ==
  /\ req[w] = Idle
  /\ m \in AwaitingMethods \cap Methods
  /\ Continue(w, [op |-> "sweep", cart |-> c, method |-> m,
                  todo |-> {o \in Owned(c) \cap stale : payment[o] = "PENDING"}])
  /\ UNCHANGED <<shopVars, cart, orderVars>>

\* expire_stale_payments over that list, each payment in its own transaction.
SweepOwn(w, o) ==
  LET r == req[w] IN
  /\ r.op = "sweep" /\ o \in r.todo
  /\ ~RecordLocked(o)
  /\ FailAwaiting(o)
  /\ Continue(w, [r EXCEPT !.todo = @ \ {o}])
  /\ UNCHANGED <<shelf, owner, method, settledBy, stale, prompt, told, audited>>

\* The Cart row is locked, no order of the owner awaits payment, and the cart
\* lines are read.
LockCart(w) ==
  LET r == req[w] IN
  /\ r.op = "sweep" /\ r.todo = {}
  /\ ~CartLocked(r.cart)
  /\ Awaiting(r.cart) = {}
  /\ HasLines(cart[r.cart])
  /\ Continue(w, [op |-> "reserve", cart |-> r.cart, method |-> r.method,
                  seen |-> cart[r.cart]])
  /\ UNCHANGED <<shopVars, cart, orderVars>>

\* The order reserves its stock and the cart is kept; then, after the commit,
\* mobile money asks the gateway for a prompt.
Reserve(w) ==
  LET r == req[w] IN
  /\ r.op = "reserve"
  /\ Available(r.seen)
  /\ \E o \in Orders :
       /\ status[o] = "NONE"
       /\ CreateOrder(o, r.cart, r.method, r.seen, "AWAITING_PAYMENT", "PENDING")
       /\ Continue(w, IF r.method = "mobile_money" THEN [op |-> "push", order |-> o] ELSE Idle)
  /\ UNCHANGED <<shelf, cart, settledBy, stale, prompt, told, audited>>

\* CheckoutError before anything is written: an unavailable line, a declined
\* card, a shop out of delivery range, an empty cart, or a payment_pending order.
RefuseCheckout(w) ==
  LET r == req[w] IN
  /\ \/ r.op \in {"order", "reserve"}
     \/ /\ r.op = "sweep" /\ r.todo = {}
        /\ ~CartLocked(r.cart)
        /\ Awaiting(r.cart) # {} \/ ~HasLines(cart[r.cart])
  /\ Continue(w, Idle)
  /\ UNCHANGED <<shopVars, cart, orderVars>>

\* The gateway accepted the push; the request answers with the order.
PushAccepted(w) ==
  LET o == req[w].order IN
  /\ req[w].op = "push"
  /\ prompt[o] # "none"
  /\ told' = [told EXCEPT ![o] = "accepted"]
  /\ Continue(w, Idle)
  /\ UNCHANGED <<shopVars, cart, status, owner, method, payment, settledBy, line,
                 stale, prompt, audited>>

\* initiate() refused, raised or timed out (the prompt may have been sent all
\* the same): the payment is failed and the request answers payment_failed.
PushRefused(w) ==
  LET o == req[w].order IN
  /\ req[w].op = "push"
  /\ ~RecordLocked(o)
  /\ FailAwaiting(o)
  /\ told' = [told EXCEPT ![o] = "payment_failed"]
  /\ Continue(w, Idle)
  /\ UNCHANGED <<shelf, owner, method, settledBy, stale, prompt, audited>>

-----------------------------------------------------------------------------
(* The provider, the buyer's phone and time.                                *)

\* The provider shows the prompt while initiate() is still waiting for it.
PromptArrives(o) ==
  /\ prompt[o] = "none"
  /\ \E w \in Buyers : req[w].op = "push" /\ req[w].order = o
  /\ prompt' = [prompt EXCEPT ![o] = "sent"]
  /\ UNCHANGED <<shopVars, cart, status, owner, method, payment, settledBy, line,
                 stale, told, audited, req>>

\* The buyer enters the PIN (the money is taken) or rejects the prompt.
BuyerDecides(o, decision) ==
  /\ prompt[o] = "sent"
  /\ prompt' = [prompt EXCEPT ![o] = decision]
  /\ UNCHANGED <<shopVars, cart, status, owner, method, payment, settledBy, line,
                 stale, told, audited, req>>

\* Mutant: any callback is taken for a success.
Callback_StatusIgnored(o) ==
  /\ prompt[o] \in {"approved", "rejected"}
  /\ ~RecordLocked(o)
  /\ payment[o] = "PENDING"
  /\ SettlePaid(o)
  /\ UNCHANGED <<shelf, owner, method, settledBy, stale, prompt, told, audited, req>>

\* handle_azampay_callback, delivered late, early or more than once.
Callback(o) ==
  /\ prompt[o] \in {"approved", "rejected"}
  /\ ~RecordLocked(o)
  /\ payment[o] = "PENDING"
  /\ IF prompt[o] = "approved" THEN SettlePaid(o) ELSE FailAwaiting(o)
  /\ UNCHANGED <<shelf, owner, method, settledBy, stale, prompt, told, audited, req>>

\* The payment passes its timeout: 15 minutes for mobile money, 24 hours for
\* Lipa Namba, never for cash on delivery.
TimeOut(o) ==
  /\ payment[o] = "PENDING"
  /\ method[o] # "cod"
  /\ o \notin stale
  /\ stale' = stale \cup {o}
  /\ UNCHANGED <<shopVars, cart, status, owner, method, payment, settledBy, line,
                 prompt, told, audited, req>>

\* expire_stale_payments from the management command or a payment-status poll.
Expire(o) ==
  /\ o \in stale
  /\ payment[o] = "PENDING"
  /\ ~RecordLocked(o)
  /\ FailAwaiting(o)
  /\ UNCHANGED <<shelf, owner, method, settledBy, stale, prompt, told, audited, req>>

-----------------------------------------------------------------------------
(* The back office: line status and manual settlement.                      *)

\* Mutant: lines of orders that are not placed can be advanced.
BeginAdvance_AnyOrder(w, o, p, to) ==
  /\ req[w] = Idle
  /\ line[o][p].qty > 0
  /\ to \in ValidTransitions[line[o][p].status]
  /\ Continue(w, [op |-> "advance", order |-> o, product |-> p, to |-> to])
  /\ UNCHANGED <<shopVars, cart, orderVars>>

\* AdminOrderItemStatusUpdateView reads the line with no lock, and the status
\* it read decides whether the transition is allowed.
BeginAdvance(w, o, p, to) ==
  /\ req[w] = Idle
  /\ status[o] = "PLACED"
  /\ line[o][p].qty > 0
  /\ to \in ValidTransitions[line[o][p].status]
  /\ Continue(w, [op |-> "advance", order |-> o, product |-> p, to |-> to])
  /\ UNCHANGED <<shopVars, cart, orderVars>>

\* Mutant: a cancelled line does not give its stock back.
FinishAdvance_NoRestock(w) ==
  LET r == req[w] IN
  /\ r.op = "advance"
  /\ line' = [line EXCEPT ![r.order][r.product].status = r.to]
  /\ Continue(w, Idle)
  /\ UNCHANGED <<shelf, stock, cart, status, owner, method, payment, settledBy, stale,
                 prompt, told, audited>>

\* The transaction of advance_order_item_status: cancelling locks the product
\* (found only if not deleted) and gives the stock back.
FinishAdvance(w) ==
  LET r == req[w]
      cancels == r.to = "CANCELLED"
  IN
  /\ r.op = "advance"
  /\ cancels => shelf[r.product] # "deleted"
  /\ stock' = IF cancels THEN [stock EXCEPT ![r.product] = @ + line[r.order][r.product].qty]
                         ELSE stock
  /\ line' = [line EXCEPT ![r.order][r.product].status = r.to]
  /\ Continue(w, Idle)
  /\ UNCHANGED <<shelf, cart, status, owner, method, payment, settledBy, stale,
                 prompt, told, audited>>

\* Product.objects does not find a deleted product: the cancellation dies.
FailAdvance(w) ==
  /\ req[w].op = "advance"
  /\ req[w].to = "CANCELLED" /\ shelf[req[w].product] = "deleted"
  /\ Continue(w, Idle)
  /\ UNCHANGED <<shopVars, cart, orderVars>>

\* settle_manual_payment reads the record and checks that it is PENDING.
BeginSettlement(w, a, o, confirm) ==
  /\ req[w] = Idle
  /\ method[o] \in ManualMethods
  /\ payment[o] = "PENDING"
  /\ Continue(w, [op |-> "settle", order |-> o, admin |-> a, confirm |-> confirm])
  /\ UNCHANGED <<shopVars, cart, orderVars>>

\* Mutant: the record is not checked again once it is locked.
ConfirmPayment_NoRecheck(w) ==
  LET r == req[w] IN
  /\ r.op = "settle" /\ r.confirm
  /\ ~RecordLocked(r.order)
  /\ SettlePaid(r.order)
  /\ settledBy' = [settledBy EXCEPT ![r.order] = r.admin]
  /\ audited' = audited \cup {<<r.order, TRUE>>}
  /\ Continue(w, Idle)
  /\ UNCHANGED <<shelf, owner, method, stale, prompt, told>>

\* complete_payment locks a record that is still PENDING: confirmed.
ConfirmPayment(w) ==
  LET r == req[w] IN
  /\ r.op = "settle" /\ r.confirm
  /\ ~RecordLocked(r.order)
  /\ payment[r.order] = "PENDING"
  /\ SettlePaid(r.order)
  /\ settledBy' = [settledBy EXCEPT ![r.order] = r.admin]
  /\ audited' = audited \cup {<<r.order, TRUE>>}
  /\ Continue(w, Idle)
  /\ UNCHANGED <<shelf, owner, method, stale, prompt, told>>

\* ... or rejected: the lines to release are read before the products are locked.
RejectPayment(w) ==
  LET r == req[w] IN
  /\ r.op = "settle" /\ ~r.confirm
  /\ ~RecordLocked(r.order)
  /\ payment[r.order] = "PENDING"
  /\ Continue(w, [op |-> "release", order |-> r.order, admin |-> r.admin,
                  lines |-> OpenLines(r.order)])
  /\ UNCHANGED <<shopVars, cart, orderVars>>

\* _release_order_items with the products locked, and the commit.
ReleaseLines(w) ==
  LET r == req[w] IN
  /\ r.op = "release"
  /\ SettleFailed(r.order, r.lines)
  /\ settledBy' = [settledBy EXCEPT ![r.order] = r.admin]
  /\ audited' = audited \cup {<<r.order, FALSE>>}
  /\ Continue(w, Idle)
  /\ UNCHANGED <<shelf, owner, method, stale, prompt, told>>

\* Mutant: the answer does not depend on who settled the record.
SettlementTooLate_AlwaysAnswered(w) ==
  LET r == req[w] IN
  /\ r.op = "settle"
  /\ ~RecordLocked(r.order)
  /\ payment[r.order] # "PENDING"
  /\ audited' = audited \cup {<<r.order, r.confirm>>}
  /\ Continue(w, Idle)
  /\ UNCHANGED <<shopVars, cart, status, owner, method, payment, settledBy, line,
                 stale, prompt, told>>

\* The record was settled meanwhile: refused, unless this administrator settled
\* it, in which case the request answers and audits as if it had done so.
SettlementTooLate(w) ==
  LET r == req[w] IN
  /\ r.op = "settle"
  /\ ~RecordLocked(r.order)
  /\ payment[r.order] # "PENDING"
  /\ audited' = IF settledBy[r.order] = r.admin THEN audited \cup {<<r.order, r.confirm>>}
                                                ELSE audited
  /\ Continue(w, Idle)
  /\ UNCHANGED <<shopVars, cart, status, owner, method, payment, settledBy, line,
                 stale, prompt, told>>

\* The worker dies: an open transaction rolls back, what was committed stays.
Crash(w) ==
  /\ Crashes
  /\ req[w] # Idle
  /\ Continue(w, Idle)
  /\ UNCHANGED <<shopVars, cart, orderVars>>

-----------------------------------------------------------------------------
CartStep ==
  \E c \in Carts, p \in Products :
    \/ \E q \in 1..MaxQty : AddToCart(c, p, q)
    \/ \E q \in 0..MaxQty : ChangeCartLine(c, p, q)

ShelfStep == \E p \in Products, to \in {"published", "withdrawn", "deleted"} : Reshelve(p, to)

CheckoutStep(w) ==
  \/ PlaceOrder(w)
  \/ \E o \in Orders : SweepOwn(w, o)
  \/ LockCart(w)
  \/ Reserve(w)
  \/ RefuseCheckout(w)
  \/ PushAccepted(w)
  \/ PushRefused(w)

BuyerRequest(w) ==
  \/ \E c \in Carts, m \in Methods : BeginCheckout(w, c, m) \/ BeginReservation(w, c, m)
  \/ CheckoutStep(w)

StaffRequest(w) ==
  \/ \E o \in Orders, p \in Products, to \in LineStatus : BeginAdvance(w, o, p, to)
  \/ FinishAdvance(w)
  \/ FailAdvance(w)
  \/ \E a \in Admins, o \in Orders, confirm \in BOOLEAN : BeginSettlement(w, a, o, confirm)
  \/ ConfirmPayment(w)
  \/ RejectPayment(w)
  \/ ReleaseLines(w)
  \/ SettlementTooLate(w)

ProviderStep ==
  \E o \in Orders :
    \/ PromptArrives(o)
    \/ \E decision \in {"approved", "rejected"} : BuyerDecides(o, decision)
    \/ Callback(o)

TimeStep == \E o \in Orders : TimeOut(o) \/ Expire(o)

Next ==
  \/ CartStep
  \/ ShelfStep
  \/ \E w \in Buyers : BuyerRequest(w)
  \/ \E w \in Staff : StaffRequest(w)
  \/ ProviderStep
  \/ TimeStep
  \/ \E w \in Workers : Crash(w)

Spec == Init /\ [][Next]_vars

\* Web workers carry a checkout, and a transaction that holds locks, through
\* once it has begun.  Nothing obliges a buyer, an administrator, the provider
\* or a cron job to act.
FairSpec ==
  /\ Spec
  /\ \A w \in Buyers : WF_vars(CheckoutStep(w))
  /\ \A w \in Staff : WF_vars(ReleaseLines(w))

-----------------------------------------------------------------------------
(* Safety.                                                                  *)

\* The status of an order and of its payment always agree: an unpaid order
\* that waits is PENDING by an asynchronous method, a PLACED one is paid unless
\* it is cash on delivery, a PAYMENT_FAILED one has a FAILED payment.
OrderAgreesWithPayment ==
  \A o \in Orders :
    /\ status[o] = "NONE" => payment[o] = "NONE"
    /\ status[o] = "AWAITING_PAYMENT" =>
         payment[o] = "PENDING" /\ method[o] \in AwaitingMethods
    /\ status[o] = "PLACED" =>
         payment[o] = "SUCCEEDED" \/ (payment[o] = "PENDING" /\ method[o] = "cod")
    /\ status[o] = "PAYMENT_FAILED" => payment[o] = "FAILED"

\* A cart owner has one order waiting for payment at a time, however many
\* checkouts of the cart run at once (_place_awaiting_payment_order).
OneAwaitingOrderPerOwner ==
  \A o1, o2 \in Orders :
    (/\ status[o1] = "AWAITING_PAYMENT" /\ status[o2] = "AWAITING_PAYMENT"
     /\ owner[o1] = owner[o2]) => o1 = o2

\* Nobody prepares or ships a line before its order is paid, cash on delivery
\* apart, although the status check of a line is made on an unlocked read: an
\* awaiting order keeps its lines PENDING, and an order whose payment failed
\* has them all CANCELLED.
UnpaidNeverFulfilled ==
  \A o \in Orders, p \in Products :
    (method[o] # "cod" /\ line[o][p].qty > 0) =>
      /\ status[o] = "AWAITING_PAYMENT" => line[o][p].status = "PENDING"
      /\ status[o] = "PAYMENT_FAILED" => line[o][p].status = "CANCELLED"

\* A mobile-money order is placed only if its buyer approved the prompt,
\* whatever the order of callbacks, refusals and timeouts.
PlacedOnlyIfApproved ==
  \A o \in Orders :
    (method[o] = "mobile_money" /\ status[o] = "PLACED") => prompt[o] = "approved"

\* settle_manual_payment: what the audit log says of a manual settlement is
\* what happened to the payment.
AuditAgreesWithPayment ==
  \A o \in Orders :
    /\ <<o, TRUE>> \in audited => payment[o] = "SUCCEEDED"
    /\ <<o, FALSE>> \in audited => payment[o] = "FAILED"

\* The lock of a Cart row serialises the checkouts of its owner: a checkout that
\* holds it is the only one, and until it commits no order of the owner awaits
\* payment, whoever settles what meanwhile.
CartLockHolds ==
  /\ \A w \in Workers : req[w].op = "reserve" => Awaiting(req[w].cart) = {}
  /\ \A w1, w2 \in Workers :
       (/\ req[w1].op = "reserve" /\ req[w2].op = "reserve"
        /\ req[w1].cart = req[w2].cart) => w1 = w2

\* The lock of a PaymentRecord row protects the status read under it: a rejection
\* that is releasing lines is the only one of its order, and the payment stays
\* PENDING until it commits, whatever callback, sweep or administrator comes by.
RecordLockHolds ==
  /\ \A w \in Workers : req[w].op = "release" => payment[req[w].order] = "PENDING"
  /\ \A w1, w2 \in Workers :
       (/\ req[w1].op = "release" /\ req[w2].op = "release"
        /\ req[w1].order = req[w2].order) => w1 = w2

\* What a back-office request read without a lock and still relies on: an order
\* it advances stays placed unless its cash payment is rejected meanwhile, the
\* payment it settles is one that is settled by hand, and the lines of an order
\* that awaits payment do not move while they are being released.
UnlockedReadsHold ==
  \A w \in Workers :
    /\ req[w].op = "advance" =>
         \/ status[req[w].order] = "PLACED"
         \/ status[req[w].order] = "PAYMENT_FAILED" /\ method[req[w].order] = "cod"
    /\ req[w].op \in {"settle", "release"} =>
         status[req[w].order] # "NONE" /\ method[req[w].order] \in ManualMethods
    /\ req[w].op = "release" =>
         method[req[w].order] = "cod" \/ req[w].lines = OpenLines(req[w].order)

-----------------------------------------------------------------------------
(* What a step may never do.                                                *)

\* complete_payment is idempotent: a settled payment, its order and the
\* administrator who settled it never change again, whatever is repeated,
\* late or racing.
SettledForGood ==
  [][\A o \in Orders : payment[o] \in {"SUCCEEDED", "FAILED"} =>
        UNCHANGED <<payment[o], status[o], settledBy[o]>>]_vars

\* A payment that fails, however it fails, takes nothing out of a cart.
FailureKeepsCarts ==
  [][(\E o \in Orders : payment[o] = "PENDING" /\ payment'[o] = "FAILED")
        => UNCHANGED cart]_vars

-----------------------------------------------------------------------------
(* Refinement: the phase of an order is read off its payment.               *)

Phase(o) ==
  CASE payment[o] = "NONE"      -> "unused"
    [] payment[o] = "SUCCEEDED" -> "paid"
    [] payment[o] = "FAILED"    -> "failed"
    [] payment[o] = "PENDING"   -> IF status[o] = "PLACED" THEN "due" ELSE "reserved"

Lifecycle == INSTANCE OrderLifecycle
  WITH Owners <- Carts, NoOwner <- NoCart,
       phase <- [o \in Orders |-> Phase(o)], buyer <- owner

\* Checkout and settlement, with all their races, implement the lifecycle.
ImplementsLifecycle == Lifecycle!Spec

-----------------------------------------------------------------------------
(* Liveness.                                                                *)

\* A payment that timed out does not block its owner from trying again: once
\* the retry has listed it, its order stops awaiting payment.
RetryFreesOwner ==
  \A w \in Buyers, o \in Orders :
    (req[w].op = "sweep" /\ o \in req[w].todo) ~> (status[o] # "AWAITING_PAYMENT")

-----------------------------------------------------------------------------
(* What the repository says and the code does not keep: a run of TLC with    *)
(* one of these added refutes it.  No run of the project checks them.        *)

\* A checkout that answered payment_failed left no order that is placed or waits.
RefusedPushFailedOrder ==
  \A o \in Orders : told[o] = "payment_failed" => status[o] = "PAYMENT_FAILED"

\* "confirming it only marks the money received": confirming cash on delivery
\* changes no cart.
ConfirmingCashOnlyMarksMoney ==
  [][\A o \in Orders :
        (method[o] = "cod" /\ payment[o] = "PENDING" /\ payment'[o] = "SUCCEEDED")
          => UNCHANGED cart]_vars

\* A checkout whose cart has changed since it read it is refused: an order is
\* created with the lines its owner's cart holds at that moment.
StaleCartBlocked ==
  [][\A o \in Orders : (status[o] = "NONE" /\ status'[o] # "NONE") =>
        \A p \in Products : line'[o][p].qty <= cart[owner'[o]][p]]_vars

=============================================================================
