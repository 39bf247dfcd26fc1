------------------------------ MODULE Purchase ------------------------------
(***************************************************************************)
(* A customer's way from a cart to a paid order in one browser tab: the    *)
(* checkout page (CheckoutForm), the request that places the order, the    *)
(* payment page (PaymentScreen), and the server's side of them.  There a   *)
(* checkout reads the cart, waits for locks, commits and, for mobile       *)
(* money, calls the gateway afterwards: other requests run in between.     *)
(* Stock and other customers are those of OrderPayments.                   *)
(*                                                                         *)
(* A request whose answer is lost may still be done, before, after or      *)
(* while it is sent again; the customer may leave a page while its request *)
(* is out, and the answer then takes them away from the page they went to. *)
(***************************************************************************)
EXTENDS CheckoutForm, PaymentScreen, Naturals, Sequences, FiniteSets

CONSTANTS
    MaxOrders,      \* orders placed; bounds the tries
    MaxRequests     \* requests to place an order that are out at once

ASSUME BoundsAssumption ==
    MaxOrders \in Nat /\ MaxRequests \in Nat \ {0}

VARIABLES
    page,       \* the page that is open
    seen,       \* the order of the payment page
    requests,   \* requests to place an order
    filled,     \* the customer's cart on the server is not empty
    orders      \* the customer's orders, in the order they were placed

vars == <<formVars, screenVars, page, seen, requests, filled, orders>>

serverVars == <<filled, orders>>

Ids == DOMAIN orders

\* `aged`: it awaits its payment, and its time is up; `phone`: the prompt on the
\* phone, unanswered, approved (and charged), or approved and reported;
\* `asShown`: the fee on the button was for the pin of the order.
OrderTypes ==
    [method : Methods, status : OrderStatuses, asShown : BOOLEAN,
     aged : BOOLEAN, phone : {"none", "prompt", "approved", "called"}]

\* `at`: how far the server is: nothing is done, timed-out payments are failed,
\* the cart is read, the order that waits for its payment is committed, the
\* gateway has been asked, it is answered.  `here`: the page that sent it is
\* still open; `lost`: nobody waits for the answer; `placed`: the order it has
\* placed or is answered with, 0 if there is none; `pays`: that order is
\* answered as waiting for its payment.
RequestTypes ==
    [id : 1..MaxRequests, here : BOOLEAN, lost : BOOLEAN,
     at : {"new", "swept", "read", "committed", "asked", "answered"},
     method : Methods, asShown : BOOLEAN, placed : 0..MaxOrders, pays : BOOLEAN]

TypeOK ==
    /\ FormTypeOK
    /\ ScreenTypeOK
    /\ page \in {"checkout", "payment", "order", "elsewhere"}
    /\ seen \in 0..Len(orders)
    /\ requests \subseteq RequestTypes
    /\ filled \in BOOLEAN
    /\ orders \in Seq(OrderTypes) /\ Len(orders) <= MaxOrders

Init ==
    /\ FormInit
    /\ ScreenInit
    /\ page = "checkout"
    /\ seen = 0
    /\ requests = {}
    /\ filled = TRUE
    /\ orders = <<>>

-----------------------------------------------------------------------------
(* The checkout page.                                                      *)

FreeIds == {n \in 1..MaxRequests : \A r \in requests : r.id # n}

\* A bound: no further try.
CanTry == FreeIds # {} /\ Len(orders) < MaxOrders

\* Its form is used; it is not closed while a request is out.  A bound: once a
\* request was sent the customer types every address, since the names found for
\* pins take no part in what follows.
Form ==
    /\ page = "checkout" /\ CanTry
    /\ FormNext(filled)
    /\ typed' \/ (requests = {} /\ orders = <<>>)
    /\ UNCHANGED <<screenVars, page, seen, requests, serverVars>>

Submitting == \E r \in requests : r.here

\* `id` tells requests apart; it is nothing the server sees.
Submit ==
    /\ page = "checkout"
    /\ Priced /\ ~Submitting /\ CanTry
    /\ \E m \in Methods :
          requests' = requests \cup
             {[id |-> CHOOSE n \in FreeIds : TRUE, here |-> TRUE, lost |-> FALSE, at |-> "new",
               method |-> m, asShown |-> quote = pin, placed |-> 0, pays |-> FALSE]}
    /\ UNCHANGED <<formVars, screenVars, page, seen, serverVars>>

Becomes(r, s) == requests' = (requests \ {r}) \cup {s}
Forgets(r) == requests' = requests \ {r}
Goes(r, at) == Becomes(r, [r EXCEPT !.at = at])

\* Answered with order i, or refused.
Answered(r, i, pays) ==
    IF r.lost THEN Forgets(r)
    ELSE Becomes(r, [r EXCEPT !.at = "answered", !.placed = i, !.pays = pays])

-----------------------------------------------------------------------------
(* The server places an order.                                             *)

Awaiting(os) == {i \in DOMAIN os : os[i].status = "AWAITING_PAYMENT"}

Into(o, st) == [o EXCEPT !.status = st, !.aged = FALSE]

\* expire_stale_payments, of this customer.
Swept ==
    [i \in Ids |-> IF orders[i].status = "AWAITING_PAYMENT" /\ orders[i].aged
                   THEN Into(orders[i], "PAYMENT_FAILED") ELSE orders[i]]

NewOrder(r, st) ==
    [method |-> r.method, status |-> st, asShown |-> r.asShown,
     aged |-> FALSE, phone |-> "none"]

\* Cash on delivery: the lines are read with no lock, and the wait for the
\* products' locks follows.
ReadCart(r) ==
    /\ r.at = "new" /\ r.method = "cod"
    /\ filled
    /\ Goes(r, "read")
    /\ UNCHANGED <<formVars, screenVars, page, seen, serverVars>>

\* It is placed at once, whatever has become of the cart since it was read, and
\* the cart is emptied.
PlaceCashOrder(r) ==
    /\ r.at = "read" /\ r.method = "cod"
    /\ Len(orders) < MaxOrders
    /\ orders' = Append(orders, NewOrder(r, "PLACED"))
    /\ filled' = FALSE
    /\ Answered(r, Len(orders) + 1, FALSE)
    /\ UNCHANGED <<formVars, screenVars, page, seen>>

\* The other methods: timed-out payments are failed first.
SweepStale(r) ==
    /\ r.at = "new" /\ r.method # "cod"
    /\ orders' = Swept
    /\ Goes(r, "swept")
    /\ UNCHANGED <<formVars, screenVars, page, seen, filled>>

\* The lock of the Cart row, up to the commit.
HoldsCart(r) == r.at = "read" /\ r.method # "cod"
CartLocked == \E r \in requests : HoldsCart(r)

\* Mutant: the row of the cart is read without its lock.
LockCart_Unlocked(r) ==
    /\ r.at = "swept"
    /\ Awaiting(orders) = {} /\ filled
    /\ Goes(r, "read")
    /\ UNCHANGED <<formVars, screenVars, page, seen, serverVars>>

\* One order of the customer awaits its payment at a time; the lines are read
\* under the lock.
LockCart(r) ==
    /\ r.at = "swept" /\ ~CartLocked
    /\ Awaiting(orders) = {} /\ filled
    /\ Goes(r, "read")
    /\ UNCHANGED <<formVars, screenVars, page, seen, serverVars>>

\* payment_pending: the answer names the order that is waiting.
PaymentPending(r) ==
    /\ r.at = "swept" /\ ~CartLocked
    /\ Awaiting(orders) # {}
    /\ Answered(r, CHOOSE i \in Awaiting(orders) : TRUE, TRUE)
    /\ UNCHANGED <<formVars, screenVars, page, seen, serverVars>>

\* The cart is kept, and may be empty by now: a cash order takes no Cart lock.
PlaceAwaitingOrder(r) ==
    /\ HoldsCart(r)
    /\ Len(orders) < MaxOrders
    /\ orders' = Append(orders, NewOrder(r, "AWAITING_PAYMENT"))
    /\ IF r.method = "mobile_money"
       THEN Becomes(r, [r EXCEPT !.at = "committed", !.placed = Len(orders) + 1])
       ELSE Answered(r, Len(orders) + 1, TRUE)
    /\ UNCHANGED <<formVars, screenVars, page, seen, filled>>

\* An empty cart, a line that is not available, a field the server refuses: the
\* transaction is rolled back.
RefuseCheckout(r) ==
    /\ r.at \in {"new", "swept", "read"}
    /\ Answered(r, 0, FALSE)
    /\ UNCHANGED <<formVars, screenVars, page, seen, serverVars>>

\* Mutant: a late outcome settles the order once more.
Settle_Revives(i, paid, phone) ==
    LET first == orders[i].status # "PLACED"
        outcome == IF paid THEN "PLACED" ELSE "PAYMENT_FAILED"
    IN /\ orders' = [orders EXCEPT
              ![i] = [IF first THEN Into(@, outcome) ELSE @ EXCEPT !.phone = phone]]
       /\ filled' = (filled /\ ~(first /\ paid))

\* complete_payment: idempotent, so that only the first outcome counts.
Settle(i, paid, phone) ==
    LET first == orders[i].status = "AWAITING_PAYMENT"
        outcome == IF paid THEN "PLACED" ELSE "PAYMENT_FAILED"
    IN /\ orders' = [orders EXCEPT
              ![i] = [IF first THEN Into(@, outcome) ELSE @ EXCEPT !.phone = phone]]
       /\ filled' = (filled /\ ~(first /\ paid))

\* The gateway has the request, with no lock held: the prompt is on the phone.
InitiatePush(r) ==
    /\ r.at = "committed"
    /\ orders' = [orders EXCEPT ![r.placed].phone = "prompt"]
    /\ Goes(r, "asked")
    /\ UNCHANGED <<formVars, screenVars, page, seen, filled>>

\* The callback may have come first: the order is read again for the answer.
PushAccepted(r) ==
    /\ r.at = "asked"
    /\ Answered(r, r.placed, orders[r.placed].status = "AWAITING_PAYMENT")
    /\ UNCHANGED <<formVars, screenVars, page, seen, serverVars>>

\* The gateway refuses, or the call raises, though it may have reached the phone.
PushRefused(r) ==
    /\ r.at \in {"committed", "asked"}
    /\ Settle(r.placed, FALSE, orders[r.placed].phone)
    /\ Answered(r, 0, FALSE)
    /\ UNCHANGED <<formVars, screenVars, page, seen>>

\* The request or its answer is lost: the page shows an error, and the server
\* goes on, unless the request never arrived or its worker dies.
LoseCheckout(r) ==
    /\ IF r.lost \/ r.at = "answered" THEN Forgets(r)
       ELSE Becomes(r, [r EXCEPT !.lost = TRUE, !.here = FALSE])
    /\ UNCHANGED <<formVars, screenVars, page, seen, serverVars>>

-----------------------------------------------------------------------------
(* The tab moves from page to page.                                        *)

\* The pages that are left are closed; their requests go on.
Moves(next, order) ==
    /\ page' = next
    /\ seen' = order
    /\ IF next = "payment" THEN OpenScreen ELSE CloseScreen
    /\ IF page = "checkout" \/ next = "checkout"
       THEN ResetForm ELSE UNCHANGED formVars

Leave(rs) == {[r EXCEPT !.here = FALSE] : r \in rs}

\* handleSubmit, after its await: on to the payment, or to the order.
CheckoutArrives(r) ==
    /\ r.at = "answered"
    /\ UNCHANGED serverVars
    /\ LET i == r.placed IN
       \/ /\ i = 0
          /\ Forgets(r)
          /\ UNCHANGED <<formVars, screenVars, page, seen>>
       \/ /\ i # 0 /\ r.pays /\ page = "payment" /\ seen = i
          /\ Forgets(r)
          /\ UNCHANGED <<formVars, screenVars, page, seen>>
       \/ /\ i # 0 /\ ~(r.pays /\ page = "payment" /\ seen = i)
          /\ requests' = Leave(requests \ {r})
          /\ Moves(IF r.pays THEN "payment" ELSE "order", IF r.pays THEN i ELSE 0)

\* The customer goes elsewhere, or to the checkout ("Try again").
GoTo(next) ==
    /\ next \in {"checkout", "elsewhere"} \ {page}
    /\ requests' = Leave(requests)
    /\ Moves(next, 0)
    /\ UNCHANGED serverVars

-----------------------------------------------------------------------------
(* The payment page.                                                       *)

Screen ==
    /\ page = "payment"
    /\ ScreenNext(orders[seen].method)
    /\ UNCHANGED <<formVars, page, seen, requests, serverVars>>

\* payment_status_data: a payment that has timed out is failed on the spot.
AnswerPoll ==
    /\ page = "payment"
    /\ LET o == orders[seen]
           late == o.status = "AWAITING_PAYMENT" /\ o.aged
           now == IF late THEN "PAYMENT_FAILED" ELSE o.status
       IN /\ PollAnswered(now)
          /\ orders' = [orders EXCEPT ![seen] = IF late THEN Into(@, now) ELSE @]
    /\ UNCHANGED <<formVars, page, seen, requests, filled>>

\* Paid: on to the order.
PaidMovesOn ==
    /\ page = "payment"
    /\ poll.stage = "answered" /\ poll.status = "PLACED"
    /\ Moves("order", 0)
    /\ UNCHANGED <<requests, serverVars>>

-----------------------------------------------------------------------------
(* The payment, and the rest of the world.                                 *)

\* The customer enters their PIN: the prompt does not know that the order's
\* time is up.
Approve(i) ==
    /\ orders[i].phone = "prompt"
    /\ orders' = [orders EXCEPT ![i].phone = "approved"]
    /\ UNCHANGED <<formVars, screenVars, page, seen, requests, filled>>

\* The callback, of an approval, of a refusal or of a failure, if it ever comes.
Callback(i) ==
    /\ \/ orders[i].phone = "approved" /\ Settle(i, TRUE, "called")
       \/ orders[i].phone = "prompt" /\ Settle(i, FALSE, "none")
    /\ UNCHANGED <<formVars, screenVars, page, seen, requests>>

\* An administrator confirms or rejects a Lipa Namba payment.
SettleManually(i) ==
    /\ orders[i].method = "lipa_namba" /\ orders[i].status = "AWAITING_PAYMENT"
    /\ \E paid \in BOOLEAN : Settle(i, paid, "none")
    /\ UNCHANGED <<formVars, screenVars, page, seen, requests>>

\* The cron job that fails payments whose time is up.
ExpireStale(i) ==
    /\ orders[i].status = "AWAITING_PAYMENT" /\ orders[i].aged
    /\ Settle(i, FALSE, orders[i].phone)
    /\ UNCHANGED <<formVars, screenVars, page, seen, requests>>

Age(i) ==
    /\ orders[i].status = "AWAITING_PAYMENT" /\ ~orders[i].aged
    /\ orders' = [orders EXCEPT ![i].aged = TRUE]
    /\ UNCHANGED <<formVars, screenVars, page, seen, requests, filled>>

-----------------------------------------------------------------------------

Next ==
    \/ Form \/ Submit
    \/ \E r \in requests :
          \/ ReadCart(r) \/ PlaceCashOrder(r)
          \/ SweepStale(r) \/ LockCart(r) \/ PaymentPending(r) \/ PlaceAwaitingOrder(r)
          \/ InitiatePush(r) \/ PushAccepted(r) \/ PushRefused(r)
          \/ RefuseCheckout(r) \/ LoseCheckout(r) \/ CheckoutArrives(r)
    \/ \E next \in {"checkout", "elsewhere"} : GoTo(next)
    \/ Screen \/ AnswerPoll \/ PaidMovesOn
    \/ \E i \in Ids : Approve(i) \/ Callback(i) \/ SettleManually(i) \/ ExpireStale(i) \/ Age(i)

\* Time passes, timers fire, and of the status requests sent again and again
\* some are answered; no callback, customer or administrator owes anything.
Fairness ==
    /\ WF_vars(\E i \in Ids : Age(i))
    /\ WF_vars(Screen /\ TimerFires)
    /\ SF_vars(AnswerPoll)
    /\ SF_vars((Screen /\ PollArrives) \/ PaidMovesOn)

Spec == Init /\ [][Next]_vars /\ Fairness

-----------------------------------------------------------------------------

\* The fee on the button the customer pressed is that of the place the order
\* goes to: no quote of an earlier pin enables the button, or survives it.
ChargedAsShown == \A i \in Ids : orders[i].asShown

\* However often a checkout is lost, sent again and done late, and however the
\* copies overlap, of two orders of one cart that have not failed one is paid in
\* cash: prepaid orders exclude each other by the Cart row lock, the one order
\* that may await its payment, and the payment that empties the cart.
PrepaidOnce ==
    \A i, j \in Ids :
        i < j /\ orders[i].status # "PAYMENT_FAILED" /\ orders[j].status # "PAYMENT_FAILED"
            => orders[i].method = "cod" \/ orders[j].method = "cod"

\* "Payment not completed" is never said of an order that is placed, before or
\* after, whatever callback comes late: a settled payment stays settled.
FailedNotPlaced ==
    page = "payment" /\ Drawn = "failed" => orders[seen].status = "PAYMENT_FAILED"

\* order-payment-screen.tsx: "This page updates by itself".  It never waits for
\* ever, even if no callback and no live update ever comes: the server fails a
\* payment that is too old when it is asked for it, and the page asks again.
Waits == page = "payment" /\ Drawn = "waiting"
WaitingEnds == Waits ~> ~Waits

-----------------------------------------------------------------------------
(* What the repository says and the code does not keep: a run of TLC with    *)
(* this added refutes it.  No run of the project checks it.                *)

\* order-payment-screen.tsx, of a failed mobile money payment: "Nothing was
\* charged".
NothingCharged ==
    page = "payment" /\ Drawn = "failed" /\ orders[seen].method = "mobile_money"
        => orders[seen].phone \notin {"approved", "called"}

\* specs/003-cart-checkout/spec.md: when the cart was emptied meanwhile, "the
\* checkout re-validation catches the now-empty/changed cart and blocks the stale
\* request".  A cart would be ordered in cash once, but the lines are read
\* before the wait for the locks, and a checkout sent again while the first
\* is still running reads them too.
OrderedInCashOnce ==
    \A i, j \in Ids : i < j => orders[i].method # "cod" \/ orders[j].method # "cod"

=============================================================================
