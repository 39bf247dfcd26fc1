# Verification of the emall marketplace

emall is a marketplace: vendors sell products and bookable services, buyers
(customers or guests) fill carts and check out, administrators settle manual
payments, move order lines along and pay vendors out. The backend is Django on
PostgreSQL at READ COMMITTED (`src/backend/apps`), served by several web
workers plus cron jobs; a Next.js frontend (`src/frontend`) talks to it over HTTP
and a WebSocket, and keeps much of the program's own concurrency: sessions in
several tabs, a shared socket, reads that answer late. This directory holds TLA+ models of its logic, the TLC runs that
check them and TLAPS proofs of what matters most.

## 1. Inventory

Each row: the state a component keeps, its operations, who it interacts with,
what is hard about it, and what makes it correct.

| Component (under `src/backend/apps` or `src/frontend/src`) | State | Operations | Interacts with | Hard behaviours | Correct when |
|---|---|---|---|---|---|
| checkout (`orders/services.py`, `orders/views.py`) | `Order`, `OrderItem`, `OrderDelivery` | four checkouts: card, cash on delivery, Lipa Namba, mobile money; quote | cart, catalogue (row locks on products), payments (gateway call after the commit) | concurrent checkouts of one cart or one product; the gateway failing after the commit; a worker dying in between | no oversell; one awaiting order per owner; the order is what the cart held; stock is conserved |
| payment settlement (`payments/outcomes.py`, `finance/views.py`) | `PaymentRecord` | callback, simulator, expiry (cron, poll, retry), manual confirm / reject | orders, cart (emptied when paid), audit | late, repeated, racing callbacks; expiry racing an answer; two administrators | a payment settles once; order, payment, audit and answer agree; failure returns the stock once |
| line fulfilment (`orders/services.py`, `delivery/views.py`) | `OrderItem.status`, rider | advance, cancel, assign rider, rider updates | catalogue stock, payouts | status read without a lock | only the adjacency map; stock restored once; unpaid orders untouched |
| cart (`cart/`) | `Cart`, `CartItem` | add, change, remove, merge of a guest's cart at login | checkout, accounts | read-modify-write, merge racing a checkout | no line lost or duplicated |
| catalogue (`catalog/`) | `Product`, `Category` | create, edit, publish, unpublish, soft delete | checkout (stock) | a vendor's edit saves the whole row over a sale | stock changes are not lost |
| payouts (`finance/services.py`) | `Payout`, `OrderItem.payout` | balance, create, disburse, retry | orders, an external disbursement | two administrators, a crash around the external call | a line is paid at most once, and eventually |
| bookings (`bookings/`) | `Service`, `Booking`, opening hours | request, accept, decline, cancel, expire | shops, an open-slot calculation | capacity, deadlines racing the buyer | capacity never exceeded, no lapsed booking accepted |
| shops (`vendors/`) | `Shop`, its status | apply, review, edit | catalogue, checkout | full-row saves | a review is not undone by an edit |
| delivery pricing (`delivery/pricing.py`) | settings | fee from distance | checkout | rounding | the fee the buyer was quoted |
| feedback, audit (`feedback/`, `audit/`) | ratings, an append-only log | create, list, moderate | orders | nothing on the server; on the pages, answers that come late | - |
| accounts (`accounts/`) | `User`, one-time codes, refresh tokens and their blacklist | register, log in, verify, reset, block, refresh, log out | every view, the session of the frontend | code reuse, rotation whose answer is lost, signing out racing a refresh | a code works once; rotation strands nobody; a signed-out or blocked user is out |
| session (`lib/api-client.ts`, `lib/auth-context.tsx`) | access token and user per tab, one refresh cookie for all tabs | restore, sign in, sign out, call, refresh and retry | accounts, every page | several calls and several tabs refreshing at once, answers late or lost | one refresh at a time per tab; no token resurrected or wrongly dropped; nobody waits for ever |
| realtime (`realtime/consumers.py`) | per connection: the user, the groups joined | authenticate, subscribe, publish after commit, close | live updates, every write | a change of account or rights while messages are on their way, the cap on the orders one socket watches | an event reaches whoever may see it, and nobody else |
| live updates (`lib/realtime.ts`) | one socket per tab, a count of the components that watch each order, a retry timer | mount, unmount, connect, authenticate, resubscribe, retry | session, realtime, pages | the token changing under the socket, drops, mounts while connecting | the groups joined are what is watched and allowed; the socket follows the account; who listens is connected in the end |
| list and detail pages (`app/**/page.tsx`, `lib/use-api.ts`) | what was answered last, the filter, spinner, error, disabled buttons | select, read, command, live refresh | the API, live updates | answers out of order, commands racing reads and other people | no spinner for ever; nothing stale shown as the answer |
| checkout and payment pages (`app/checkout/page.tsx`, `components/order/order-payment-screen.tsx`) | pin, quote, address, request; status polled | pin, search, type, submit, retry, poll | checkout, payment settlement, delivery pricing | late quotes and names, lost requests that are done, late callbacks | the fee on the button is the quote of the place the order goes to; a cart is prepaid once; the page says what happened and stops waiting |

What is hard to test is listed line by line under `hazards` in `PROJECT.json`,
with the properties that answer it.

## 2. Modules

| Module | What it is |
|---|---|
| `OrderPayments` | checkout, settlement and line fulfilment: the core |
| `OrderStock` | the stock account of `OrderPayments`: the units that order lines hold, counted |
| `OrderLifecycle` | the abstract promise about the money of an order |
| `MCOrderPayments` | the instances TLC checks |
| `OrderPaymentsProofs` | types, the inductive invariant and what it implies, what no step does, the audit log, the refinement of `OrderLifecycle` |
| `OrderStockProofs` | the stock account: never a unit lost, never one counted twice without a stale read |
| `OrderLines` | the status adjacency map of a line, shared by `OrderPayments` and `Payouts` |
| `Payouts` | vendor payouts, next to the staff actions that make earnings payable |
| `PayOnce` | the abstract promise of payouts: an earning is sent at most once, and reported as paid only if sent |
| `MCPayouts` | its instance |
| `PayoutProofs` | the inductive invariant of payouts, the refinement of `PayOnce`, and which lines are paid and counted |
| `Bookings` | requests, answers, deadlines, capacity and schedules of service bookings |
| `BookingCalendar` | the abstract promise of bookings: a time is granted only where there is room |
| `SlotSweep` | extends `Bookings`: the list of open times, which counts bookings by a sweep over their starts and ends |
| `MCBookings` | the instance of both |
| `BookingProofs` | the inductive invariant of bookings, the refinement of `BookingCalendar`, and what can overbook, the sweep of `SlotSweep` |
| `Session` | tokens of two tabs over one cookie, and the accounts server that rotates and revokes them |
| `MCSession` | its instance |
| `SessionProofs` | the inductive invariant of the tokens on their way, and the session's properties |
| `LiveSocket` | the shared socket of a tab and the consumer at its other end |
| `MCLiveSocket` | its instance |
| `LiveSocketProofs` | the inductive invariant of the socket and its three safety properties |
| `Screen` | a page that reads, filters, sends commands and hears live updates; what a page is made of is a record |
| `ScreenPages` | the 40 pages, as records of `Screen` |
| `MCScreens` | every page over two rows |
| `ScreenProofs` | the inductive invariant of `Screen`, for every record |
| `CheckoutForm` | the pin, the address and the quote of the checkout page |
| `PaymentScreen` | the page that waits for a payment |
| `Purchase` | the two pages composed with their requests and orders on the server |
| `MCPurchase` | its instance |
| `PurchaseProofs` | the inductive invariant of a purchase and its four safety properties |

`OrderStock` extends `OrderPayments`, and the MC and proof modules extend the
module they are about. The abstract specifications are instances inside the
detailed ones (`Lifecycle`, `Once`, `Calendar`). `ScreenPages` extends `Screen`;
`Purchase` extends `CheckoutForm` and `PaymentScreen`, which share no variable, and
adds the requests between them and the server.

## 3. OrderPayments: state, requests and atomicity

A request is a thread of a web worker. It reads rows, may wait for row locks, and
commits. At READ COMMITTED what it read before a lock can be out of date when it
gets the lock, so `req[w]` holds exactly what request `w` has read and not yet
used, and a handler is split into two actions only where the code reads and
then waits:

| Request (`req[w].op`) | Read so far | Split at |
|---|---|---|
| `order` | the cart lines, no lock (`_locked_cart_items`) | the product locks |
| `sweep` | the owner's timed-out payments (`expire_stale_payments`) | each payment's own transaction |
| `reserve` | the cart lines, under the Cart row lock | the product locks |
| `push` | the committed order | the gateway's answer |
| `advance` | a line and its status, no lock (`AdminOrderItemStatusUpdateView`) | the transaction |
| `settle` | a PENDING payment, no lock (`settle_manual_payment`) | the record lock |
| `release` | the lines to release, under the record lock | the product locks |

`CartLocked` and `RecordLocked` say that some request is between taking that lock
and its commit. Product locks are held within one action. The provider, the
buyer's phone and time act on their own (`ProviderStep`, `TimeStep`); a worker may
die at any point of a request (`Crash`): its open transaction rolls back and
what was committed stays.

The variables are the columns the decisions read: `shelf` (published, withdrawn
or deleted), `stock`, `cart`, `status`, `owner`, `method`, `payment`, `settledBy`, `line`. `stale` is the
set of payments older than their timeout, `prompt` what the buyer's phone did,
`told` what a mobile-money checkout answered, `audited` the audit rows of manual
settlements. Money, addresses, delivery fees, emails, realtime events and
formatting are left out. `card` stands for every method charged at once: the
charge is a mock, whose refusal is one of the reasons of `RefuseCheckout`.

A failing payment of an order that awaits payment is one action
(`FailAwaiting`): no line of such an order can be advanced (`UnlockedReadsHold`,
proved), so reading the lines and locking their products commute with every
other request. Only the rejection of a manual payment, which may hit a placed
cash-on-delivery order, is split (`RejectPayment`, `ReleaseLines`).

Operators named `X_Something`, marked "Mutant", are wrong versions of `X`, each
what a plausible bug would make of the code; nothing uses them. They show that a
property tells such a version from the right one: put in `X`'s place, TLC finds
the property violated.

## 4. Payouts: state, requests and atomicity

A payout (`finance/services.py`) is two transactions with a call in between.
`CreatePayout` and `RetryPayout` are the first one: under the lock of the shop's
row the destination is copied from the shop, the available lines are attached
and a PENDING row commits (`Claim`, `_claim_lines`). `Disburse` calls the provider
with no lock held. `RecordOutcome` is the second transaction. Between them the
request carries only what is in its memory (`req[w]`), and `Crash` loses that:
the row stays PENDING, whether or not the money has left.

| Variable | In the code |
|---|---|
| `lineStatus`, `payment` | `OrderItem.status`, `PaymentRecord.status` of placed orders |
| `inPayout` | `OrderItem.payout` |
| `payout` | the `Payout` rows, with the destination copied when they are claimed |
| `details` | `Shop.payout_network`, `payout_phone`, `payout_account_name` |
| `transfers` | what the provider really sent, which the code cannot see |

The provider is the boundary of the model. It sends, or refuses having sent
nothing, or answers PROCESSING, which says neither. That an error means
nothing was sent is what the comment at `finance/services.py:126-127` demands of an
adapter; it is an assumption here, and `hazards` lists what breaks without it.
`BeginAdvance` and `FinishAdvance` are the status views of `OrderPayments` again,
with the read of the line apart from its write; the confirmation and the
rejection of cash are one action each, because nothing here tells their parts
apart.

There is no liveness property: after a crash a payout is PENDING for ever, since
no code retries, completes or fails such a row.

## 5. Bookings: state, requests and atomicity

Every service function reads the clock once, before it waits for a lock, and
decides every deadline by that reading. So `req[w].now` may be in the past when
its transaction commits; that is the difficulty of this component.

| Request | Code | Steps |
|---|---|---|
| request a time | `request_booking` | read the clock and find the service; lock the customer; lock the shop and re-check everything; create and commit |
| accept, decline, cancel | `accept_booking`, `decline_booking`, `cancel_unpaid_booking` | read the clock and expire the booking if it is due, unless its row is locked (`skip_locked`); lock the row, check and write |
| expire | `expire_due_bookings`, from cron or any page that shows it | one transaction |
| schedule | `VendorShopScheduleView` | one transaction under the shop's lock |
| closures, publication | their views | one write, no lock |

`CustomerLocked` and `ShopLocked` say that a request is between taking the lock and
its commit. The status of a booking is not what holds its time: `Holds` reads the
deadlines, so a lapsed booking holds nothing although its row still says
REQUESTED. `late` is a history variable, no part of the code: the bookings
accepted by a request that read the clock before the deadline and wrote after it.
`LateAcceptance` shows what they cause; the other properties hold apart from them
and say so (`PromptHolding`).

One time unit is a slot step. All visits are on one day inside the booking
window: midnight, time zones and `BOOKING_MAX_ADVANCE_DAYS` are left out.
`Duration` is constant because a booking stores its end. Nothing pays for a
booking in this code yet, so CONFIRMED, COMPLETED and NO_SHOW are not reached, and
the statuses are those a booking can have.

## 6. Session: tabs, tokens and the cookie

`issued` numbers the token pairs the API has given out; `owner`, `revoked` and
`lapsed` say whose they are, which refresh tokens are on the blacklist and which
access tokens have expired. `cookie` is the refresh cookie all tabs share; `token`
and `user` are `accessToken` of `api-client.ts` and the user of `AuthProvider`, per
tab. 0 is no token.

A request is sent, handled and answered in three steps, so that anything may
happen in between. `refreshes[t]` holds the refresh requests of a tab with the
cookie they were sent with and the token they compare with (`refreshInFlight`,
`doRefresh`). `calls[t]` holds three callers: `restoreSession` (`boot`), a sign-in or
sign-out (`door`) and a request of a page (`page`), with the one retry of
`apiFetch` after a 401. `Handle` and `HandleRefresh` are the views: rotation
blacklists what it was sent. `EndAllSessions` is a password reset or a block.
`rotatedBy`, `wasted` and `signedOut` are history: who used up a token, whether
anybody was told, and who has signed out. No code reads them.

## 7. LiveSocket: both ends of a connection

`conn` is the record of `RealtimeConnection`'s fields together with the consumer at
the other end: `user` it authenticated and `groups` it joined. `up` and `down` are the
messages on their way, in order. `subscriptions` counts the components that watch
an order, by its id or by a guest's private token. A subscription beyond
`MaxSubscriptions` is refused and the socket stays open (`Subscription`). A token that is set, cleared or
replaced acts on the socket at once (`AfterToken` is `onTokenChange`); a refused one
is refreshed once (`asking`, `authRetried`), and a refresh that succeeds sets the
token of the cookie's account, even if the tab has signed out meanwhile
(`RefreshSucceeds`). `Drop` is the network; what was on its
way is lost with it. The delays of the retry timer are left out: it may fire at any
time. `HasRoom` and `MaxDrops` bound what people and the network do, never what
the code answers.

## 8. Screen: forty pages, one machine

Every page reads through an effect that runs again when its filter, its page
number or a version counter changes, and ignores the answer of the run before
it. `read` is the run that is not cancelled; `tasks` are the commands in flight
with the stage of their handler; `pending` is what disables buttons; `hint` is a live
update on its way, `missed` says that one was lost. `mine` is history: rows whose
last change is a command this page saw answered.

What differs between pages is a record: `live` (no updates, quiet or loud ones),
`hides` (the spinner replaces the list always or only at first), `tells` (whether an
error is drawn beside data), `guard` (one pending id per page, or one flag per row),
`shares` (a refused command writes the page's own error), `retries` (a refusal reads
again), `then` (how the page catches up with its own command), and the commands
and other people's changes of its rows. `ScreenPages` reads each field off the
page's source; a filter or a page number is a set of row-and-status pairs.

The pages differ in `then`, and so in what they keep: those whose handler only
bumps the version have one reader (`OneReader`), and the properties about late
answers are about them. A handler that reads on its own, beside the effect
(`then` is `load`, `fetch` or `refetch`), or that patches the row it was answered
(`replace`), can put an older answer over a newer one: the list of a filter that was
left can come last on the pages with such a `then`.

## 9. Purchase: checkout page, request, payment page

`CheckoutForm`: a pin is set by hand, by the device or by a suggested place; a new
pin cancels the quote and aborts the lookup of a name; a typed address is not
overwritten. `PaymentScreen`: the page asks for the payment's status, at once, on
a live update and by a timer whose interval depends on `known` and `live`.
`Purchase` adds the requests between them (`requests`), the cart (`filled`) and the
orders. A request is `here` while the page that sent it is open, and `lost` once
nobody waits for its answer: the server does it all the same, before, after or
while it is sent again. `at` says how far the server is, and each step is one
stretch of the code between locks, commits and the gateway:

- Cash: `ReadCart` reads the lines with no lock; the wait for the products' locks
  follows, and `PlaceCashOrder` places the order whatever has become of the cart.
- The other methods: `SweepStale` fails timed-out payments, `LockCart` takes the row of
  the cart, finds no awaiting order and reads the lines, `PlaceAwaitingOrder` commits
  and lets the row go; `PaymentPending` answers with an order that is awaiting already.
- Mobile money asks the gateway after the commit, with no lock: `InitiatePush`, then
  `PushAccepted` or `PushRefused`; a refused call may have reached the phone.

The callback, an administrator and the cron job settle orders meanwhile. An order is
`aged` once its time is up, `phone` is the prompt on the customer's phone, `asShown`
says that the fee on the button was the quote of the pin sent. The fee that is
charged is reckoned anew by the server from the cart and the shops as they are
then, and may differ: no property is about it.

## 10. What the runs check

Orders: all instances use one product and one cart, which is where requests
collide, a `MaxQty` of 1 and one or two order ids. Two orders are enough for a
retry, a double submission and two awaiting orders of one owner; a second product
or cart adds only independent copies. `Orders` is finite and a product can be
deleted, so the system really may stop and deadlock is not checked. The same goes
for payout and booking ids, and for the other modules, where nothing obliges
people to act once everything has been answered.

Payouts: two shops and two orders. One shop sells three lines, the last of them
with nothing to earn, so that a retry claims lines a first attempt did not have;
the other shop sells one line of an order both have a share in. Two payouts and two
finance requests let a retry race a new payout; there is one staff request.
`MCFewChoices` leaves out repetitions: only one order has cash due, lines travel
one at a time (payouts tell only delivered and cancelled lines apart from the
rest), the line with nothing to earn is not cancelled, and only one shop changes
its destination after entering it.

Bookings: two bookings and two requests in flight. The first shop has a long and a
brief service, the second, which is `c2`'s own, a brief one. `c1` asks both shops (the
customer's limit, 1 here); `c2`'s long visit overlaps `c1`'s in the first shop (the
capacity), and `c2`'s brief one follows `c1`'s back to back, so that a long window
touches both although they never run together. The constants keep the order of the
settings' values and make both deadlines of a visit at 3 fall at 1, so a clock up to
1 sees them reached while a request that read 0 is in flight; `LateAcceptance` needs
one step more. `MCFewEdits` keeps to one kind of edit at a time, all in the first
shop: it is closed, or its long service withdrawn, only while a booking is still to
come that this may refuse, and the capacity is raised only while neither holds. `OfferedTimesHaveRoom`
is looked at when no request is in flight, because the list reads nothing of the
requests.

Session: one account, two tabs, one of them with somebody in it (`DoorTabs`), so
that the other meets what happens behind its back. Three token pairs are a
session, its rotation and a third that replaces or follows it; two calls at a time
meet one refresh.

Live updates: two accounts of which one may watch the order; two components
on that order, so that one leaves while the other stays, and a third on an order
watched by its token. Three messages on their way when people act, two drops.
`MaxSubscriptions` is 2, as many as there are orders to watch: what a socket loses
beyond its cap (50 in the code, which says that nobody legitimately watches more)
is stated by `WatchesJoined` and proved for every cap; the run shows the equality below it.

Screens: two rows (a command on one meets a change of the other), the widest
filter of each page and one more, two commands in flight, or one where filters
overlap or updates are quiet, which is where the states multiply.

Purchases: one customer, one cart, two places (a late answer needs a place that
was left), three methods, two orders, two requests out at once. `CanTry` ends the
tries once both orders are placed or both requests are out, and once a request was
sent the customer types every address, because the names found for pins play no
part in what follows.

| Run | Instance | Shows |
|---|---|---|
| `CheckoutRaces` | 2 buyer requests, all methods, crashes, no staff | agreement of order and payment, one awaiting order per owner, approval before placing, refinement of `OrderLifecycle` |
| `SerialOffice` | 1 buyer and 1 staff request, all methods, fair workers | unpaid lines untouched, the audit log tells what happened, stock exactly conserved, failures keep carts, a retry frees the owner of a payment that timed out |
| `ConcurrentOffice` | 2 staff requests, manual methods | nothing settled twice, no stock lost |
| `PayoutRaces` | 2 finance requests, 1 staff request, crashes | no earning sent twice, rows agree with transfers, only received money is paid out, every earning counted once, refinement of `PayOnce` |
| `BookingRaces` | 2 requests, schedule edits | the limit of unpaid bookings, deadlines leave time, ended bookings stay ended, refinement of `BookingCalendar`; the sweep that offers times counts as `HasRoom` does |
| `SessionRaces` | 2 tabs, 1 cookie, lost and late answers | rotation never strands the browser, a tab never refuses itself, nobody waits for a refresh that is over, a refusal leaves a newer token alone |
| `LiveUpdates` | 3 components, 2 accounts, drops, fair deliveries | groups end up as what is watched and permitted, the socket follows the account, no connection stuck or leaked, who listens gets connected |
| `Screens` | each of 40 pages | no page loads for ever, rests on another filter's answer, or rests out of step with its own commands or the updates it heard |
| `Purchases` | 2 places, 3 methods, lost, repeated and abandoned requests | the address is that of the pin, the fee on the button is the quote of the place of the order, a cart is prepaid once however its requests overlap, "failed" is never said of a placed order, the payment page does not wait for ever |

Three runs end in a violation, each of one property that the repository states
and the code does not keep; `PROJECT.json` quotes the statement under `findings`.

| Run | The schedule TLC finds |
|---|---|
| `DoubleCancel` | two cancellations read one PENDING line; both commit; its stock comes back twice |
| `LateAcceptance` | an acceptance read the clock before the deadline; the request lapses and its time is booked again; the acceptance commits and the time is held twice |
| `RevivedSession` | a refresh is in flight when the user signs out; its answer sets the token, and the cookie, of the session that was ended |

The stale read of `DoubleCancel` has further effects that no run repeats: with it a
line moves against the adjacency map (CANCELLED to PROCESSING), a rejected order
gets a live line again, and a paid-out line is cancelled. That is why
`SerialOffice` and `PayoutRaces` have one staff request at a time: their
invariants on stock, audit and paid-out lines are what the code keeps without
that race. The confirmation and the rejection of one payment have a race of
their own: both are answered as done, and only the first takes effect
(`SettledForGood`, which `ConcurrentOffice` checks).

Seven more statements that the code does not keep stand at the end of their
modules, and no run checks them; added to the cfg of the run they are refuted.

| Statement | In | What breaks it |
|---|---|---|
| `RefusedPushFailedOrder` | `OrderPayments` | the push times out after the buyer approved it: the order is placed, the answer says payment_failed |
| `ConfirmingCashOnlyMarksMoney` | `OrderPayments` | the buyer fills the cart again before the cash is confirmed: the cart is emptied |
| `StaleCartBlocked` | `OrderPayments` | a card checkout read the cart, the line is removed in another tab, the order is placed with it |
| `ConnectedMeansUp` | `LiveSocket` | a refused refresh signs the tab out, which replaces the socket; the handler of the refusal then sets the flag while the new socket is still connecting |
| `EmptyMeansAnswered` | `Screen` | a quiet refresh supersedes the first load and fails: "Order not found." |
| `NothingCharged` | `Purchase` | the order's time is up after the buyer approved the prompt |
| `OrderedInCashOnce` | `Purchase` | a cash checkout is sent again while the first is between reading the lines and its locks: both place an order of the cart, though specs/003-cart-checkout/spec.md:160-162 says that the stale request is blocked |

Fairness. Orders (`FairSpec`): weak fairness of a checkout request that has begun
and of a rejection that holds its locks, because a web worker carries a request
through. Session: every request is answered or fails, and the browser runs its
continuation. Live updates: sockets open or fail, timers fire, the consumer takes
messages in order, and a refresh ends; `ListenersGetConnected` speaks of a tab
whose user stays the same, and `MaxDrops` lets the network recover. Purchases:
time passes, timers fire, and of status requests sent again and again some are
answered (strong fairness: a live update may always drop the one that is out).
Nothing obliges a buyer, an administrator, the provider or a cron job to act, so
an abandoned order may reserve its stock for ever; that is a hazard of the code,
and no property says otherwise.

## 11. What is proved

Every invariant and every action property that a run checks is stated by a
theorem, for every value of the constants; what stays with TLC is at the end of
this section. Five invariants are false of the program as a whole and are kept by
it only without one race, which section 10 describes.
Their theorems say which race, as a hypothesis on the behaviour, and a second
theorem shows that the hypothesis is met by an office with one request in
flight (`OneClerk`), the instance that TLC runs:

| Property | Holds as long as | Theorem | With one clerk |
|---|---|---|---|
| `StockConserved` | no back-office request is left with a line that another one moved since it was read (`FreshReads` of `OrderStockProofs`) | `StockConservedIfFresh` | `OneClerkConservesStock` |
| `AuditAgreesWithPayment` | no administrator has two settlements of one order in flight (`NoRivalSettlements`) | `AuditCorrectUnlessRivals` | `AuditCorrectForOneClerk` |
| `CancelledNeverPaid`, `PaidOnlyIfReceived` | no status view is left with a status that another one changed (`FreshReads` of `PayoutProofs`) | `CancelledNeverPaidIfFresh` | `SerialOfficePaysRight` |
| `EarningCountedOnce` | the same | `CountedOnceIfFresh` | `SerialOfficePaysRight` |

So two requests of the back office about the same line, or the same payment, are
the only causes: checkouts, callbacks, sweeps, payouts and crashes, any number of
them at once, cannot break these properties.

**Orders.** `TypeCorrect` proves `Spec => []TypeOK` for every set of products, carts,
orders, workers and administrators, from one assumption on constants
(`StockAssumption`). That `stock` stays a natural number is the absence of oversell.

`InvCorrect` proves an inductive invariant `IInv`. Agreement of order and
payment is inductive by itself; the other parts need each other. One awaiting
order per owner needs `CartLockHolds`: while a checkout holds the Cart row no order
of its owner starts to await payment. That a rejection finds its payment still
PENDING when it commits needs `RecordLockHolds`. `UnpaidNeverFulfilled` needs
`UnlockedReadsHold`: a line is advanced on a stale read, but the order it belongs
to was PLACED, and a placed order that is not cash on delivery is paid and never
fails. The proof first classifies every step (`StepClassified`): quiet, a claim, an
advance, a creation, a settlement, a release; each conjunct is then shown for
each kind. That a settled payment never changes (`SettledOnce`), that a payment
that fails takes nothing out of a cart (`FailureSparesCarts`) and the refinement of
`OrderLifecycle` (`Refinement`) follow the same kinds.

The audit log needs `SettlerKnown`: `settle_manual_payment` takes a payment for
settled by this request when the record names its administrator
(`SettlementTooLate`), so no request in flight may be of an administrator whom the
record already names. Without a rival of the same administrator it never is.

**Stock.** `OrderStock` counts units, one by one: the units of all orders are a subset
of `Orders \X (1..MaxQty)`, so that what a step does to the account is a fact about
the cardinality of two sets that differ by the units of one order (`UnitsSplit`,
`HeldChange`), and no induction over the orders is needed.
`StockNeverLostCorrect` needs no hypothesis: a stale cancellation restores a
line twice, and never forgets one. It uses that `Orders` is finite
(`OrdersAssumption`).

**Payouts.** `PInvCorrect` proves `PInv`: a payout is carried by at most one request,
its row is PENDING while it is, and the request knows whether the provider has sent
(`CarriedPending`, `CarriedOnce`, `CarrierKnows`); the rows agree with the
transfers and their amounts with the lines (`RowsAgreeWithTransfers`,
`RowsAddUp`); a payout is sent once (`SentOnce`). That a line is sent once follows:
the lines of two transfers are the lines of two different payouts. `Claim` keeps
it because an unclaimed row has no transfer, `RecordOutcome` because only a
refusal releases lines. The refinement of `PayOnce` adds that only the lines of a
transfer are ever reported as paid. So far the only
assumption is `AbsentAssumption`; no bound on staff is needed. Which lines are paid
is a second invariant (`LinesSettled`, with `ShapeAssumption`): the lines of a payout
are delivered and paid for, and those of a rejected payment are cancelled.

**Bookings.** `BInvCorrect` proves `BInv`: the clock a request read is past
(`NowPast`), each lock has one holder (`LocksExclude`), and with them `ChecksHold`, `UnpaidLimitKept` and
`DeadlinesLeaveTime`. The argument: a stale clock errs on the safe side, because
what holds its time now held it then; only `CreateBooking` makes a booking hold a
time, and it is serialised by the locks of `ChecksHold`; an acceptance keeps what
its booking held unless it is late. The refinement of `BookingCalendar` follows.
The proofs use every assumption on constants in `Bookings`.
`NeverOverbooked`, without the exception for late acceptances, is what `LateAcceptance`
refutes; `OnlyLateOverbooks` proves that nothing else breaks it: in a behaviour
without a late acceptance no moment becomes fuller than the capacity, however many
requests, answers and schedule edits run together.

`OfferedTimesCorrect` is about the algorithm of `open_slots`, for any set of bookings:
the count of the sweep at a start is the number of bookings that run then
(`CountIsRunning`, because a clipped booking that has ended has also begun), and what
runs at any moment of the window runs at the latest of its starts
(`FullestAtAStart`), so the highest count is below the capacity if and only if
every moment is (`PeakIsRoom`).

**Session.** `SessionProofs` proves `SInv`, about the serials that are on their way, for
any number of tabs, accounts, tokens and calls. A serial that an answer
brings was never presented by the browser before (`SerialsUnseen`) and comes in one
answer (`SerialsApart`); what revokes it before it arrives is the end of all sessions
(`Brought`). With that, a tab that rotated a cookie is about to be told, or has
been told and presents it no more (`RotationsTold`), and a revoked cookie is about to be
replaced or cleared by an answer on its way (`CookieReplaced`). `CookieNeverStranded`,
`OwnRotationNeverRefuses` and `NobodyWaitsAlone` follow. `RefusalKeepsNewerToken` is an
action property, and speaks of a tab in which no caller that waits for the
refused refresh clears the tab when it is resumed: `logout` and the `me` call of
`restoreSession` do (`Drops`), whatever the token is by then. The only assumption is
`BoundsAssumption`. A tab that signed out may get a token back
(`RevivedSession`); `OnlyRotationsRevive` proves that only a refresh that succeeds does it:
not a call in flight, its retry, a lost answer or a refused refresh.

**Live updates.** `LiveSocketProofs` proves `SocketInv`. Its heart is `Sound`, about the messages on
their way: the last authentication sent is of the account the tab has, the last
message about an order says whether it is watched, and a group is joined only if
such a message, or the watch itself, accounts for it. A handler of the code
either appends what keeps that so or drops the socket and the messages with it.
`Joined` says the converse, that what is watched and allowed is joined or asked
for; it is suspended while a refused token is being refreshed (`asking`), because
the server has then ignored what it was asked, and every answer of the refresh
restores it. `Counted` (the count of watching components) makes the last one that
leaves send the message. That every watch is joined holds up to the cap (`Fits`); that
none is kept too long needs no such condition. `WatchesJoined`, `SocketFollowsAccount` and
`NeverStuckNorLeaked` follow, for any number of components, orders and accounts.

**Screens.** `ScreenProofs` proves `Inv` for every record a page can be, not only the 40: a read
is for the selected filter (`ReadInv`), only pages that read beside the effect have
such reads (`TaskInv`), a spinner has its read (`SpinInv`), an answer on its way says
what is still so of this page's own commands and, if no update was missed, of
everything (`AnswerInv`), and so does what is shown without an error (`ShownInv`). A
command in flight may have cleared the error it will show again (`Excused`); the
properties speak of a page at rest, where there is none. They are `SpinnerEnds`,
`OwnWriteShown`, `InStepUnlessMissed`, `LateAnswersIgnored` and `SettledShowsKey`.

`OneCommandOut` proves `OneCommandPerRow`, from an invariant of its own (`FlagInv`): every
command out has its row in the pending set, and where the flag is the row's, the
row is on the screen or gone for good, also from every read that
is out. That is what `FlagOutlives` asks of a page: that the flag is the page's and
the page shows one object; or that it is the row's, and rows leave the screen neither
by a filter nor by a spinner, there is one reader, and no change takes a row off
a list to which another change could bring it back as something that accepts a
command (`TakenForGood`). The last condition is needed for arbitrary
records: a page whose list loses a row and gets it back loses the flag with it.
Of the 40 pages, those that had the other conditions have it.

**Purchases.** `PurchaseProofs` proves `PurchaseInv`: the quote and the lookup under way are for the
pin (`FormInv`); one request holds the row of the cart (`LockInv`), and while it does
every order of the customer is in cash or has failed; a cart that still has its lines
has no placed order, and two prepaid orders that have not failed exclude each other
(`OrdersInv`); a request names an order that is its
own and carries the quote of its pin (`RequestsInv`); a failure the page was told of
is a failure, which no callback undoes (`ScreenInv`). `AddressFollowsPin`, `ChargedAsShown`,
`PrepaidOnce` and `FailedNotPlaced` follow. `PrepaidOnce` excepts a pair one of which is
paid in cash, which takes no lock on the cart: `OrderedInCashOnce` is false.

Some invariants are proved and no longer run, since the theorem says more: the
types of every module, `CartLockHolds`, `RecordLockHolds`,
`UnlockedReadsHold`, `AmountsAddUp`, `PaidPayoutsKept`, `ChecksHold`, `QuotingEnds`,
`TypedKept` and `SettledShowsKey`.

Only model-checked: liveness (`RetryFreesOwner`, `ListenersGetConnected`,
`WaitingEnds`), which with ENABLED is out of the prover's reach. The seven statements at the
end of section 10 are false, so there is nothing to prove. Of the three violation
runs, what is proved is that the schedule TLC finds shows the only cause:
`StockConservedIfFresh` for `DoubleCancel`, `OnlyLateOverbooks` for `LateAcceptance`,
`OnlyRotationsRevive` for `RevivedSession`.

## 12. Plan

What could come next, the most consequential first.

| Module | Content | Properties and theorems |
|---|---|---|
| `Accounts` | one-time codes, verification, reset, blocking (`accounts/`) | a code works once and only the newest |
| `CartMerge` | quantities added by read-modify-write, lines removed in a second tab, the guest's cart merged at login | no line lost or duplicated by a merge |
| `Catalogue` | edits that save the whole row, next to sales and restocking; shop review and edits of the same kind | which columns an edit may restore; a review is not undone |
| `Deliveries` | riders: assignment, the rider's transitions, composed with the staff's (`OrderLines`) | a line is in one rider's hands; only along the map |
| `Commission` | rounding of `split_line`, changes of rates against orders in flight | earning plus commission is the line's total |

Theorems that could follow: that the frontend's one-refresh rule (`OneRefresh`) and the
socket's account (`SocketFollowsAccount`) compose, since both read the same token; the
safety half of the liveness properties (that no step takes back the progress they
count on); and the modules above as they are written.

## 13. Not modelled, and why

- Guest carts and their merge, one-time codes, the assignment of riders on the
  server, product and shop edits: planned above.
- The cart's badge, the navigation, the promotional slideshow, static pages: they
  show a count or a text and decide nothing.
- Forms that only post (a new product, a registration) and the editors of hours and
  closed days: one request, whose races are those of `Screen`'s commands. Lists
  that append ("Load more"): `Screen` replaces what is drawn; a hazard says what
  that leaves out.
- Nothing says whether a position of the device that comes after a pin set by hand
  should overwrite it, or an answered order take a customer back from the page they
  went to. The code does both; they are actions of `CheckoutForm` and `Purchase`, and
  no property calls them wrong.
- The groups of an account (`user.<id>`, `admins`), which `_auth` joins whenever it
  succeeds, and the events themselves: an event is a hint, and `Screen` has one on its
  way, which may be lost. The close of an idle socket is a `Drop`; the cap on the
  orders one socket watches, which leaves it open, is in `Subscription`.
- Feedback and the audit log's other rows on the server, delivery pricing: single
  writes or arithmetic with nothing to interleave but a database constraint.
- Notifications: emails after the commit, best effort, on which no state depends.
- Deployment, CI, migrations, fixtures, generated API schema: no behaviour of the
  program's own.
- Serializer formatting and validation of free text, money formatting, pages that
  render what the API answers.
- `BOOKING_MAX_ADVANCE_DAYS`, time zones and midnight: data that no property here
  tells apart.
- In place of the database, locks as predicates over requests: a product lock is
  taken and released inside one action, and deadlocks between transactions, which
  PostgreSQL resolves by aborting one (a `Crash` here), are left out.
