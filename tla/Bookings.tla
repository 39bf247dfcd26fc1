------------------------------ MODULE Bookings ------------------------------
(***************************************************************************)
(* Bookings of a services shop (backend/apps/bookings): customers request  *)
(* a time, the provider accepts or declines, and deadlines end what nobody *)
(* answers or pays.  A booking holds its time only until its deadline: the *)
(* status of a lapsed booking changes when somebody looks at it.           *)
(*                                                                         *)
(* Every operation reads the clock once, before it waits for its locks, so *)
(* `req[w].now` may be in the past when its transaction commits.  A time   *)
(* unit is one slot step (BOOKING_SLOT_MINUTES); all visits are on one day *)
(* inside the booking window.  Nothing pays for a booking yet, so it never *)
(* becomes CONFIRMED, COMPLETED or NO_SHOW.  Shops are approved services   *)
(* shops: no code takes an approval back.                                  *)
(***************************************************************************)
EXTENDS Integers, FiniteSets

CONSTANTS
  Customers,
  Shops,
  Services,
  ShopOf,          \* Service.shop
  OwnerOf,         \* Shop.owner
  Duration,        \* Service.duration_minutes, in slot steps
  Wishes,          \* what customers may ask for: [customer, service, start]
  Openings,        \* opening periods a provider may enter: [opens, closes]
  Capacities,      \* capacities a provider may enter
  BookingIds,      \* booking ids not yet used (bounds the number of bookings)
  Workers,         \* requests that can be in flight at once
  MaxTime,         \* bounds the clock
  MinNotice,       \* BOOKING_MIN_NOTICE_HOURS
  ResponseTime,    \* BOOKING_RESPONSE_HOURS
  ResponseBuffer,  \* BOOKING_RESPONSE_BUFFER_MINUTES
  PaymentTime,     \* BOOKING_PAYMENT_HOURS
  PaymentBuffer,   \* BOOKING_PAYMENT_BUFFER_MINUTES
  MaxActiveUnpaid, \* BOOKING_MAX_ACTIVE_UNPAID
  NoVisit

ASSUME ShapeAssumption ==
  /\ ShopOf \in [Services -> Shops]
  /\ Duration \in [Services -> Nat \ {0}]
  /\ Wishes \subseteq [customer : Customers, service : Services, start : Nat]
  /\ Openings \subseteq [opens : Nat, closes : Nat]
  /\ Capacities \subseteq Nat \ {0}
  /\ IsFiniteSet(BookingIds)
ASSUME BoundsAssumption == MaxTime \in Nat /\ MaxActiveUnpaid \in Nat \ {0}
\* The order of the settings' values (backend/config/settings.py).
ASSUME TimingAssumption ==
  /\ {MinNotice, ResponseTime, ResponseBuffer, PaymentTime, PaymentBuffer} \subseteq Nat \ {0}
  /\ ResponseBuffer < MinNotice
  /\ PaymentBuffer <= ResponseBuffer

VARIABLES
  clock,
  booking,    \* the Booking rows
  capacity,   \* Shop.booking_capacity
  opening,    \* the OpeningHours of the day of the visits
  closed,     \* the shops with a ShopClosure on that day
  published,  \* the services that are published and not archived
  req,        \* the in-memory state of each request in flight
  late        \* history: bookings accepted after their answer was due

vars     == <<clock, booking, capacity, opening, closed, published, req, late>>
shopVars == <<capacity, opening, closed, published>>

VisitOf(v, start) == [shop |-> ShopOf[v], start |-> start, end |-> start + Duration[v]]
Visits == {VisitOf(wish.service, wish.start) : wish \in Wishes}
ASSUME AbsentAssumption == NoVisit \notin Visits

Unused == [status |-> "NONE", visit |-> NoVisit]
Ended  == {"DECLINED", "EXPIRED", "CANCELLED"}
\* A null pay_by or accepted_at is -1.
BookingRows ==
  {Unused} \cup
  [status : {"REQUESTED", "AWAITING_PAYMENT"} \cup Ended, visit : Visits, customer : Customers,
   respondBy : Int, payBy : Int, acceptedAt : Int]

Idle == [op |-> "idle"]
Requests ==
       {Idle}
  \cup [op : {"lockCustomer", "lockShop", "create"}, wish : Wishes, now : Nat]
  \cup [op : {"accept", "decline", "cancel"}, booking : BookingIds, now : Nat]

TypeOK ==
  /\ clock \in 0 .. MaxTime
  /\ booking \in [BookingIds -> BookingRows]
  /\ capacity \in [Shops -> Capacities]
  /\ opening \in [Shops -> Openings]
  /\ closed \in SUBSET Shops
  /\ published \in SUBSET Services
  /\ req \in [Workers -> Requests]
  /\ late \in SUBSET BookingIds

Init ==
  /\ clock = 0
  /\ booking = [b \in BookingIds |-> Unused]
  /\ capacity \in [Shops -> Capacities]
  /\ opening \in [Shops -> Openings]
  /\ closed = {}
  /\ published = Services
  /\ req = [w \in Workers |-> Idle]
  /\ late = {}

Continue(w, request) == req' = [req EXCEPT ![w] = request]

Earlier(m, n) == IF m <= n THEN m ELSE n

-----------------------------------------------------------------------------
(* The querysets: what holds a time is decided by the deadlines.            *)

Holds(row, now) ==
  \/ row.status = "REQUESTED" /\ row.respondBy > now
  \/ row.status = "AWAITING_PAYMENT" /\ row.payBy > now

Due(row, now) ==
  \/ row.status = "REQUESTED" /\ row.respondBy <= now
  \/ row.status = "AWAITING_PAYMENT" /\ row.payBy <= now

Holding(now) == {b \in BookingIds : Holds(booking[b], now)}

ActiveUnpaid(customer, now) == {b \in Holding(now) : booking[b].customer = customer}

\* The bookings among `holds` that run at one moment in one shop.
Running(holds, shop, moment) ==
  {b \in holds : /\ booking[b].visit.shop = shop
                 /\ booking[b].visit.start <= moment /\ moment < booking[b].visit.end}

\* The peak of `holds` during the visit is below the shop's capacity.
HasRoom(holds, x) ==
  \A moment \in x.start .. (x.end - 1) :
    Cardinality(Running(holds, x.shop, moment)) < capacity[x.shop]

SlotOpen(x, now) ==
  /\ x.shop \notin closed
  /\ opening[x.shop].opens <= x.start /\ x.end <= opening[x.shop].closes
  /\ x.start >= now + MinNotice
  /\ HasRoom(Holding(now), x)

-----------------------------------------------------------------------------
(* Deadlines.                                                               *)

Tick ==
  /\ clock < MaxTime
  /\ clock' = clock + 1
  /\ UNCHANGED <<booking, shopVars, req, late>>

ExpireIfDue(b, now) ==
  IF Due(booking[b], now) THEN [booking EXCEPT ![b].status = "EXPIRED"] ELSE booking

\* The cron job, or any page that shows the booking.
ExpireDueBooking(b) ==
  /\ Due(booking[b], clock)
  /\ booking' = ExpireIfDue(b, clock)
  /\ UNCHANGED <<clock, shopVars, req, late>>

-----------------------------------------------------------------------------
(* Requesting a time.                                                       *)

\* Mutant: the User row is read without select_for_update.
CustomerLocked_NoRowLock(c) == FALSE

CustomerLocked(c) ==
  \E w \in Workers : req[w].op \in {"lockShop", "create"} /\ req[w].wish.customer = c

ShopLocked(s) == \E w \in Workers : req[w].op = "create" /\ ShopOf[req[w].wish.service] = s

BeginRequest(w, wish) ==
  /\ req[w] = Idle
  /\ wish.service \in published
  /\ Continue(w, [op |-> "lockCustomer", wish |-> wish, now |-> clock])
  /\ UNCHANGED <<clock, booking, shopVars, late>>

LockCustomer(w) ==
  /\ req[w].op = "lockCustomer"
  /\ ~CustomerLocked(req[w].wish.customer)
  /\ Continue(w, [req[w] EXCEPT !.op = "lockShop"])
  /\ UNCHANGED <<clock, booking, shopVars, late>>

Acceptable(wish, now) ==
  /\ wish.service \in published
  /\ OwnerOf[ShopOf[wish.service]] # wish.customer
  /\ Cardinality(ActiveUnpaid(wish.customer, now)) < MaxActiveUnpaid
  /\ SlotOpen(VisitOf(wish.service, wish.start), now)

\* With both rows locked everything is read again ...
LockShop(w) ==
  /\ req[w].op = "lockShop"
  /\ ~ShopLocked(ShopOf[req[w].wish.service])
  /\ Acceptable(req[w].wish, req[w].now)
  /\ Continue(w, [req[w] EXCEPT !.op = "create"])
  /\ UNCHANGED <<clock, booking, shopVars, late>>

RefuseRequest(w) ==
  /\ req[w].op = "lockShop"
  /\ ~ShopLocked(ShopOf[req[w].wish.service])
  /\ ~Acceptable(req[w].wish, req[w].now)
  /\ Continue(w, Idle)
  /\ UNCHANGED <<clock, booking, shopVars, late>>

\* ... and the booking is created, answerable until some time before the visit.
CreateBooking(w, b) ==
  LET wish == req[w].wish IN
  /\ req[w].op = "create"
  /\ booking[b] = Unused
  /\ booking' = [booking EXCEPT ![b] =
       [status |-> "REQUESTED", visit |-> VisitOf(wish.service, wish.start),
        customer |-> wish.customer,
        respondBy |-> Earlier(req[w].now + ResponseTime, wish.start - ResponseBuffer),
        payBy |-> -1, acceptedAt |-> -1]]
  /\ Continue(w, Idle)
  /\ UNCHANGED <<clock, shopVars, late>>

-----------------------------------------------------------------------------
(* Answering and cancelling: first the booking is expired if it is due, in  *)
(* a transaction of its own that skips a row locked by another one, then    *)
(* its row is locked and checked.                                           *)

BeginAnswer(w, b, op) ==
  /\ req[w] = Idle
  /\ booking[b] # Unused
  /\ booking' \in {booking, ExpireIfDue(b, clock)}
  /\ Continue(w, [op |-> op, booking |-> b, now |-> clock])
  /\ UNCHANGED <<clock, shopVars, late>>

\* Mutant: a row the expiry skipped is answered after its deadline.
Answerable_StatusOnly(row, now) == row.status = "REQUESTED"

Answerable(row, now) == row.status = "REQUESTED" /\ row.respondBy > now

\* Mutant: the payment deadline is not brought forward to before the visit.
Accept_NoBuffer(w) ==
  LET r == req[w]  row == booking[r.booking] IN
  /\ r.op = "accept"
  /\ Answerable(row, r.now)
  /\ booking' = [booking EXCEPT ![r.booking] =
       [row EXCEPT !.status = "AWAITING_PAYMENT", !.acceptedAt = r.now,
          !.payBy = r.now + PaymentTime]]
  /\ late' = IF r.now < row.respondBy /\ row.respondBy <= clock THEN late \cup {r.booking} ELSE late
  /\ Continue(w, Idle)
  /\ UNCHANGED <<clock, shopVars>>

Accept(w) ==
  LET r == req[w]  row == booking[r.booking] IN
  /\ r.op = "accept"
  /\ Answerable(row, r.now)
  /\ booking' = [booking EXCEPT ![r.booking] =
       [row EXCEPT !.status = "AWAITING_PAYMENT", !.acceptedAt = r.now,
          !.payBy = Earlier(r.now + PaymentTime, row.visit.start - PaymentBuffer)]]
  /\ late' = IF r.now < row.respondBy /\ row.respondBy <= clock THEN late \cup {r.booking} ELSE late
  /\ Continue(w, Idle)
  /\ UNCHANGED <<clock, shopVars>>

Decline(w) ==
  LET r == req[w] IN
  /\ r.op = "decline"
  /\ Answerable(booking[r.booking], r.now)
  /\ booking' = [booking EXCEPT ![r.booking].status = "DECLINED"]
  /\ Continue(w, Idle)
  /\ UNCHANGED <<clock, shopVars, late>>

\* Mutant: the booking is cancelled whatever its status is by now.
Cancel_NoRecheck(w) ==
  LET r == req[w] IN
  /\ r.op = "cancel"
  /\ booking' = [booking EXCEPT ![r.booking].status = "CANCELLED"]
  /\ Continue(w, Idle)
  /\ UNCHANGED <<clock, shopVars, late>>

Cancel(w) ==
  LET r == req[w] IN
  /\ r.op = "cancel"
  /\ Holds(booking[r.booking], r.now)
  /\ booking' = [booking EXCEPT ![r.booking].status = "CANCELLED"]
  /\ Continue(w, Idle)
  /\ UNCHANGED <<clock, shopVars, late>>

\* "This booking can't be answered (or cancelled): it is ..."
AnswerConflict(w) ==
  LET r == req[w] IN
  /\ \/ r.op \in {"accept", "decline"} /\ ~Answerable(booking[r.booking], r.now)
     \/ r.op = "cancel" /\ ~Holds(booking[r.booking], r.now)
  /\ Continue(w, Idle)
  /\ UNCHANGED <<clock, booking, shopVars, late>>

-----------------------------------------------------------------------------
(* The provider's shop.                                                     *)

\* The schedule is saved under the shop's lock; existing bookings stand.
SaveSchedule(s, n, hours) ==
  /\ ~ShopLocked(s)
  /\ capacity' = [capacity EXCEPT ![s] = n]
  /\ opening' = [opening EXCEPT ![s] = hours]
  /\ UNCHANGED <<clock, booking, closed, published, req, late>>

\* Closures and publications are saved with no lock.
AddClosure(s) ==
  /\ s \notin closed
  /\ closed' = closed \cup {s}
  /\ UNCHANGED <<clock, booking, capacity, opening, published, req, late>>

RemoveClosure(s) ==
  /\ s \in closed
  /\ closed' = closed \ {s}
  /\ UNCHANGED <<clock, booking, capacity, opening, published, req, late>>

Publish(v) ==
  /\ published' = published \cup {v}
  /\ UNCHANGED <<clock, booking, capacity, opening, closed, req, late>>

\* Unpublishing and archiving.
Withdraw(v) ==
  /\ published' = published \ {v}
  /\ UNCHANGED <<clock, booking, capacity, opening, closed, req, late>>

-----------------------------------------------------------------------------
Requesting(w) ==
  \/ \E wish \in Wishes : BeginRequest(w, wish)
  \/ LockCustomer(w)
  \/ LockShop(w)
  \/ RefuseRequest(w)
  \/ \E b \in BookingIds : CreateBooking(w, b)

Answering(w) ==
  \/ \E b \in BookingIds, op \in {"accept", "decline", "cancel"} : BeginAnswer(w, b, op)
  \/ Accept(w)
  \/ Decline(w)
  \/ Cancel(w)
  \/ AnswerConflict(w)

Managing ==
  \/ \E s \in Shops, n \in Capacities, hours \in Openings : SaveSchedule(s, n, hours)
  \/ \E s \in Shops : AddClosure(s) \/ RemoveClosure(s)
  \/ \E v \in Services : Publish(v) \/ Withdraw(v)

Next ==
  \/ Tick
  \/ \E b \in BookingIds : ExpireDueBooking(b)
  \/ \E w \in Workers : Requesting(w) \/ Answering(w)
  \/ Managing

Spec == Init /\ [][Next]_vars

-----------------------------------------------------------------------------
(* Properties.  `late` is the exception that LateAcceptance is about: a     *)
(* booking accepted by a request that read the clock before the deadline    *)
(* and got its row after it.                                                *)

PromptHolding == Holding(clock) \ late

\* What a request has checked under its locks is still true when it creates the
\* booking: the shop and customer locks of request_booking serialise the requests for
\* a shop's capacity and for a customer's limit, and schedules are saved under the
\* shop's lock.
ChecksHold ==
  \A w \in Workers : req[w].op = "create" =>
    /\ HasRoom(PromptHolding, VisitOf(req[w].wish.service, req[w].wish.start))
    /\ Cardinality(ActiveUnpaid(req[w].wish.customer, clock) \ late) < MaxActiveUnpaid

\* A customer never has more active unpaid bookings than allowed, whichever shops the
\* concurrent requests are for (FR-014): the count of request_booking.
UnpaidLimitKept ==
  \A c \in Customers : Cardinality(ActiveUnpaid(c, clock) \ late) <= MaxActiveUnpaid

\* Deadlines leave time, however late in its window a step is taken: a request is due
\* ResponseBuffer before the visit, an accepted booking PaymentBuffer before it, and an
\* acceptance never makes a booking that was due when it was accepted.
DeadlinesLeaveTime ==
  \A b \in BookingIds :
    LET row == booking[b] IN
    /\ row.status = "REQUESTED" => row.respondBy <= row.visit.start - ResponseBuffer
    /\ row.status = "AWAITING_PAYMENT" =>
         row.acceptedAt < row.payBy /\ row.payBy <= row.visit.start - PaymentBuffer

\* If an accept, a decline, a cancel and a deadline land together only one takes effect
\* (services.py): an ended booking is never changed again.
EndedForGood ==
  [][\A b \in BookingIds : booking[b].status \in Ended => booking'[b] = booking[b]]_vars

\* Requests, answers and deadlines implement the promise of BookingCalendar: a time is
\* granted only where the shop has room at every moment of the visit, and a lapsed or
\* ended booking never holds its time again.
Calendar == INSTANCE BookingCalendar WITH
  Bookings <- BookingIds,
  visit <- [b \in BookingIds |-> booking[b].visit],
  held <- PromptHolding
ImplementsCalendar == Calendar!Spec

\* FR-012 of specs/008-service-bookings: the overlapping holding bookings of a shop never
\* exceed its capacity, also when requests arrive at the same moment.  A moment may
\* become fuller only up to the capacity (which the provider may lower at any time).
Moments == UNION {x.start .. (x.end - 1) : x \in Visits}
NeverOverbooked ==
  [][\A s \in Shops, m \in Moments :
       \/ Running(Holding(clock), s, m)' \subseteq Running(Holding(clock), s, m)
       \/ Cardinality(Running(Holding(clock), s, m)') <= capacity[s]]_vars

=============================================================================
