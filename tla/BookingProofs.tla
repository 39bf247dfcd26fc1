--------------------------- MODULE BookingProofs ---------------------------
(***************************************************************************)
(* Proofs about Bookings, for any number of customers, shops, bookings and *)
(* requests in flight.  The inductive invariant BInv says what a request   *)
(* relies on between its check and its insert: the locks exclude others,   *)
(* the clock it read is not in the future, and what it checked still holds.*)
(* From it follow the refinement of BookingCalendar, what can overbook a   *)
(* shop, and that the list of open times is the check of request_booking.  *)
(***************************************************************************)
EXTENDS SlotSweep, FiniteSetTheorems, WellFoundedInduction, TLAPS

\* A request has read the clock in the past.
NowPast == \A w \in Workers : req[w] # Idle => req[w].now <= clock

\* The rows locked by request_booking are locked by one request.
LocksExclude ==
  \A w, v \in Workers :
    /\ /\ {req[w].op, req[v].op} \subseteq {"lockShop", "create"}
       /\ req[w].wish.customer = req[v].wish.customer
       => w = v
    /\ /\ req[w].op = "create" /\ req[v].op = "create"
       /\ ShopOf[req[w].wish.service] = ShopOf[req[v].wish.service]
       => w = v

BInv ==
  /\ TypeOK
  /\ NowPast
  /\ LocksExclude
  /\ ChecksHold
  /\ UnpaidLimitKept
  /\ DeadlinesLeaveTime

Requesters == {"lockCustomer", "lockShop", "create"}
Answers    == {"accept", "decline", "cancel"}

-----------------------------------------------------------------------------
(* Types.                                                                   *)

LEMMA SettingsType ==
  /\ MinNotice \in Nat /\ ResponseTime \in Nat \ {0} /\ ResponseBuffer \in Nat
  /\ PaymentTime \in Nat \ {0} /\ PaymentBuffer \in Nat
BY TimingAssumption

\* A deadline is a number, and comes before the visit and after an earlier bound of both.
LEMMA DeadlineFields ==
  ASSUME NEW now \in Int, NEW time \in Nat \ {0}, NEW start \in Int, NEW buffer \in Nat
  PROVE  /\ Earlier(now + time, start - buffer) \in Int
         /\ Earlier(now + time, start - buffer) <= start - buffer
         /\ now < start - buffer => now < Earlier(now + time, start - buffer)
BY DEF Earlier

\* What the operation in a request says about its other fields.
LEMMA RequestFields ==
  ASSUME NEW r \in Requests
  PROVE  /\ r.op \in Requesters => r.wish \in Wishes /\ r.now \in Nat
         /\ r.op \in Answers => r.booking \in BookingIds /\ r.now \in Nat
         /\ r.op \notin Requesters \cup Answers => r = Idle
BY DEF Requests, Requesters, Answers, Idle

LEMMA WishFields ==
  ASSUME NEW wish \in Wishes
  PROVE  /\ wish.customer \in Customers /\ wish.service \in Services /\ wish.start \in Nat
         /\ VisitOf(wish.service, wish.start) \in Visits
         /\ VisitOf(wish.service, wish.start).start = wish.start
BY ShapeAssumption DEF Visits, VisitOf

LEMMA VisitFields ==
  ASSUME NEW x \in Visits
  PROVE  x.start \in Nat /\ x.end \in Nat /\ x.shop \in Shops /\ x # NoVisit
BY ShapeAssumption, AbsentAssumption DEF Visits, VisitOf

LEMMA RowFields ==
  ASSUME NEW row \in BookingRows, row.status # "NONE"
  PROVE  /\ row \in BookingRows \ {Unused}
         /\ row.visit \in Visits /\ row.customer \in Customers
         /\ row.respondBy \in Int /\ row.payBy \in Int /\ row.acceptedAt \in Int
BY DEF BookingRows, Unused

\* A row stays well formed when its status or its payment deadline changes.
LEMMA RowChanges ==
  ASSUME NEW row \in BookingRows, row.status # "NONE"
  PROVE  /\ \A s \in Ended : [row EXCEPT !.status = s] \in BookingRows
         /\ \A n, m \in Int :
              [row EXCEPT !.status = "AWAITING_PAYMENT", !.acceptedAt = n, !.payBy = m] \in BookingRows
<1> DEFINE Statuses == {"REQUESTED", "AWAITING_PAYMENT"} \cup Ended
           Rows == [status : Statuses, visit : Visits, customer : Customers,
                    respondBy : Int, payBy : Int, acceptedAt : Int]
<1>1. row \in Rows
  BY DEF BookingRows, Unused
<1>2. "AWAITING_PAYMENT" \in Statuses /\ Ended \subseteq Statuses
  OBVIOUS
<1> HIDE DEF Statuses
<1>3. \A s \in Statuses : [row EXCEPT !.status = s] \in Rows
  BY <1>1
<1>4. \A n, m \in Int :
        [row EXCEPT !.status = "AWAITING_PAYMENT", !.acceptedAt = n, !.payBy = m] \in Rows
  BY <1>1, <1>2
<1> QED
  BY <1>2, <1>3, <1>4 DEF BookingRows, Statuses

LEMMA ExpiryType ==
  ASSUME TypeOK, NEW b \in BookingIds, NEW now
  PROVE  ExpireIfDue(b, now) \in [BookingIds -> BookingRows]
<1>1. CASE Due(booking[b], now)
  <2>1. booking[b].status # "NONE"
    BY <1>1 DEF Due
  <2>2. [booking[b] EXCEPT !.status = "EXPIRED"] \in BookingRows
    BY <2>1, RowChanges DEF TypeOK, Ended
  <2> QED
    BY <1>1, <2>2 DEF ExpireIfDue, TypeOK
<1>2. CASE ~Due(booking[b], now)
  BY <1>2 DEF ExpireIfDue, TypeOK
<1> QED
  BY <1>1, <1>2

LEMMA InitType == Init => TypeOK
BY BoundsAssumption DEF Init, TypeOK, BookingRows, Requests

LEMMA RequestingType ==
  ASSUME TypeOK, NEW w \in Workers, Requesting(w)
  PROVE  TypeOK'
<1>1. ASSUME NEW wish \in Wishes, BeginRequest(w, wish)
      PROVE  TypeOK'
  <2>1. [op |-> "lockCustomer", wish |-> wish, now |-> clock] \in Requests
    BY BoundsAssumption DEF TypeOK, Requests
  <2> QED
    BY <1>1, <2>1 DEF BeginRequest, Continue, TypeOK, shopVars
<1>2. ASSUME LockCustomer(w) \/ LockShop(w)
      PROVE  TypeOK'
  <2>1. PICK op \in {"lockShop", "create"} : req' = [req EXCEPT ![w] = [req[w] EXCEPT !.op = op]]
    BY <1>2 DEF LockCustomer, LockShop, Continue
  <2>2. req[w] \in Requests /\ req[w].op \in Requesters
    BY <1>2 DEF LockCustomer, LockShop, TypeOK, Requesters
  <2>3. [req[w] EXCEPT !.op = op] \in Requests
    BY <2>2 DEF Requests, Requesters, Idle
  <2> QED
    BY <1>2, <2>1, <2>3 DEF LockCustomer, LockShop, TypeOK, shopVars
<1>3. CASE RefuseRequest(w)
  BY <1>3 DEF RefuseRequest, Continue, TypeOK, shopVars, Requests
<1>4. ASSUME NEW b \in BookingIds, CreateBooking(w, b)
      PROVE  TypeOK'
  <2>1. req[w].wish \in Wishes /\ req[w].now \in Nat
    BY <1>4, RequestFields DEF CreateBooking, TypeOK, Requesters
  <2>2. /\ req[w].wish.customer \in Customers /\ req[w].wish.start \in Nat
        /\ VisitOf(req[w].wish.service, req[w].wish.start) \in Visits
    BY <2>1, WishFields
  <2>3. Earlier(req[w].now + ResponseTime, req[w].wish.start - ResponseBuffer) \in Int
    BY <2>1, <2>2, DeadlineFields, SettingsType
  <2>4. booking' \in [BookingIds -> BookingRows]
    BY <1>4, <2>2, <2>3 DEF CreateBooking, TypeOK, BookingRows
  <2> QED
    BY <1>4, <2>4 DEF CreateBooking, Continue, TypeOK, shopVars, Requests
<1> QED
  BY <1>1, <1>2, <1>3, <1>4 DEF Requesting

LEMMA AnsweringType ==
  ASSUME TypeOK, NEW w \in Workers, Answering(w)
  PROVE  TypeOK'
<1>1. ASSUME NEW b \in BookingIds, NEW op \in Answers, BeginAnswer(w, b, op)
      PROVE  TypeOK'
  <2>1. [op |-> op, booking |-> b, now |-> clock] \in Requests
    BY BoundsAssumption DEF TypeOK, Requests, Answers
  <2>2. booking' \in [BookingIds -> BookingRows]
    BY <1>1, ExpiryType DEF BeginAnswer, TypeOK
  <2> QED
    BY <1>1, <2>1, <2>2 DEF BeginAnswer, Continue, TypeOK, shopVars
<1>2. ASSUME Accept(w) \/ Decline(w) \/ Cancel(w)
      PROVE  TypeOK'
  <2>1. req[w].booking \in BookingIds /\ req[w].now \in Nat
    BY <1>2, RequestFields DEF Accept, Decline, Cancel, TypeOK, Answers
  <2> DEFINE row == booking[req[w].booking]
  <2>2. row \in BookingRows /\ row.status # "NONE"
    BY <1>2, <2>1 DEF Accept, Decline, Cancel, Answerable, Holds, TypeOK
  <2>3. row.visit.start \in Nat
    BY <2>2, RowFields, VisitFields
  <2>4. Earlier(req[w].now + PaymentTime, row.visit.start - PaymentBuffer) \in Int
    BY <2>1, <2>3, DeadlineFields, SettingsType
  <2>5. booking' \in [BookingIds -> BookingRows]
    <3>1. CASE Accept(w)
      <4> DEFINE payBy == Earlier(req[w].now + PaymentTime, row.visit.start - PaymentBuffer)
      <4>1. [row EXCEPT !.status = "AWAITING_PAYMENT", !.acceptedAt = req[w].now, !.payBy = payBy]
              \in BookingRows
        <5>1. \A n, m \in Int :
                [row EXCEPT !.status = "AWAITING_PAYMENT", !.acceptedAt = n, !.payBy = m]
                  \in BookingRows
          BY <2>2, RowChanges
        <5>2. payBy \in Int /\ req[w].now \in Int
          BY <2>1, <2>4
        <5> HIDE DEF payBy, row
        <5> QED
          BY <5>1, <5>2
      <4> QED
        BY <3>1, <2>1, <4>1 DEF Accept, TypeOK
    <3>2. CASE Decline(w) \/ Cancel(w)
      BY <3>2, <2>1, <2>2, RowChanges DEF Decline, Cancel, TypeOK, Ended
    <3> QED
      BY <1>2, <3>1, <3>2
  <2>6. late' \in SUBSET BookingIds /\ req' \in [Workers -> Requests]
    BY <1>2, <2>1 DEF Accept, Decline, Cancel, Continue, TypeOK, Requests
  <2> QED
    BY <1>2, <2>5, <2>6 DEF Accept, Decline, Cancel, TypeOK, shopVars
<1>3. CASE AnswerConflict(w)
  BY <1>3 DEF AnswerConflict, Continue, TypeOK, shopVars, Requests
<1> QED
  BY <1>1, <1>2, <1>3 DEF Answering, Answers

LEMMA TypeStep ==
  ASSUME TypeOK, [Next]_vars
  PROVE  TypeOK'
<1>1. CASE Tick
  BY <1>1, BoundsAssumption DEF Tick, TypeOK, shopVars
<1>2. ASSUME NEW b \in BookingIds, ExpireDueBooking(b)
      PROVE  TypeOK'
  BY <1>2, ExpiryType DEF ExpireDueBooking, TypeOK, shopVars
<1>3. ASSUME NEW w \in Workers, Requesting(w) \/ Answering(w)
      PROVE  TypeOK'
  BY <1>3, RequestingType, AnsweringType
<1>4. CASE Managing
  BY <1>4 DEF Managing, SaveSchedule, AddClosure, RemoveClosure, Publish, Withdraw, TypeOK
<1>5. CASE UNCHANGED vars
  BY <1>5 DEF vars, TypeOK
<1> QED
  BY <1>1, <1>2, <1>3, <1>4, <1>5 DEF Next

-----------------------------------------------------------------------------
(* What requests remember.                                                  *)

LEMMA NowStep ==
  ASSUME TypeOK, NowPast, [Next]_vars
  PROVE  NowPast'
<1> USE DEF NowPast
<1>1. CASE Tick
  <2>1. clock' = clock + 1 /\ req' = req /\ clock \in Int
    BY <1>1 DEF Tick, TypeOK
  <2>2. \A w \in Workers : req[w] # Idle => req[w].now \in Int
    BY RequestFields DEF TypeOK, Requesters, Answers, Requests
  <2> QED
    BY <2>1, <2>2
<1>2. ASSUME NEW w \in Workers, Requesting(w) \/ Answering(w)
      PROVE  NowPast'
  <2>1. clock' = clock
    BY <1>2 DEF Requesting, Answering, BeginRequest, LockCustomer, LockShop, RefuseRequest,
       CreateBooking, BeginAnswer, Accept, Decline, Cancel, AnswerConflict
  <2>4. clock \in Int
    BY BoundsAssumption DEF TypeOK
  <2>2. \A v \in Workers \ {w} : req'[v] = req[v]
    BY <1>2 DEF Requesting, Answering, BeginRequest, LockCustomer, LockShop, RefuseRequest,
       CreateBooking, BeginAnswer, Accept, Decline, Cancel, AnswerConflict, Continue, TypeOK
  <2>3. req'[w] # Idle => req'[w].now \in {clock, req[w].now} /\ (req'[w].now # clock => req[w] # Idle)
    <3>1. ASSUME NEW wish \in Wishes, BeginRequest(w, wish)
          PROVE  req'[w].now = clock
      BY <3>1 DEF BeginRequest, Continue, TypeOK
    <3>2. CASE LockCustomer(w) \/ LockShop(w)
      <4>1. req[w] \in Requests /\ req[w].op \in Requesters
        BY <3>2 DEF LockCustomer, LockShop, TypeOK, Requesters
      <4>2. \A op : [req[w] EXCEPT !.op = op].now = req[w].now /\ req[w] # Idle
        BY <4>1 DEF Requests, Requesters, Idle
      <4> QED
        BY <3>2, <4>2 DEF LockCustomer, LockShop, Continue, TypeOK
    <3>3. ASSUME NEW b \in BookingIds, RefuseRequest(w) \/ CreateBooking(w, b)
          PROVE  req'[w] = Idle
      BY <3>3 DEF RefuseRequest, CreateBooking, Continue, TypeOK
    <3>4. CASE RefuseRequest(w)
      BY <3>4 DEF RefuseRequest, Continue, TypeOK
    <3>5. CASE Requesting(w)
      BY <3>1, <3>2, <3>3, <3>4, <3>5 DEF Requesting
    <3>6. CASE Answering(w)
      BY <3>6 DEF Answering, BeginAnswer, Accept, Decline, Cancel, AnswerConflict, Continue, TypeOK
    <3> QED
      BY <1>2, <3>5, <3>6
  <2> QED
    BY <2>1, <2>2, <2>3, <2>4
<1>3. ASSUME UNCHANGED <<clock, req>>
      PROVE  NowPast'
  BY <1>3
<1>4. CASE Managing \/ UNCHANGED vars \/ \E b \in BookingIds : ExpireDueBooking(b)
  BY <1>3, <1>4 DEF Managing, SaveSchedule, AddClosure, RemoveClosure, Publish, Withdraw, vars,
     ExpireDueBooking
<1> QED
  BY <1>1, <1>2, <1>4 DEF Next

LEMMA LocksStep ==
  ASSUME TypeOK, LocksExclude, [Next]_vars
  PROVE  LocksExclude'
<1> USE DEF LocksExclude
<1>1. ASSUME NEW w \in Workers, req' = [req EXCEPT ![w] = Idle] \/ UNCHANGED req
      PROVE  LocksExclude'
  BY <1>1 DEF TypeOK, Idle
<1>2. ASSUME NEW w \in Workers, NEW r, req' = [req EXCEPT ![w] = r],
             r.op \notin {"lockShop", "create"}
      PROVE  LocksExclude'
  BY <1>2 DEF TypeOK
<1>3. ASSUME NEW w \in Workers, LockCustomer(w)
      PROVE  LocksExclude'
  <2>1. /\ req[w].wish = req'[w].wish /\ req'[w].op = "lockShop"
        /\ \A v \in Workers \ {w} : req'[v] = req[v]
    BY <1>3, RequestFields DEF LockCustomer, Continue, TypeOK, Requests, Idle
  <2>2. \A v \in Workers : req[v].op \in {"lockShop", "create"} =>
          req[v].wish.customer # req[w].wish.customer
    BY <1>3 DEF LockCustomer, CustomerLocked
  <2> QED
    BY <2>1, <2>2
<1>4. ASSUME NEW w \in Workers, LockShop(w)
      PROVE  LocksExclude'
  <2>1. /\ req[w].wish = req'[w].wish /\ req[w].op = "lockShop" /\ req'[w].op = "create"
        /\ \A v \in Workers \ {w} : req'[v] = req[v]
    BY <1>4, RequestFields DEF LockShop, Continue, TypeOK, Requests, Idle
  <2>2. \A v \in Workers : req[v].op = "create" =>
          ShopOf[req[v].wish.service] # ShopOf[req[w].wish.service]
    BY <1>4 DEF LockShop, ShopLocked
  <2> QED
    BY <2>1, <2>2
<1>5. ASSUME NEW w \in Workers, Requesting(w)
      PROVE  LocksExclude'
  BY <1>1, <1>2, <1>3, <1>4, <1>5 DEF Requesting, BeginRequest, RefuseRequest, CreateBooking, Continue
<1>6. ASSUME NEW w \in Workers, Answering(w)
      PROVE  LocksExclude'
  BY <1>1, <1>2, <1>6 DEF Answering, BeginAnswer, Accept, Decline, Cancel, AnswerConflict, Continue
<1>7. CASE UNCHANGED req
  BY <1>7
<1>8. CASE Managing \/ UNCHANGED vars \/ Tick \/ \E b \in BookingIds : ExpireDueBooking(b)
  BY <1>7, <1>8 DEF Managing, SaveSchedule, AddClosure, RemoveClosure, Publish, Withdraw, vars,
     ExpireDueBooking, Tick
<1> QED
  BY <1>5, <1>6, <1>8 DEF Next

-----------------------------------------------------------------------------
(* What holds a time.  Only CreateBooking makes a booking hold its time; a  *)
(* late acceptance leaves PromptHolding.                                    *)

NoneGained(except) ==
  \A b \in BookingIds \ except : b \in PromptHolding' =>
    /\ b \in PromptHolding
    /\ booking'[b].visit = booking[b].visit /\ booking'[b].customer = booking[b].customer

\* The prompt active unpaid bookings of a customer.
PromptUnpaid(c) == ActiveUnpaid(c, clock) \ late

LEMMA PromptFinite ==
  ASSUME NEW s, NEW m, NEW c
  PROVE  /\ Running(PromptHolding, s, m) \in SUBSET BookingIds
         /\ PromptUnpaid(c) \in SUBSET BookingIds
         /\ IsFiniteSet(Running(PromptHolding, s, m)) /\ IsFiniteSet(PromptUnpaid(c))
<1>1. Running(PromptHolding, s, m) \in SUBSET BookingIds /\ PromptUnpaid(c) \in SUBSET BookingIds
  BY DEF Running, PromptHolding, PromptUnpaid, Holding, ActiveUnpaid
<1> QED
  BY <1>1, FS_Subset, ShapeAssumption

\* Time alone gains nothing.
LEMMA HoldsEarlier ==
  ASSUME TypeOK, NEW b \in BookingIds, NEW now \in Int, NEW then \in Int, then <= now,
         Holds(booking[b], now)
  PROVE  Holds(booking[b], then)
<1>1. booking[b] \in BookingRows /\ booking[b].status # "NONE"
  BY DEF TypeOK, Holds
<1>2. booking[b].respondBy \in Int /\ booking[b].payBy \in Int
  BY <1>1, RowFields
<1> QED
  BY <1>2 DEF Holds

LEMMA SameRowsGainNone ==
  ASSUME TypeOK, TypeOK', clock' >= clock, late \subseteq late',
         NEW except, \A b \in BookingIds \ except : booking'[b] = booking[b] \/ ~Holds(booking'[b], clock') \/ b \in late'
  PROVE  NoneGained(except)
<1> SUFFICES ASSUME NEW b \in BookingIds \ except, b \in PromptHolding'
             PROVE  /\ b \in PromptHolding
                    /\ booking'[b].visit = booking[b].visit
                    /\ booking'[b].customer = booking[b].customer
  BY DEF NoneGained
<1>1. Holds(booking'[b], clock') /\ b \notin late'
  BY DEF PromptHolding, Holding
<1>2. booking'[b] = booking[b] /\ b \notin late
  BY <1>1
<1>3. clock \in Int /\ clock' \in Int
  BY BoundsAssumption DEF TypeOK
<1>4. Holds(booking[b], clock)
  BY <1>1, <1>2, <1>3, HoldsEarlier
<1> QED
  BY <1>2, <1>4 DEF PromptHolding, Holding

LEMMA EndedHoldsNothing ==
  ASSUME NEW row, row.status \in Ended, NEW now
  PROVE  ~Holds(row, now)
BY DEF Ended, Holds

LEMMA ExpiryRows ==
  ASSUME TypeOK, NEW b \in BookingIds, NEW now, booking' = ExpireIfDue(b, now) \/ booking' = booking
  PROVE  \A c \in BookingIds : booking'[c] = booking[c] \/ booking'[c].status \in Ended
<1>1. CASE Due(booking[b], now) /\ booking' = ExpireIfDue(b, now)
  <2>1. booking[b] \in BookingRows /\ booking[b].status # "NONE"
    BY <1>1 DEF Due, TypeOK
  <2>2. [booking[b] EXCEPT !.status = "EXPIRED"].status = "EXPIRED"
    BY <2>1 DEF BookingRows, Unused
  <2> QED
    BY <1>1, <2>2 DEF ExpireIfDue, TypeOK, Ended
<1>2. CASE ~(Due(booking[b], now) /\ booking' = ExpireIfDue(b, now))
  BY <1>2 DEF ExpireIfDue
<1> QED
  BY <1>1, <1>2

LEMMA AcceptGainsNone ==
  ASSUME TypeOK, TypeOK', NEW w \in Workers, Accept(w)
  PROVE  NoneGained({})
<1>1. PICK b \in BookingIds : b = req[w].booking
  BY RequestFields DEF Accept, TypeOK, Answers
<1>2. \A c \in BookingIds \ {b} : booking'[c] = booking[c]
  BY <1>1 DEF Accept, TypeOK
<1>3. clock' = clock /\ late \subseteq late' /\ clock \in Int
  BY BoundsAssumption DEF Accept, TypeOK
<1>4. NoneGained({b})
  BY <1>2, <1>3, SameRowsGainNone
<1>5. booking[b] \in BookingRows /\ booking[b].status = "REQUESTED" /\ req[w].now < booking[b].respondBy
  BY <1>1 DEF Accept, Answerable, TypeOK
<1>6. booking'[b].visit = booking[b].visit /\ booking'[b].customer = booking[b].customer
  BY <1>1, <1>5 DEF Accept, TypeOK, BookingRows, Unused
<1>7. booking[b].respondBy \in Int
  BY <1>5, RowFields
<1>8. b \notin late' => Holds(booking[b], clock) /\ b \notin late
  BY <1>1, <1>3, <1>5, <1>7 DEF Accept, Holds
<1>9. b \in PromptHolding' => b \in PromptHolding
  BY <1>8 DEF PromptHolding, Holding
<1> QED
  BY <1>4, <1>6, <1>9 DEF NoneGained

LEMMA CreateGainsOne ==
  ASSUME TypeOK, TypeOK', NEW w \in Workers, NEW b \in BookingIds, CreateBooking(w, b)
  PROVE  NoneGained({b})
<1>1. \A c \in BookingIds \ {b} : booking'[c] = booking[c]
  BY DEF CreateBooking, TypeOK
<1>2. clock' = clock /\ late' = late /\ clock \in Int
  BY BoundsAssumption DEF CreateBooking, TypeOK
<1> QED
  BY <1>1, <1>2, SameRowsGainNone

LEMMA GainStep ==
  ASSUME TypeOK, TypeOK', [Next]_vars,
         ~ \E w \in Workers, b \in BookingIds : CreateBooking(w, b)
  PROVE  NoneGained({})
<1>1. clock \in Int
  BY BoundsAssumption DEF TypeOK
<1>2. ASSUME UNCHANGED <<booking, late>>, clock' >= clock
      PROVE  NoneGained({})
  BY <1>2, SameRowsGainNone
<1>3. ASSUME UNCHANGED <<clock, late>>,
             \A c \in BookingIds : booking'[c] = booking[c] \/ booking'[c].status \in Ended
      PROVE  NoneGained({})
  BY <1>1, <1>3, SameRowsGainNone, EndedHoldsNothing
<1>4. CASE Tick
  BY <1>1, <1>2, <1>4 DEF Tick
<1>5. ASSUME NEW b \in BookingIds, ExpireDueBooking(b)
      PROVE  NoneGained({})
  BY <1>3, <1>5, ExpiryRows DEF ExpireDueBooking
<1>6. ASSUME NEW w \in Workers, Requesting(w)
      PROVE  NoneGained({})
  <2>1. UNCHANGED <<clock, booking, late>>
    BY <1>6 DEF Requesting, BeginRequest, LockCustomer, LockShop, RefuseRequest
  <2> QED
    BY <1>1, <1>2, <2>1
<1>7. ASSUME NEW w \in Workers, Answering(w)
      PROVE  NoneGained({})
  <2>1. ASSUME NEW b \in BookingIds, NEW op, BeginAnswer(w, b, op)
        PROVE  NoneGained({})
    BY <1>3, <2>1, ExpiryRows DEF BeginAnswer
  <2>2. CASE Accept(w)
    BY <2>2, AcceptGainsNone
  <2>3. CASE Decline(w) \/ Cancel(w)
    <3>1. PICK b \in BookingIds, status \in Ended :
            booking[b].status # "NONE" /\ booking' = [booking EXCEPT ![b].status = status]
      BY <2>3, RequestFields DEF Decline, Cancel, Answerable, Holds, TypeOK, Ended, Answers
    <3>2. booking[b] \in BookingRows
      BY DEF TypeOK
    <3>3. [booking[b] EXCEPT !.status = status].status = status
      BY <3>1, <3>2 DEF BookingRows, Unused
    <3>4. \A c \in BookingIds : booking'[c] = booking[c] \/ booking'[c].status \in Ended
      BY <3>1, <3>3 DEF TypeOK
    <3> QED
      BY <1>3, <2>3, <3>4 DEF Decline, Cancel
  <2>4. CASE AnswerConflict(w)
    BY <1>1, <1>2, <2>4 DEF AnswerConflict
  <2> QED
    BY <1>7, <2>1, <2>2, <2>3, <2>4 DEF Answering
<1>8. CASE Managing \/ UNCHANGED vars
  <2>1. UNCHANGED <<clock, booking, late>>
    BY <1>8 DEF Managing, SaveSchedule, AddClosure, RemoveClosure, Publish, Withdraw, vars
  <2> QED
    BY <1>1, <1>2, <2>1
<1> QED
  BY <1>4, <1>5, <1>6, <1>7, <1>8 DEF Next

\* When nothing is gained, no moment gets fuller and no customer gets busier.
LEMMA NothingGrows ==
  ASSUME NEW except, NoneGained(except)
  PROVE  /\ \A s, m : Running(PromptHolding, s, m)' \subseteq Running(PromptHolding, s, m) \cup except
         /\ \A c : PromptUnpaid(c)' \subseteq PromptUnpaid(c) \cup except
<1>1. ASSUME NEW s, NEW m, NEW b \in Running(PromptHolding, s, m)', b \notin except
      PROVE  b \in Running(PromptHolding, s, m)
  <2>1. b \in BookingIds /\ b \in PromptHolding'
    BY <1>1 DEF Running, PromptHolding, Holding
  <2> QED
    BY <1>1, <2>1 DEF NoneGained, Running
<1>2. ASSUME NEW c, NEW b \in PromptUnpaid(c)', b \notin except
      PROVE  b \in PromptUnpaid(c)
  <2>1. b \in BookingIds /\ b \in PromptHolding'
    BY <1>2 DEF PromptUnpaid, ActiveUnpaid, PromptHolding, Holding
  <2> QED
    BY <1>2, <2>1 DEF NoneGained, PromptUnpaid, ActiveUnpaid, PromptHolding
<1> QED
  BY <1>1, <1>2

LEMMA NothingGrowsSize ==
  ASSUME NoneGained({})
  PROVE  /\ \A s, m : /\ Cardinality(Running(PromptHolding, s, m)') \in Nat
                      /\ Cardinality(Running(PromptHolding, s, m)) \in Nat
                      /\ Cardinality(Running(PromptHolding, s, m)')
                           <= Cardinality(Running(PromptHolding, s, m))
         /\ \A c : /\ Cardinality(PromptUnpaid(c)') \in Nat
                   /\ Cardinality(PromptUnpaid(c)) \in Nat
                   /\ Cardinality(PromptUnpaid(c)') <= Cardinality(PromptUnpaid(c))
<1>1. ASSUME NEW S, IsFiniteSet(S), NEW T, T \subseteq S \cup {}
      PROVE  Cardinality(T) \in Nat /\ Cardinality(S) \in Nat /\ Cardinality(T) <= Cardinality(S)
  BY <1>1, FS_Subset, FS_CardinalityType
<1> QED
  BY <1>1, NothingGrows, PromptFinite

\* One more booking is at most one more.
LEMMA OneMore ==
  ASSUME NEW S, IsFiniteSet(S), NEW b, NEW T, T \subseteq S \cup {b}
  PROVE  Cardinality(T) \in Nat /\ Cardinality(S) \in Nat /\ Cardinality(T) <= Cardinality(S) + 1
<1>1. IsFiniteSet(S \cup {b}) /\ Cardinality(S \cup {b}) <= Cardinality(S) + 1 /\ Cardinality(S) \in Nat
  <2>1. Cardinality(S) \in Nat
    BY FS_CardinalityType
  <2>2. IsFiniteSet(S \cup {b})
    BY FS_AddElement
  <2>3. Cardinality(S \cup {b}) \in {Cardinality(S), Cardinality(S) + 1}
    BY FS_AddElement, Zenon
  <2> QED
    BY <2>1, <2>2, <2>3
<1> QED
  BY <1>1, FS_Subset, FS_CardinalityType

-----------------------------------------------------------------------------
(* The customer's limit and what requests have checked.                     *)

LEMMA UnpaidStep ==
  ASSUME TypeOK, TypeOK', UnpaidLimitKept, ChecksHold, [Next]_vars
  PROVE  UnpaidLimitKept'
<1> SUFFICES ASSUME NEW c \in Customers
             PROVE  Cardinality(PromptUnpaid(c)') <= MaxActiveUnpaid
  BY DEF UnpaidLimitKept, PromptUnpaid
<1>1. Cardinality(PromptUnpaid(c)) <= MaxActiveUnpaid
  BY DEF UnpaidLimitKept, PromptUnpaid
<1>2. ASSUME NEW w \in Workers, NEW b \in BookingIds, CreateBooking(w, b)
      PROVE  Cardinality(PromptUnpaid(c)') <= MaxActiveUnpaid
  <2>1. NoneGained({b})
    BY <1>2, CreateGainsOne
  <2>2. CASE req[w].wish.customer = c
    <3>1. Cardinality(PromptUnpaid(c)) < MaxActiveUnpaid
      BY <1>2, <2>2 DEF CreateBooking, ChecksHold, PromptUnpaid
    <3>2. PromptUnpaid(c)' \subseteq PromptUnpaid(c) \cup {b}
      BY <2>1, NothingGrows
    <3>3. /\ Cardinality(PromptUnpaid(c)') \in Nat /\ Cardinality(PromptUnpaid(c)) \in Nat
          /\ Cardinality(PromptUnpaid(c)') <= Cardinality(PromptUnpaid(c)) + 1
      BY <3>2, OneMore, PromptFinite
    <3> QED
      BY <3>1, <3>3, BoundsAssumption
  <2>3. CASE req[w].wish.customer # c
    <3>1. booking'[b].customer # c
      BY <1>2, <2>3 DEF CreateBooking, TypeOK
    <3>2. b \notin PromptUnpaid(c)'
      BY <3>1 DEF PromptUnpaid, ActiveUnpaid
    <3>3. PromptUnpaid(c)' \subseteq PromptUnpaid(c)
      BY <2>1, <3>2, NothingGrows
    <3> QED
      BY <1>1, <3>3, FS_Subset, FS_CardinalityType, PromptFinite, BoundsAssumption
  <2> QED
    BY <2>2, <2>3
<1>3. CASE ~ \E w \in Workers, b \in BookingIds : CreateBooking(w, b)
  BY <1>1, <1>3, GainStep, NothingGrowsSize, BoundsAssumption
<1> QED
  BY <1>2, <1>3

\* The stale clock of a request errs on the safe side: it counts bookings that have
\* lapsed since.
LEMMA StaleCountsMore ==
  ASSUME TypeOK, NEW now \in Int, now <= clock, NEW s, NEW m, NEW c
  PROVE  /\ Cardinality(Running(PromptHolding, s, m)) <= Cardinality(Running(Holding(now), s, m))
         /\ Cardinality(PromptUnpaid(c)) <= Cardinality(ActiveUnpaid(c, now))
         /\ Cardinality(Running(Holding(now), s, m)) \in Nat
         /\ Cardinality(ActiveUnpaid(c, now)) \in Nat
         /\ Cardinality(Running(PromptHolding, s, m)) \in Nat
         /\ Cardinality(PromptUnpaid(c)) \in Nat
<1>1. clock \in Int
  BY BoundsAssumption DEF TypeOK
<1>2. PromptHolding \subseteq Holding(now)
  BY <1>1, HoldsEarlier DEF PromptHolding, Holding
<1>3. /\ Running(PromptHolding, s, m) \subseteq Running(Holding(now), s, m)
      /\ PromptUnpaid(c) \subseteq ActiveUnpaid(c, now)
  BY <1>2 DEF Running, PromptUnpaid, ActiveUnpaid, PromptHolding
<1>4. Running(Holding(now), s, m) \subseteq BookingIds /\ ActiveUnpaid(c, now) \subseteq BookingIds
  BY DEF Running, ActiveUnpaid, Holding
<1>5. IsFiniteSet(Running(Holding(now), s, m)) /\ IsFiniteSet(ActiveUnpaid(c, now))
  BY <1>4, FS_Subset, ShapeAssumption
<1> QED
  BY <1>3, <1>5, FS_Subset, FS_CardinalityType

\* What a request has checked, one request at a time.
Checked(wish) ==
  /\ HasRoom(PromptHolding, VisitOf(wish.service, wish.start))
  /\ Cardinality(PromptUnpaid(wish.customer)) < MaxActiveUnpaid

LEMMA CapacityType ==
  ASSUME TypeOK, NEW s \in Shops
  PROVE  capacity[s] \in Nat
BY ShapeAssumption DEF TypeOK

LEMMA CheckedStays ==
  ASSUME TypeOK, TypeOK', NEW wish \in Wishes, Checked(wish),
         capacity'[ShopOf[wish.service]] = capacity[ShopOf[wish.service]],
         \A m : Running(PromptHolding, ShopOf[wish.service], m)'
                  \subseteq Running(PromptHolding, ShopOf[wish.service], m),
         PromptUnpaid(wish.customer)' \subseteq PromptUnpaid(wish.customer)
  PROVE  Checked(wish)'
<1> DEFINE x == VisitOf(wish.service, wish.start)
<1>1. x.shop = ShopOf[wish.service] /\ x.shop \in Shops
  BY WishFields, ShapeAssumption DEF VisitOf
<1>2. capacity[x.shop] \in Nat
  BY <1>1, CapacityType
<1>3. ASSUME NEW m \in x.start .. (x.end - 1)
      PROVE  Cardinality(Running(PromptHolding, x.shop, m)') < capacity'[x.shop]
  <2>1. Cardinality(Running(PromptHolding, x.shop, m)) < capacity[x.shop]
    BY <1>3 DEF Checked, HasRoom
  <2>2. Running(PromptHolding, x.shop, m)' \subseteq Running(PromptHolding, x.shop, m)
    BY <1>1
  <2> HIDE DEF x
  <2> QED
    BY <1>1, <1>2, <2>1, <2>2, PromptFinite, FS_Subset, FS_CardinalityType
<1>4. Cardinality(PromptUnpaid(wish.customer)') < MaxActiveUnpaid
  BY PromptFinite, FS_Subset, FS_CardinalityType, BoundsAssumption DEF Checked
<1> QED
  BY <1>3, <1>4 DEF Checked, HasRoom

\* How a request comes to have its checks behind it, and what may change next to it.
LEMMA CreateStep ==
  ASSUME TypeOK, [Next]_vars, NEW v \in Workers, req'[v].op = "create"
  PROVE  LockShop(v) \/ (req'[v] = req[v] /\ ~ \E b \in BookingIds : CreateBooking(v, b))
<1>1. ASSUME NEW w \in Workers, Requesting(w) \/ Answering(w)
      PROVE  LockShop(v) \/ (req'[v] = req[v] /\ ~ \E b \in BookingIds : CreateBooking(v, b))
  <2>1. CASE v = w
    <3>1. ASSUME NEW r, req' = [req EXCEPT ![w] = r], r.op # "create"
          PROVE  FALSE
      BY <2>1, <3>1 DEF TypeOK
    <3>2. CASE LockCustomer(w)
      <4>1. req[w] \in Requests /\ req[w].op \in Requesters
        BY <3>2 DEF LockCustomer, TypeOK, Requesters
      <4>2. [req[w] EXCEPT !.op = "lockShop"].op = "lockShop"
        BY <4>1 DEF Requests, Requesters, Idle
      <4> QED
        BY <3>1, <3>2, <4>2 DEF LockCustomer, Continue
    <3>3. CASE Requesting(w)
      BY <2>1, <3>1, <3>2, <3>3 DEF Requesting, BeginRequest, RefuseRequest, CreateBooking,
         Continue, Idle
    <3>4. CASE Answering(w)
      BY <3>1, <3>4 DEF Answering, BeginAnswer, Accept, Decline, Cancel, AnswerConflict,
         Continue, Idle
    <3> QED
      BY <1>1, <3>3, <3>4
  <2>2. CASE v # w
    <3>1. PICK r : req' = [req EXCEPT ![w] = r]
      BY <1>1 DEF Requesting, Answering, BeginRequest, LockCustomer, LockShop, RefuseRequest,
         CreateBooking, BeginAnswer, Accept, Decline, Cancel, AnswerConflict, Continue
    <3>2. req'[v] = req[v]
      BY <2>2, <3>1 DEF TypeOK
    <3>3. ASSUME NEW b \in BookingIds, CreateBooking(v, b)
          PROVE  FALSE
      BY <3>2, <3>3 DEF CreateBooking, Continue, TypeOK, Idle
    <3> QED
      BY <3>2, <3>3
  <2> QED
    BY <2>1, <2>2
<1>2. CASE UNCHANGED req
  BY <1>2 DEF CreateBooking, Continue, TypeOK, Idle
<1>3. CASE Managing \/ UNCHANGED vars \/ Tick \/ \E b \in BookingIds : ExpireDueBooking(b)
  BY <1>2, <1>3 DEF Managing, SaveSchedule, AddClosure, RemoveClosure, Publish, Withdraw, vars,
     ExpireDueBooking, Tick
<1> QED
  BY <1>1, <1>3 DEF Next

LEMMA CapacityStep ==
  ASSUME TypeOK, [Next]_vars, NEW s \in Shops, ShopLocked(s)
  PROVE  capacity'[s] = capacity[s]
BY DEF Next, Managing, SaveSchedule, AddClosure, RemoveClosure, Publish, Withdraw, vars,
   ExpireDueBooking, Tick, Requesting, Answering, BeginRequest, LockCustomer, LockShop,
   RefuseRequest, CreateBooking, BeginAnswer, Accept, Decline, Cancel, AnswerConflict, shopVars,
   TypeOK

LEMMA ChecksStep ==
  ASSUME TypeOK, TypeOK', NowPast, LocksExclude, ChecksHold, [Next]_vars
  PROVE  ChecksHold'
<1> SUFFICES ASSUME NEW v \in Workers, req'[v].op = "create"
             PROVE  /\ HasRoom(PromptHolding, VisitOf(req[v].wish.service, req[v].wish.start))'
                    /\ Cardinality(PromptUnpaid(req[v].wish.customer)') < MaxActiveUnpaid
                    /\ req'[v].wish = req[v].wish
  BY DEF ChecksHold, PromptUnpaid
<1>1. CASE LockShop(v)
  <2>1. PICK wish \in Wishes, now \in Nat : req[v].wish = wish /\ req[v].now = now /\ req[v] # Idle
    BY <1>1, RequestFields DEF LockShop, TypeOK, Requesters, Idle
  <2>2. req'[v].wish = wish
    <3>1. req[v] \in Requests /\ req[v].op = "lockShop"
      BY <1>1 DEF LockShop, TypeOK
    <3>2. [req[v] EXCEPT !.op = "create"].wish = req[v].wish
      BY <3>1 DEF Requests, Idle
    <3> QED
      BY <1>1, <2>1, <3>2 DEF LockShop, Continue, TypeOK
  <2> DEFINE x == VisitOf(wish.service, wish.start)
  <2>3. now <= clock /\ now \in Int
    BY <2>1 DEF NowPast
  <2>4. Acceptable(wish, now)
    BY <1>1, <2>1 DEF LockShop
  <2>5. UNCHANGED <<clock, booking, late, capacity>>
    BY <1>1 DEF LockShop, shopVars
  <2>6. x.shop \in Shops
    BY WishFields, ShapeAssumption DEF VisitOf
  <2>7. capacity[x.shop] \in Nat
    BY <2>6, CapacityType
  <2>8. ASSUME NEW m \in x.start .. (x.end - 1)
        PROVE  Cardinality(Running(PromptHolding, x.shop, m)) < capacity[x.shop]
    <3>1. Cardinality(Running(Holding(now), x.shop, m)) < capacity[x.shop]
      BY <2>4, <2>8 DEF Acceptable, SlotOpen, HasRoom
    <3> HIDE DEF x
    <3> QED
      BY <2>3, <2>7, <3>1, StaleCountsMore
  <2>9. Cardinality(PromptUnpaid(wish.customer)) < MaxActiveUnpaid
    <3>1. Cardinality(ActiveUnpaid(wish.customer, now)) < MaxActiveUnpaid
      BY <2>4 DEF Acceptable
    <3> QED
      BY <2>3, <3>1, StaleCountsMore, BoundsAssumption
  <2>10. HasRoom(PromptHolding, x)'
    BY <2>5, <2>8 DEF HasRoom, Running, PromptHolding, Holding
  <2>11. PromptUnpaid(wish.customer)' = PromptUnpaid(wish.customer)
    BY <2>5 DEF PromptUnpaid, ActiveUnpaid, Holding
  <2> QED
    BY <2>1, <2>2, <2>9, <2>10, <2>11
<1>2. ASSUME req'[v] = req[v], ~ \E b \in BookingIds : CreateBooking(v, b)
      PROVE  /\ HasRoom(PromptHolding, VisitOf(req[v].wish.service, req[v].wish.start))'
             /\ Cardinality(PromptUnpaid(req[v].wish.customer)') < MaxActiveUnpaid
             /\ req'[v].wish = req[v].wish
  <2>1. PICK wish \in Wishes : wish = req[v].wish
    BY <1>2, RequestFields DEF TypeOK, Requesters
  <2> DEFINE s == ShopOf[wish.service]
             c == wish.customer
  <2>2. s \in Shops /\ ShopLocked(s)
    BY <1>2, <2>1, WishFields, ShapeAssumption DEF ShopLocked
  <2>3. capacity'[s] = capacity[s]
    BY <2>2, CapacityStep
  <2>4. Checked(wish)
    BY <1>2, <2>1 DEF ChecksHold, Checked, PromptUnpaid
  <2>5. /\ \A m : Running(PromptHolding, s, m)' \subseteq Running(PromptHolding, s, m)
        /\ PromptUnpaid(c)' \subseteq PromptUnpaid(c)
    <3>1. CASE ~ \E w \in Workers, b \in BookingIds : CreateBooking(w, b)
      BY <3>1, GainStep, NothingGrows
    <3>2. ASSUME NEW w \in Workers, NEW b \in BookingIds, CreateBooking(w, b)
          PROVE  <2>5!1 /\ <2>5!2
      <4>1. w # v /\ req[w].op = "create" /\ req[v].op = "create"
        BY <1>2, <3>2 DEF CreateBooking
      <4>2. ShopOf[req[w].wish.service] # s /\ req[w].wish.customer # c
        BY <2>1, <4>1 DEF LocksExclude
      <4>3. booking'[b].customer # c /\ booking'[b].visit.shop # s
        BY <3>2, <4>2 DEF CreateBooking, TypeOK, VisitOf
      <4>4. b \notin PromptUnpaid(c)' /\ \A m : b \notin Running(PromptHolding, s, m)'
        BY <4>3 DEF PromptUnpaid, ActiveUnpaid, Running
      <4> QED
        BY <3>2, <4>4, CreateGainsOne, NothingGrows
    <3> QED
      BY <3>1, <3>2
  <2>6. Checked(wish)'
    BY <2>3, <2>4, <2>5, CheckedStays
  <2> QED
    BY <1>2, <2>1, <2>6 DEF Checked
<1> QED
  BY <1>1, <1>2, CreateStep

-----------------------------------------------------------------------------
(* Rows.                                                                    *)

\* A row is changed by its creation, its acceptance, or by ending it.
LEMMA RowStep ==
  ASSUME TypeOK, [Next]_vars, NEW b \in BookingIds
  PROVE  \/ booking'[b] = booking[b]
         \/ \E w \in Workers : CreateBooking(w, b)
         \/ \E w \in Workers : Accept(w) /\ req[w].booking = b
         \/ /\ booking[b].status \in {"REQUESTED", "AWAITING_PAYMENT"}
            /\ booking'[b].status \in Ended
            /\ booking'[b].visit = booking[b].visit
<1> DEFINE EndsAs(status) == /\ booking[b].status \in {"REQUESTED", "AWAITING_PAYMENT"}
                             /\ booking' = [booking EXCEPT ![b].status = status]
<1>1. ASSUME NEW status \in Ended, EndsAs(status)
      PROVE  /\ booking[b].status \in {"REQUESTED", "AWAITING_PAYMENT"}
             /\ booking'[b].status \in Ended /\ booking'[b].visit = booking[b].visit
  <2>1. booking[b] \in BookingRows
    BY DEF TypeOK
  <2>2. [booking[b] EXCEPT !.status = status].status = status
    BY <1>1, <2>1 DEF BookingRows, Unused
  <2>3. [booking[b] EXCEPT !.status = status].visit = booking[b].visit
    BY <1>1, <2>1 DEF BookingRows, Unused
  <2> QED
    BY <1>1, <2>2, <2>3 DEF TypeOK
<1>2. "EXPIRED" \in Ended /\ "DECLINED" \in Ended /\ "CANCELLED" \in Ended
  BY DEF Ended
<1>3. ASSUME NEW c \in BookingIds, booking' \in {booking, ExpireIfDue(c, clock)}
      PROVE  booking'[b] = booking[b] \/ (c = b /\ EndsAs("EXPIRED"))
  BY <1>3 DEF ExpireIfDue, Due, TypeOK
<1>4. ASSUME NEW w \in Workers, Answering(w)
      PROVE  \/ booking'[b] = booking[b]
             \/ Accept(w) /\ req[w].booking = b
             \/ \E status \in Ended : EndsAs(status)
  <2>1. ASSUME NEW c \in BookingIds, NEW op, BeginAnswer(w, c, op)
        PROVE  booking'[b] = booking[b] \/ EndsAs("EXPIRED")
    BY <1>3, <2>1 DEF BeginAnswer
  <2>2. CASE Accept(w)
    BY <2>2 DEF Accept, TypeOK
  <2>3. CASE Decline(w)
    BY <2>3 DEF Decline, Answerable, TypeOK, Ended
  <2>4. CASE Cancel(w)
    BY <2>4 DEF Cancel, Holds, TypeOK, Ended
  <2>5. CASE AnswerConflict(w)
    BY <2>5 DEF AnswerConflict
  <2> QED
    BY <1>2, <1>4, <2>1, <2>2, <2>3, <2>4, <2>5 DEF Answering
<1>5. ASSUME NEW w \in Workers, Requesting(w)
      PROVE  booking'[b] = booking[b] \/ CreateBooking(w, b)
  BY <1>5 DEF Requesting, BeginRequest, LockCustomer, LockShop, RefuseRequest, CreateBooking, TypeOK
<1>6. ASSUME NEW c \in BookingIds, ExpireDueBooking(c)
      PROVE  booking'[b] = booking[b] \/ EndsAs("EXPIRED")
  BY <1>3, <1>6 DEF ExpireDueBooking
<1>7. CASE Managing \/ UNCHANGED vars \/ Tick
  BY <1>7 DEF Managing, SaveSchedule, AddClosure, RemoveClosure, Publish, Withdraw, vars, Tick
<1> HIDE DEF EndsAs
<1> QED
  BY <1>1, <1>2, <1>4, <1>5, <1>6, <1>7 DEF Next

\* What an acceptance writes.
LEMMA AcceptFields ==
  ASSUME TypeOK, NEW w \in Workers, Accept(w), NEW b \in BookingIds, b = req[w].booking
  PROVE  /\ booking[b].status = "REQUESTED" /\ booking[b].respondBy > req[w].now
         /\ booking[b].visit \in Visits /\ booking[b].respondBy \in Int /\ req[w].now \in Nat
         /\ booking'[b].status = "AWAITING_PAYMENT" /\ booking'[b].visit = booking[b].visit
         /\ booking'[b].acceptedAt = req[w].now
         /\ booking'[b].payBy = Earlier(req[w].now + PaymentTime, booking[b].visit.start - PaymentBuffer)
<1>1. booking[b] \in BookingRows /\ booking[b].status = "REQUESTED"
  BY DEF Accept, Answerable, TypeOK
<1>2. req[w].now \in Nat /\ booking[b].visit \in Visits /\ booking[b].respondBy \in Int
  BY <1>1, RowFields, RequestFields DEF Accept, TypeOK, Answers
<1>3. \A n, m : LET r == [booking[b] EXCEPT !.status = "AWAITING_PAYMENT", !.acceptedAt = n, !.payBy = m]
                IN  /\ r.status = "AWAITING_PAYMENT" /\ r.visit = booking[b].visit
                    /\ r.acceptedAt = n /\ r.payBy = m
  BY <1>1 DEF BookingRows, Unused
<1> QED
  BY <1>1, <1>2, <1>3 DEF Accept, Answerable, TypeOK

LEMMA DeadlineStep ==
  ASSUME TypeOK, DeadlinesLeaveTime, [Next]_vars
  PROVE  DeadlinesLeaveTime'
<1> SUFFICES ASSUME NEW b \in BookingIds
             PROVE  /\ booking'[b].status = "REQUESTED" =>
                         booking'[b].respondBy <= booking'[b].visit.start - ResponseBuffer
                    /\ booking'[b].status = "AWAITING_PAYMENT" =>
                         /\ booking'[b].acceptedAt < booking'[b].payBy
                         /\ booking'[b].payBy <= booking'[b].visit.start - PaymentBuffer
  BY DEF DeadlinesLeaveTime
<1>1. CASE booking'[b] = booking[b]
  BY <1>1 DEF DeadlinesLeaveTime
<1>2. ASSUME NEW w \in Workers, CreateBooking(w, b)
      PROVE  /\ booking'[b].status = "REQUESTED"
             /\ booking'[b].respondBy <= booking'[b].visit.start - ResponseBuffer
  <2>1. PICK wish \in Wishes : wish = req[w].wish /\ req[w].now \in Nat
    BY <1>2, RequestFields DEF CreateBooking, TypeOK, Requesters
  <2>2. wish.start \in Nat /\ VisitOf(wish.service, wish.start).start = wish.start
    BY WishFields
  <2>3. Earlier(req[w].now + ResponseTime, wish.start - ResponseBuffer) <= wish.start - ResponseBuffer
    BY <2>1, <2>2, DeadlineFields, SettingsType
  <2> QED
    BY <1>2, <2>1, <2>2, <2>3 DEF CreateBooking, TypeOK
<1>3. ASSUME NEW w \in Workers, Accept(w), req[w].booking = b
      PROVE  /\ booking'[b].status = "AWAITING_PAYMENT"
             /\ booking'[b].acceptedAt < booking'[b].payBy
             /\ booking'[b].payBy <= booking'[b].visit.start - PaymentBuffer
  <2>1. PICK start \in Nat, now \in Nat : start = booking[b].visit.start /\ now = req[w].now
    BY <1>3, AcceptFields, VisitFields
  <2>2. now < start - PaymentBuffer
    <3>1. booking[b].respondBy <= start - ResponseBuffer /\ now < booking[b].respondBy
          /\ booking[b].respondBy \in Int
      BY <1>3, <2>1, AcceptFields DEF DeadlinesLeaveTime
    <3> QED
      BY <3>1, TimingAssumption, SettingsType
  <2>3. /\ now < Earlier(now + PaymentTime, start - PaymentBuffer)
        /\ Earlier(now + PaymentTime, start - PaymentBuffer) <= start - PaymentBuffer
    <3>1. now \in Int /\ start \in Int /\ PaymentTime \in Nat \ {0} /\ PaymentBuffer \in Nat
      BY SettingsType
    <3> QED
      BY <2>2, <3>1, DeadlineFields
  <2> QED
    BY <1>3, <2>1, <2>3, AcceptFields
<1>4. CASE booking'[b].status \in Ended
  BY <1>4 DEF Ended
<1> QED
  BY <1>1, <1>2, <1>3, <1>4, RowStep

-----------------------------------------------------------------------------
(* The theorems.                                                            *)

LEMMA InitInv == Init => BInv
<1> SUFFICES ASSUME Init
             PROVE  BInv
  OBVIOUS
<1>1. TypeOK
  BY InitType
<1>2. \A w \in Workers : req[w] = Idle /\ req[w].op = "idle"
  BY DEF Init, Idle
<1>3. NowPast /\ LocksExclude /\ ChecksHold
  BY <1>2 DEF NowPast, LocksExclude, ChecksHold
<1>4. \A b \in BookingIds : booking[b].status = "NONE"
  BY DEF Init, Unused
<1>5. UnpaidLimitKept
  <2>1. \A c : ActiveUnpaid(c, clock) \ late = {}
    BY <1>4 DEF ActiveUnpaid, Holding, Holds
  <2> QED
    BY <2>1, FS_EmptySet, BoundsAssumption DEF UnpaidLimitKept
<1>6. DeadlinesLeaveTime
  BY <1>4 DEF DeadlinesLeaveTime
<1> QED
  BY <1>1, <1>3, <1>5, <1>6 DEF BInv

LEMMA InvStep == BInv /\ [Next]_vars => BInv'
BY TypeStep, NowStep, LocksStep, ChecksStep, UnpaidStep, DeadlineStep DEF BInv

\* The inductive invariant: what request_booking reads and checks under the locks of the
\* customer and the shop is still true when it inserts the booking.
THEOREM BInvCorrect == Spec => []BInv
<1>1. Init => BInv
  BY InitInv
<1>2. BInv /\ [Next]_vars => BInv'
  BY InvStep
<1> QED
  BY <1>1, <1>2, PTL DEF Spec

\* Rows and requests of the booking services are well formed.
THEOREM BookingTypeCorrect == Spec => []TypeOK
<1>1. BInv => TypeOK
  BY DEF BInv
<1> QED
  BY <1>1, BInvCorrect, PTL

\* The locks of request_booking protect what it has checked.
THEOREM ChecksCorrect == Spec => []ChecksHold
<1>1. BInv => ChecksHold
  BY DEF BInv
<1> QED
  BY <1>1, BInvCorrect, PTL

\* No customer exceeds the limit of active unpaid bookings (but for late acceptances).
THEOREM UnpaidLimitCorrect == Spec => []UnpaidLimitKept
<1>1. BInv => UnpaidLimitKept
  BY DEF BInv
<1> QED
  BY <1>1, BInvCorrect, PTL

\* Response and payment deadlines leave time, whatever the settings within TimingAssumption.
THEOREM DeadlinesCorrect == Spec => []DeadlinesLeaveTime
<1>1. BInv => DeadlinesLeaveTime
  BY DEF BInv
<1> QED
  BY <1>1, BInvCorrect, PTL

\* Accepts, declines, cancels and deadlines leave an ended booking alone.
THEOREM EndedStay == Spec => EndedForGood
<1>1. TypeOK /\ [Next]_vars => \A b \in BookingIds : booking[b].status \in Ended => booking'[b] = booking[b]
  <2> SUFFICES ASSUME TypeOK, [Next]_vars, NEW b \in BookingIds, booking[b].status \in Ended
               PROVE  booking'[b] = booking[b]
    OBVIOUS
  <2>1. booking[b].status \notin {"NONE", "REQUESTED", "AWAITING_PAYMENT"}
    BY DEF Ended
  <2>2. ~ \E w \in Workers : CreateBooking(w, b)
    BY <2>1 DEF CreateBooking, Unused
  <2>3. ~ \E w \in Workers : Accept(w) /\ req[w].booking = b
    BY <2>1 DEF Accept, Answerable
  <2> QED
    BY <2>1, <2>2, <2>3, RowStep
<1>2. TypeOK /\ [Next]_vars => [\A b \in BookingIds : booking[b].status \in Ended => booking'[b] = booking[b]]_vars
  BY <1>1
<1> QED
  BY <1>2, BookingTypeCorrect, PTL DEF Spec, EndedForGood

-----------------------------------------------------------------------------
(* Bookings implement BookingCalendar.                                      *)

visits == [b \in BookingIds |-> booking[b].visit]

\* The instance has the same cardinalities.
LEMMA SameCardinality == \A S : Calendar!Cardinality(S) = Cardinality(S)
BY DEF Calendar!Cardinality, Cardinality

LEMMA GrantStep ==
  ASSUME BInv, BInv', NEW w \in Workers, NEW b \in BookingIds, CreateBooking(w, b)
  PROVE  Calendar!Next
<1>1. PICK wish \in Wishes : wish = req[w].wish
  BY RequestFields DEF CreateBooking, BInv, TypeOK, Requesters
<1>2. PICK x \in Visits : x = VisitOf(wish.service, wish.start)
  BY WishFields
<1>3. visits[b] = NoVisit
  BY DEF CreateBooking, Unused, visits
<1>4. visits' = [visits EXCEPT ![b] = x]
  BY <1>1, <1>2 DEF CreateBooking, visits, BInv, TypeOK
<1>5. PromptHolding' \in {PromptHolding, PromptHolding \cup {b}}
  <2>1. /\ \A c \in BookingIds \ {b} : booking'[c] = booking[c]
        /\ clock' = clock /\ late' = late /\ booking[b].status = "NONE"
    BY DEF CreateBooking, BInv, TypeOK, Unused
  <2>2. \A c \in BookingIds \ {b} : c \in PromptHolding' <=> c \in PromptHolding
    BY <2>1 DEF PromptHolding, Holding
  <2>3. b \notin PromptHolding
    BY <2>1 DEF PromptHolding, Holding, Holds
  <2>4. PromptHolding \subseteq BookingIds /\ PromptHolding' \subseteq BookingIds
    BY DEF PromptHolding, Holding
  <2> QED
    BY <2>2, <2>3, <2>4
<1>6. HasRoom(PromptHolding, x)
  BY <1>1, <1>2 DEF CreateBooking, BInv, ChecksHold
<1>7. \A m : Calendar!Running(x.shop, m) = Running(PromptHolding, x.shop, m)
  BY DEF Calendar!Running, Running, PromptHolding, Holding
<1>8. Calendar!HasRoom(x)
  <2>1. \A m \in x.start .. (x.end - 1) : Cardinality(Running(PromptHolding, x.shop, m)) < capacity[x.shop]
    BY <1>6 DEF HasRoom
  <2>2. ASSUME NEW m \in x.start .. (x.end - 1)
        PROVE  Cardinality(Calendar!Running(x.shop, m)) < capacity[x.shop]
    <3>1. Calendar!Running(x.shop, m) = Running(PromptHolding, x.shop, m)
      BY <1>7
    <3> QED
      BY <2>1, <2>2, <3>1
  <2> QED
    BY <2>2, SameCardinality DEF Calendar!HasRoom
<1>9. capacity' = capacity
  BY DEF CreateBooking, shopVars
<1> QED
  BY <1>2, <1>3, <1>4, <1>5, <1>8, <1>9 DEF Calendar!Next, Calendar!Grant, visits

LEMMA VisitsStay ==
  ASSUME TypeOK, [Next]_vars, ~ \E w \in Workers, b \in BookingIds : CreateBooking(w, b)
  PROVE  visits' = visits
<1>1. ASSUME NEW b \in BookingIds
      PROVE  booking'[b].visit = booking[b].visit
  BY <1>1, RowStep, AcceptFields
<1> QED
  BY <1>1 DEF visits

LEMMA CalendarStep ==
  ASSUME BInv, BInv', [Next]_vars
  PROVE  [Calendar!Next]_Calendar!vars
<1> USE DEF BInv
<1>1. ASSUME NEW w \in Workers, NEW b \in BookingIds, CreateBooking(w, b)
      PROVE  Calendar!Next
  BY <1>1, GrantStep
<1>2. ASSUME NEW s \in Shops, NEW n \in Capacities, NEW hours \in Openings, SaveSchedule(s, n, hours)
      PROVE  Calendar!Next
  <2>1. UNCHANGED <<booking, clock, late>> /\ capacity' = [capacity EXCEPT ![s] = n]
    BY <1>2 DEF SaveSchedule
  <2>2. visits' = visits /\ PromptHolding' = PromptHolding
    BY <2>1 DEF visits, PromptHolding, Holding
  <2> QED
    BY <2>1, <2>2 DEF Calendar!Next, Calendar!SetCapacity, visits
<1>3. ASSUME ~ \E w \in Workers, b \in BookingIds : CreateBooking(w, b), capacity' = capacity
      PROVE  Calendar!Next
  <2>1. visits' = visits
    BY <1>3, VisitsStay
  <2>2. PromptHolding' \subseteq PromptHolding
    <3>1. NoneGained({})
      BY <1>3, GainStep
    <3>2. PromptHolding' \subseteq BookingIds
      BY DEF PromptHolding, Holding
    <3> QED
      BY <3>1, <3>2 DEF NoneGained
  <2> QED
    BY <1>3, <2>1, <2>2 DEF Calendar!Next, Calendar!Release, visits
<1>4. \/ capacity' = capacity
      \/ \E s \in Shops, n \in Capacities, hours \in Openings : SaveSchedule(s, n, hours)
  BY DEF Next, Managing, AddClosure, RemoveClosure, Publish, Withdraw, vars,
     ExpireDueBooking, Tick, Requesting, Answering, BeginRequest, LockCustomer, LockShop,
     RefuseRequest, CreateBooking, BeginAnswer, Accept, Decline, Cancel, AnswerConflict, shopVars
<1> QED
  BY <1>1, <1>2, <1>3, <1>4

\* Bookings implement the calendar's promise: a time is granted only where the shop has
\* room at every moment of the visit, and never held again once it has lapsed.
THEOREM CalendarRefinement == Spec => ImplementsCalendar
<1>1. Init => Calendar!Init
  <2> SUFFICES ASSUME Init
               PROVE  Calendar!Init
    OBVIOUS
  <2>1. PromptHolding = {}
    BY DEF Init, PromptHolding, Holding, Holds, Unused
  <2>2. visits = [b \in BookingIds |-> NoVisit]
    BY DEF Init, visits, Unused
  <2> QED
    BY <2>1, <2>2 DEF Calendar!Init, Init, visits
<1>2. BInv /\ BInv' /\ [Next]_vars => [Calendar!Next]_Calendar!vars
  BY CalendarStep
<1> QED
  BY <1>1, <1>2, BInvCorrect, PTL DEF Spec, ImplementsCalendar, Calendar!Spec

-----------------------------------------------------------------------------
(* Overbooking.                                                             *)

\* A moment becomes fuller, late acceptances apart, only up to the capacity.
PromptWithin(s, m) ==
  \/ Running(PromptHolding, s, m)' \subseteq Running(PromptHolding, s, m)
  \/ Cardinality(Running(PromptHolding, s, m)') <= capacity[s]

LEMMA CreateWithin ==
  ASSUME BInv, BInv', NEW w \in Workers, NEW b \in BookingIds, CreateBooking(w, b),
         NEW s \in Shops, NEW m \in Nat
  PROVE  PromptWithin(s, m)
<1> DEFINE R == Running(PromptHolding, s, m)
           x == VisitOf(req[w].wish.service, req[w].wish.start)
<1>1. R' \subseteq R \cup {b}
  <2>1. NoneGained({b})
    BY CreateGainsOne DEF BInv
  <2> QED
    BY <2>1, NothingGrows
<1>2. booking'[b].visit = x
  BY DEF CreateBooking, BInv, TypeOK
<1>3. CASE b \notin R'
  BY <1>1, <1>3 DEF PromptWithin
<1>4. CASE b \in R'
  <2>1. /\ x.shop = s /\ x.start <= m /\ m < x.end
    BY <1>2, <1>4 DEF Running
  <2>2. x.start \in Nat /\ x.end \in Nat
    <3>1. req[w].wish \in Wishes
      BY RequestFields DEF CreateBooking, BInv, TypeOK, Requesters
    <3>2. x \in Visits
      BY <3>1, WishFields
    <3> QED
      BY <3>2, VisitFields
  <2>3. m \in x.start .. (x.end - 1)
    BY <2>1, <2>2
  <2>4. HasRoom(PromptHolding, x)
    BY DEF CreateBooking, BInv, ChecksHold
  <2>5. Cardinality(R) < capacity[s]
    BY <2>1, <2>3, <2>4 DEF HasRoom
  <2>6. Cardinality(R') \in Nat /\ Cardinality(R) \in Nat /\ Cardinality(R') <= Cardinality(R) + 1
    BY <1>1, PromptFinite, OneMore
  <2>7. capacity[s] \in Nat
    BY CapacityType DEF BInv
  <2> QED
    BY <2>5, <2>6, <2>7 DEF PromptWithin
<1> QED
  BY <1>3, <1>4

LEMMA WithinStep ==
  ASSUME BInv, BInv', [Next]_vars, NEW s \in Shops, NEW m \in Nat
  PROVE  PromptWithin(s, m)
<1>1. CASE \E w \in Workers, b \in BookingIds : CreateBooking(w, b)
  BY <1>1, CreateWithin
<1>2. CASE ~ \E w \in Workers, b \in BookingIds : CreateBooking(w, b)
  <2>1. NoneGained({})
    BY <1>2, GainStep DEF BInv
  <2> QED
    BY <2>1, NothingGrows DEF PromptWithin
<1> QED
  BY <1>1, <1>2

\* A late acceptance is the only way to overbook: as long as no booking is accepted after
\* its deadline, by a request that read the clock before it, no moment of a shop becomes
\* fuller than its capacity, whatever requests arrive together.
THEOREM OnlyLateOverbooks == Spec /\ [](late = {}) => NeverOverbooked
<1> DEFINE Within == \A s \in Shops, m \in Moments :
                       \/ Running(Holding(clock), s, m)' \subseteq Running(Holding(clock), s, m)
                       \/ Cardinality(Running(Holding(clock), s, m)') <= capacity[s]
<1>1. ASSUME BInv, BInv', late = {}, late' = {}, [Next]_vars
      PROVE  Within
  <2>1. PromptHolding = Holding(clock) /\ PromptHolding' = Holding(clock)'
    BY <1>1 DEF PromptHolding
  <2>2. \A s, m : /\ Running(Holding(clock), s, m) = Running(PromptHolding, s, m)
                  /\ Running(Holding(clock), s, m)' = Running(PromptHolding, s, m)'
    BY <2>1
  <2>3. Moments \subseteq Nat
    BY VisitFields DEF Moments
  <2>4. \A s \in Shops, m \in Moments : PromptWithin(s, m)
    BY <1>1, <2>3, WithinStep
  <2> QED
    BY <2>2, <2>4 DEF PromptWithin
<1>2. BInv /\ BInv' /\ late = {} /\ (late = {})' /\ [Next]_vars => [Within]_vars
  BY <1>1
<1> QED
  BY <1>2, BInvCorrect, PTL DEF Spec, NeverOverbooked

-----------------------------------------------------------------------------
(* The sweep of open_slots counts what Bookings counts.  At a start within  *)
(* the window the sweep's count is the number of holds that run then, and   *)
(* the holds that run at any moment all run at the latest of their starts:  *)
(* the highest count is the fullest moment of the window.                   *)

\* A set of numbers with an upper bound has a greatest member.
LEMMA Greatest ==
  ASSUME NEW S, S # {}, S \subseteq Int, NEW n \in Int, \A m \in S : m <= n
  PROVE  \E m \in S : \A k \in S : m >= k
<1> DEFINE Below == {n - m : m \in S}
<1>1. Below # {}
  OBVIOUS
<1>2. ASSUME NEW e \in Below
      PROVE  e \in Nat
  <2>1. PICK m \in S : e = n - m
    OBVIOUS
  <2> QED BY <2>1
<1> HIDE DEF Below
<1>3. PICK d \in Below : \A e \in Below : ~(<<e, d>> \in OpToRel(<, Nat))
  BY <1>1, <1>2, NatLessThanWellFounded, WFMin
<1>4. \A e \in Below : d <= e
  <2> SUFFICES ASSUME NEW e \in Below
               PROVE  d <= e
    OBVIOUS
  <2>1. d \in Nat /\ e \in Nat
    BY <1>2
  <2>2. ~(e < d)
    BY <1>3, <2>1 DEF OpToRel
  <2> QED BY <2>1, <2>2
<1>5. PICK m \in S : d = n - m
  BY DEF Below
<1>6. ASSUME NEW k \in S
      PROVE  m >= k
  <2>1. n - k \in Below
    BY DEF Below
  <2>2. d <= n - k
    BY <1>4, <2>1
  <2> QED BY <1>5, <2>2
<1> QED BY <1>6

LEMMA GreatestIsMax ==
  ASSUME NEW S, S # {}, S \subseteq Int, NEW n \in Int, \A m \in S : m <= n
  PROVE  Max(S) \in S /\ \A k \in S : Max(S) >= k
BY Greatest DEF Max

\* A hold has a visit, which takes some time.
LEMMA HeldVisit ==
  ASSUME TypeOK, NEW now, NEW b \in Holding(now)
  PROVE  /\ booking[b].visit.start \in Nat /\ booking[b].visit.end \in Nat
         /\ booking[b].visit.start < booking[b].visit.end
<1>1. booking[b] \in BookingRows /\ booking[b].status # "NONE"
  BY DEF Holding, Holds, TypeOK
<1>2. booking[b].visit \in Visits
  BY <1>1, RowFields
<1>3. PICK wish \in Wishes : booking[b].visit = VisitOf(wish.service, wish.start)
  BY <1>2 DEF Visits
<1>4. Duration[wish.service] \in Nat \ {0} /\ wish.start \in Nat
  BY ShapeAssumption
<1> QED BY <1>3, <1>4 DEF VisitOf

\* A set of holds, a window, and what the sweep makes of them.
Window(x) == x.start \in Nat /\ x.end \in Nat /\ x.start < x.end

HeldWell(holds) ==
  /\ IsFiniteSet(holds)
  /\ \A b \in holds : /\ booking[b].visit.start \in Nat /\ booking[b].visit.end \in Nat
                      /\ booking[b].visit.start < booking[b].visit.end

LEMMA HeldAreWell ==
  ASSUME TypeOK, NEW now
  PROVE  HeldWell(Holding(now))
<1>1. Holding(now) \in SUBSET BookingIds
  BY DEF Holding
<1>2. IsFiniteSet(Holding(now))
  BY <1>1, ShapeAssumption, FS_Subset
<1> QED BY <1>2, HeldVisit DEF HeldWell

\* The events of a hold that touches the window lie within it, the start first.
LEMMA Clipped ==
  ASSUME NEW holds, HeldWell(holds), NEW x, Window(x), NEW b \in Touching(holds, x)
  PROVE  /\ Begins(b, x) \in x.start .. (x.end - 1) /\ Ends(b, x) \in Int
         /\ Begins(b, x) < Ends(b, x)
         /\ \A m \in x.start .. (x.end - 1) :
              /\ Begins(b, x) <= m <=> booking[b].visit.start <= m
              /\ Ends(b, x) <= m <=> booking[b].visit.end <= m
BY DEF HeldWell, Window, Touching, Overlaps, Begins, Ends, Later, Earlier

\* The count after the starts of a moment is the number of holds that run then.
LEMMA CountIsRunning ==
  ASSUME NEW holds, HeldWell(holds), NEW x, Window(x), NEW m \in x.start .. (x.end - 1)
  PROVE  Count(Touching(holds, x), x, m) = Cardinality(Running(holds, x.shop, m))
<1> DEFINE T == Touching(holds, x)
           begun == {b \in T : Begins(b, x) <= m}
           over == {b \in T : Ends(b, x) <= m}
<1>1. T \in SUBSET holds /\ IsFiniteSet(T)
  BY FS_Subset DEF Touching, HeldWell
<1>2. IsFiniteSet(begun)
  BY <1>1, FS_Subset
<1>3. over = begun \cap over
  BY Clipped DEF Window
<1>4. begun \ over = Running(holds, x.shop, m)
  <2>1. begun \ over \subseteq Running(holds, x.shop, m)
    BY Clipped DEF Running, Touching, HeldWell, Window
  <2>2. Running(holds, x.shop, m) \subseteq T
    BY DEF Running, Touching, Overlaps, HeldWell, Window
  <2>3. Running(holds, x.shop, m) \subseteq begun \ over
    BY <2>2, Clipped DEF Running, HeldWell, Window
  <2> QED BY <2>1, <2>3
<1>5. Cardinality(begun \ over) = Cardinality(begun) - Cardinality(begun \cap over)
  BY <1>2, FS_Difference
<1> QED BY <1>3, <1>4, <1>5 DEF Count

\* What runs at one moment of the window runs at the latest start among it.
LEMMA FullestAtAStart ==
  ASSUME NEW holds, HeldWell(holds), NEW x, Window(x), NEW m \in x.start .. (x.end - 1),
         Running(holds, x.shop, m) # {}
  PROVE  \E b \in Touching(holds, x) :
           Running(holds, x.shop, m) \subseteq Running(holds, x.shop, Begins(b, x))
<1> DEFINE R == Running(holds, x.shop, m)
           starts == {Begins(b, x) : b \in R}
<1>1. R \subseteq Touching(holds, x)
  BY DEF Running, Touching, Overlaps, HeldWell, Window
<1>2. \A b \in R : Begins(b, x) \in Int /\ Begins(b, x) <= m
  BY <1>1, Clipped DEF Running, Window
<1>3. \E s \in starts : \A t \in starts : s >= t
  <2>1. starts # {} /\ starts \subseteq Int /\ m \in Int /\ \A s \in starts : s <= m
    BY <1>2 DEF Window
  <2> HIDE DEF starts
  <2> QED BY <2>1, Greatest
<1>4. PICK b \in R : \A c \in R : Begins(b, x) >= Begins(c, x)
  BY <1>3
<1>5. ASSUME NEW c \in R
      PROVE  c \in Running(holds, x.shop, Begins(b, x))
  <2>1. Begins(b, x) \in x.start .. (x.end - 1) /\ Begins(b, x) <= m
    BY <1>1, <1>2, Clipped
  <2>2. Begins(c, x) <= Begins(b, x) <=> booking[c].visit.start <= Begins(b, x)
    BY <1>1, <2>1, Clipped
  <2>3. booking[c].visit.start <= Begins(b, x)
    BY <1>4, <2>2
  <2> QED BY <2>1, <2>3 DEF Running, HeldWell, Window
<1> QED BY <1>1, <1>4, <1>5

\* The peak is below the capacity if and only if no moment of the window reaches it.
LEMMA PeakIsRoom ==
  ASSUME NEW holds, HeldWell(holds), NEW x, Window(x), capacity[x.shop] \in Nat \ {0}
  PROVE  PeakOverlap(holds, x) < capacity[x.shop] <=> HasRoom(holds, x)
<1> DEFINE T == Touching(holds, x)
           counts == {0} \cup {Count(T, x, Begins(b, x)) : b \in T}
<1>1. PeakOverlap(holds, x) = Max(counts)
  BY DEF PeakOverlap
<1>2. \A m : /\ Running(holds, x.shop, m) \in SUBSET holds
             /\ IsFiniteSet(Running(holds, x.shop, m))
             /\ Cardinality(Running(holds, x.shop, m)) \in Nat
             /\ Cardinality(Running(holds, x.shop, m)) <= Cardinality(holds)
  BY FS_Subset, FS_CardinalityType DEF Running, HeldWell
<1>3. \A b \in T : Begins(b, x) \in x.start .. (x.end - 1)
  BY Clipped
<1>4. \A b \in T : Count(T, x, Begins(b, x)) = Cardinality(Running(holds, x.shop, Begins(b, x)))
  BY <1>3, CountIsRunning
<1>5. Cardinality(holds) \in Nat
  BY FS_CardinalityType DEF HeldWell
<1>6. /\ counts # {} /\ counts \subseteq Int
      /\ \A n \in counts : n <= Cardinality(holds)
  BY <1>2, <1>4, <1>5
<1>7. Max(counts) \in counts /\ \A n \in counts : Max(counts) >= n
  <2>1. Cardinality(holds) \in Int
    BY <1>5
  <2> HIDE DEF counts
  <2> QED BY <1>6, <2>1, GreatestIsMax
<1>8. ASSUME Max(counts) < capacity[x.shop], NEW m \in x.start .. (x.end - 1)
      PROVE  Cardinality(Running(holds, x.shop, m)) < capacity[x.shop]
  <2>1. CASE Running(holds, x.shop, m) = {}
    BY <2>1, FS_EmptySet
  <2>2. CASE Running(holds, x.shop, m) # {}
    <3>1. PICK b \in T : Running(holds, x.shop, m) \subseteq Running(holds, x.shop, Begins(b, x))
      BY <2>2, FullestAtAStart
    <3>2. Cardinality(Running(holds, x.shop, m)) <= Cardinality(Running(holds, x.shop, Begins(b, x)))
      BY <1>2, <3>1, FS_Subset
    <3>3. Cardinality(Running(holds, x.shop, Begins(b, x))) <= Max(counts)
      <4>1. Count(T, x, Begins(b, x)) \in counts
        OBVIOUS
      <4> QED BY <1>4, <1>7, <4>1
    <3>4. /\ Cardinality(Running(holds, x.shop, m)) \in Nat
          /\ Cardinality(Running(holds, x.shop, Begins(b, x))) \in Nat
      BY <1>2
    <3>5. Max(counts) \in Int
      <4> HIDE DEF counts
      <4> QED BY <1>6, <1>7
    <3> HIDE DEF counts
    <3> QED BY <1>8, <3>2, <3>3, <3>4, <3>5
  <2> QED BY <2>1, <2>2
<1>9. ASSUME HasRoom(holds, x)
      PROVE  Max(counts) < capacity[x.shop]
  <2>1. CASE Max(counts) = 0
    BY <2>1
  <2>2. ASSUME NEW b \in T, Max(counts) = Count(T, x, Begins(b, x))
        PROVE  Max(counts) < capacity[x.shop]
    BY <1>3, <1>4, <1>9, <2>2 DEF HasRoom
  <2> QED BY <1>7, <2>1, <2>2
<1> QED BY <1>1, <1>8, <1>9 DEF HasRoom

\* The list of open times agrees with the check of request_booking, whatever the bookings
\* of the shop: no time is offered that is full, and none is left out that is free.
THEOREM OfferedTimesCorrect == Spec => []OfferedTimesHaveRoom
<1>1. TypeOK => OfferedTimesHaveRoom
  <2> SUFFICES ASSUME TypeOK, NEW v \in published
               PROVE  LET day == opening[ShopOf[v]].opens..opening[ShopOf[v]].closes
                      IN OpenSlots(v, clock) = {x \in {VisitOf(v, t) : t \in day} : SlotOpen(x, clock)}
    BY DEF OfferedTimesHaveRoom
  <2> DEFINE s == ShopOf[v]
             opens == opening[s].opens
             closes == opening[s].closes
             d == Duration[v]
             room(t) == HasRoom(Holding(clock), VisitOf(v, t))
             peak(t) == PeakOverlap(Holding(clock), VisitOf(v, t)) < capacity[s]
  <2>1. /\ s \in Shops /\ opens \in Nat /\ closes \in Nat /\ d \in Nat \ {0}
        /\ capacity[s] \in Nat \ {0} /\ clock \in Nat /\ MinNotice \in Nat
    <3>1. v \in Services /\ s \in Shops /\ d \in Nat \ {0}
      BY ShapeAssumption DEF TypeOK
    <3>2. opening[s] \in [opens : Nat, closes : Nat]
      BY <3>1, ShapeAssumption DEF TypeOK
    <3>3. capacity[s] \in Capacities
      BY <3>1 DEF TypeOK
    <3>4. clock \in Nat
      BY BoundsAssumption DEF TypeOK
    <3> QED BY <3>1, <3>2, <3>3, <3>4, SettingsType, ShapeAssumption
  <2>2. \A t : VisitOf(v, t) = [shop |-> s, start |-> t, end |-> t + d]
    BY DEF VisitOf
  <2>3. ASSUME NEW t \in Nat
        PROVE  peak(t) <=> room(t)
    <3>1. Window(VisitOf(v, t)) /\ VisitOf(v, t).shop = s
      BY <2>1, <2>2 DEF Window
    <3> QED BY <2>1, <3>1, HeldAreWell, PeakIsRoom
  <2>4. \A t \in opens..closes : SlotOpen(VisitOf(v, t), clock) <=>
          /\ s \notin closed /\ t + d <= closes /\ t >= clock + MinNotice /\ room(t)
    BY <2>1, <2>2 DEF SlotOpen
  <2>5. \A t : t \in opens..(closes - d) <=> t \in opens..closes /\ t + d <= closes
    BY <2>1
  <2>6. \A t \in opens..closes : t \in Nat
    BY <2>1
  <2>7. OpenSlots(v, clock) =
          {VisitOf(v, t) : t \in {t \in opens..closes : /\ s \notin closed /\ t + d <= closes
                                                        /\ t >= clock + MinNotice /\ peak(t)}}
    BY <2>5 DEF OpenSlots
  <2>8. {x \in {VisitOf(v, t) : t \in opens..closes} : SlotOpen(x, clock)} =
          {VisitOf(v, t) : t \in {t \in opens..closes : SlotOpen(VisitOf(v, t), clock)}}
    OBVIOUS
  <2>9. {t \in opens..closes : SlotOpen(VisitOf(v, t), clock)} =
          {t \in opens..closes : /\ s \notin closed /\ t + d <= closes
                                 /\ t >= clock + MinNotice /\ peak(t)}
    <3> HIDE DEF peak, room, opens, closes, d, s
    <3> QED BY <2>3, <2>4, <2>6
  <2> QED BY <2>7, <2>8, <2>9
<1> QED
  BY <1>1, BookingTypeCorrect, PTL

=============================================================================
