------------------------------ MODULE SlotSweep ------------------------------
(***************************************************************************)
(* The list of open times of a service (open_slots and _peak_overlap of    *)
(* backend/apps/bookings/slots.py), over the state of Bookings.  It counts *)
(* the bookings that hold the shop's time with a sweep over their starts   *)
(* and ends, clipped to the window, where Bookings says HasRoom of the     *)
(* visits at each moment: the two must agree, or a time is offered that is *)
(* full, or refused that is free.                                          *)
(***************************************************************************)
EXTENDS Bookings, FiniteSetsExt

Later(m, n) == IF m >= n THEN m ELSE n

\* overlapping(): the end of a visit is not part of it.
Overlaps(x, window) == x.start < window.end /\ x.end > window.start

Touching(holds, window) ==
    {b \in holds : booking[b].visit.shop = window.shop /\ Overlaps(booking[b].visit, window)}

\* The two events of a hold, clipped to the window.
Begins(b, window) == Later(booking[b].visit.start, window.start)
Ends(b, window) == Earlier(booking[b].visit.end, window.end)

\* Mutant: at one moment starts come before ends.
Count_StartsFirst(holds, window, moment) ==
    Cardinality({b \in holds : Begins(b, window) <= moment})
        - Cardinality({b \in holds : Ends(b, window) < moment})

\* The running count when the last start of a moment is taken: the ends of that
\* moment sort before it.
Count(holds, window, moment) ==
    Cardinality({b \in holds : Begins(b, window) <= moment})
        - Cardinality({b \in holds : Ends(b, window) <= moment})

\* The count is highest after some start.
PeakOverlap(holds, window) ==
    LET touching == Touching(holds, window)
    IN Max({0} \cup {Count(touching, window, Begins(b, window)) : b \in touching})

\* Every step within the opening period where the whole service fits, the
\* notice is given and the shop has room.
OpenSlots(v, now) ==
    LET s == ShopOf[v]
        times == {t \in opening[s].opens..(opening[s].closes - Duration[v]) : t >= now + MinNotice}
    IN IF s \in closed THEN {}
       ELSE {x \in {VisitOf(v, t) : t \in times} : PeakOverlap(Holding(now), x) < capacity[s]}

-----------------------------------------------------------------------------

\* The times that are offered are those at which a visit would be within the
\* shop's capacity at every moment: back-to-back bookings are counted apart, and
\* two that overlap the visit without overlapping each other count as one
\* ("Counting every hold touching the window would be wrong", slots.py).  The list
\* reads nothing of the requests, so it is looked at when none is in flight.
OfferedTimesHaveRoom ==
    (\A w \in Workers : req[w] = Idle) =>
        \A v \in published :
            LET day == opening[ShopOf[v]].opens..opening[ShopOf[v]].closes
            IN OpenSlots(v, clock) = {x \in {VisitOf(v, t) : t \in day} : SlotOpen(x, clock)}

=============================================================================
