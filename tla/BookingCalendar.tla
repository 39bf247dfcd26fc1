-------------------------- MODULE BookingCalendar --------------------------
(***************************************************************************)
(* What booking promises a shop and its customers: a visit is only granted *)
(* a time for which the shop has room, and a time once given up is never   *)
(* taken back by the same booking.                                         *)
(***************************************************************************)
EXTENDS Integers, FiniteSets

CONSTANTS Bookings, Visits, NoVisit, Shops, Capacities
VARIABLES
  visit,    \* the visit of each booking, for good
  held,     \* the bookings that hold the time of their visit
  capacity  \* how many visits each shop serves at once

vars == <<visit, held, capacity>>

Running(shop, moment) ==
  {b \in held : /\ visit[b].shop = shop
                /\ visit[b].start <= moment /\ moment < visit[b].end}

HasRoom(x) ==
  \A moment \in x.start .. (x.end - 1) : Cardinality(Running(x.shop, moment)) < capacity[x.shop]

Init ==
  /\ visit = [b \in Bookings |-> NoVisit]
  /\ held = {}
  /\ capacity \in [Shops -> Capacities]

\* A grant may come too late to hold anything: its deadline has passed already.
Grant(b, x) ==
  /\ visit[b] = NoVisit
  /\ HasRoom(x)
  /\ visit' = [visit EXCEPT ![b] = x]
  /\ held' \in {held, held \cup {b}}
  /\ UNCHANGED capacity

Release ==
  /\ held' \subseteq held
  /\ UNCHANGED <<visit, capacity>>

SetCapacity(shop, n) ==
  /\ capacity' = [capacity EXCEPT ![shop] = n]
  /\ UNCHANGED <<visit, held>>

Next ==
  \/ \E b \in Bookings, x \in Visits : Grant(b, x)
  \/ Release
  \/ \E shop \in Shops, n \in Capacities : SetCapacity(shop, n)

Spec == Init /\ [][Next]_vars
=============================================================================
