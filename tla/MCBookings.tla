----------------------------- MODULE MCBookings -----------------------------
(* Two shops, the first with two services, the second c2's own.  c1 asks    *)
(* both shops; in the first, c2's long visit overlaps c1's and its brief one *)
(* follows c1's back to back.  The day is open from 3 to 6.                  *)
EXTENDS SlotSweep, TLC

CONSTANTS c1, c2, s1, s2, long, brief, short, provider

MCShopOf   == long :> s1 @@ brief :> s1 @@ short :> s2
MCOwnerOf  == s1 :> provider @@ s2 :> c2
MCDuration == long :> 2 @@ brief :> 1 @@ short :> 1
MCWish(c, v, t) == [customer |-> c, service |-> v, start |-> t]
MCWishes   == {MCWish(c1, brief, 3), MCWish(c1, short, 3), MCWish(c2, long, 3), MCWish(c2, brief, 4)}
MCOpenings == {[opens |-> 3, closes |-> 6]}

\* The first shop is closed, or a service of it is withdrawn, while there is a booking to
\* come that this may refuse, or it serves two visits at once; nothing is edited in the
\* second shop.
MCFewEdits ==
  /\ closed \subseteq {s1} /\ {brief, short} \subseteq published /\ capacity[s2] = 1
  /\ closed = {} \/ long \in published
  /\ (closed = {} /\ long \in published) \/
       (capacity[s1] = 1 /\ \E b \in BookingIds : booking[b] = Unused)

MCSymmetry == Permutations(BookingIds) \cup Permutations(Workers)
=============================================================================
