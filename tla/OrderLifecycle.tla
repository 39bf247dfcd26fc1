--------------------------- MODULE OrderLifecycle ---------------------------
(***************************************************************************)
(* What checkout and settlement promise about money, without carts, stock, *)
(* locks or requests: an order is born reserved, due (cash on delivery) or *)
(* paid; it is settled once; and an owner has one reserved order at most.  *)
(***************************************************************************)
CONSTANTS Orders, Owners, NoOwner

VARIABLES phase, buyer

Phases == {"unused", "reserved", "due", "paid", "failed"}

Init ==
  /\ phase = [o \in Orders |-> "unused"]
  /\ buyer = [o \in Orders |-> NoOwner]

Reserved(c) == {o \in Orders : phase[o] = "reserved" /\ buyer[o] = c}

Born(o, c, p) ==
  /\ phase[o] = "unused"
  /\ phase' = [phase EXCEPT ![o] = p]
  /\ buyer' = [buyer EXCEPT ![o] = c]

Reserve(o, c) == Reserved(c) = {} /\ Born(o, c, "reserved")

Place(o, c) == Born(o, c, "due") \/ Born(o, c, "paid")

Settle(o) ==
  /\ phase[o] \in {"reserved", "due"}
  /\ \E p \in {"paid", "failed"} : phase' = [phase EXCEPT ![o] = p]
  /\ UNCHANGED buyer

Next ==
  \E o \in Orders :
    \/ \E c \in Owners : Reserve(o, c) \/ Place(o, c)
    \/ Settle(o)

Spec == Init /\ [][Next]_<<phase, buyer>>
=============================================================================
