------------------------------ MODULE PayOnce ------------------------------
(***************************************************************************)
(* What payouts promise a shop and the mall: the earning of an order line  *)
(* is sent at most once, whatever is retried, refused or interrupted, and  *)
(* reported as paid only after it was sent, for good.                      *)
(***************************************************************************)
EXTENDS Sequences

CONSTANT Lines
VARIABLES
  sent,     \* the lines of each payment made, in order
  reported  \* the lines reported as paid

vars == <<sent, reported>>

Init == sent = <<>> /\ reported = {}

Send(lines) ==
  /\ lines # {}
  /\ \A i \in DOMAIN sent : lines \cap sent[i] = {}
  /\ sent' = Append(sent, lines)
  /\ UNCHANGED reported

Report(i) ==
  /\ reported' = reported \cup sent[i]
  /\ UNCHANGED sent

Next ==
  \/ \E lines \in SUBSET Lines : Send(lines)
  \/ \E i \in DOMAIN sent : Report(i)

Spec == Init /\ [][Next]_vars
=============================================================================
