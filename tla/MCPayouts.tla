----------------------------- MODULE MCPayouts -----------------------------
(***************************************************************************)
(* Instances of Payouts for TLC: two orders of lines of two shops, one of  *)
(* which sells three lines, the last of them with nothing to earn.         *)
(***************************************************************************)
EXTENDS Payouts, TLC

CONSTANTS l1, l2, l3, l4, o1, o2, s1, s2, d2

SoldIn    == l1 :> s1 @@ l2 :> s1 @@ l3 :> s2 @@ l4 :> s1
OrderedIn == l1 :> o1 @@ l2 :> o2 @@ l3 :> o1 @@ l4 :> o2

\* A commission of 100% leaves its shop nothing.
Earnings == l1 :> 2 @@ l2 :> 1 @@ l3 :> 1 @@ l4 :> 0

\* The second order is paid by card, lines are on their way to the buyer one at a time,
\* the line that earns nothing is not cancelled, and only the first shop changes the
\* destination it has entered.
MCFewChoices ==
  /\ payment[o2] = "SUCCEEDED"
  /\ \A l, m \in Lines : {lineStatus[l], lineStatus[m]} \subseteq {"PROCESSING", "SHIPPED"} => l = m
  /\ lineStatus[l4] # "CANCELLED"
  /\ details[s2] # d2

Symmetry == Permutations(PayoutIds) \cup Permutations(Finance) \cup Permutations(Staff)
=============================================================================
