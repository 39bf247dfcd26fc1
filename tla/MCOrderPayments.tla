-------------------------- MODULE MCOrderPayments --------------------------
(***************************************************************************)
(* Instances of OrderPayments for TLC.                                     *)
(***************************************************************************)
EXTENDS OrderStock, TLC

\* Order ids, requests of one kind and carts are interchangeable.
Symmetry == Permutations(Orders) \cup Permutations(Buyers) \cup Permutations(Staff)
              \cup Permutations(Carts)
=============================================================================
