----------------------------- MODULE MCPurchase -----------------------------
(***************************************************************************)
(* One cart and two places; two orders, so that the second try meets what  *)
(* is left of the first.                                                   *)
(***************************************************************************)
EXTENDS Purchase

AllMethods == {"cod", "lipa_namba", "mobile_money"}
=============================================================================
