----------------------------- MODULE OrderLines -----------------------------
(***************************************************************************)
(* The statuses of an order line and how they may follow each other        *)
(* (backend/apps/orders), shared by every component that reads or moves    *)
(* lines.                                                                  *)
(***************************************************************************)

LineStatus == {"PENDING", "PROCESSING", "SHIPPED", "DELIVERED", "CANCELLED"}

\* The fixed adjacency map of OrderItem statuses.
ValidTransitions ==
  [PENDING    |-> {"PROCESSING", "CANCELLED"},
   PROCESSING |-> {"SHIPPED", "CANCELLED"},
   SHIPPED    |-> {"DELIVERED"},
   DELIVERED  |-> {},
   CANCELLED  |-> {}]
=============================================================================
