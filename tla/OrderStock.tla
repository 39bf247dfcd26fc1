----------------------------- MODULE OrderStock -----------------------------
(***************************************************************************)
(* The stock account of OrderPayments: every unit a product started with   *)
(* is on the shelf or held by an order line that is not cancelled.         *)
(***************************************************************************)
EXTENDS OrderPayments, FiniteSets

ASSUME OrdersAssumption == IsFiniteSet(Orders)

\* Units of product p held by order o: those of its line, until it is cancelled.
HeldBy(o, p) == IF p \in OpenLines(o) THEN line[o][p].qty ELSE 0

\* Units of a product held by all orders together.
Held(p) == Cardinality({unit \in Orders \X (1..MaxQty) : unit[2] <= HeldBy(unit[1], p)})

\* Neither a cancellation nor a failed payment nor a checkout, in any
\* interleaving, makes units disappear from sale.
StockNeverLost == \A p \in Products : stock[p] + Held(p) >= InitStock

\* No unit is counted twice either: cancelled quantities come back exactly once.
StockConserved == \A p \in Products : stock[p] + Held(p) = InitStock
=============================================================================
