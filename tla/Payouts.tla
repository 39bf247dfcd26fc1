------------------------------ MODULE Payouts ------------------------------
(***************************************************************************)
(* Paying the earnings of delivered lines out to shop owners               *)
(* (backend/apps/finance/services.py and disbursement.py), next to the     *)
(* status changes and the payment settlements that make earnings payable.  *)
(*                                                                         *)
(* A payout is claimed in one transaction, sent by a call to the provider  *)
(* outside any transaction, and its outcome recorded in another one.  The  *)
(* request that does so can die in between: `req[w]` is what it carries in *)
(* memory.  Only PLACED orders are here: the lines of an order that awaits *)
(* payment can be neither advanced nor paid out.                           *)
(***************************************************************************)
EXTENDS Naturals, Sequences, OrderLines
LOCAL INSTANCE Functions

CONSTANTS
  Lines,         \* order lines
  Orders,
  Shops,
  OrderOf,       \* OrderItem.order
  ShopOf,        \* OrderItem.product.shop
  Earning,       \* OrderItem.vendor_earning, frozen at checkout
  PayoutIds,     \* payout ids not yet used (bounds the number of payouts)
  Destinations,  \* payout details a shop owner may enter
  Finance,       \* payout requests that can be in flight at once
  Staff,         \* back-office and rider requests that can be in flight at once
  Crashes,       \* TRUE if a worker may die in the middle of a request
  NoPayout, NoShop, NoDetails

ASSUME ShapeAssumption ==
  /\ OrderOf \in [Lines -> Orders]
  /\ ShopOf \in [Lines -> Shops]
  /\ Earning \in [Lines -> Nat]
ASSUME RolesAssumption   == Finance \cap Staff = {}
ASSUME AbsentAssumption  ==
  NoPayout \notin PayoutIds /\ NoShop \notin Shops /\ NoDetails \notin Destinations
ASSUME CrashesAssumption == Crashes \in BOOLEAN

VARIABLES
  lineStatus,  \* OrderItem.status
  payment,     \* PaymentRecord.status of each order
  inPayout,    \* OrderItem.payout
  payout,      \* the Payout rows
  details,     \* Shop.payout_network, payout_phone, payout_account_name
  transfers,   \* what the provider has sent: the payouts, in order
  req          \* the in-memory state of each request in flight

vars == <<lineStatus, payment, inPayout, payout, details, transfers, req>>

Workers == Finance \cup Staff

\* The amount of a set of lines.
Owed(lines) == SumFunctionOnSet(Earning, lines)
Amounts     == {Owed(lines) : lines \in SUBSET Lines}

Unused  == [status |-> "NONE", shop |-> NoShop, amount |-> Owed({}), to |-> NoDetails]
PayoutRows ==
  {Unused} \cup
  [status : {"PENDING", "PROCESSING", "SUCCEEDED", "FAILED"}, shop : Shops,
   amount : Amounts, to : Destinations]

\* Both sides of a transfer: the payout it is for (its reference), the amount and
\* the destination of the call, and the lines the payout stood for.
Transfers == [payout : PayoutIds, amount : Amounts, to : Destinations, lines : SUBSET Lines]

Idle == [op |-> "idle"]
Requests ==
       {Idle}
  \cup [op : {"disburse"}, payout : PayoutIds]
  \cup [op : {"record"}, payout : PayoutIds, outcome : {"SUCCEEDED", "PROCESSING", "FAILED"}]
  \cup [op : {"advance"}, line : Lines, to : LineStatus]

TypeOK ==
  /\ lineStatus \in [Lines -> LineStatus]
  /\ payment \in [Orders -> {"PENDING", "SUCCEEDED", "FAILED"}]
  /\ inPayout \in [Lines -> PayoutIds \cup {NoPayout}]
  /\ payout \in [PayoutIds -> PayoutRows]
  /\ details \in [Shops -> Destinations \cup {NoDetails}]
  /\ transfers \in Seq(Transfers)
  /\ req \in [Workers -> Requests]

\* A placed order is paid already, or cash on delivery.
Init ==
  /\ lineStatus = [l \in Lines |-> "PENDING"]
  /\ payment \in [Orders -> {"PENDING", "SUCCEEDED"}]
  /\ inPayout = [l \in Lines |-> NoPayout]
  /\ payout = [p \in PayoutIds |-> Unused]
  /\ details = [s \in Shops |-> NoDetails]
  /\ transfers = <<>>
  /\ req = [w \in Workers |-> Idle]

Continue(w, request) == req' = [req EXCEPT ![w] = request]

orderVars  == <<lineStatus, payment>>
payoutVars == <<inPayout, payout, transfers>>

-----------------------------------------------------------------------------
(* Orders, as far as earnings depend on them.                               *)

\* A status view reads the line with no lock ...
BeginAdvance(w, l, to) ==
  /\ req[w] = Idle
  /\ payment[OrderOf[l]] # "FAILED"
  /\ to \in ValidTransitions[lineStatus[l]]
  /\ Continue(w, [op |-> "advance", line |-> l, to |-> to])
  /\ UNCHANGED <<orderVars, payoutVars, details>>

\* ... and advance_order_item_status writes the new status.
FinishAdvance(w) ==
  /\ req[w].op = "advance"
  /\ lineStatus' = [lineStatus EXCEPT ![req[w].line] = req[w].to]
  /\ Continue(w, Idle)
  /\ UNCHANGED <<payment, payoutVars, details>>

\* An administrator confirms that the cash of an order arrived.
ConfirmCash(w, o) ==
  /\ req[w] = Idle
  /\ payment[o] = "PENDING"
  /\ payment' = [payment EXCEPT ![o] = "SUCCEEDED"]
  /\ UNCHANGED <<lineStatus, payoutVars, details, req>>

\* Or that it did not: every line of the order is cancelled, delivered ones too.
RejectCash(w, o) ==
  /\ req[w] = Idle
  /\ payment[o] = "PENDING"
  /\ payment' = [payment EXCEPT ![o] = "FAILED"]
  /\ lineStatus' = [l \in Lines |-> IF OrderOf[l] = o THEN "CANCELLED" ELSE lineStatus[l]]
  /\ UNCHANGED <<payoutVars, details, req>>

\* Mutant: payouts show the shop's current details instead of a snapshot.
EditDetails_NoSnapshot(s, to) ==
  /\ details' = [details EXCEPT ![s] = to]
  /\ payout' = [p \in PayoutIds |-> IF payout[p].shop = s THEN [payout[p] EXCEPT !.to = to]
                                                          ELSE payout[p]]
  /\ UNCHANGED <<orderVars, inPayout, transfers, req>>

\* The shop owner enters or changes where the earnings go.
EditDetails(s, to) ==
  /\ details' = [details EXCEPT ![s] = to]
  /\ UNCHANGED <<orderVars, payoutVars, req>>

-----------------------------------------------------------------------------
(* Payouts.                                                                 *)

Settled(l) == lineStatus[l] = "DELIVERED" /\ payment[OrderOf[l]] # "PENDING"

\* Mutant: cash that is still due is paid out.
AvailableLines_CashDueToo(s) ==
  {l \in Lines : ShopOf[l] = s /\ lineStatus[l] = "DELIVERED" /\ inPayout[l] = NoPayout}

\* Mutant: whatever has been shipped is paid out.
AvailableLines_BeforeDelivery(s) ==
  {l \in Lines : /\ ShopOf[l] = s /\ lineStatus[l] # "CANCELLED"
                 /\ payment[OrderOf[l]] # "PENDING" /\ inPayout[l] = NoPayout}

\* _available_lines: delivered, no cash due, and in no payout yet.
AvailableLines(s) == {l \in Lines : ShopOf[l] = s /\ Settled(l) /\ inPayout[l] = NoPayout}

\* Under the lock of the shop's row: the destination is snapshotted, the lines are
\* locked and attached, and the transaction commits a PENDING payout.
Claim(w, p, s) ==
  /\ details[s] # NoDetails
  /\ AvailableLines(s) # {} /\ Owed(AvailableLines(s)) > 0
  /\ inPayout' = [l \in Lines |-> IF l \in AvailableLines(s) THEN p ELSE inPayout[l]]
  /\ payout' = [payout EXCEPT ![p] =
       [status |-> "PENDING", shop |-> s, to |-> details[s],
        amount |-> Owed(AvailableLines(s))]]
  /\ Continue(w, [op |-> "disburse", payout |-> p])
  /\ UNCHANGED <<orderVars, details, transfers>>

CreatePayout(w, p, s) ==
  /\ req[w] = Idle
  /\ payout[p].status = "NONE"
  /\ Claim(w, p, s)

\* Mutant: a payout that looks stuck can be retried as well.
RetryPayout_StuckToo(w, p) ==
  /\ req[w] = Idle
  /\ payout[p].status \in {"FAILED", "PENDING"}
  /\ Claim(w, p, payout[p].shop)

\* A FAILED payout is tried again with whatever is available by now, under the
\* same reference.
RetryPayout(w, p) ==
  /\ req[w] = Idle
  /\ payout[p].status = "FAILED"
  /\ Claim(w, p, payout[p].shop)

LinesIn(p) == {l \in Lines : inPayout[l] = p}

\* The call: amount, destination and reference of the row.
TransferOf(p) ==
  [payout |-> p, amount |-> payout[p].amount, to |-> payout[p].to, lines |-> LinesIn(p)]

\* The provider is called, with no lock held.  It sends the money, or refuses (or
\* raises) having sent nothing, or answers PROCESSING and has sent it or will not.
Disburse(w) ==
  LET p    == req[w].payout
      send == transfers' = Append(transfers, TransferOf(p))
  IN
  /\ req[w].op = "disburse"
  /\ \E outcome \in {"SUCCEEDED", "PROCESSING", "FAILED"} :
       /\ outcome = "SUCCEEDED" => send
       /\ outcome = "FAILED" => UNCHANGED transfers
       /\ outcome = "PROCESSING" => send \/ UNCHANGED transfers
       /\ Continue(w, [op |-> "record", payout |-> p, outcome |-> outcome])
  /\ UNCHANGED <<orderVars, inPayout, payout, details>>

\* Mutant: anything but a success releases the lines.
RecordOutcome_ReleasedInDoubt(w) ==
  LET p == req[w].payout IN
  /\ req[w].op = "record"
  /\ payout' = [payout EXCEPT ![p].status = req[w].outcome]
  /\ inPayout' = [l \in Lines |-> IF req[w].outcome # "SUCCEEDED" /\ inPayout[l] = p
                                    THEN NoPayout ELSE inPayout[l]]
  /\ Continue(w, Idle)
  /\ UNCHANGED <<orderVars, details, transfers>>

\* Mutant: a failed payout keeps its lines.
RecordOutcome_LinesKept(w) ==
  /\ req[w].op = "record"
  /\ payout' = [payout EXCEPT ![req[w].payout].status = req[w].outcome]
  /\ Continue(w, Idle)
  /\ UNCHANGED <<orderVars, inPayout, details, transfers>>

\* The outcome is written whatever the row says by then; a FAILED payout
\* releases its lines.
RecordOutcome(w) ==
  LET p == req[w].payout IN
  /\ req[w].op = "record"
  /\ payout' = [payout EXCEPT ![p].status = req[w].outcome]
  /\ inPayout' = [l \in Lines |-> IF req[w].outcome = "FAILED" /\ inPayout[l] = p
                                    THEN NoPayout ELSE inPayout[l]]
  /\ Continue(w, Idle)
  /\ UNCHANGED <<orderVars, details, transfers>>

\* The worker dies; what it has committed, and what it has sent, stays.
Crash(w) ==
  /\ Crashes
  /\ req[w] # Idle
  /\ Continue(w, Idle)
  /\ UNCHANGED <<orderVars, payoutVars, details>>

-----------------------------------------------------------------------------
StaffStep(w) ==
  \/ \E l \in Lines, to \in LineStatus : BeginAdvance(w, l, to)
  \/ FinishAdvance(w)
  \/ \E o \in Orders : ConfirmCash(w, o) \/ RejectCash(w, o)

FinanceStep(w) ==
  \/ \E p \in PayoutIds, s \in Shops : CreatePayout(w, p, s)
  \/ \E p \in PayoutIds : RetryPayout(w, p)
  \/ Disburse(w)
  \/ RecordOutcome(w)

Next ==
  \/ \E w \in Staff : StaffStep(w)
  \/ \E w \in Finance : FinanceStep(w)
  \/ \E s \in Shops, to \in Destinations : EditDetails(s, to)
  \/ \E w \in Workers : Crash(w)

Spec == Init /\ [][Next]_vars

-----------------------------------------------------------------------------
(* Safety.                                                                  *)

\* No earning is sent twice: across retries, crashes between the call and its
\* record, refusals and concurrent payouts of one shop, a line is in at most one
\* transfer (create_payout, retry_payout, _disburse).
PaidOnce ==
  \A i, j \in DOMAIN transfers :
    i # j => transfers[i].lines \cap transfers[j].lines = {}

\* The Payout rows tell what the provider did: a SUCCEEDED payout was sent, with
\* the amount, the destination and the lines the row still shows; a FAILED one
\* was never sent and holds no line; and a transfer nobody has recorded is that
\* of an open payout, whose lines nobody else can claim.  A payout holds lines of
\* its own shop only.
RowsAgreeWithTransfers ==
  /\ \A p \in PayoutIds :
       /\ payout[p].status = "SUCCEEDED" => \E i \in DOMAIN transfers : transfers[i].payout = p
       /\ payout[p].status = "FAILED" => LinesIn(p) = {}
       /\ \A l \in LinesIn(p) : ShopOf[l] = payout[p].shop
  /\ \A i \in DOMAIN transfers :
       LET p == transfers[i].payout IN
       /\ payout[p].status \in {"PENDING", "PROCESSING", "SUCCEEDED"}
       /\ transfers[i].amount = payout[p].amount
       /\ transfers[i].to = payout[p].to
       /\ transfers[i].lines = LinesIn(p)

\* The amount sent is what the lines of the transfer earned.
AmountsAddUp ==
  \A i \in DOMAIN transfers : transfers[i].amount = Owed(transfers[i].lines)

\* "Cancelled lines never pay out" (finance/services.py).
CancelledNeverPaid ==
  \A i \in DOMAIN transfers, l \in Lines :
    l \in transfers[i].lines => lineStatus[l] # "CANCELLED"

\* An earning is available "once the line is DELIVERED, its payment received": no
\* line whose payment the mall has not received is in a payout.
PaidOnlyIfReceived ==
  \A l \in Lines : inPayout[l] # NoPayout => payment[OrderOf[l]] = "SUCCEEDED"

-----------------------------------------------------------------------------
(* The figures: balance_aggregates, line by line.                           *)

Placed(l)  == payment[OrderOf[l]] # "FAILED"
CashDue(l) == payment[OrderOf[l]] = "PENDING"

Buckets(l) ==
  {b \in {"pending", "available", "in payout", "paid"} :
    CASE b = "pending"   -> \/ lineStatus[l] \in {"PENDING", "PROCESSING", "SHIPPED"} /\ Placed(l)
                            \/ lineStatus[l] = "DELIVERED" /\ CashDue(l)
      [] b = "available" -> Settled(l) /\ inPayout[l] = NoPayout
      [] b = "in payout" -> /\ lineStatus[l] = "DELIVERED" /\ inPayout[l] # NoPayout
                            /\ payout[inPayout[l]].status \in {"PENDING", "PROCESSING"}
      [] b = "paid"      -> /\ inPayout[l] # NoPayout
                            /\ payout[inPayout[l]].status = "SUCCEEDED"}

\* The balance of a shop counts every earning exactly once, in whatever state its
\* line, its cash and its payout are, and counts nothing for a cancelled line.
EarningCountedOnce ==
  \A l \in Lines :
    IF lineStatus[l] = "CANCELLED" THEN Buckets(l) = {}
                                   ELSE \E b \in Buckets(l) : Buckets(l) = {b}

-----------------------------------------------------------------------------
(* What a step may never do.                                                *)

\* History is not rewritten: a SUCCEEDED payout keeps its amount, its destination
\* and its lines whatever is edited, retried or cancelled later.
PaidPayoutsKept ==
  [][\A p \in PayoutIds : payout[p].status = "SUCCEEDED" =>
        payout'[p] = payout[p] /\ LinesIn(p)' = LinesIn(p)]_vars

-----------------------------------------------------------------------------
(* Refinement.                                                              *)

SentLines == [i \in DOMAIN transfers |-> transfers[i].lines]

PaidLines == {l \in Lines : inPayout[l] # NoPayout /\ payout[inPayout[l]].status = "SUCCEEDED"}

Once == INSTANCE PayOnce WITH sent <- SentLines, reported <- PaidLines

\* Claiming, sending, recording and retrying implement "sent at most once, and
\* reported as paid only if sent".
ImplementsPayOnce == Once!Spec

=============================================================================
