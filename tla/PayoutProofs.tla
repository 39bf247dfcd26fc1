---------------------------- MODULE PayoutProofs ----------------------------
(***************************************************************************)
(* The safety of payouts, for any number of lines, shops, payouts and      *)
(* concurrent requests: types, the inductive invariant behind "sent at     *)
(* most once", the refinement of PayOnce, and which lines are paid and     *)
(* counted, as long as no status is written on a stale read.               *)
(***************************************************************************)
EXTENDS Payouts, TLAPS

Carries(w) == req[w].op \in {"disburse", "record"}

\* A payout is carried only while its row is PENDING ...
CarriedPending == \A w \in Workers : Carries(w) => payout[req[w].payout].status = "PENDING"

\* ... by one request ...
CarriedOnce ==
  \A v, w \in Workers :
    Carries(v) /\ Carries(w) /\ req[v].payout = req[w].payout => v = w

SentFor(p) == \E i \in DOMAIN transfers : transfers[i].payout = p

\* ... that knows whether the money has left.
CarrierKnows ==
  \A w \in Workers :
    /\ req[w].op = "disburse" => LinesIn(req[w].payout) # {} /\ ~SentFor(req[w].payout)
    /\ req[w].op = "record" =>
         /\ req[w].outcome = "FAILED" => ~SentFor(req[w].payout)
         /\ req[w].outcome = "SUCCEEDED" => SentFor(req[w].payout)

\* The amount of a row is that of its lines until it fails.
RowsAddUp ==
  \A p \in PayoutIds :
    /\ payout[p].status = "NONE" => LinesIn(p) = {}
    /\ payout[p].status \in {"PENDING", "PROCESSING", "SUCCEEDED"} =>
         payout[p].amount = Owed(LinesIn(p))

\* No payout is sent twice.
SentOnce ==
  \A i, j \in DOMAIN transfers : transfers[i].payout = transfers[j].payout => i = j

PInv ==
  /\ TypeOK
  /\ CarriedPending
  /\ CarriedOnce
  /\ CarrierKnows
  /\ RowsAgreeWithTransfers
  /\ RowsAddUp
  /\ SentOnce

-----------------------------------------------------------------------------
LEMMA IdleIsARequest == Idle \in Requests
BY DEF Idle, Requests

LEMMA ContinueTyped ==
  ASSUME TypeOK, NEW w \in Workers, NEW request \in Requests, Continue(w, request)
  PROVE  req' \in [Workers -> Requests]
BY DEF TypeOK, Continue

\* A claim writes a well-formed row, and is carried by its worker.
LEMMA ClaimTyped ==
  ASSUME TypeOK, NEW w \in Workers, NEW p \in PayoutIds, NEW s \in Shops, Claim(w, p, s)
  PROVE  TypeOK'
<1>1. AvailableLines(s) \in SUBSET Lines
  BY DEF AvailableLines
<1>2. Owed(AvailableLines(s)) \in Amounts
  BY <1>1 DEF Amounts
<1>3. inPayout' \in [Lines -> PayoutIds \cup {NoPayout}]
  BY DEF Claim, TypeOK
<1>4. payout' \in [PayoutIds -> PayoutRows]
  <2>1. details[s] \in Destinations
    BY DEF Claim, TypeOK
  <2>2. [status |-> "PENDING", shop |-> s, to |-> details[s],
         amount |-> Owed(AvailableLines(s))] \in PayoutRows
    BY <1>2, <2>1 DEF PayoutRows
  <2> QED BY <2>2 DEF Claim, TypeOK
<1>5. [op |-> "disburse", payout |-> p] \in Requests
  BY DEF Requests
<1>6. req' \in [Workers -> Requests]
  BY <1>5, ContinueTyped DEF Claim
<1> QED BY <1>3, <1>4, <1>6 DEF Claim, TypeOK, orderVars

\* What a request carries is in the space of requests.
LEMMA CarriedTyped ==
  ASSUME TypeOK, NEW w \in Workers
  PROVE  /\ req[w].op = "advance" => req[w].line \in Lines /\ req[w].to \in LineStatus
         /\ req[w].op = "disburse" => req[w].payout \in PayoutIds
         /\ req[w].op = "record" =>
              /\ req[w].payout \in PayoutIds
              /\ req[w].outcome \in {"SUCCEEDED", "PROCESSING", "FAILED"}
<1>1. req[w] \in Requests
  BY DEF TypeOK
<1> QED BY <1>1 DEF Requests, Idle

\* Every transfer is a typed call, and one more call adds one at the end.
LEMMA TransferTyped ==
  ASSUME TypeOK, NEW i \in DOMAIN transfers
  PROVE  transfers[i] \in Transfers /\ transfers[i].payout \in PayoutIds
<1>1. transfers[i] \in Transfers
  BY DEF TypeOK
<1> QED BY <1>1 DEF Transfers

LEMMA TransferAdded ==
  ASSUME TypeOK, NEW t, transfers' = Append(transfers, t)
  PROVE  /\ DOMAIN transfers' = DOMAIN transfers \cup {Len(transfers) + 1}
         /\ Len(transfers) + 1 \notin DOMAIN transfers
         /\ \A i \in DOMAIN transfers : transfers'[i] = transfers[i]
         /\ transfers'[Len(transfers) + 1] = t
BY DEF TypeOK

\* A row that has left NONE is a full record.
LEMMA RowTyped ==
  ASSUME TypeOK, NEW p \in PayoutIds, payout[p].status # "NONE"
  PROVE  payout[p] \in [status : {"PENDING", "PROCESSING", "SUCCEEDED", "FAILED"}, shop : Shops,
                        amount : Amounts, to : Destinations]
<1>1. payout[p] \in PayoutRows
  BY DEF TypeOK
<1> QED BY <1>1 DEF PayoutRows, Unused

-----------------------------------------------------------------------------
(* Types.                                                                   *)

LEMMA TypeInit == Init => TypeOK
<1> SUFFICES ASSUME Init PROVE TypeOK
  OBVIOUS
<1>1. payout \in [PayoutIds -> PayoutRows]
  BY DEF Init, PayoutRows
<1>2. req \in [Workers -> Requests]
  BY IdleIsARequest DEF Init
<1>3. transfers \in Seq(Transfers)
  BY DEF Init
<1>4. lineStatus \in [Lines -> LineStatus]
  BY DEF Init, LineStatus
<1> QED BY <1>1, <1>2, <1>3, <1>4 DEF Init, TypeOK

LEMMA TypeStep == TypeOK /\ CarriedPending /\ [Next]_vars => TypeOK'
<1> SUFFICES ASSUME TypeOK, CarriedPending, [Next]_vars PROVE TypeOK'
  OBVIOUS
<1> USE DEF Workers
<1>1. ASSUME NEW w \in Staff, NEW l \in Lines, NEW to \in LineStatus, BeginAdvance(w, l, to)
      PROVE  TypeOK'
  <2>1. [op |-> "advance", line |-> l, to |-> to] \in Requests
    BY DEF Requests
  <2>2. req' \in [Workers -> Requests]
    BY <1>1, <2>1, ContinueTyped DEF BeginAdvance
  <2> QED BY <1>1, <2>2 DEF BeginAdvance, TypeOK, orderVars, payoutVars
<1>2. ASSUME NEW w \in Staff, FinishAdvance(w)
      PROVE  TypeOK'
  <2>1. req' \in [Workers -> Requests]
    BY <1>2, IdleIsARequest, ContinueTyped DEF FinishAdvance
  <2>2. lineStatus' \in [Lines -> LineStatus]
    BY <1>2, CarriedTyped DEF FinishAdvance, TypeOK
  <2> QED BY <1>2, <2>1, <2>2 DEF FinishAdvance, TypeOK, payoutVars
<1>3. ASSUME NEW w \in Staff, NEW o \in Orders, ConfirmCash(w, o)
      PROVE  TypeOK'
  BY <1>3 DEF ConfirmCash, TypeOK, payoutVars
<1>4. ASSUME NEW w \in Staff, NEW o \in Orders, RejectCash(w, o)
      PROVE  TypeOK'
  <2>1. lineStatus' \in [Lines -> LineStatus]
    BY <1>4 DEF RejectCash, TypeOK, LineStatus
  <2> QED BY <1>4, <2>1 DEF RejectCash, TypeOK, payoutVars
<1>5. ASSUME NEW w \in Finance, NEW p \in PayoutIds, NEW s \in Shops, CreatePayout(w, p, s)
      PROVE  TypeOK'
  BY <1>5, ClaimTyped DEF CreatePayout
<1>6. ASSUME NEW w \in Finance, NEW p \in PayoutIds, RetryPayout(w, p)
      PROVE  TypeOK'
  <2>1. payout[p].shop \in Shops
    BY <1>6, RowTyped DEF RetryPayout
  <2> QED BY <1>6, <2>1, ClaimTyped DEF RetryPayout
<1>7. ASSUME NEW w \in Finance, Disburse(w)
      PROVE  TypeOK'
  <2> DEFINE p == req[w].payout
  <2>1. p \in PayoutIds /\ payout[p].status = "PENDING"
    BY <1>7, CarriedTyped DEF Disburse, CarriedPending, Carries
  <2>2. payout[p].amount \in Amounts /\ payout[p].to \in Destinations
    BY <2>1, RowTyped
  <2>3. TransferOf(p) \in Transfers
    BY <2>1, <2>2 DEF Transfers, TransferOf, LinesIn
  <2>4. transfers' \in Seq(Transfers)
    <3>1. transfers' = transfers \/ transfers' = Append(transfers, TransferOf(p))
      BY <1>7 DEF Disburse
    <3> QED BY <2>3, <3>1 DEF TypeOK
  <2>5. \A outcome \in {"SUCCEEDED", "PROCESSING", "FAILED"} :
          [op |-> "record", payout |-> p, outcome |-> outcome] \in Requests
    BY <2>1 DEF Requests
  <2>6. req' \in [Workers -> Requests]
    BY <1>7, <2>5, ContinueTyped DEF Disburse
  <2> QED BY <1>7, <2>4, <2>6 DEF Disburse, TypeOK, orderVars
<1>8. ASSUME NEW w \in Finance, RecordOutcome(w)
      PROVE  TypeOK'
  <2> DEFINE p == req[w].payout
  <2>1. /\ p \in PayoutIds /\ payout[p].status = "PENDING"
        /\ req[w].outcome \in {"SUCCEEDED", "PROCESSING", "FAILED"}
    BY <1>8, CarriedTyped DEF RecordOutcome, CarriedPending, Carries
  <2>2. [payout[p] EXCEPT !.status = req[w].outcome] \in PayoutRows
    BY <2>1, RowTyped DEF PayoutRows
  <2>3. payout' \in [PayoutIds -> PayoutRows]
    BY <1>8, <2>1, <2>2 DEF RecordOutcome, TypeOK
  <2>4. inPayout' \in [Lines -> PayoutIds \cup {NoPayout}]
    BY <1>8 DEF RecordOutcome, TypeOK
  <2>5. req' \in [Workers -> Requests]
    BY <1>8, IdleIsARequest, ContinueTyped DEF RecordOutcome
  <2> QED BY <1>8, <2>3, <2>4, <2>5 DEF RecordOutcome, TypeOK, orderVars
<1>9. ASSUME NEW s \in Shops, NEW to \in Destinations, EditDetails(s, to)
      PROVE  TypeOK'
  BY <1>9 DEF EditDetails, TypeOK, orderVars, payoutVars
<1>10. ASSUME NEW w \in Workers, Crash(w)
       PROVE  TypeOK'
  <2>1. req' \in [Workers -> Requests]
    BY <1>10, IdleIsARequest, ContinueTyped DEF Crash
  <2> QED BY <1>10, <2>1 DEF Crash, TypeOK, orderVars, payoutVars
<1>11. CASE UNCHANGED vars
  BY <1>11 DEF vars, TypeOK
<1> QED BY <1>1, <1>2, <1>3, <1>4, <1>5, <1>6, <1>7, <1>8, <1>9, <1>10, <1>11
        DEF Next, StaffStep, FinanceStep

-----------------------------------------------------------------------------
(* The steps, as far as payouts can tell.                                   *)

\* Rows, lines and transfers stay, and nobody takes a payout up.
Quiet ==
  /\ UNCHANGED payoutVars
  /\ \A v \in Workers : req'[v] = req[v] \/ req'[v].op \in {"idle", "advance"}

LEMMA ContinueQuiet ==
  ASSUME TypeOK, NEW w \in Workers, NEW request, Continue(w, request),
         request.op \in {"idle", "advance"}, UNCHANGED payoutVars
  PROVE  Quiet
BY DEF TypeOK, Continue, Quiet

\* A claim starts from a payout that holds no line and was never sent.
Claiming(w, p, s) ==
  /\ Claim(w, p, s) /\ req[w] = Idle
  /\ payout[p].status \in {"NONE", "FAILED"}

StepKinds ==
  \/ Quiet
  \/ \E w \in Workers, p \in PayoutIds, s \in Shops : Claiming(w, p, s)
  \/ \E w \in Workers : Disburse(w) \/ RecordOutcome(w)

LEMMA StepClassified ==
  ASSUME PInv, [Next]_vars
  PROVE  StepKinds
<1> USE DEF Workers, PInv
<1>1. ASSUME NEW w \in Staff, NEW l \in Lines, NEW to \in LineStatus, BeginAdvance(w, l, to)
      PROVE  StepKinds
  BY <1>1, ContinueQuiet DEF BeginAdvance, StepKinds
<1>2. ASSUME NEW w \in Staff, FinishAdvance(w)
      PROVE  StepKinds
  BY <1>2, ContinueQuiet DEF FinishAdvance, StepKinds, Idle
<1>3. ASSUME NEW w \in Staff, NEW o \in Orders, ConfirmCash(w, o) \/ RejectCash(w, o)
      PROVE  StepKinds
  BY <1>3 DEF ConfirmCash, RejectCash, StepKinds, Quiet
<1>4. ASSUME NEW w \in Finance, NEW p \in PayoutIds, NEW s \in Shops, CreatePayout(w, p, s)
      PROVE  StepKinds
  BY <1>4 DEF CreatePayout, StepKinds, Claiming
<1>5. ASSUME NEW w \in Finance, NEW p \in PayoutIds, RetryPayout(w, p)
      PROVE  StepKinds
  <2>1. payout[p].shop \in Shops
    BY <1>5, RowTyped DEF RetryPayout
  <2> QED BY <1>5, <2>1 DEF RetryPayout, StepKinds, Claiming
<1>6. ASSUME NEW s \in Shops, NEW to \in Destinations, EditDetails(s, to)
      PROVE  StepKinds
  BY <1>6 DEF EditDetails, StepKinds, Quiet
<1>7. ASSUME NEW w \in Workers, Crash(w)
      PROVE  StepKinds
  BY <1>7, ContinueQuiet DEF Crash, StepKinds, Idle
<1>8. CASE UNCHANGED vars
  BY <1>8 DEF vars, StepKinds, Quiet, payoutVars
<1> QED BY <1>1, <1>2, <1>3, <1>4, <1>5, <1>6, <1>7, <1>8
        DEF Next, StaffStep, FinanceStep, StepKinds

-----------------------------------------------------------------------------
(* The inductive invariant.                                                 *)

LEMMA PInit == Init => PInv
<1> SUFFICES ASSUME Init PROVE PInv
  OBVIOUS
<1>1. TypeOK
  BY TypeInit
<1>2. CarriedPending /\ CarriedOnce /\ CarrierKnows
  BY DEF Init, Idle, Carries, CarriedPending, CarriedOnce, CarrierKnows
<1>3. \A p \in PayoutIds : LinesIn(p) = {} /\ payout[p].status = "NONE"
  BY AbsentAssumption DEF Init, LinesIn, Unused
<1>4. RowsAgreeWithTransfers /\ RowsAddUp /\ SentOnce
  BY <1>3 DEF Init, RowsAgreeWithTransfers, RowsAddUp, SentOnce
<1> QED BY <1>1, <1>2, <1>4 DEF PInv

LEMMA QuietKeeps ==
  ASSUME PInv, Quiet, TypeOK'
  PROVE  PInv'
<1>1. \A p : LinesIn(p)' = LinesIn(p)
  BY DEF Quiet, payoutVars, LinesIn
<1>2. \A p : SentFor(p)' = SentFor(p)
  BY DEF Quiet, payoutVars, SentFor
<1>3. CarriedPending' /\ CarriedOnce'
  BY DEF PInv, Quiet, payoutVars, CarriedPending, CarriedOnce, Carries
<1>4. CarrierKnows'
  BY <1>1, <1>2 DEF PInv, Quiet, payoutVars, CarrierKnows
<1>5. RowsAgreeWithTransfers' /\ RowsAddUp' /\ SentOnce'
  BY <1>1 DEF PInv, Quiet, payoutVars, RowsAgreeWithTransfers, RowsAddUp, SentOnce
<1> QED BY <1>3, <1>4, <1>5 DEF PInv

\* A claim: the row is new or failed, so no line, transfer or request refers to it.
LEMMA ClaimKeeps ==
  ASSUME PInv, NEW w \in Workers, NEW p \in PayoutIds, NEW s \in Shops,
         Claiming(w, p, s), TypeOK'
  PROVE  PInv'
<1> DEFINE lines == AvailableLines(s)
<1> USE DEF PInv
<1>1. /\ LinesIn(p) = {} /\ ~SentFor(p)
      /\ \A v \in Workers : Carries(v) => req[v].payout # p
  BY DEF Claiming, RowsAddUp, RowsAgreeWithTransfers, SentFor, CarriedPending
<1>2. /\ lines # {} /\ lines \subseteq Lines
      /\ \A l \in lines : inPayout[l] = NoPayout /\ ShopOf[l] = s
  BY DEF Claiming, Claim, AvailableLines
<1>3. LinesIn(p)' = lines
  BY <1>1, <1>2 DEF Claiming, Claim, LinesIn
<1>4. \A q \in PayoutIds \ {p} : LinesIn(q)' = LinesIn(q) /\ payout'[q] = payout[q]
  BY <1>2, AbsentAssumption DEF Claiming, Claim, LinesIn, TypeOK
<1>5. payout'[p] = [status |-> "PENDING", shop |-> s, to |-> details[s], amount |-> Owed(lines)]
  BY DEF Claiming, Claim, TypeOK
<1>6. /\ req'[w] = [op |-> "disburse", payout |-> p]
      /\ \A v \in Workers \ {w} : req'[v] = req[v]
      /\ transfers' = transfers
  BY DEF Claiming, Claim, Continue, TypeOK
<1>7. \A v \in Workers : Carries(v) => req[v].payout \in PayoutIds \ {p}
  BY <1>1, CarriedTyped DEF Carries
<1>8. CarriedPending' /\ CarriedOnce'
  BY <1>4, <1>5, <1>6, <1>7 DEF CarriedPending, CarriedOnce, Carries
<1>9. CarrierKnows'
  <2>1. \A q : SentFor(q)' = SentFor(q)
    BY <1>6 DEF SentFor
  <2> QED BY <1>1, <1>2, <1>3, <1>4, <1>6, <1>7, <2>1 DEF CarrierKnows, Carries
<1>10. RowsAgreeWithTransfers'
  <2>1. \A i \in DOMAIN transfers : transfers[i].payout \in PayoutIds \ {p}
    BY <1>1, TransferTyped DEF SentFor
  <2> QED BY <1>2, <1>3, <1>4, <1>5, <1>6, <2>1 DEF RowsAgreeWithTransfers
<1>11. RowsAddUp'
  BY <1>3, <1>4, <1>5 DEF RowsAddUp
<1>12. SentOnce'
  BY <1>6 DEF SentOnce
<1> QED BY <1>8, <1>9, <1>10, <1>11, <1>12

\* A call: the payout carried was never sent, and is now or is not.
LEMMA DisburseKeeps ==
  ASSUME PInv, NEW w \in Workers, Disburse(w), TypeOK'
  PROVE  PInv'
<1> USE DEF PInv
<1>1. PICK p \in PayoutIds :
        p = req[w].payout /\ payout[p].status = "PENDING" /\ ~SentFor(p)
  BY CarriedTyped DEF Disburse, CarriedPending, Carries, CarrierKnows
<1>2. PICK outcome \in {"SUCCEEDED", "PROCESSING", "FAILED"} :
        /\ outcome = "SUCCEEDED" => transfers' = Append(transfers, TransferOf(p))
        /\ outcome = "FAILED" => transfers' = transfers
        /\ transfers' = transfers \/ transfers' = Append(transfers, TransferOf(p))
        /\ Continue(w, [op |-> "record", payout |-> p, outcome |-> outcome])
  BY <1>1 DEF Disburse
<1>3. /\ UNCHANGED <<inPayout, payout>>
      /\ \A q : LinesIn(q)' = LinesIn(q)
  BY DEF Disburse, LinesIn
<1>4. /\ req'[w] = [op |-> "record", payout |-> p, outcome |-> outcome]
      /\ \A v \in Workers \ {w} : req'[v] = req[v]
  BY <1>2 DEF Continue, TypeOK
<1>5. \A v \in Workers \ {w} : Carries(v) => req[v].payout # p
  BY <1>1 DEF CarriedOnce, Carries, Disburse
<1>6. /\ \A q : q # p => (SentFor(q)' <=> SentFor(q))
      /\ outcome = "SUCCEEDED" => SentFor(p)'
      /\ outcome = "FAILED" => ~SentFor(p)'
  <2>1. CASE transfers' = transfers
    BY <1>1, <1>2, <2>1 DEF SentFor
  <2>2. CASE transfers' = Append(transfers, TransferOf(p))
    BY <1>2, <2>2, TransferAdded DEF SentFor, TransferOf
  <2> QED BY <1>2, <2>1, <2>2
<1>7. CarriedPending' /\ CarriedOnce'
  BY <1>1, <1>3, <1>4, <1>5 DEF CarriedPending, CarriedOnce, Carries
<1>8. CarrierKnows'
  BY <1>3, <1>4, <1>5, <1>6 DEF CarrierKnows, Carries
<1>9. RowsAgreeWithTransfers'
  <2>1. CASE transfers' = transfers
    BY <1>3, <2>1 DEF RowsAgreeWithTransfers
  <2>2. CASE transfers' = Append(transfers, TransferOf(p))
    <3>1. \A q : SentFor(q) => SentFor(q)'
      BY <2>2, TransferAdded DEF SentFor
    <3> QED BY <1>1, <1>3, <2>2, <3>1, TransferAdded DEF RowsAgreeWithTransfers, TransferOf, SentFor
  <2> QED BY <1>2, <2>1, <2>2
<1>10. RowsAddUp'
  BY <1>3 DEF RowsAddUp
<1>11. SentOnce'
  <2>1. CASE transfers' = transfers
    BY <2>1 DEF SentOnce
  <2>2. CASE transfers' = Append(transfers, TransferOf(p))
    BY <1>1, <2>2, TransferAdded DEF SentOnce, SentFor, TransferOf
  <2> QED BY <1>2, <2>1, <2>2
<1> QED BY <1>7, <1>8, <1>9, <1>10, <1>11

\* A record: the row takes the outcome, and the lines of a failure are free.
LEMMA RecordKeeps ==
  ASSUME PInv, NEW w \in Workers, RecordOutcome(w), TypeOK'
  PROVE  PInv'
<1> USE DEF PInv
<1>1. PICK p \in PayoutIds, outcome \in {"SUCCEEDED", "PROCESSING", "FAILED"} :
      /\ p = req[w].payout /\ outcome = req[w].outcome
      /\ payout[p].status = "PENDING"
      /\ outcome = "FAILED" => ~SentFor(p)
      /\ outcome = "SUCCEEDED" => SentFor(p)
  BY CarriedTyped DEF RecordOutcome, CarriedPending, Carries, CarrierKnows
<1>2. /\ payout'[p] = [payout[p] EXCEPT !.status = outcome]
      /\ \A q \in PayoutIds \ {p} : payout'[q] = payout[q]
  BY <1>1 DEF RecordOutcome, TypeOK
<1>3. \A q \in PayoutIds :
        /\ payout'[q].status = IF q = p THEN outcome ELSE payout[q].status
        /\ payout'[q].amount = payout[q].amount
        /\ payout'[q].shop = payout[q].shop
        /\ payout'[q].to = payout[q].to
  BY <1>1, <1>2, RowTyped
<1>4. \A q \in PayoutIds :
        LinesIn(q)' = IF q = p /\ outcome = "FAILED" THEN {} ELSE LinesIn(q)
  BY <1>1, AbsentAssumption DEF RecordOutcome, LinesIn, TypeOK
<1>5. /\ req'[w] = Idle
      /\ \A v \in Workers \ {w} : req'[v] = req[v]
      /\ transfers' = transfers
  BY DEF RecordOutcome, Continue, TypeOK
<1>6. \A v \in Workers \ {w} : Carries(v) => req[v].payout \in PayoutIds \ {p}
  BY <1>1, CarriedTyped DEF CarriedOnce, Carries, RecordOutcome
<1>7. \A q : SentFor(q)' = SentFor(q)
  BY <1>5 DEF SentFor
<1>8. CarriedPending' /\ CarriedOnce'
  BY <1>2, <1>5, <1>6 DEF CarriedPending, CarriedOnce, Carries, Idle
<1>9. CarrierKnows'
  BY <1>4, <1>5, <1>6, <1>7 DEF CarrierKnows, Carries, Idle
<1>10. RowsAgreeWithTransfers'
  <2>1. \A i \in DOMAIN transfers :
          transfers[i].payout \in PayoutIds /\ (transfers[i].payout = p => outcome # "FAILED")
    BY <1>1, TransferTyped DEF SentFor
  <2>2. \A q \in PayoutIds :
          /\ payout'[q].status = "SUCCEEDED" => SentFor(q)
          /\ payout'[q].status = "FAILED" => LinesIn(q)' = {}
          /\ \A l \in LinesIn(q)' : ShopOf[l] = payout'[q].shop
    BY <1>1, <1>3, <1>4 DEF RowsAgreeWithTransfers, SentFor
  <2>3. \A i \in DOMAIN transfers, q \in PayoutIds : q = transfers[i].payout =>
          /\ payout'[q].status \in {"PENDING", "PROCESSING", "SUCCEEDED"}
          /\ transfers[i].amount = payout'[q].amount
          /\ transfers[i].to = payout'[q].to
          /\ transfers[i].lines = LinesIn(q)'
    BY <1>1, <1>3, <1>4, <2>1 DEF RowsAgreeWithTransfers
  <2> QED BY <1>5, <2>1, <2>2, <2>3 DEF RowsAgreeWithTransfers, SentFor
<1>11. RowsAddUp'
  BY <1>1, <1>3, <1>4 DEF RowsAddUp
<1>12. SentOnce'
  BY <1>5 DEF SentOnce
<1> QED BY <1>8, <1>9, <1>10, <1>11, <1>12

LEMMA PStep == PInv /\ [Next]_vars => PInv'
<1> SUFFICES ASSUME PInv, [Next]_vars PROVE PInv'
  OBVIOUS
<1>1. TypeOK'
  BY TypeStep DEF PInv
<1> QED BY <1>1, StepClassified, QuietKeeps, ClaimKeeps, DisburseKeeps, RecordKeeps DEF StepKinds

\* The inductive invariant of payouts.
THEOREM PInvCorrect == Spec => []PInv
<1> QED BY PInit, PStep, PTL DEF Spec

\* Payout rows, transfers, amounts and requests are well formed for every value of
\* the constants.
THEOREM PayoutTypeCorrect == Spec => []TypeOK
<1>1. PInv => TypeOK
  BY DEF PInv
<1> QED BY <1>1, PInvCorrect, PTL

\* The rows of payouts agree with what the provider sent, whatever crashes.
THEOREM RowsCorrect == Spec => []RowsAgreeWithTransfers
<1>1. PInv => RowsAgreeWithTransfers
  BY DEF PInv
<1> QED BY <1>1, PInvCorrect, PTL

\* No earning is sent twice: different transfers are of different payouts, whose
\* lines are disjoint.
THEOREM PaidOnceCorrect == Spec => []PaidOnce
<1>1. PInv => PaidOnce
  BY DEF PInv, PaidOnce, SentOnce, RowsAgreeWithTransfers, LinesIn
<1> QED BY <1>1, PInvCorrect, PTL

\* The amount of a transfer is what its lines earned.
THEOREM AmountsCorrect == Spec => []AmountsAddUp
<1>1. PInv => AmountsAddUp
  <2> SUFFICES ASSUME PInv, NEW i \in DOMAIN transfers
               PROVE  transfers[i].amount = Owed(transfers[i].lines)
    BY DEF AmountsAddUp
  <2>1. transfers[i].payout \in PayoutIds
    BY TransferTyped DEF PInv
  <2> QED BY <2>1 DEF PInv, RowsAgreeWithTransfers, RowsAddUp
<1> QED BY <1>1, PInvCorrect, PTL

-----------------------------------------------------------------------------
(* What steps never do.                                                     *)

LEMMA SucceededKept ==
  ASSUME PInv, [Next]_vars, NEW p \in PayoutIds, payout[p].status = "SUCCEEDED"
  PROVE  payout'[p] = payout[p] /\ LinesIn(p)' = LinesIn(p)
<1> USE DEF PInv
<1>1. CASE Quiet
  BY <1>1 DEF Quiet, payoutVars, LinesIn
<1>2. ASSUME NEW w \in Workers, NEW q \in PayoutIds, NEW s \in Shops, Claiming(w, q, s)
      PROVE  payout'[p] = payout[p] /\ LinesIn(p)' = LinesIn(p)
  <2>1. p # q
    BY <1>2 DEF Claiming
  <2>2. payout'[p] = payout[p]
    BY <1>2, <2>1 DEF Claiming, Claim, TypeOK
  <2>3. LinesIn(p)' = LinesIn(p)
    BY <1>2, <2>1, AbsentAssumption DEF Claiming, Claim, LinesIn, AvailableLines, TypeOK
  <2> QED BY <2>2, <2>3
<1>3. ASSUME NEW w \in Workers, Disburse(w)
      PROVE  payout'[p] = payout[p] /\ LinesIn(p)' = LinesIn(p)
  BY <1>3 DEF Disburse, LinesIn
<1>4. ASSUME NEW w \in Workers, RecordOutcome(w)
      PROVE  payout'[p] = payout[p] /\ LinesIn(p)' = LinesIn(p)
  <2>1. PICK q \in PayoutIds : q = req[w].payout /\ q # p
    BY <1>4, CarriedTyped DEF RecordOutcome, CarriedPending, Carries
  <2>2. payout'[p] = payout[p]
    BY <1>4, <2>1 DEF RecordOutcome, TypeOK
  <2>3. LinesIn(p)' = LinesIn(p)
    BY <1>4, <2>1, AbsentAssumption DEF RecordOutcome, LinesIn, TypeOK
  <2> QED BY <2>2, <2>3
<1> QED BY <1>1, <1>2, <1>3, <1>4, StepClassified DEF StepKinds

\* A SUCCEEDED payout keeps its amount, its destination and its lines for good.
THEOREM PaidPayoutsStay == Spec => PaidPayoutsKept
<1>1. PInv /\ [Next]_vars =>
        [\A p \in PayoutIds : payout[p].status = "SUCCEEDED" =>
            payout'[p] = payout[p] /\ LinesIn(p)' = LinesIn(p)]_vars
  BY SucceededKept
<1> QED BY <1>1, PInvCorrect, PTL DEF Spec, PaidPayoutsKept

-----------------------------------------------------------------------------
(* Refinement.                                                              *)

onceVars == <<SentLines, PaidLines>>

LEMMA SentLinesTyped ==
  ASSUME TypeOK
  PROVE  /\ SentLines \in Seq(SUBSET Lines)
         /\ Len(SentLines) = Len(transfers)
         /\ DOMAIN SentLines = 1 .. Len(transfers)
         /\ DOMAIN transfers = 1 .. Len(transfers)
         /\ Len(transfers) \in Nat
<1>1. DOMAIN transfers = 1 .. Len(transfers) /\ Len(transfers) \in Nat
  BY DEF TypeOK
<1>2. \A i \in DOMAIN transfers : transfers[i].lines \in SUBSET Lines
  BY TransferTyped DEF Transfers
<1>3. SentLines = [i \in 1 .. Len(transfers) |-> transfers[i].lines]
  BY <1>1 DEF SentLines
<1> QED BY <1>1, <1>2, <1>3

\* A transfer adds its lines at the end.
LEMMA SentLinesAppended ==
  ASSUME TypeOK, TypeOK', NEW t, transfers' = Append(transfers, t)
  PROVE  SentLines' = Append(SentLines, t.lines)
<1>1. /\ DOMAIN SentLines' = 1 .. Len(transfers) + 1
      /\ DOMAIN transfers' = 1 .. Len(transfers) + 1
  BY SentLinesTyped, TransferAdded DEF SentLines, TypeOK
<1>2. \A i \in 1 .. Len(transfers) + 1 :
        SentLines'[i] = IF i = Len(transfers) + 1 THEN t.lines ELSE SentLines[i]
  BY <1>1, SentLinesTyped, TransferAdded DEF SentLines
<1>3. Append(SentLines, t.lines) =
        [i \in 1 .. Len(transfers) + 1 |->
           IF i = Len(transfers) + 1 THEN t.lines ELSE SentLines[i]]
  BY SentLinesTyped
<1>4. SentLines' = [i \in 1 .. Len(transfers) + 1 |-> SentLines'[i]]
  BY <1>1 DEF SentLines
<1> QED BY <1>2, <1>3, <1>4

\* A call sends lines no payment has sent before.
LEMMA SendStep ==
  ASSUME PInv, PInv', NEW w \in Workers, Disburse(w)
  PROVE  [Once!Next]_onceVars
<1> USE DEF PInv
<1>1. PICK p \in PayoutIds :
        p = req[w].payout /\ ~SentFor(p) /\ LinesIn(p) # {}
  BY CarriedTyped DEF Disburse, CarrierKnows
<1>2. PaidLines' = PaidLines
  BY DEF Disburse, PaidLines
<1>3. CASE transfers' = transfers
  BY <1>2, <1>3 DEF SentLines, onceVars
<1>4. CASE transfers' = Append(transfers, TransferOf(p))
  <2>1. SentLines' = Append(SentLines, LinesIn(p))
    BY <1>4, SentLinesAppended DEF TransferOf
  <2>2. ASSUME NEW i \in DOMAIN SentLines
        PROVE  LinesIn(p) \cap SentLines[i] = {}
    <3>1. /\ transfers[i].payout # p
          /\ SentLines[i] = LinesIn(transfers[i].payout)
      BY <1>1 DEF SentFor, RowsAgreeWithTransfers, SentLines
    <3> QED BY <3>1 DEF LinesIn
  <2>3. LinesIn(p) \in SUBSET Lines
    BY DEF LinesIn
  <2> QED BY <1>1, <1>2, <2>1, <2>2, <2>3 DEF Once!Next, Once!Send
<1> QED BY <1>1, <1>3, <1>4 DEF Disburse

\* An outcome reports the lines of a payment that was made, or nothing.
LEMMA RecordStep ==
  ASSUME PInv, NEW w \in Workers, RecordOutcome(w)
  PROVE  [Once!Next]_onceVars
<1> USE DEF PInv
<1>1. PICK p \in PayoutIds :
        p = req[w].payout /\ payout[p].status = "PENDING"
  BY CarriedTyped DEF RecordOutcome, CarriedPending, Carries
<1>2. SentLines' = SentLines
  BY DEF RecordOutcome, SentLines
<1>3. payout' = [payout EXCEPT ![p].status = req[w].outcome]
  BY <1>1 DEF RecordOutcome
<1>4. /\ payout'[p].status = req[w].outcome
      /\ \A q \in PayoutIds \ {p} : payout'[q] = payout[q]
  BY <1>1, <1>3, RowTyped DEF TypeOK
<1>5. CASE req[w].outcome = "SUCCEEDED"
  <2>1. inPayout' = inPayout
    BY <1>5 DEF RecordOutcome, TypeOK
  <2>2. PICK i \in DOMAIN transfers : transfers[i].payout = p
    BY <1>1, <1>5 DEF RecordOutcome, CarrierKnows, SentFor
  <2>3. i \in DOMAIN SentLines /\ SentLines[i] = LinesIn(p)
    BY <2>2 DEF SentLines, RowsAgreeWithTransfers
  <2>4. PaidLines' = PaidLines \cup LinesIn(p)
    BY <1>1, <1>4, <1>5, <2>1, AbsentAssumption DEF PaidLines, LinesIn, TypeOK
  <2> QED BY <1>2, <2>3, <2>4 DEF Once!Next, Once!Report
<1>6. CASE req[w].outcome # "SUCCEEDED"
  <2>1. \A l \in Lines : inPayout'[l] = inPayout[l] \/ (inPayout[l] = p /\ inPayout'[l] = NoPayout)
    BY <1>1 DEF RecordOutcome, TypeOK
  <2>2. PaidLines' = PaidLines
    BY <1>1, <1>4, <1>6, <2>1, AbsentAssumption DEF PaidLines, TypeOK
  <2> QED BY <1>2, <2>2 DEF onceVars
<1> QED BY <1>5, <1>6

\* A claim takes lines that are in no payout, into one that is not paid.
LEMMA ClaimStep ==
  ASSUME PInv, NEW w \in Workers, NEW p \in PayoutIds, NEW s \in Shops, Claiming(w, p, s)
  PROVE  UNCHANGED onceVars
<1> USE DEF PInv
<1>1. SentLines' = SentLines
  BY DEF Claiming, Claim, SentLines
<1>2. /\ payout[p].status # "SUCCEEDED" /\ payout'[p].status # "SUCCEEDED"
      /\ \A q \in PayoutIds \ {p} : payout'[q] = payout[q]
  BY DEF Claiming, Claim, TypeOK
<1>3. \A l \in Lines : inPayout'[l] = inPayout[l] \/ (inPayout[l] = NoPayout /\ inPayout'[l] = p)
  BY DEF Claiming, Claim, AvailableLines, TypeOK
<1>4. PaidLines' = PaidLines
  BY <1>2, <1>3, AbsentAssumption DEF PaidLines, TypeOK
<1> QED BY <1>1, <1>4 DEF onceVars

\* Claiming, sending, recording and retrying, with crashes anywhere, implement the
\* abstract promise that an earning is sent at most once, and reported as paid only
\* after it was sent, for good.
THEOREM PayOnceRefinement == Spec => ImplementsPayOnce
<1>1. Init => Once!Init
  BY DEF Init, Once!Init, SentLines, PaidLines
<1>2. PInv /\ PInv' /\ [Next]_vars => [Once!Next]_onceVars
  <2> SUFFICES ASSUME PInv, PInv', [Next]_vars PROVE [Once!Next]_onceVars
    OBVIOUS
  <2>1. CASE Quiet
    BY <2>1 DEF Quiet, payoutVars, SentLines, PaidLines, onceVars
  <2> QED BY <2>1, StepClassified, ClaimStep, SendStep, RecordStep DEF StepKinds
<1>3. PInv /\ PInv' /\ [Next]_vars => [Once!Next]_(Once!vars)
  BY <1>2 DEF onceVars, Once!vars
<1> QED BY <1>1, <1>3, PInvCorrect, PTL DEF Spec, ImplementsPayOnce, Once!Spec

-----------------------------------------------------------------------------
(* What the status views read without a lock, and what is paid because of it. *)

\* The status a view read is still one that may become the status it writes.
FreshReads ==
  \A w \in Workers :
    req[w].op = "advance" => req[w].to \in ValidTransitions[lineStatus[req[w].line]]

\* Lines in a payout are delivered and paid for, and those of a rejected payment
\* are all cancelled.
LinesSettled ==
  /\ \A l \in Lines : inPayout[l] # NoPayout =>
       lineStatus[l] = "DELIVERED" /\ payment[OrderOf[l]] = "SUCCEEDED"
  /\ \A l \in Lines : payment[OrderOf[l]] = "FAILED" => lineStatus[l] = "CANCELLED"

\* Only the back office moves lines.
StaffAdvances == \A w \in Workers : req[w].op = "advance" => w \in Staff

\* The steps that move lines or take cash, and those that leave both alone.
OrderSteps ==
  \/ UNCHANGED orderVars
  \/ \E w \in Staff : FinishAdvance(w)
  \/ \E w \in Staff, o \in Orders : ConfirmCash(w, o) \/ RejectCash(w, o)

LEMMA OrderStepsClassified ==
  ASSUME [Next]_vars
  PROVE  OrderSteps
BY DEF Next, StaffStep, FinanceStep, BeginAdvance, FinishAdvance, ConfirmCash, RejectCash,
       CreatePayout, RetryPayout, Claim, Disburse, RecordOutcome, EditDetails, Crash,
       OrderSteps, orderVars, vars

\* A line is settled when it enters a payout; it leaves it when the payout fails.
LEMMA MembershipStep ==
  ASSUME PInv, StepKinds, NEW l \in Lines
  PROVE  \/ inPayout'[l] \in {inPayout[l], NoPayout}
         \/ Settled(l) /\ UNCHANGED orderVars
<1> USE DEF PInv, TypeOK
<1>1. CASE Quiet
  BY <1>1 DEF Quiet, payoutVars
<1>2. ASSUME NEW w \in Workers, NEW p \in PayoutIds, NEW s \in Shops, Claiming(w, p, s)
      PROVE  inPayout'[l] = inPayout[l] \/ (Settled(l) /\ UNCHANGED orderVars)
  BY <1>2 DEF Claiming, Claim, AvailableLines
<1>3. ASSUME NEW w \in Workers, Disburse(w)
      PROVE  inPayout'[l] = inPayout[l]
  BY <1>3 DEF Disburse
<1>4. ASSUME NEW w \in Workers, RecordOutcome(w)
      PROVE  inPayout'[l] \in {inPayout[l], NoPayout}
  BY <1>4 DEF RecordOutcome
<1> QED BY <1>1, <1>2, <1>3, <1>4 DEF StepKinds

LEMMA LinesSettledStep ==
  ASSUME PInv, LinesSettled, FreshReads, [Next]_vars
  PROVE  LinesSettled'
<1> USE ShapeAssumption DEF PInv, TypeOK, LinesSettled
<1> SUFFICES ASSUME NEW l \in Lines
             PROVE  /\ inPayout'[l] # NoPayout =>
                         lineStatus'[l] = "DELIVERED" /\ payment'[OrderOf[l]] = "SUCCEEDED"
                    /\ payment'[OrderOf[l]] = "FAILED" => lineStatus'[l] = "CANCELLED"
  OBVIOUS
<1>1. OrderSteps /\ StepKinds
  BY OrderStepsClassified, StepClassified
<1>2. Settled(l) => lineStatus[l] = "DELIVERED" /\ payment[OrderOf[l]] = "SUCCEEDED"
  BY DEF Settled
<1>3. CASE UNCHANGED orderVars
  BY <1>1, <1>2, <1>3, MembershipStep DEF orderVars
<1>4. ASSUME ~ UNCHANGED orderVars, inPayout'[l] # NoPayout
      PROVE  inPayout[l] # NoPayout
  BY <1>1, <1>4, MembershipStep
<1>5. ASSUME NEW w \in Staff, FinishAdvance(w), ~ UNCHANGED orderVars
      PROVE  /\ inPayout'[l] # NoPayout =>
                  lineStatus'[l] = "DELIVERED" /\ payment'[OrderOf[l]] = "SUCCEEDED"
             /\ payment'[OrderOf[l]] = "FAILED" => lineStatus'[l] = "CANCELLED"
  <2>1. lineStatus[req[w].line] \notin {"DELIVERED", "CANCELLED"}
    BY <1>5 DEF FinishAdvance, FreshReads, ValidTransitions, Workers
  <2>2. lineStatus'[l] = lineStatus[l] \/ l = req[w].line
    BY <1>5 DEF FinishAdvance
  <2> QED BY <1>4, <1>5, <2>1, <2>2 DEF FinishAdvance
<1>6. ASSUME NEW w \in Staff, NEW o \in Orders, ConfirmCash(w, o) \/ RejectCash(w, o),
             ~ UNCHANGED orderVars
      PROVE  /\ inPayout'[l] # NoPayout =>
                  lineStatus'[l] = "DELIVERED" /\ payment'[OrderOf[l]] = "SUCCEEDED"
             /\ payment'[OrderOf[l]] = "FAILED" => lineStatus'[l] = "CANCELLED"
  BY <1>4, <1>6 DEF ConfirmCash, RejectCash
<1> QED BY <1>1, <1>3, <1>5, <1>6 DEF OrderSteps

LEMMA LinesSettledInit == Init => LinesSettled
BY ShapeAssumption DEF Init, LinesSettled

\* As long as no view works on a stale status, a line enters a payout only when it is
\* delivered and paid for, and stays so; a rejected payment cancels lines that are in
\* no payout.
THEOREM LinesSettledIfFresh == Spec /\ []FreshReads => []LinesSettled
<1>1. PInv /\ LinesSettled /\ FreshReads /\ [Next]_vars => LinesSettled'
  BY LinesSettledStep
<1> QED BY <1>1, LinesSettledInit, PInvCorrect, PTL DEF Spec

LEMMA SettledLinesArePaidRight ==
  ASSUME PInv, LinesSettled
  PROVE  CancelledNeverPaid /\ PaidOnlyIfReceived
<1>1. CancelledNeverPaid
  <2> SUFFICES ASSUME NEW i \in DOMAIN transfers, NEW l \in Lines, l \in transfers[i].lines
               PROVE  lineStatus[l] # "CANCELLED"
    BY DEF CancelledNeverPaid
  <2>1. transfers[i].payout \in PayoutIds /\ l \in LinesIn(transfers[i].payout)
    BY TransferTyped DEF PInv, RowsAgreeWithTransfers
  <2> QED BY <2>1, AbsentAssumption DEF LinesIn, LinesSettled
<1> QED BY <1>1 DEF LinesSettled, PaidOnlyIfReceived

LEMMA SettledLinesCountOnce ==
  ASSUME PInv, LinesSettled
  PROVE  EarningCountedOnce
<1> SUFFICES ASSUME NEW l \in Lines
             PROVE  IF lineStatus[l] = "CANCELLED"
                      THEN Buckets(l) = {} ELSE \E b \in Buckets(l) : Buckets(l) = {b}
  BY DEF EarningCountedOnce
<1> USE ShapeAssumption DEF PInv, TypeOK, LinesSettled
<1>1. /\ lineStatus[l] \in {"PENDING", "PROCESSING", "SHIPPED", "DELIVERED", "CANCELLED"}
      /\ payment[OrderOf[l]] \in {"PENDING", "SUCCEEDED", "FAILED"}
  BY DEF LineStatus
<1>2. CASE inPayout[l] # NoPayout
  <2> DEFINE p == inPayout[l]
  <2>1. /\ lineStatus[l] = "DELIVERED" /\ payment[OrderOf[l]] = "SUCCEEDED"
        /\ p \in PayoutIds /\ l \in LinesIn(p)
    BY <1>2 DEF LinesIn
  <2>2. payout[p].status \in {"PENDING", "PROCESSING", "SUCCEEDED"}
    <3>1. payout[p].status \notin {"NONE", "FAILED"}
      BY <2>1 DEF RowsAddUp, RowsAgreeWithTransfers
    <3> QED BY <2>1, <3>1, RowTyped
  <2>3. CASE payout[p].status = "SUCCEEDED"
    <3>1. Buckets(l) = {"paid"}
      BY <1>2, <2>1, <2>3 DEF Buckets, Settled, CashDue
    <3> QED BY <2>1, <3>1
  <2>4. CASE payout[p].status # "SUCCEEDED"
    <3>1. Buckets(l) = {"in payout"}
      BY <1>2, <2>1, <2>2, <2>4 DEF Buckets, Settled, CashDue
    <3> QED BY <2>1, <3>1
  <2> QED BY <2>3, <2>4
<1>3. CASE inPayout[l] = NoPayout
  <2>1. CASE lineStatus[l] = "CANCELLED"
    BY <1>3, <2>1 DEF Buckets, Settled
  <2>2. CASE lineStatus[l] = "DELIVERED" /\ payment[OrderOf[l]] = "SUCCEEDED"
    <3>1. Buckets(l) = {"available"}
      BY <1>3, <2>2 DEF Buckets, Settled, CashDue
    <3> QED BY <2>2, <3>1
  <2>3. CASE lineStatus[l] = "DELIVERED" /\ payment[OrderOf[l]] = "PENDING"
    <3>1. Buckets(l) = {"pending"}
      BY <1>3, <2>3 DEF Buckets, Settled, CashDue
    <3> QED BY <2>3, <3>1
  <2>4. CASE lineStatus[l] \in {"PENDING", "PROCESSING", "SHIPPED"}
    <3>1. Buckets(l) = {"pending"}
      BY <1>3, <2>4 DEF Buckets, Settled, CashDue, Placed
    <3> QED BY <2>4, <3>1
  <2> QED BY <1>1, <2>1, <2>2, <2>3, <2>4
<1> QED BY <1>2, <1>3

\* "Cancelled lines never pay out", and nothing pays out before its payment is
\* received, unless a status view works on a stale status.
THEOREM CancelledNeverPaidIfFresh ==
  Spec /\ []FreshReads => []CancelledNeverPaid /\ []PaidOnlyIfReceived
<1>1. PInv /\ LinesSettled => CancelledNeverPaid /\ PaidOnlyIfReceived
  BY SettledLinesArePaidRight
<1> QED BY <1>1, LinesSettledIfFresh, PInvCorrect, PTL

\* The balance counts every earning once, unless a status view works on a stale status.
THEOREM CountedOnceIfFresh == Spec /\ []FreshReads => []EarningCountedOnce
<1>1. PInv /\ LinesSettled => EarningCountedOnce
  BY SettledLinesCountOnce
<1> QED BY <1>1, LinesSettledIfFresh, PInvCorrect, PTL

-----------------------------------------------------------------------------
(* One request of the back office at a time reads nothing stale.            *)

OneClerk == \A v, w \in Staff : v = w

LEMMA FreshStep ==
  ASSUME OneClerk, TypeOK, StaffAdvances, FreshReads, [Next]_vars
  PROVE  StaffAdvances' /\ FreshReads'
<1> USE DEF TypeOK, StaffAdvances, FreshReads
<1>1. ASSUME NEW w \in Staff, NEW l \in Lines, NEW to \in LineStatus, BeginAdvance(w, l, to)
      PROVE  StaffAdvances' /\ FreshReads'
  <2>1. req' = [req EXCEPT ![w] = [op |-> "advance", line |-> l, to |-> to]]
    BY <1>1 DEF BeginAdvance, Continue
  <2> QED BY <1>1, <2>1 DEF BeginAdvance, orderVars, Workers
<1>2. ASSUME NEW w \in Staff, FinishAdvance(w) \/ \E o \in Orders : RejectCash(w, o)
      PROVE  StaffAdvances' /\ FreshReads'
  <2>1. \A v \in Workers : req'[v].op # "advance"
    BY <1>2 DEF OneClerk, FinishAdvance, RejectCash, Continue, Idle, Workers
  <2> QED BY <2>1
<1>3. ASSUME NEW w \in Staff, NEW o \in Orders, ConfirmCash(w, o)
      PROVE  StaffAdvances' /\ FreshReads'
  BY <1>3 DEF ConfirmCash
<1>4. ASSUME UNCHANGED lineStatus,
             \A v \in Workers : req'[v] = req[v] \/ req'[v].op # "advance"
      PROVE  StaffAdvances' /\ FreshReads'
  BY <1>4
<1>5. ASSUME NEW w \in Finance, FinanceStep(w)
      PROVE  StaffAdvances' /\ FreshReads'
  <2>1. \E r : Continue(w, r) /\ r.op # "advance"
    <3>1. ASSUME NEW p, NEW s, Claim(w, p, s)
          PROVE  \E r : Continue(w, r) /\ r.op # "advance"
      BY <3>1 DEF Claim
    <3>2. CASE Disburse(w)
      BY <3>2 DEF Disburse
    <3>3. CASE RecordOutcome(w)
      BY <3>3 DEF RecordOutcome, Idle
    <3> QED BY <1>5, <3>1, <3>2, <3>3 DEF FinanceStep, CreatePayout, RetryPayout
  <2>2. UNCHANGED lineStatus
    BY <1>5 DEF FinanceStep, CreatePayout, RetryPayout, Claim, Disburse, RecordOutcome, orderVars
  <2> QED BY <1>4, <2>1, <2>2 DEF Continue, Workers
<1>6. ASSUME NEW s \in Shops, NEW to \in Destinations, EditDetails(s, to)
      PROVE  StaffAdvances' /\ FreshReads'
  BY <1>4, <1>6 DEF EditDetails, orderVars
<1>7. ASSUME NEW w \in Workers, Crash(w)
      PROVE  StaffAdvances' /\ FreshReads'
  BY <1>4, <1>7 DEF Crash, Continue, Idle, orderVars
<1>8. CASE UNCHANGED vars
  BY <1>8 DEF vars
<1> QED BY <1>1, <1>2, <1>3, <1>5, <1>6, <1>7, <1>8 DEF Next, StaffStep

LEMMA FreshInit == Init => StaffAdvances /\ FreshReads
BY DEF Init, Idle, StaffAdvances, FreshReads

LEMMA OneClerkReadsFresh ==
  ASSUME OneClerk
  PROVE  Spec => []FreshReads
<1>1. TypeOK /\ StaffAdvances /\ FreshReads /\ [Next]_vars => (StaffAdvances /\ FreshReads)'
  BY FreshStep
<1> QED BY <1>1, FreshInit, PayoutTypeCorrect, PTL DEF Spec

\* With one request of the back office at a time, whatever payouts and crashes
\* interleave with it: cancelled lines are never paid, nothing is paid before its
\* payment is received, and the balance counts every earning once.
THEOREM SerialOfficePaysRight ==
  ASSUME OneClerk
  PROVE  Spec => []CancelledNeverPaid /\ []PaidOnlyIfReceived /\ []EarningCountedOnce
<1> QED BY OneClerkReadsFresh, CancelledNeverPaidIfFresh, CountedOnceIfFresh, PTL
=============================================================================
