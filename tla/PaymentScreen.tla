---------------------------- MODULE PaymentScreen ----------------------------
(***************************************************************************)
(* "Check your phone" (components/order/order-payment-screen.tsx): the     *)
(* page of an order that awaits its payment.  It asks for the payment's    *)
(* status at once, on every live update, and when a timer fires; a status  *)
(* that is settled ends the asking.  The effect that asks runs anew, and   *)
(* drops the answer it was waiting for, whenever a live update comes or    *)
(* the interval changes.  The order itself is with Purchase.               *)
(***************************************************************************)
CONSTANTS Methods       \* the methods of payment

VARIABLES
    status,     \* the last status shown, or "unknown"
    poll,       \* the request for the status
    known,      \* the order (whose method sets the interval) is loaded or not
    live        \* the live-update socket is up

screenVars == <<status, poll, known, live>>

OrderStatuses == {"AWAITING_PAYMENT", "PLACED", "PAYMENT_FAILED"}

NoPoll == [stage |-> "off", status |-> "unknown"]
FirstPoll == [stage |-> "sent", status |-> "unknown"]

ScreenTypeOK ==
    /\ status \in OrderStatuses \cup {"unknown"}
    /\ poll \in [stage : {"off", "timer", "sent", "answered"},
                 status : OrderStatuses \cup {"unknown"}]
    /\ known \in {"asked", "loaded", "failed"}
    /\ live \in BOOLEAN

ScreenInit ==
    /\ status = "unknown"
    /\ poll = NoPoll
    /\ known = "asked"
    /\ live = FALSE

CloseScreen ==
    /\ status' = "unknown"
    /\ poll' = NoPoll
    /\ known' = "asked"
    /\ live' = FALSE

OpenScreen ==
    /\ status' = "unknown"
    /\ poll' = FirstPoll
    /\ known' = "asked"
    /\ live' \in BOOLEAN

Polls == poll.stage # "off"

\* pollInterval, of which only the changes matter.
Interval(method, up, order) ==
    CASE up -> "live"
      [] ~up /\ order = "loaded" /\ method = "lipa_namba" -> "live"
      [] OTHER -> "short"

\* The effect runs again if its interval has changed.
Repoll(method) ==
    poll' = IF Polls /\ Interval(method, live, known) # Interval(method, live', known')
            THEN FirstPoll ELSE poll

OrderLoads(method) ==
    /\ known = "asked"
    /\ known' \in {"loaded", "failed"}
    /\ UNCHANGED <<status, live>>
    /\ Repoll(method)

SocketTurns(method) ==
    /\ live' = ~live
    /\ UNCHANGED <<status, known>>
    /\ Repoll(method)

\* A live update about the order is heard while the payment is not settled: one
\* of a change that is just made, of one long made, or the same once more.
HearUpdate ==
    /\ live /\ Polls
    /\ poll' = FirstPoll
    /\ UNCHANGED <<status, known, live>>

TimerFires ==
    /\ poll.stage = "timer"
    /\ poll' = FirstPoll
    /\ UNCHANGED <<status, known, live>>

\* The server's half of AnswerPoll is in Purchase.
PollAnswered(s) ==
    /\ poll.stage = "sent"
    /\ poll' = [stage |-> "answered", status |-> s]
    /\ UNCHANGED <<status, known, live>>

\* An answer that leaves the customer on the page; PLACED moves them on.
PollArrives ==
    /\ poll.stage = "answered" /\ poll.status # "PLACED"
    /\ status' = poll.status
    /\ poll' = IF poll.status = "AWAITING_PAYMENT"
               THEN [stage |-> "timer", status |-> "unknown"] ELSE NoPoll
    /\ UNCHANGED <<known, live>>

\* Mutant: a dropped poll is not retried.
PollDropped_GivesUp ==
    /\ poll.stage \in {"sent", "answered"}
    /\ poll' = NoPoll
    /\ UNCHANGED <<status, known, live>>

\* A dropped poll is retried on the next tick.
PollDropped ==
    /\ poll.stage \in {"sent", "answered"}
    /\ poll' = [stage |-> "timer", status |-> "unknown"]
    /\ UNCHANGED <<status, known, live>>

ScreenNext(method) ==
    \/ OrderLoads(method) \/ SocketTurns(method) \/ HearUpdate
    \/ TimerFires \/ PollArrives \/ PollDropped

\* What is drawn.
Drawn == CASE known = "failed" -> "error"
           [] known # "failed" /\ status = "PAYMENT_FAILED" -> "failed"
           [] OTHER -> "waiting"

=============================================================================
