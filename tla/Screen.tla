------------------------------- MODULE Screen -------------------------------
(***************************************************************************)
(* A page of the storefront that shows what the API holds and sends        *)
(* commands about it, as every list, detail and settings page of           *)
(* src/frontend/src/app does it:                                           *)
(*                                                                         *)
(*  - an effect (useApi, or one written out in the page) reads whenever    *)
(*    the filter, the page number or a version counter changes; a new run  *)
(*    cancels the run before it, whose answer is then ignored;             *)
(*  - a live update of useLiveRefresh bumps the version; on some pages     *)
(*    the run it causes is quiet: no spinner, and no error;                *)
(*  - a command is sent from a row that shows a status the command is      *)
(*    offered in, and disables its button; once it is answered the page    *)
(*    reads again, in one of the ways the pages have (see `then`), and     *)
(*    meanwhile other people change the same rows.                         *)
(*                                                                         *)
(* What differs from page to page is a record of ScreenPages.  A filter is *)
(* the set of <<row, status>> pairs it lists, so that an answer to it is   *)
(* the part of that set that is true when the server looks.  A read that   *)
(* was cancelled has no effect when it is answered, so it is dropped when  *)
(* it is cancelled.                                                        *)
(***************************************************************************)
EXTENDS Naturals, FiniteSets

CONSTANTS
    Pages,      \* the pages opened, records of ScreenPages
    Rows,       \* the objects a page lists: shops, orders, bookings, ...
    Statuses,   \* what tells one state of a row from another
    MaxTasks    \* MaxTasks[page]: commands in flight at once; bounds the clicks

VARIABLES
    page,       \* the page that is open
    key,        \* the filter, search and page number selected
    status,     \* status[r]: what the server holds of row r
    data,       \* the last answer put on screen, and the key it answers
    error,      \* the page's error text is shown
    loading,    \* the page's isLoading flag
    read,       \* the effect's run that is not cancelled
    tasks,      \* commands sent and not finished by their handler
    pending,    \* rows whose buttons are disabled
    hint,       \* a live update is on its way to the page
    missed,     \* a live update, or the quiet read it caused, was lost
    mine        \* rows whose last change is a command this page saw answered

vars == <<page, key, status, data, error, loading, read, tasks, pending, hint,
          missed, mine>>

Keys == SUBSET (Rows \X Statuses)

NoKey == {}
NoData == [key |-> NoKey, rows |-> {}]
NoRead == [key |-> NoKey, quiet |-> FALSE, answered |-> FALSE, rows |-> {}]

Moves == [accepts : SUBSET Statuses, to : Statuses]
Commands == [from : SUBSET Statuses, accepts : SUBSET Statuses, to : Statuses]

\* What a page is made of.  `live`: what a live update does; `hides`: whether
\* the spinner replaces the list during every read or only the first; `tells`:
\* the error is drawn even when there is data; `guard`: the pending flag is one
\* id of the page or a state of the row's component; `shares`: a refused
\* command writes the page's own error; `then`: how the page catches up with
\* its own command (with a read of the handler's own, which shows the spinner,
\* does not, or even swallows its error; with a new run of the effect; with the
\* row of the answer); `retries`: it does so after a refusal too; `others`:
\* what other people do to the rows.
PageTypes ==
    [name : STRING, keys : SUBSET (Keys \ {NoKey}), starts : SUBSET Statuses,
     live : {"none", "quiet", "loud"}, hides : {"always", "first"},
     tells : BOOLEAN, guard : {"page", "row"}, shares : BOOLEAN, retries : BOOLEAN,
     then : {"load", "fetch", "refetch", "reload", "replace"},
     commands : SUBSET Commands, others : SUBSET Moves]

ASSUME PagesAssumption == Pages \subseteq PageTypes
ASSUME MaxTasksAssumption == MaxTasks \in [Pages -> Nat]

Stages == {"sent", "done", "refused", "loading", "loaded"}

\* A command in flight: `press` tells apart two presses of the same button.
TaskTypes ==
    [press : Nat, row : Rows, command : Commands, stage : Stages,
     key : Keys, rows : Keys, mounted : BOOLEAN]

-----------------------------------------------------------------------------

Reading == read.key # NoKey
Answer(k) == {p \in k : p[2] = status[p[1]]}

\* The rows drawn: none behind a spinner.
Drawn(d, spins) ==
    IF spins /\ (page.hides = "always" \/ d.key = NoKey) THEN {} ELSE d.rows

\* Every read of the page is a run of its one effect, so that each cancels the
\* one before it: no handler reads on its own or patches a row.
OneReader == page.then = "reload" \/ page.commands = {}

\* A command of a form, which makes a row that was not there.
Creates(c) == c.from = {}

\* A form keeps the error of its own command, and can be sent again while the
\* page reads after it.
Shares(c) == page.shares /\ ~Creates(c)

Offered(c, r) ==
    IF Creates(c)
    THEN /\ status[r] \in c.accepts
         /\ \A t \in tasks : t.command # c \/ t.stage \in {"loading", "loaded"}
    ELSE /\ \E p \in Drawn(data, loading) : p[1] = r /\ p[2] \in c.from
         /\ r \notin pending

TypeOK ==
    /\ page \in Pages
    /\ key \in page.keys
    /\ status \in [Rows -> Statuses]
    /\ data \in [key : Keys, rows : Keys]
    /\ error \in BOOLEAN
    /\ loading \in BOOLEAN
    /\ read \in [key : Keys, quiet : BOOLEAN, answered : BOOLEAN, rows : Keys]
    /\ tasks \subseteq TaskTypes
    /\ pending \subseteq Rows
    /\ hint \in BOOLEAN
    /\ missed \in BOOLEAN
    /\ mine \subseteq Rows

NewRead(k, quiet) ==
    [key |-> k, quiet |-> quiet, answered |-> FALSE, rows |-> {}]

Init ==
    /\ page \in Pages
    /\ key \in page.keys
    /\ status \in [Rows -> page.starts]
    /\ data = NoData
    /\ error = FALSE
    /\ loading = TRUE
    /\ read = NewRead(key, FALSE)
    /\ tasks = {}
    /\ pending = {}
    /\ hint = FALSE
    /\ missed = FALSE
    /\ mine = {}

-----------------------------------------------------------------------------

\* The effect runs: the run before it is cancelled, and one that is not quiet
\* shows the spinner and clears the error.
Run(k, quiet) ==
    /\ read' = NewRead(k, quiet)
    /\ loading' = (loading \/ ~quiet)
    /\ error' = (error /\ quiet)

\* Mutant: rows are mounted anew whenever the page is drawn.
Draw_Remounts(ts, busy) ==
    LET there == {p[1] : p \in Drawn(data', loading')}
    IN /\ tasks' = {[t EXCEPT !.mounted = t.mounted /\ t.row \in there] : t \in ts}
       /\ pending' = IF page.guard = "row" THEN {} ELSE busy

\* A row whose component is gone leaves its pending flag behind: a handler
\* that ends later sets the state of nothing.
Draw(ts, busy) ==
    LET there == {p[1] : p \in Drawn(data', loading')}
    IN /\ tasks' = {[t EXCEPT !.mounted = t.mounted /\ t.row \in there] : t \in ts}
       /\ pending' = IF page.guard = "row" THEN busy \cap there ELSE busy

\* The handler's last lines: setPending(null), or the row's setIsPending(false).
Cleared(t) ==
    IF Creates(t.command) THEN pending
    ELSE IF page.guard = "page" THEN {}
    ELSE IF t.mounted THEN pending \ {t.row} ELSE pending

-----------------------------------------------------------------------------
(* The effect and its answers.                                             *)

\* Mutant: the answer to the filter that was left is put on screen still.
Select_TakesLate(k) ==
    /\ k \in page.keys \ {key}
    /\ key' = k
    /\ data' = IF read.answered THEN [key |-> read.key, rows |-> read.rows] ELSE data
    /\ Run(k, FALSE)
    /\ UNCHANGED <<page, status, hint, missed, mine>>
    /\ Draw(tasks, pending)

Select(k) ==
    /\ k \in page.keys \ {key}
    /\ key' = k
    /\ Run(k, FALSE)
    /\ UNCHANGED <<page, status, data, hint, missed, mine>>
    /\ Draw(tasks, pending)

\* Mutant: a live update is ignored while a read is in flight.
HearHint_WhenIdle ==
    /\ hint
    /\ hint' = FALSE
    /\ IF Reading THEN UNCHANGED <<read, loading, error>> ELSE Run(key, page.live = "quiet")
    /\ UNCHANGED <<page, key, status, data, missed, mine>>
    /\ Draw(tasks, pending)

HearHint ==
    /\ hint
    /\ hint' = FALSE
    /\ Run(key, page.live = "quiet")
    /\ UNCHANGED <<page, key, status, data, missed, mine>>
    /\ Draw(tasks, pending)

\* The socket was down, see LiveSocket.
LoseHint ==
    /\ hint
    /\ hint' = FALSE
    /\ missed' = TRUE
    /\ UNCHANGED <<page, key, status, data, error, loading, read, tasks, pending, mine>>

AnswerRead ==
    /\ Reading /\ ~read.answered
    /\ read' = [read EXCEPT !.answered = TRUE, !.rows = Answer(read.key)]
    /\ missed' = FALSE
    /\ UNCHANGED <<page, key, status, data, error, loading, tasks, pending, hint, mine>>

ReadArrives ==
    /\ read.answered
    /\ data' = [key |-> read.key, rows |-> read.rows]
    /\ read' = NoRead
    /\ loading' = FALSE
    /\ Draw(tasks, pending)
    /\ UNCHANGED <<page, key, status, error, hint, missed, mine>>

\* Mutant: a quiet read that fails leaves the spinner of the read it cancelled.
ReadFails_KeepsSpinner ==
    /\ Reading
    /\ error' = (error \/ ~read.quiet)
    /\ missed' = (missed \/ read.quiet)
    /\ read' = NoRead
    /\ loading' = (loading /\ read.quiet)
    /\ UNCHANGED <<page, key, status, data, hint, mine>>
    /\ Draw(tasks, pending)

ReadFails ==
    /\ Reading
    /\ error' = (error \/ ~read.quiet)
    /\ missed' = (missed \/ read.quiet)
    /\ read' = NoRead
    /\ loading' = FALSE
    /\ UNCHANGED <<page, key, status, data, hint, mine>>
    /\ Draw(tasks, pending)

-----------------------------------------------------------------------------
(* Commands.  A handler that reads on its own keeps the filter of the click. *)

Send(c, r) ==
    /\ c \in page.commands
    /\ Offered(c, r)
    /\ Cardinality(tasks) < MaxTasks[page]
    /\ LET twins == {t.press : t \in {u \in tasks : u.row = r /\ u.command = c}}
           press == CHOOSE n \in 1..MaxTasks[page] : n \notin twins
       IN tasks' = tasks \cup
              {[press |-> press, row |-> r, command |-> c, stage |-> "sent",
                key |-> IF OneReader THEN NoKey ELSE key, rows |-> {},
                mounted |-> page.guard = "row" /\ ~Creates(c)]}
    /\ pending' = IF Creates(c) THEN pending
                  ELSE IF page.guard = "page" THEN {r} ELSE pending \cup {r}
    /\ error' = (error /\ ~Shares(c))
    /\ UNCHANGED <<page, key, status, data, loading, read, hint, missed, mine>>

Goes(t, stage) == tasks' = (tasks \ {t}) \cup {[t EXCEPT !.stage = stage]}

\* The server does the command, or refuses it: someone was faster.
Handle(t) ==
    /\ t.stage = "sent"
    /\ IF status[t.row] \in t.command.accepts
       THEN /\ status' = [status EXCEPT ![t.row] = t.command.to]
            /\ mine' = mine \ {t.row}
            /\ hint' = (page.live # "none")
            /\ Goes(t, "done")
       ELSE /\ Goes(t, "refused")
            /\ UNCHANGED <<status, mine, hint>>
    /\ UNCHANGED <<page, key, data, error, loading, read, pending, missed>>

\* The request or its answer is lost; the page cannot tell which.
Lose(t) ==
    /\ t.stage \in {"sent", "done"}
    /\ Goes(t, "refused")
    /\ UNCHANGED <<page, key, status, data, error, loading, read, pending, hint,
                   missed, mine>>

\* The row is the page's own doing unless someone has changed it since.
Owned(t) == IF OneReader /\ status[t.row] = t.command.to THEN mine \cup {t.row} ELSE mine

\* Mutant: reload() does nothing while a read is in flight.
Reloads_WhenIdle(t) ==
    /\ IF Reading THEN UNCHANGED <<read, loading, error>> ELSE Run(key, FALSE)
    /\ UNCHANGED data
    /\ Draw(tasks \ {t}, Cleared(t))

Reloads(t) ==
    /\ Run(key, FALSE)
    /\ UNCHANGED data
    /\ Draw(tasks \ {t}, Cleared(t))

Replaces(t) ==
    /\ data' = [data EXCEPT !.rows =
                    {IF p[1] = t.row THEN <<t.row, t.command.to>> ELSE p : p \in data.rows}]
    /\ UNCHANGED <<error, loading, read>>
    /\ Draw(tasks \ {t}, Cleared(t))

\* The handler reads on its own, beside the effect: nothing cancels it.  Only
\* some of these reads show the spinner.
Loads(t) ==
    /\ loading' = (loading \/ page.then = "load")
    /\ error' = (error /\ page.then # "load")
    /\ UNCHANGED <<data, read>>
    /\ Draw((tasks \ {t}) \cup {[t EXCEPT !.stage = "loading"]}, pending)

Done(t) ==
    /\ t.stage = "done"
    /\ mine' = Owned(t)
    /\ CASE page.then = "reload" -> Reloads(t)
         [] page.then = "replace" -> Replaces(t)
         [] OTHER -> Loads(t)
    /\ UNCHANGED <<page, key, status, hint, missed>>

Refused(t) ==
    /\ t.stage = "refused"
    /\ IF page.retries
       THEN Reloads(t)
       ELSE /\ error' = (error \/ Shares(t.command))
            /\ UNCHANGED <<data, loading, read>>
            /\ Draw(tasks \ {t}, Cleared(t))
    /\ UNCHANGED <<page, key, status, hint, missed, mine>>

AnswerLoad(t) ==
    /\ t.stage = "loading"
    /\ tasks' = (tasks \ {t}) \cup {[t EXCEPT !.stage = "loaded", !.rows = Answer(t.key)]}
    /\ UNCHANGED <<page, key, status, data, error, loading, read, pending, hint,
                   missed, mine>>

LoadArrives(t) ==
    /\ t.stage = "loaded"
    /\ data' = [key |-> t.key, rows |-> t.rows]
    /\ loading' = (loading /\ page.then # "load")
    /\ Draw(tasks \ {t}, Cleared(t))
    /\ UNCHANGED <<page, key, status, error, read, hint, missed, mine>>

LoadFails(t) ==
    /\ t.stage \in {"loading", "loaded"}
    /\ error' = (error \/ page.then # "refetch")
    /\ loading' = (loading /\ page.then # "load")
    /\ UNCHANGED <<page, key, status, data, read, hint, missed, mine>>
    /\ Draw(tasks \ {t}, Cleared(t))

-----------------------------------------------------------------------------

\* Someone else: another administrator, a shop, a rider, a customer, a timer.
Elsewhere(r, m) ==
    /\ m \in page.others
    /\ status[r] \in m.accepts
    /\ status' = [status EXCEPT ![r] = m.to]
    /\ mine' = mine \ {r}
    /\ hint' = (page.live # "none")
    /\ UNCHANGED <<page, key, data, error, loading, read, tasks, pending, missed>>

Next ==
    \/ \E k \in page.keys : Select(k)
    \/ HearHint \/ LoseHint
    \/ AnswerRead \/ ReadArrives \/ ReadFails
    \/ \E c \in page.commands, r \in Rows : Send(c, r)
    \/ \E t \in tasks : \/ Handle(t) \/ Lose(t) \/ Done(t) \/ Refused(t)
                        \/ AnswerLoad(t) \/ LoadArrives(t) \/ LoadFails(t)
    \/ \E m \in page.others, r \in Rows : Elsewhere(r, m)

Spec == Init /\ [][Next]_vars

-----------------------------------------------------------------------------
(* What the pages promise.                                                 *)

\* Nothing is in flight: what is drawn stays until someone does something.
Settled == ~Reading /\ tasks = {} /\ ~hint

\* No run of the effect is quiet either.
Loud == OneReader /\ page.live # "quiet"

ErrorDrawn == error /\ (page.tells \/ data.key = NoKey)

\* A spinner always has a read behind it that will take it away, whatever was
\* cancelled, refused, lost or overtaken: no page loads for ever.
SpinnerEnds ==
    loading => Reading \/ \E t \in tasks : t.stage \in {"loading", "loaded"}

\* use-api.ts: "ignores stale responses".  No answer to a filter that is not
\* selected any more reaches the screen, however late it comes.
LateAnswersIgnored == [][OneReader /\ data' # data => data'.key = key']_vars

\* Where every read is loud, a page at rest shows the filter that is selected,
\* or an error; it never keeps the list of another filter without one.
SettledShowsKey == Loud /\ Settled /\ ~error => data.key = key

\* A page at rest shows what its own commands did, or an error: a read that
\* started before a command is never the last word about its row.
OwnWriteShown ==
    Loud /\ page.tells /\ Settled /\ ~ErrorDrawn =>
        \A r \in mine : \A s \in Statuses :
            <<r, s>> \in key => (<<r, s>> \in data.rows <=> status[r] = s)

\* A page that hears live updates and has lost none is in step with the server
\* when it is at rest, whoever changed what and in whatever order the answers,
\* the updates and the user's own commands came.
InStepUnlessMissed ==
    page.live # "none" /\ OneReader /\ Settled /\ ~error /\ ~missed =>
        data.key = key /\ data.rows = Answer(key)

\* The button of a row never sends a second command while the first is out,
\* where the pending flag lives as long as the command: one object under a flag
\* of the page, or a row that no filter and no spinner takes off the screen, and
\* that does not come back to a list once a change took it off.
TakenForGood ==
    \A m, n \in page.commands \cup page.others : \A r \in Rows :
        <<r, m.to>> \in key \/ m.to \notin n.accepts

FlagOutlives ==
    /\ \A k, l \in page.keys : k = l
    /\ CASE page.guard = "page" -> \E r \in Rows : key \subseteq {r} \X Statuses
         [] page.guard = "row" -> page.hides = "first" /\ OneReader /\ TakenForGood

OneCommandPerRow ==
    FlagOutlives =>
        \A t, u \in tasks :
            t.row = u.row /\ ~Creates(t.command) /\ ~Creates(u.command) => t = u

-----------------------------------------------------------------------------
(* What the repository says and the code does not keep: a run of TLC with    *)
(* this added refutes it.  No run of the project checks it.                *)

\* realtime.ts, of a quiet refresh: it "should keep the current data on screen
\* rather than show a spinner or an error".  A page at rest that has never been
\* answered says so: it does not pass for an empty list or a missing object.
EmptyMeansAnswered == Settled /\ ~error => data.key # NoKey

=============================================================================
