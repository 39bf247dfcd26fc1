---------------------------- MODULE ScreenProofs ----------------------------
(***************************************************************************)
(* Proofs about Screen, for any pages, rows, statuses and numbers of       *)
(* commands in flight: no spinner stays for ever, no late answer reaches   *)
(* the screen, a page at rest shows its own commands and the live updates  *)
(* it heard, and no row ever has two commands out.                         *)
(***************************************************************************)
EXTENDS Screen, FiniteSetTheorems, TLAPS

\* Rows agree with the server on what this page has seen answered.
Agrees(rows) ==
    \A r \in mine, s \in Statuses :
        <<r, s>> \in key => (<<r, s>> \in rows <=> status[r] = s)

Heard == page.live # "none" /\ ~hint /\ ~missed

ReadsAlone(t) == t.stage \in {"loading", "loaded"}

\* A read is for the filter that is selected, and handlers read on their own
\* only on the pages that do so.
ReadInv ==
    /\ Reading => read.key = key
    /\ read.answered => Reading
    /\ read.quiet => page.live = "quiet"

TaskInv ==
    /\ IsFiniteSet(tasks)
    /\ \A t \in tasks :
          /\ t.command \in page.commands
          /\ ReadsAlone(t) => page.then \notin {"reload", "replace"}

\* A handler's own read hides the spinner if and only if it showed it.
SpinInv == loading => Reading \/ (page.then = "load" /\ \E t \in tasks : ReadsAlone(t))

\* What an answer on its way says is still so.
AnswerInv ==
    read.answered =>
        /\ Agrees(read.rows)
        /\ Heard => read.rows = Answer(key)

\* Some command in flight cleared the error, and will show it again or read.
Excused == \E t \in tasks : Shares(t.command)

\* What is shown without an error is so.
ShownInv ==
    OneReader /\ ~error /\ ~Reading /\ ~Excused =>
        /\ page.live # "quiet" => data.key = key /\ Agrees(data.rows)
        /\ Heard => data.key = key /\ data.rows = Answer(key)

Inv == TypeOK /\ ReadInv /\ TaskInv /\ SpinInv /\ AnswerInv /\ ShownInv

-----------------------------------------------------------------------------
(* Types.                                                                  *)

LEMMA PageType ==
  ASSUME TypeOK
  PROVE  /\ page \in PageTypes
         /\ page.keys \subseteq Keys \ {NoKey} /\ page.starts \subseteq Statuses
         /\ page.commands \subseteq Commands /\ page.others \subseteq Moves
         /\ page.live \in {"none", "quiet", "loud"}
         /\ page.shares \in BOOLEAN /\ page.tells \in BOOLEAN
         /\ page.then \in {"load", "fetch", "refetch", "reload", "replace"}
  BY PagesAssumption DEF TypeOK, PageTypes

LEMMA AnswerType ==
  ASSUME NEW k \in Keys
  PROVE  Answer(k) \in Keys
  BY DEF Answer, Keys

\* On a page that reads in one place, what ends a command is a new run.
LEMMA OneReaderReloads ==
  ASSUME TaskInv, OneReader, NEW t \in tasks
  PROVE  page.then = "reload" /\ ~ReadsAlone(t)
  BY DEF TaskInv, OneReader

\* The tasks that are drawn are those that were there.
LEMMA DrawnTasks ==
  ASSUME NEW ts, ts \subseteq TaskTypes, IsFiniteSet(ts),
         NEW busy, busy \subseteq Rows, Draw(ts, busy)
  PROVE  /\ tasks' \subseteq TaskTypes /\ IsFiniteSet(tasks')
         /\ pending' \subseteq Rows
         /\ \A u \in tasks' : \E t \in ts : u.command = t.command /\ u.stage = t.stage
         /\ \A t \in ts : \E u \in tasks' : u.command = t.command /\ u.stage = t.stage
<1> DEFINE there == {p[1] : p \in Drawn(data', loading')}
           g(t) == [t EXCEPT !.mounted = t.mounted /\ t.row \in there]
           f == [t \in ts |-> g(t)]
<1>1. tasks' = {g(t) : t \in ts} /\ pending' \subseteq busy
  BY DEF Draw
<1>2. \A t \in ts : g(t) \in TaskTypes /\ g(t).command = t.command /\ g(t).stage = t.stage
  <2> SUFFICES ASSUME NEW t \in ts
               PROVE  g(t) \in TaskTypes /\ g(t).command = t.command /\ g(t).stage = t.stage
    OBVIOUS
  <2>1. t \in TaskTypes /\ (t.mounted /\ t.row \in there) \in BOOLEAN
    OBVIOUS
  <2> QED BY <2>1 DEF TaskTypes
<1> HIDE DEF g
<1>3. f \in Surjection(ts, tasks')
  BY <1>1 DEF Surjection
<1>4. IsFiniteSet(tasks')
  BY <1>3, FS_Surjection
<1> QED BY <1>1, <1>2, <1>4

\* What a run of the effect, or the end of a command, needs of the tasks.
GoodTasks(ts) ==
    /\ ts \subseteq TaskTypes /\ IsFiniteSet(ts)
    /\ \A t \in ts :
          /\ t.command \in page.commands
          /\ ReadsAlone(t) => page.then \notin {"reload", "replace"}

LEMMA TasksAreGood == Inv => GoodTasks(tasks) /\ pending \subseteq Rows
  BY DEF Inv, TypeOK, TaskInv, GoodTasks

LEMMA FewerTasks ==
  ASSUME NEW ts, GoodTasks(ts), NEW us, us \subseteq ts
  PROVE  GoodTasks(us)
<1>1. IsFiniteSet(us)
  BY FS_Subset DEF GoodTasks
<1> QED BY <1>1 DEF GoodTasks

LEMMA OneMoreTask ==
  ASSUME NEW ts, GoodTasks(ts), NEW t \in TaskTypes, t.command \in page.commands,
         ReadsAlone(t) => page.then \notin {"reload", "replace"}
  PROVE  GoodTasks(ts \cup {t})
<1>1. IsFiniteSet(ts \cup {t})
  BY FS_AddElement DEF GoodTasks
<1> QED BY <1>1 DEF GoodTasks

LEMMA GoodTasksDrawn ==
  ASSUME NEW ts, GoodTasks(ts), NEW busy, busy \subseteq Rows, Draw(ts, busy), page' = page
  PROVE  /\ tasks' \subseteq TaskTypes /\ pending' \subseteq Rows /\ TaskInv'
         /\ (\E t \in ts : ReadsAlone(t)) => \E u \in tasks' : ReadsAlone(u)
         /\ (\E t \in ts : Shares(t.command)) => Excused'
<1>1. /\ tasks' \subseteq TaskTypes /\ IsFiniteSet(tasks')
      /\ pending' \subseteq Rows
      /\ \A u \in tasks' : \E t \in ts : u.command = t.command /\ u.stage = t.stage
      /\ \A t \in ts : \E u \in tasks' : u.command = t.command /\ u.stage = t.stage
  BY DrawnTasks DEF GoodTasks
<1>2. TaskInv'
  BY <1>1 DEF GoodTasks, TaskInv, ReadsAlone
<1>3. (\E t \in ts : ReadsAlone(t)) => \E u \in tasks' : ReadsAlone(u)
  BY <1>1 DEF ReadsAlone
<1>4. (\E t \in ts : Shares(t.command)) => Excused'
  BY <1>1 DEF Excused, Shares, Creates
<1> QED BY <1>1, <1>2, <1>3, <1>4

LEMMA ClearedRows ==
  ASSUME TypeOK, NEW t \in tasks
  PROVE  Cleared(t) \subseteq Rows
  BY DEF TypeOK, Cleared

-----------------------------------------------------------------------------
(* A new run of the effect.                                                *)

LEMMA RunKeeps ==
  ASSUME Inv, NEW k \in page.keys, key' = k, NEW quiet \in BOOLEAN,
         quiet => page.live = "quiet", Run(k, quiet),
         NEW ts, GoodTasks(ts), NEW busy, busy \subseteq Rows, Draw(ts, busy),
         UNCHANGED <<page, status, data>>,
         hint' \in BOOLEAN, missed' \in BOOLEAN, mine' \subseteq Rows
  PROVE  Inv'
<1>1. k \in Keys /\ k # NoKey
  BY PageType DEF Inv
<1>2. read' = [key |-> k, quiet |-> quiet, answered |-> FALSE, rows |-> {}]
  BY DEF Run, NewRead
<1>3. Reading' /\ ~read'.answered
  BY <1>1, <1>2 DEF Reading
<1>4. TaskInv' /\ tasks' \subseteq TaskTypes /\ pending' \subseteq Rows
  BY GoodTasksDrawn
<1>5. TypeOK'
  <2>1. {} \in Keys
    BY DEF Keys
  <2>2. read' \in [key : Keys, quiet : BOOLEAN, answered : BOOLEAN, rows : Keys]
    BY <1>1, <1>2, <2>1
  <2>3. loading' \in BOOLEAN /\ error' \in BOOLEAN
    BY DEF Run, Inv, TypeOK
  <2> QED BY <1>4, <2>2, <2>3 DEF Inv, TypeOK
<1>6. ReadInv'
  BY <1>2, <1>3 DEF ReadInv
<1>7. SpinInv' /\ AnswerInv' /\ ShownInv'
  BY <1>3 DEF SpinInv, AnswerInv, ShownInv
<1> QED BY <1>4, <1>5, <1>6, <1>7 DEF Inv

LEMMA SelectKeeps ==
  ASSUME Inv, NEW k \in page.keys, Select(k)
  PROVE  Inv'
<1>1. hint' \in BOOLEAN /\ missed' \in BOOLEAN /\ mine' \subseteq Rows
  BY DEF Select, Inv, TypeOK
<1> QED BY <1>1, TasksAreGood, RunKeeps DEF Select

LEMMA HearHintKeeps ==
  ASSUME Inv, HearHint
  PROVE  Inv'
<1> DEFINE q == page.live = "quiet"
<1>1. hint' \in BOOLEAN /\ missed' \in BOOLEAN /\ mine' \subseteq Rows
  BY DEF HearHint, Inv, TypeOK
<1>2. q \in BOOLEAN /\ key \in page.keys /\ key' = key /\ Run(key, q)
  BY DEF HearHint, Inv, TypeOK
<1>3. Draw(tasks, pending) /\ UNCHANGED <<page, status, data>>
  BY DEF HearHint
<1>4. q => page.live = "quiet"
  OBVIOUS
<1> HIDE DEF q
<1> QED BY <1>1, <1>2, <1>3, <1>4, TasksAreGood, RunKeeps

LEMMA ReloadKeeps ==
  ASSUME Inv, NEW t \in tasks, Reloads(t), mine' \subseteq Rows,
         UNCHANGED <<page, key, status, hint, missed>>
  PROVE  Inv'
<1>1. GoodTasks(tasks \ {t}) /\ Cleared(t) \subseteq Rows
  BY TasksAreGood, FewerTasks, ClearedRows DEF Inv
<1>2. hint' \in BOOLEAN /\ missed' \in BOOLEAN /\ key \in page.keys
  BY DEF Inv, TypeOK
<1>3. Run(key, FALSE) /\ data' = data /\ Draw(tasks \ {t}, Cleared(t))
  BY DEF Reloads
<1> QED BY <1>1, <1>2, <1>3, RunKeeps

-----------------------------------------------------------------------------
(* The answers of the effect.                                              *)

LEMMA AnswerReadKeeps ==
  ASSUME Inv, AnswerRead
  PROVE  Inv'
<1>1. /\ key \in Keys /\ read.key = key /\ Answer(key) \in Keys
      /\ read \in [key : Keys, quiet : BOOLEAN, answered : BOOLEAN, rows : Keys]
  BY PageType, AnswerType DEF Inv, TypeOK, ReadInv, AnswerRead
<1>2. /\ read' \in [key : Keys, quiet : BOOLEAN, answered : BOOLEAN, rows : Keys]
      /\ read'.key = read.key /\ read'.quiet = read.quiet /\ read'.answered
      /\ read'.rows = Answer(key)
  BY <1>1 DEF AnswerRead
<1>3. TypeOK'
  BY <1>2 DEF Inv, TypeOK, AnswerRead
<1>4. ReadInv' /\ Reading'
  BY <1>2 DEF Inv, ReadInv, AnswerRead, Reading
<1>5. Agrees(read.rows)'
  BY <1>2 DEF Agrees, Answer, AnswerRead
<1>6. AnswerInv'
  BY <1>2, <1>5 DEF AnswerInv, Answer, AnswerRead
<1>7. TaskInv' /\ SpinInv' /\ ShownInv'
  BY <1>4 DEF Inv, TaskInv, SpinInv, ShownInv, AnswerRead, ReadsAlone
<1> QED BY <1>3, <1>4, <1>6, <1>7 DEF Inv

LEMMA ReadArrivesKeeps ==
  ASSUME Inv, ReadArrives
  PROVE  Inv'
<1>1. /\ read.key = key /\ read.key \in Keys /\ read.rows \in Keys
      /\ Agrees(read.rows) /\ (Heard => read.rows = Answer(key))
  BY DEF Inv, TypeOK, ReadInv, AnswerInv, ReadArrives
<1>2. TaskInv' /\ tasks' \subseteq TaskTypes /\ pending' \subseteq Rows
  BY TasksAreGood, GoodTasksDrawn DEF ReadArrives
<1>3. /\ read' = [key |-> NoKey, quiet |-> FALSE, answered |-> FALSE, rows |-> {}]
      /\ data' = [key |-> key, rows |-> read.rows] /\ loading' = FALSE
      /\ UNCHANGED <<page, key, status, error, hint, missed, mine>>
  BY <1>1 DEF ReadArrives, NoRead
<1>4. TypeOK'
  <2>1. {} \in Keys /\ NoKey \in Keys
    BY DEF Keys, NoKey
  <2>2. /\ data' \in [key : Keys, rows : Keys] /\ loading' \in BOOLEAN
        /\ read' \in [key : Keys, quiet : BOOLEAN, answered : BOOLEAN, rows : Keys]
    BY <1>1, <1>3, <2>1
  <2> QED BY <1>2, <1>3, <2>2 DEF Inv, TypeOK
<1>5. ReadInv' /\ SpinInv' /\ AnswerInv'
  BY <1>3 DEF ReadInv, SpinInv, AnswerInv, Reading
<1>6. data'.key = key' /\ Agrees(data.rows)' /\ (Heard' => data'.rows = Answer(key)')
  BY <1>1, <1>3 DEF Agrees, Heard, Answer
<1>7. ShownInv'
  BY <1>6 DEF ShownInv
<1> QED BY <1>2, <1>4, <1>5, <1>7 DEF Inv

LEMMA ReadFailsKeeps ==
  ASSUME Inv, ReadFails
  PROVE  Inv'
<1>1. TaskInv' /\ tasks' \subseteq TaskTypes /\ pending' \subseteq Rows
  BY TasksAreGood, GoodTasksDrawn DEF ReadFails
<1>2. /\ read' = [key |-> NoKey, quiet |-> FALSE, answered |-> FALSE, rows |-> {}]
      /\ ~loading' /\ loading' \in BOOLEAN
      /\ error' = (error \/ ~read.quiet) /\ missed' = (missed \/ read.quiet)
      /\ UNCHANGED <<page, key, status, data, hint, mine>>
  BY DEF ReadFails, NoRead
<1>3. TypeOK'
  <2>1. {} \in Keys /\ NoKey \in Keys
    BY DEF Keys, NoKey
  <2>2. error' \in BOOLEAN /\ missed' \in BOOLEAN
    BY <1>2
  <2> QED BY <1>1, <1>2, <2>1, <2>2 DEF Inv, TypeOK
<1>4. ReadInv' /\ SpinInv' /\ AnswerInv'
  BY <1>2 DEF ReadInv, SpinInv, AnswerInv, Reading
<1>5. ShownInv'
  BY <1>2 DEF Inv, ReadInv, ShownInv, Heard
<1> QED BY <1>1, <1>3, <1>4, <1>5 DEF Inv

-----------------------------------------------------------------------------
(* Commands.                                                               *)

\* A press gets a number that its twins do not have.
LEMMA PressType ==
  ASSUME Inv, Cardinality(tasks) < MaxTasks[page],
         NEW U, U \subseteq tasks
  PROVE  LET twins == {t.press : t \in U}
         IN (CHOOSE n \in 1..MaxTasks[page] : n \notin twins) \in Nat
<1> DEFINE twins == {t.press : t \in U}
           f == [t \in U |-> t.press]
<1>1. MaxTasks[page] \in Nat
  BY MaxTasksAssumption DEF Inv, TypeOK
<1>2. IsFiniteSet(tasks) /\ IsFiniteSet(U) /\ Cardinality(U) <= Cardinality(tasks)
  BY FS_Subset DEF Inv, TaskInv
<1>3. f \in Surjection(U, twins)
  BY DEF Surjection
<1>4. IsFiniteSet(twins) /\ Cardinality(twins) <= Cardinality(U)
  BY <1>2, <1>3, FS_Surjection
<1>5. /\ Cardinality(tasks) \in Nat /\ Cardinality(U) \in Nat /\ Cardinality(twins) \in Nat
      /\ IsFiniteSet(1..MaxTasks[page]) /\ Cardinality(1..MaxTasks[page]) = MaxTasks[page]
  <2>1. /\ Cardinality(tasks) \in Nat /\ Cardinality(U) \in Nat
        /\ Cardinality(twins) \in Nat
    BY <1>2, <1>4, FS_CardinalityType
  <2>2. \A m \in Nat : IsFiniteSet(1..m) /\ Cardinality(1..m) = m
    BY FS_Interval
  <2> QED BY <1>1, <2>1, <2>2
<1> HIDE DEF twins
<1>6. \E n \in 1..MaxTasks[page] : n \notin twins
  <2> SUFFICES ASSUME 1..MaxTasks[page] \subseteq twins
               PROVE  FALSE
    OBVIOUS
  <2>1. Cardinality(1..MaxTasks[page]) <= Cardinality(twins)
    BY <1>4, FS_Subset
  <2> QED BY <2>1, <1>1, <1>2, <1>4, <1>5
<1>7. (CHOOSE n \in 1..MaxTasks[page] : n \notin twins) \in 1..MaxTasks[page]
  BY <1>6
<1> QED BY <1>1, <1>7 DEF twins

\* A command that clears the error of the page is in flight from then on.
LEMMA SendKeeps ==
  ASSUME Inv, NEW c \in page.commands, NEW r \in Rows, Send(c, r)
  PROVE  Inv'
<1> DEFINE U == {u \in tasks : u.row = r /\ u.command = c}
           press == CHOOSE n \in 1..MaxTasks[page] : n \notin {t.press : t \in U}
           new == [press |-> press, row |-> r, command |-> c, stage |-> "sent",
                   key |-> IF OneReader THEN NoKey ELSE key, rows |-> {},
                   mounted |-> page.guard = "row" /\ ~Creates(c)]
<1>1. tasks' = tasks \cup {new} /\ Cardinality(tasks) < MaxTasks[page]
  BY DEF Send
<1>2. press \in Nat
  <2>1. U \subseteq tasks
    OBVIOUS
  <2> HIDE DEF U
  <2> QED BY <1>1, <2>1, PressType
<1>3. new \in TaskTypes /\ new.command = c /\ new.stage = "sent"
  <2>1. key \in Keys /\ NoKey \in Keys /\ {} \in Keys /\ c \in Commands
    BY PageType DEF Inv, TypeOK, Keys, NoKey
  <2>2. (page.guard = "row" /\ ~Creates(c)) \in BOOLEAN
    OBVIOUS
  <2> HIDE DEF press
  <2> QED BY <1>2, <2>1, <2>2 DEF TaskTypes, Stages
<1>4. /\ pending' \subseteq Rows /\ error' \in BOOLEAN
      /\ (Shares(c) \/ error' = error) /\ (error' => error)
      /\ UNCHANGED <<page, key, status, data, loading, read, hint, missed, mine>>
  BY DEF Send, Inv, TypeOK
<1> HIDE DEF new
<1>5. GoodTasks(tasks')
  BY <1>1, <1>3, TasksAreGood, OneMoreTask DEF ReadsAlone
<1>6. TypeOK' /\ TaskInv'
  BY <1>4, <1>5 DEF Inv, TypeOK, GoodTasks, TaskInv
<1>7. ReadInv' /\ AnswerInv' /\ SpinInv'
  BY <1>1, <1>4 DEF Inv, ReadInv, AnswerInv, SpinInv, Reading, Heard, Agrees, Answer, ReadsAlone
<1>8. Excused \/ error' # error => Excused'
  BY <1>1, <1>3, <1>4 DEF Excused, Shares, Creates
<1>9. ShownInv'
  BY <1>4, <1>8 DEF Inv, ShownInv, OneReader, Reading, Heard, Agrees, Answer
<1> QED BY <1>6, <1>7, <1>9 DEF Inv

\* A task that goes on to another stage.
LEMMA TaskGoes ==
  ASSUME Inv, NEW t \in tasks, NEW u \in TaskTypes,
         u.command = t.command, page' = page, loading' = loading, read' = read,
         ReadsAlone(u) <=> ReadsAlone(t),
         tasks' = (tasks \ {t}) \cup {u}
  PROVE  tasks' \subseteq TaskTypes /\ TaskInv' /\ SpinInv' /\ (Excused <=> Excused')
<1>1. GoodTasks(tasks) /\ GoodTasks(tasks \ {t})
  BY TasksAreGood, FewerTasks
<1>2. u.command \in page.commands
        /\ (ReadsAlone(u) => page.then \notin {"reload", "replace"})
  BY DEF Inv, TaskInv
<1>3. GoodTasks(tasks')
  BY <1>1, <1>2, OneMoreTask
<1>4. TaskInv'
  BY <1>3 DEF GoodTasks, TaskInv
<1>5. SpinInv'
  BY DEF Inv, SpinInv, Reading, ReadsAlone
<1>6. Excused <=> Excused'
  BY DEF Excused, Shares, Creates
<1> QED BY <1>3, <1>4, <1>5, <1>6 DEF GoodTasks

LEMMA StageGoes ==
  ASSUME Inv, NEW t \in tasks, NEW stage \in {"done", "refused"},
         ~ReadsAlone(t), Goes(t, stage), page' = page, loading' = loading, read' = read
  PROVE  tasks' \subseteq TaskTypes /\ TaskInv' /\ SpinInv' /\ (Excused <=> Excused')
<1> DEFINE u == [t EXCEPT !.stage = stage]
<1>1. t \in TaskTypes
  BY DEF Inv, TypeOK
<1>2. u \in TaskTypes /\ u.command = t.command /\ u.stage = stage
  BY <1>1 DEF TaskTypes, Stages
<1>3. tasks' = (tasks \ {t}) \cup {u}
  BY DEF Goes
<1> HIDE DEF u
<1> QED BY <1>2, <1>3, TaskGoes DEF ReadsAlone

\* The server has changed a row: the page does not know, but will hear of it.
LEMMA StatusChanges ==
  ASSUME Inv, NEW r \in Rows, NEW s \in Statuses,
         status' = [status EXCEPT ![r] = s], mine' = mine \ {r},
         hint' = (page.live # "none"),
         Excused <=> Excused',
         UNCHANGED <<page, key, data, error, loading, read, missed>>
  PROVE  /\ status' \in [Rows -> Statuses] /\ hint' \in BOOLEAN /\ mine' \subseteq Rows
         /\ ReadInv' /\ AnswerInv' /\ ShownInv'
<1>1. status \in [Rows -> Statuses] /\ mine \subseteq Rows
  BY DEF Inv, TypeOK
<1>2. status' \in [Rows -> Statuses] /\ \A q \in mine' : status'[q] = status[q] /\ q \in mine
  BY <1>1
<1>3. ~Heard'
  BY DEF Heard
<1>4. /\ Agrees(read.rows) => Agrees(read.rows)'
      /\ Agrees(data.rows) => Agrees(data.rows)'
  BY <1>2 DEF Agrees
<1>5. ReadInv' /\ AnswerInv'
  BY <1>3, <1>4 DEF Inv, ReadInv, AnswerInv, Reading
<1>6. ShownInv'
  BY <1>3, <1>4 DEF Inv, ShownInv, OneReader, Reading
<1> QED BY <1>1, <1>2, <1>5, <1>6

LEMMA NothingChanges ==
  ASSUME Inv, Excused <=> Excused',
         UNCHANGED <<page, key, status, data, error, read, hint, missed, mine>>
  PROVE  ReadInv' /\ AnswerInv' /\ ShownInv'
  BY DEF Inv, ReadInv, AnswerInv, ShownInv, OneReader, Reading, Heard, Agrees, Answer

LEMMA HandleKeeps ==
  ASSUME Inv, NEW t \in tasks, Handle(t)
  PROVE  Inv'
<1>1. t.row \in Rows /\ t.command.to \in Statuses /\ ~ReadsAlone(t)
  BY DEF Inv, TypeOK, TaskTypes, Commands, Handle, ReadsAlone
<1>2. CASE status[t.row] \in t.command.accepts
  <2>1. tasks' \subseteq TaskTypes /\ TaskInv' /\ SpinInv' /\ (Excused <=> Excused')
    BY <1>1, <1>2, StageGoes DEF Handle
  <2>2. /\ status' \in [Rows -> Statuses] /\ hint' \in BOOLEAN /\ mine' \subseteq Rows
        /\ ReadInv' /\ AnswerInv' /\ ShownInv'
    BY <1>1, <1>2, <2>1, StatusChanges DEF Handle
  <2>3. TypeOK'
    BY <2>1, <2>2 DEF Inv, TypeOK, Handle
  <2> QED BY <2>1, <2>2, <2>3 DEF Inv
<1>3. CASE status[t.row] \notin t.command.accepts
  <2>1. tasks' \subseteq TaskTypes /\ TaskInv' /\ SpinInv' /\ (Excused <=> Excused')
    BY <1>1, <1>3, StageGoes DEF Handle
  <2>2. ReadInv' /\ AnswerInv' /\ ShownInv'
    BY <1>3, <2>1, NothingChanges DEF Handle
  <2>3. TypeOK'
    BY <1>3, <2>1 DEF Inv, TypeOK, Handle
  <2> QED BY <2>1, <2>2, <2>3 DEF Inv
<1> QED BY <1>2, <1>3

LEMMA LoseKeeps ==
  ASSUME Inv, NEW t \in tasks, Lose(t)
  PROVE  Inv'
<1>1. tasks' \subseteq TaskTypes /\ TaskInv' /\ SpinInv' /\ (Excused <=> Excused')
  BY StageGoes DEF Lose, ReadsAlone
<1>2. ReadInv' /\ AnswerInv' /\ ShownInv'
  BY <1>1, NothingChanges DEF Lose
<1>3. TypeOK'
  BY <1>1 DEF Inv, TypeOK, Lose
<1> QED BY <1>1, <1>2, <1>3 DEF Inv

LEMMA ElsewhereKeeps ==
  ASSUME Inv, NEW m \in page.others, NEW r \in Rows, Elsewhere(r, m)
  PROVE  Inv'
<1>1. m.to \in Statuses
  BY PageType DEF Inv, Moves
<1>2. TaskInv' /\ SpinInv' /\ (Excused <=> Excused')
  BY DEF Inv, TaskInv, SpinInv, Excused, Reading, ReadsAlone, Shares, Creates, Elsewhere
<1>3. /\ status' \in [Rows -> Statuses] /\ hint' \in BOOLEAN /\ mine' \subseteq Rows
      /\ ReadInv' /\ AnswerInv' /\ ShownInv'
  BY <1>1, <1>2, StatusChanges DEF Elsewhere
<1>4. TypeOK'
  BY <1>3 DEF Inv, TypeOK, Elsewhere
<1> QED BY <1>2, <1>3, <1>4 DEF Inv

LEMMA LoseHintKeeps ==
  ASSUME Inv, LoseHint
  PROVE  Inv'
<1>1. ~Heard' /\ (Excused <=> Excused')
  BY DEF LoseHint, Heard, Excused, Shares, Creates
<1>2. TypeOK' /\ TaskInv' /\ SpinInv' /\ ReadInv'
  BY DEF Inv, TypeOK, TaskInv, SpinInv, ReadInv, Reading, ReadsAlone, LoseHint
<1>3. AnswerInv' /\ ShownInv'
  BY <1>1 DEF Inv, AnswerInv, ShownInv, OneReader, Reading, Agrees, LoseHint
<1> QED BY <1>2, <1>3 DEF Inv

-----------------------------------------------------------------------------
(* The end of a command.                                                   *)

\* The row of the answer takes the place of the row shown.
LEMMA ReplaceKeeps ==
  ASSUME Inv, NEW t \in tasks, page.then = "replace", Replaces(t), mine' = mine,
         UNCHANGED <<page, key, status, hint, missed>>
  PROVE  Inv'
<1> DEFINE new == {IF p[1] = t.row THEN <<t.row, t.command.to>> ELSE p : p \in data.rows}
<1>1. /\ data \in [key : Keys, rows : Keys]
      /\ t.row \in Rows /\ t.command.to \in Statuses
  BY DEF Inv, TypeOK, TaskTypes, Commands
<1>2. new \in Keys
  BY <1>1 DEF Keys
<1>3. data' = [data EXCEPT !.rows = new] /\ UNCHANGED <<error, loading, read>>
        /\ Draw(tasks \ {t}, Cleared(t))
  BY DEF Replaces
<1> HIDE DEF new
<1>4. data' \in [key : Keys, rows : Keys]
  BY <1>1, <1>2, <1>3
<1>5. GoodTasks(tasks \ {t}) /\ Cleared(t) \subseteq Rows
  BY TasksAreGood, FewerTasks, ClearedRows DEF Inv
<1>6. /\ tasks' \subseteq TaskTypes /\ pending' \subseteq Rows /\ TaskInv'
      /\ (\E u \in tasks \ {t} : ReadsAlone(u)) => \E u \in tasks' : ReadsAlone(u)
  BY <1>3, <1>5, GoodTasksDrawn
<1>7. TypeOK'
  BY <1>3, <1>4, <1>6 DEF Inv, TypeOK
<1>8. ~OneReader
  BY OneReaderReloads DEF Inv
<1>9. ReadInv' /\ AnswerInv' /\ ShownInv' /\ SpinInv'
  BY <1>3, <1>8 DEF Inv, ReadInv, AnswerInv, ShownInv, SpinInv, OneReader, Reading, Heard,
                    Agrees, Answer
<1> QED BY <1>6, <1>7, <1>9 DEF Inv

\* A page whose handlers read on their own promises nothing about what it shows,
\* so that only the spinner is left to see to.
LEMMA OwnReadKeeps ==
  ASSUME Inv, NEW t \in tasks, ~OneReader,
         NEW ts, GoodTasks(ts), Draw(ts, Cleared(t)) \/ Draw(ts, pending),
         data' \in [key : Keys, rows : Keys], error' \in BOOLEAN, loading' \in BOOLEAN,
         loading' => Reading \/ (page.then = "load" /\ \E u \in ts : ReadsAlone(u)),
         UNCHANGED <<page, key, status, read, hint, missed, mine>>
  PROVE  Inv'
<1>1. Cleared(t) \subseteq Rows /\ pending \subseteq Rows
  BY ClearedRows DEF Inv, TypeOK
<1>2. /\ tasks' \subseteq TaskTypes /\ pending' \subseteq Rows /\ TaskInv'
      /\ (\E u \in ts : ReadsAlone(u)) => \E u \in tasks' : ReadsAlone(u)
  BY <1>1, GoodTasksDrawn
<1>3. TypeOK'
  BY <1>2 DEF Inv, TypeOK
<1>4. ReadInv' /\ AnswerInv' /\ ShownInv' /\ SpinInv'
  BY <1>2 DEF Inv, ReadInv, AnswerInv, ShownInv, SpinInv, OneReader, Reading, Heard,
              Agrees, Answer
<1> QED BY <1>2, <1>3, <1>4 DEF Inv

LEMMA LoadsKeeps ==
  ASSUME Inv, NEW t \in tasks, page.then \notin {"reload", "replace"}, Loads(t), mine' = mine,
         UNCHANGED <<page, key, status, hint, missed>>
  PROVE  Inv'
<1> DEFINE u == [t EXCEPT !.stage = "loading"]
<1>1. t \in TaskTypes /\ t.command \in page.commands /\ ~OneReader
  BY OneReaderReloads DEF Inv, TypeOK, TaskInv
<1>2. u \in TaskTypes /\ u.command = t.command /\ ReadsAlone(u)
  BY <1>1 DEF TaskTypes, Stages, ReadsAlone
<1> HIDE DEF u
<1> DEFINE ts == (tasks \ {t}) \cup {u}
<1>3. GoodTasks(ts)
  BY <1>1, <1>2, TasksAreGood, FewerTasks, OneMoreTask
<1>4. /\ Draw(ts, pending) /\ UNCHANGED <<data, read>>
      /\ loading' = (loading \/ page.then = "load") /\ error' = (error /\ page.then # "load")
  BY DEF Loads, u
<1>5. error' \in BOOLEAN /\ loading' \in BOOLEAN /\ data' \in [key : Keys, rows : Keys]
  BY <1>4 DEF Inv, TypeOK
<1>6. loading' => Reading \/ (page.then = "load" /\ \E v \in ts : ReadsAlone(v))
  BY <1>2, <1>4 DEF Inv, SpinInv
<1> HIDE DEF ts
<1> QED BY <1>1, <1>3, <1>4, <1>5, <1>6, OwnReadKeeps

LEMMA DoneKeeps ==
  ASSUME Inv, NEW t \in tasks, Done(t)
  PROVE  Inv'
<1>1. mine' \subseteq Rows /\ UNCHANGED <<page, key, status, hint, missed>>
  BY DEF Done, Owned, Inv, TypeOK, TaskTypes
<1>2. CASE page.then = "reload"
  BY <1>1, <1>2, ReloadKeeps DEF Done
<1>3. CASE page.then # "reload"
  <2>1. mine' = mine
    BY <1>3, OneReaderReloads DEF Done, Owned, Inv
  <2>2. CASE page.then = "replace"
    BY <1>1, <2>1, <2>2, ReplaceKeeps DEF Done
  <2>3. CASE page.then # "replace"
    BY <1>1, <1>3, <2>1, <2>3, LoadsKeeps DEF Done
  <2> QED BY <2>2, <2>3
<1> QED BY <1>2, <1>3

LEMMA RefusedKeeps ==
  ASSUME Inv, NEW t \in tasks, Refused(t)
  PROVE  Inv'
<1>1. CASE page.retries
  <2>1. mine' \subseteq Rows
    BY DEF Refused, Inv, TypeOK
  <2> QED BY <1>1, <2>1, ReloadKeeps DEF Refused
<1>2. CASE ~page.retries
  <2>1. /\ error' = (error \/ Shares(t.command)) /\ UNCHANGED <<data, loading, read>>
        /\ Draw(tasks \ {t}, Cleared(t)) /\ ~ReadsAlone(t)
        /\ UNCHANGED <<page, key, status, hint, missed, mine>>
    BY <1>2 DEF Refused, ReadsAlone
  <2>2. /\ GoodTasks(tasks \ {t}) /\ Cleared(t) \subseteq Rows
    BY TasksAreGood, FewerTasks, ClearedRows DEF Inv
  <2>3. /\ tasks' \subseteq TaskTypes /\ pending' \subseteq Rows /\ TaskInv'
        /\ (\E u \in tasks \ {t} : ReadsAlone(u)) => \E u \in tasks' : ReadsAlone(u)
        /\ (\E u \in tasks \ {t} : Shares(u.command)) => Excused'
    BY <2>1, <2>2, GoodTasksDrawn
  <2>4. error' \in BOOLEAN
    BY <2>1
  <2>5. TypeOK'
    BY <2>1, <2>3, <2>4 DEF Inv, TypeOK
  <2>6. SpinInv'
    BY <2>1, <2>3 DEF Inv, SpinInv, Reading
  <2>7. ReadInv' /\ AnswerInv'
    BY <2>1 DEF Inv, ReadInv, AnswerInv, Reading, Heard, Agrees, Answer
  <2>8. ~error' /\ ~Excused' => ~error /\ ~Excused
    BY <2>1, <2>3 DEF Excused
  <2>9. ShownInv'
    BY <2>1, <2>8 DEF Inv, ShownInv, OneReader, Reading, Heard, Agrees, Answer
  <2> QED BY <2>3, <2>5, <2>6, <2>7, <2>9 DEF Inv
<1> QED BY <1>1, <1>2

-----------------------------------------------------------------------------
(* The reads of a handler.                                                 *)

LEMMA AnswerLoadKeeps ==
  ASSUME Inv, NEW t \in tasks, AnswerLoad(t)
  PROVE  Inv'
<1> DEFINE u == [t EXCEPT !.stage = "loaded", !.rows = Answer(t.key)]
<1>1. t \in TaskTypes /\ ReadsAlone(t)
  BY DEF Inv, TypeOK, AnswerLoad, ReadsAlone
<1>2. Answer(t.key) \in Keys
  BY <1>1, AnswerType DEF TaskTypes
<1>3. u \in TaskTypes /\ u.command = t.command /\ ReadsAlone(u)
  BY <1>1, <1>2 DEF TaskTypes, Stages, ReadsAlone
<1>4. tasks' = (tasks \ {t}) \cup {u}
  BY DEF AnswerLoad
<1> HIDE DEF u
<1>5. tasks' \subseteq TaskTypes /\ TaskInv' /\ SpinInv' /\ (Excused <=> Excused')
  BY <1>1, <1>3, <1>4, TaskGoes DEF AnswerLoad
<1>6. ReadInv' /\ AnswerInv' /\ ShownInv'
  BY <1>5, NothingChanges DEF AnswerLoad
<1>7. TypeOK'
  BY <1>5 DEF Inv, TypeOK, AnswerLoad
<1> QED BY <1>5, <1>6, <1>7 DEF Inv

LEMMA LoadEnds ==
  ASSUME Inv, NEW t \in tasks, LoadArrives(t) \/ LoadFails(t)
  PROVE  Inv'
<1>1. t \in TaskTypes /\ ~OneReader
  BY OneReaderReloads DEF Inv, TypeOK, LoadArrives, LoadFails, ReadsAlone
<1>2. GoodTasks(tasks \ {t})
  BY TasksAreGood, FewerTasks
<1>3. /\ Draw(tasks \ {t}, Cleared(t)) /\ loading' = (loading /\ page.then # "load")
      /\ UNCHANGED <<page, key, status, read, hint, missed, mine>>
  BY DEF LoadArrives, LoadFails
<1>4. data' \in [key : Keys, rows : Keys]
  BY <1>1 DEF LoadArrives, LoadFails, Inv, TypeOK, TaskTypes
<1>5. error' \in BOOLEAN /\ loading' \in BOOLEAN
  BY DEF LoadArrives, LoadFails, Inv, TypeOK
<1>6. loading' => Reading
  BY <1>3 DEF Inv, SpinInv
<1> QED BY <1>1, <1>2, <1>3, <1>4, <1>5, <1>6, OwnReadKeeps

-----------------------------------------------------------------------------
(* The invariant.                                                          *)

LEMMA ScreenOpens == Init => Inv
<1> SUFFICES ASSUME Init PROVE Inv
  OBVIOUS
<1>1. page \in PageTypes /\ page.keys \subseteq Keys \ {NoKey} /\ page.starts \subseteq Statuses
  BY PagesAssumption DEF Init, PageTypes
<1>2. read = [key |-> key, quiet |-> FALSE, answered |-> FALSE, rows |-> {}] /\ Reading
  BY <1>1 DEF Init, NewRead, Reading
<1>3. TypeOK
  <2>1. {} \in Keys /\ key \in Keys
    BY <1>1 DEF Keys, Init
  <2>2. read \in [key : Keys, quiet : BOOLEAN, answered : BOOLEAN, rows : Keys]
    BY <1>2, <2>1
  <2>3. status \in [Rows -> Statuses]
    BY <1>1 DEF Init
  <2> QED BY <2>1, <2>2, <2>3 DEF Init, TypeOK, NoData, NoKey
<1>4. ReadInv /\ SpinInv /\ AnswerInv /\ ShownInv
  <2>1. read.key = key /\ ~read.answered /\ ~read.quiet
    BY <1>2
  <2> QED BY <1>2, <2>1 DEF ReadInv, SpinInv, AnswerInv, ShownInv
<1>5. TaskInv
  BY FS_EmptySet DEF Init, TaskInv
<1> QED BY <1>3, <1>4, <1>5 DEF Inv

LEMMA ScreenStep == Inv /\ [Next]_vars => Inv'
<1> SUFFICES ASSUME Inv, [Next]_vars PROVE Inv'
  OBVIOUS
<1>1. ASSUME NEW t \in tasks,
             \/ Handle(t) \/ Lose(t) \/ Done(t) \/ Refused(t)
             \/ AnswerLoad(t) \/ LoadArrives(t) \/ LoadFails(t)
      PROVE  Inv'
  BY <1>1, HandleKeeps, LoseKeeps, DoneKeeps, RefusedKeeps, AnswerLoadKeeps, LoadEnds
<1>2. CASE UNCHANGED vars
  BY <1>2 DEF vars, Inv, TypeOK, ReadInv, TaskInv, SpinInv, AnswerInv, ShownInv, Reading,
              ReadsAlone, Heard, Agrees, Answer, Excused, OneReader, Shares, Creates
<1> QED BY <1>1, <1>2, SelectKeeps, HearHintKeeps, LoseHintKeeps, AnswerReadKeeps,
           ReadArrivesKeeps, ReadFailsKeeps, SendKeeps, ElsewhereKeeps DEF Next

LEMMA InvAlways == Spec => []Inv
  BY ScreenOpens, ScreenStep, PTL DEF Spec

-----------------------------------------------------------------------------
(* One command per row: what the pending flag rests on.                     *)

RowsOf(ps) == {p[1] : p \in ps}

\* A command of a row's own button.
Acts(t) == ~Creates(t.command)

Listed(r) == <<r, status[r]>> \in key

\* A change took the row off the list, and no change will bring it back.
OffForGood(r) ==
    /\ ~Listed(r)
    /\ \A m \in page.commands \cup page.others : status[r] \notin m.accepts

OneEach == \A t, u \in tasks : t.row = u.row /\ Acts(t) /\ Acts(u) => t = u

\* One object: whatever is on the screen or on its way is about that object.
PageFlag ==
    /\ RowsOf(data.rows) \cup RowsOf(read.rows) \subseteq RowsOf(key)
    /\ \A t \in tasks : t.key \subseteq key /\ RowsOf(t.rows) \subseteq RowsOf(key)
    /\ \A t \in tasks : Acts(t) => t.row \in RowsOf(key) \cap pending

\* A row with a command out is on the screen with its flag, or off it for good.
RowFlag ==
    /\ data.key = NoKey => data.rows = {}
    /\ \A r \in RowsOf(data.rows) \cup RowsOf(read.rows) : Listed(r) \/ OffForGood(r)
    /\ read.answered => \A r \in RowsOf(data.rows) \ RowsOf(read.rows) : OffForGood(r)
    /\ \A t \in tasks : Acts(t) =>
          \/ t.row \in RowsOf(data.rows) \cap pending
          \/ OffForGood(t.row) /\ t.row \notin RowsOf(data.rows) \cup RowsOf(read.rows)

FlagInv ==
    FlagOutlives =>
        /\ OneEach
        /\ page.guard = "page" => PageFlag
        /\ page.guard = "row" => RowFlag

\* What is drawn of the tasks, field by field.
LEMMA DrawnFields ==
  ASSUME NEW ts, ts \subseteq TaskTypes, NEW busy, Draw(ts, busy)
  PROVE  /\ \A u \in tasks' : \E t \in ts :
              /\ u.row = t.row /\ u.command = t.command /\ u.key = t.key /\ u.rows = t.rows
              /\ u = [t EXCEPT !.mounted = t.mounted /\ t.row \in {p[1] : p \in Drawn(data', loading')}]
         /\ pending' = IF page.guard = "row" THEN busy \cap {p[1] : p \in Drawn(data', loading')} ELSE busy
<1> DEFINE there == {p[1] : p \in Drawn(data', loading')}
           g(t) == [t EXCEPT !.mounted = t.mounted /\ t.row \in there]
<1>1. tasks' = {g(t) : t \in ts}
  BY DEF Draw
<1>2. ASSUME NEW t \in ts
      PROVE  g(t).row = t.row /\ g(t).command = t.command /\ g(t).key = t.key /\ g(t).rows = t.rows
  <2>1. t \in TaskTypes
    OBVIOUS
  <2> HIDE DEF there
  <2> QED BY <2>1 DEF TaskTypes
<1>3. \A u \in tasks' : \E t \in ts : u = g(t)
  BY <1>1
<1>4. ASSUME NEW u \in tasks'
      PROVE  \E t \in ts : /\ u.row = t.row /\ u.command = t.command /\ u.key = t.key /\ u.rows = t.rows
                           /\ u = g(t)
  <2>1. PICK t \in ts : u = g(t)
    BY <1>3
  <2> HIDE DEF g
  <2> QED BY <1>2, <2>1
<1>5. pending' = IF page.guard = "row" THEN busy \cap there ELSE busy
  BY DEF Draw
<1> QED BY <1>4, <1>5

Each(ts) == \A t, u \in ts : t.row = u.row /\ Acts(t) /\ Acts(u) => t = u

LEMMA DrawnEach ==
  ASSUME NEW ts, ts \subseteq TaskTypes, NEW busy, Draw(ts, busy), Each(ts)
  PROVE  OneEach'
<1> DEFINE g(t) == [t EXCEPT !.mounted = t.mounted /\ t.row \in {p[1] : p \in Drawn(data', loading')}]
<1>1. \A u \in tasks' : \E t \in ts : u.row = t.row /\ u.command = t.command /\ u = g(t)
  BY DrawnFields
<1> HIDE DEF g
<1>2. ASSUME NEW u \in tasks', NEW v \in tasks', u.row = v.row, Acts(u), Acts(v)
      PROVE  u = v
  <2>1. PICK t \in ts : u.row = t.row /\ u.command = t.command /\ u = g(t)
    BY <1>1
  <2>2. PICK w \in ts : v.row = w.row /\ v.command = w.command /\ v = g(w)
    BY <1>1
  <2>3. t = w
    BY <1>2, <2>1, <2>2 DEF Each, Acts, Creates
  <2> QED BY <2>1, <2>2, <2>3
<1> QED BY <1>2 DEF OneEach, Acts, Creates

\* What is drawn keeps the flag of the page.
LEMMA PageDraws ==
  ASSUME page.guard = "page", page' = page, key' = key,
         NEW ts, ts \subseteq TaskTypes, NEW busy, Draw(ts, busy), Each(ts),
         RowsOf(data'.rows) \cup RowsOf(read'.rows) \subseteq RowsOf(key),
         \A t \in ts : /\ t.key \subseteq key /\ RowsOf(t.rows) \subseteq RowsOf(key)
                       /\ Acts(t) => t.row \in RowsOf(key) \cap busy
  PROVE  OneEach' /\ PageFlag'
<1>1. /\ \A u \in tasks' : \E t \in ts :
            u.row = t.row /\ u.command = t.command /\ u.key = t.key /\ u.rows = t.rows
      /\ pending' = busy
  BY DrawnFields
<1>2. \A u \in tasks' : u.key \subseteq key /\ RowsOf(u.rows) \subseteq RowsOf(key)
  BY <1>1
<1>3. \A u \in tasks' : Acts(u) => u.row \in RowsOf(key) \cap pending'
  BY <1>1 DEF Acts, Creates
<1> QED BY <1>1, <1>2, <1>3, DrawnEach DEF PageFlag, Acts, Creates

\* What is drawn keeps the flags of the rows.
LEMMA RowDraws ==
  ASSUME page.guard = "row", page.hides = "first", page' = page, key' = key, status' = status,
         NEW ts, ts \subseteq TaskTypes, NEW busy, Draw(ts, busy), Each(ts),
         data'.key = NoKey => data'.rows = {},
         \A r \in RowsOf(data'.rows) \cup RowsOf(read'.rows) : Listed(r) \/ OffForGood(r),
         read'.answered => \A r \in RowsOf(data'.rows) \ RowsOf(read'.rows) : OffForGood(r),
         \A t \in ts : Acts(t) =>
            \/ t.row \in RowsOf(data'.rows) \cap busy
            \/ OffForGood(t.row) /\ t.row \notin RowsOf(data'.rows) \cup RowsOf(read'.rows)
  PROVE  OneEach' /\ RowFlag'
<1>1. Drawn(data', loading') = data'.rows
  BY DEF Drawn
<1>2. /\ \A u \in tasks' : \E t \in ts : u.row = t.row /\ u.command = t.command
      /\ pending' = busy \cap RowsOf(data'.rows)
  <2> DEFINE there == {p[1] : p \in Drawn(data', loading')}
  <2>1. \A u \in tasks' : \E t \in ts : u.row = t.row /\ u.command = t.command
    BY DrawnFields
  <2>2. pending' = busy \cap there
    BY DEF Draw
  <2>3. there = RowsOf(data'.rows)
    BY <1>1 DEF RowsOf
  <2> HIDE DEF there
  <2> QED BY <2>1, <2>2, <2>3
<1>3. \A r : (Listed(r)' <=> Listed(r)) /\ (OffForGood(r)' <=> OffForGood(r))
  BY DEF Listed, OffForGood
<1>4. ASSUME NEW u \in tasks', Acts(u)
      PROVE  \/ u.row \in RowsOf(data'.rows) \cap pending'
             \/ OffForGood(u.row) /\ u.row \notin RowsOf(data'.rows) \cup RowsOf(read'.rows)
  <2>1. PICK t \in ts : u.row = t.row /\ u.command = t.command
    BY <1>2
  <2>2. Acts(t)
    BY <1>4, <2>1 DEF Acts, Creates
  <2> QED BY <1>2, <2>1, <2>2
<1> QED BY <1>3, <1>4, DrawnEach DEF RowFlag, Acts, Creates, Listed, OffForGood

LEMMA FlagFrame ==
  ASSUME Inv, Inv', [Next]_vars, FlagOutlives'
  PROVE  page' = page /\ key' = key /\ FlagOutlives
<1>1. page' = page
  BY DEF Next, Select, HearHint, LoseHint, AnswerRead, ReadArrives, ReadFails, Send, Handle, Lose, Done,
         Refused, AnswerLoad, LoadArrives, LoadFails, Elsewhere, vars
<1>2. key' = key
  BY <1>1 DEF Inv, TypeOK, FlagOutlives
<1> QED BY <1>1, <1>2 DEF FlagOutlives, OneReader, TakenForGood

\* A task that goes on to another stage, or takes its answer.
LEMMA TaskTurns ==
  ASSUME OneEach, NEW t \in tasks, NEW u, u.row = t.row, u.command = t.command,
         tasks' = (tasks \ {t}) \cup {u}
  PROVE  OneEach'
<1>1. ASSUME NEW v \in tasks', NEW w \in tasks', v.row = w.row, Acts(v), Acts(w)
      PROVE  v = w
  <2>1. Acts(u) <=> Acts(t)
    BY DEF Acts, Creates
  <2> QED BY <1>1, <2>1 DEF OneEach
<1> QED BY <1>1 DEF OneEach, Acts, Creates

LEMMA SentTask ==
  ASSUME NEW c, NEW r, Send(c, r)
  PROVE  \E u : /\ tasks' = tasks \cup {u} /\ u.row = r /\ u.command = c /\ u.rows = {}
                /\ u.key = IF OneReader THEN NoKey ELSE key
<1> DEFINE twins == {t.press : t \in {u \in tasks : u.row = r /\ u.command = c}}
           press == CHOOSE n \in 1..MaxTasks[page] : n \notin twins
           k == IF OneReader THEN NoKey ELSE key
           new == [press |-> press, row |-> r, command |-> c, stage |-> "sent",
                   key |-> k, rows |-> {}, mounted |-> page.guard = "row" /\ ~Creates(c)]
<1>1. tasks' = tasks \cup {new}
  BY DEF Send
<1>2. new.row = r /\ new.command = c /\ new.rows = {} /\ new.key = k
  OBVIOUS
<1> HIDE DEF new
<1> QED BY <1>1, <1>2

LEMMA SameTurn ==
  ASSUME NEW t \in TaskTypes, NEW stage
  PROVE  /\ [t EXCEPT !.stage = stage].row = t.row /\ [t EXCEPT !.stage = stage].command = t.command
         /\ [t EXCEPT !.stage = stage].key = t.key /\ [t EXCEPT !.stage = stage].rows = t.rows
  BY DEF TaskTypes

LEMMA AnswerTurn ==
  ASSUME NEW t \in TaskTypes, NEW ps
  PROVE  LET u == [t EXCEPT !.stage = "loaded", !.rows = ps]
         IN  u.row = t.row /\ u.command = t.command /\ u.key = t.key /\ u.rows = ps
  BY DEF TaskTypes

\* One object under a flag of the page: at most one command is out.
LEMMA PageStep ==
  ASSUME Inv, OneEach, PageFlag, FlagOutlives, page.guard = "page", page' = page, key' = key,
         [Next]_vars
  PROVE  OneEach' /\ PageFlag'
<1>1. tasks \subseteq TaskTypes /\ Each(tasks)
  BY DEF Inv, TypeOK, OneEach, Each
<1>2. \A t, u \in tasks : Acts(t) /\ Acts(u) => t = u
  <2>1. PICK r \in Rows : key \subseteq {r} \X Statuses
    BY DEF FlagOutlives
  <2>2. RowsOf(key) \subseteq {r}
    BY <2>1 DEF RowsOf
  <2> QED BY <2>2 DEF PageFlag, OneEach
<1>3. /\ RowsOf(data.rows) \cup RowsOf(read.rows) \subseteq RowsOf(key) /\ RowsOf({}) = {}
      /\ \A t \in tasks : /\ t.key \subseteq key /\ RowsOf(t.rows) \subseteq RowsOf(key)
                          /\ Acts(t) => t.row \in RowsOf(key) \cap pending
  BY DEF PageFlag, RowsOf
<1>4. CASE HearHint
  <2>1. read'.rows = {} /\ data' = data /\ Draw(tasks, pending)
    BY <1>4 DEF HearHint, Run, NewRead
  <2> QED BY <1>1, <1>3, <2>1, PageDraws
<1>5. CASE ReadArrives
  <2>1. read'.rows = {} /\ data'.rows = read.rows /\ Draw(tasks, pending)
    BY <1>5 DEF ReadArrives, NoRead
  <2> QED BY <1>1, <1>3, <2>1, PageDraws
<1>6. CASE ReadFails
  <2>1. read'.rows = {} /\ data' = data /\ Draw(tasks, pending)
    BY <1>6 DEF ReadFails, NoRead
  <2> QED BY <1>1, <1>3, <2>1, PageDraws
<1>7. CASE AnswerRead
  <2>1. read.key = key /\ UNCHANGED <<data, tasks, pending>>
    BY <1>7 DEF AnswerRead, Inv, ReadInv
  <2>2. read'.rows = Answer(key)
    BY <1>7, <2>1 DEF AnswerRead, Inv, TypeOK
  <2>3. RowsOf(read'.rows) \subseteq RowsOf(key)
    BY <2>2 DEF Answer, RowsOf
  <2> QED BY <2>1, <2>3 DEF PageFlag, OneEach, Acts, Creates
<1>8. ASSUME NEW t \in tasks, Draw(tasks \ {t}, Cleared(t)),
             RowsOf(data'.rows) \cup RowsOf(read'.rows) \subseteq RowsOf(key)
      PROVE  OneEach' /\ PageFlag'
  <2>1. \A u \in tasks \ {t} : Acts(u) => u.row \in RowsOf(key) \cap Cleared(t)
    BY <1>2, <1>3 DEF Cleared, Acts
  <2>2. tasks \ {t} \subseteq TaskTypes /\ Each(tasks \ {t})
    BY <1>1 DEF Each
  <2> QED BY <1>3, <1>8, <2>1, <2>2, PageDraws
<1>9. ASSUME NEW t \in tasks, Reloads(t) PROVE OneEach' /\ PageFlag'
  <2>1. read'.rows = {} /\ data' = data /\ Draw(tasks \ {t}, Cleared(t))
    BY <1>9 DEF Reloads, Run, NewRead
  <2> QED BY <1>3, <1>8, <2>1
<1>10. ASSUME NEW t \in tasks, Replaces(t) PROVE OneEach' /\ PageFlag'
  <2>1. /\ data'.rows = {IF p[1] = t.row THEN <<t.row, t.command.to>> ELSE p : p \in data.rows}
        /\ read' = read /\ Draw(tasks \ {t}, Cleared(t))
    BY <1>10 DEF Replaces, Inv, TypeOK
  <2>2. RowsOf(data'.rows) \subseteq RowsOf(data.rows)
    BY <2>1 DEF RowsOf
  <2> QED BY <1>3, <1>8, <2>1, <2>2
<1>11. ASSUME NEW t \in tasks, Loads(t) PROVE OneEach' /\ PageFlag'
  <2> DEFINE u  == [t EXCEPT !.stage = "loading"]
             ts == (tasks \ {t}) \cup {u}
  <2>1. Draw(ts, pending) /\ UNCHANGED <<data, read>>
    BY <1>11 DEF Loads
  <2>2. u \in TaskTypes
    BY <1>1 DEF TaskTypes, Stages
  <2>3. u.row = t.row /\ u.command = t.command /\ u.key = t.key /\ u.rows = t.rows
    BY <1>1, SameTurn
  <2> HIDE DEF u
  <2>4. ts \subseteq TaskTypes
    BY <1>1, <2>2
  <2>5. \A v \in ts : /\ v.key \subseteq key /\ RowsOf(v.rows) \subseteq RowsOf(key)
                      /\ Acts(v) => v.row \in RowsOf(key) \cap pending
    BY <1>3, <2>3 DEF Acts, Creates
  <2>6. Each(ts)
    BY <1>2, <2>3 DEF Each, Acts, Creates
  <2> HIDE DEF ts
  <2> QED BY <1>3, <2>1, <2>4, <2>5, <2>6, PageDraws
<1>12. ASSUME NEW t \in tasks, Done(t) PROVE OneEach' /\ PageFlag'
  BY <1>9, <1>10, <1>11, <1>12 DEF Done
<1>13. ASSUME NEW t \in tasks, Refused(t) PROVE OneEach' /\ PageFlag'
  BY <1>3, <1>8, <1>9, <1>13 DEF Refused
<1>14. ASSUME NEW t \in tasks, LoadArrives(t) \/ LoadFails(t) PROVE OneEach' /\ PageFlag'
  <2>1. /\ Draw(tasks \ {t}, Cleared(t)) /\ read' = read
        /\ data' = data \/ data'.rows = t.rows
    BY <1>14 DEF LoadArrives, LoadFails
  <2> QED BY <1>3, <1>8, <2>1
<1>15. ASSUME NEW t \in tasks, NEW u, tasks' = (tasks \ {t}) \cup {u},
              u.row = t.row, u.command = t.command, u.key = t.key,
              RowsOf(u.rows) \subseteq RowsOf(key), UNCHANGED <<data, read, pending>>
       PROVE  OneEach' /\ PageFlag'
  <2>1. OneEach'
    BY <1>15, TaskTurns
  <2>2. Acts(u) <=> Acts(t)
    BY <1>15 DEF Acts, Creates
  <2>3. \A v \in tasks' : /\ v.key \subseteq key /\ RowsOf(v.rows) \subseteq RowsOf(key)
                          /\ Acts(v) => v.row \in RowsOf(key) \cap pending
    BY <1>3, <1>15, <2>2
  <2> QED BY <1>3, <1>15, <2>1, <2>3 DEF PageFlag, Acts, Creates
<1>16. ASSUME NEW t \in tasks, Handle(t) \/ Lose(t) PROVE OneEach' /\ PageFlag'
  <2>1. PICK stage : tasks' = (tasks \ {t}) \cup {[t EXCEPT !.stage = stage]}
    BY <1>16 DEF Handle, Lose, Goes
  <2>2. UNCHANGED <<data, read, pending>>
    BY <1>16 DEF Handle, Lose
  <2>3. /\ [t EXCEPT !.stage = stage].row = t.row /\ [t EXCEPT !.stage = stage].command = t.command
        /\ [t EXCEPT !.stage = stage].key = t.key /\ [t EXCEPT !.stage = stage].rows = t.rows
    BY <1>1, SameTurn
  <2> QED BY <1>3, <1>15, <2>1, <2>2, <2>3
<1>17. ASSUME NEW t \in tasks, AnswerLoad(t) PROVE OneEach' /\ PageFlag'
  <2> DEFINE u == [t EXCEPT !.stage = "loaded", !.rows = Answer(t.key)]
  <2>1. tasks' = (tasks \ {t}) \cup {u} /\ UNCHANGED <<data, read, pending>>
    BY <1>17 DEF AnswerLoad
  <2>2. u.row = t.row /\ u.command = t.command /\ u.key = t.key /\ u.rows = Answer(t.key)
    BY <1>1, AnswerTurn
  <2> HIDE DEF u
  <2>3. RowsOf(u.rows) \subseteq RowsOf(key)
    BY <1>3, <2>2 DEF Answer, RowsOf
  <2> QED BY <1>15, <2>1, <2>2, <2>3
<1>18. ASSUME NEW c \in page.commands, NEW r \in Rows, Send(c, r) PROVE OneEach' /\ PageFlag'
  <2>1. PICK u : /\ tasks' = tasks \cup {u} /\ u.row = r /\ u.command = c /\ u.rows = {}
                 /\ u.key = IF OneReader THEN NoKey ELSE key
    BY <1>18, SentTask
  <2>2. UNCHANGED <<data, read>> /\ u.key \subseteq key /\ RowsOf(u.rows) \subseteq RowsOf(key)
    BY <1>3, <1>18, <2>1 DEF Send, NoKey
  <2>3. CASE Creates(c)
    <3>1. pending' = pending /\ ~Acts(u)
      BY <1>18, <2>1, <2>3 DEF Send, Acts
    <3>2. OneEach'
      BY <2>1, <3>1 DEF OneEach, Acts, Creates
    <3> QED BY <1>3, <2>1, <2>2, <3>1, <3>2 DEF PageFlag, Acts, Creates
  <2>4. CASE ~Creates(c)
    <3>1. r \in RowsOf(data.rows) /\ r \notin pending /\ pending' = {r}
      BY <1>18, <2>4 DEF Send, Offered, Drawn, RowsOf
    <3>2. \A t \in tasks : ~Acts(t)
      <4>1. PICK q \in Rows : key \subseteq {q} \X Statuses
        BY DEF FlagOutlives
      <4>2. RowsOf(key) \subseteq {q}
        BY <4>1 DEF RowsOf
      <4> QED BY <1>3, <3>1, <4>2
    <3>3. OneEach'
      BY <2>1, <3>2 DEF OneEach, Acts, Creates
    <3>4. \A t \in tasks' : Acts(t) => t.row \in RowsOf(key) \cap pending'
      BY <1>3, <2>1, <3>1, <3>2
    <3> QED BY <1>3, <2>1, <2>2, <3>3, <3>4 DEF PageFlag, Acts, Creates
  <2> QED BY <2>3, <2>4
<1>19. ASSUME UNCHANGED <<data, read, tasks, pending>> PROVE OneEach' /\ PageFlag'
  BY <1>19 DEF OneEach, PageFlag, Acts, Creates
<1>20. \A k \in page.keys : ~Select(k)
  BY DEF Select
<1> QED BY <1>4, <1>5, <1>6, <1>7, <1>12, <1>13, <1>14, <1>16, <1>17, <1>18, <1>19, <1>20
        DEF Next, LoseHint, Elsewhere, vars

\* What a change of a row does to the rows of a list.
LEMMA FateStays ==
  ASSUME Inv, FlagOutlives, page.guard = "row", page' = page, key' = key,
         NEW q \in Rows, NEW m \in page.commands \cup page.others, status[q] \in m.accepts,
         status' = [status EXCEPT ![q] = m.to]
  PROVE  \A r : /\ OffForGood(r) /\ r \in Rows => OffForGood(r)'
                /\ (Listed(r) \/ OffForGood(r)) /\ r \in Rows => (Listed(r) \/ OffForGood(r))'
<1>1. TakenForGood /\ status \in [Rows -> Statuses]
  BY DEF FlagOutlives, Inv, TypeOK
<1>2. ASSUME NEW r \in Rows, r # q
      PROVE  (Listed(r)' <=> Listed(r)) /\ (OffForGood(r)' <=> OffForGood(r))
  <2>1. status'[r] = status[r]
    BY <1>1, <1>2
  <2> QED BY <2>1 DEF Listed, OffForGood
<1>3. ~OffForGood(q) /\ status'[q] = m.to
  BY <1>1 DEF OffForGood
<1>4. Listed(q)' \/ OffForGood(q)'
  BY <1>1, <1>3 DEF TakenForGood, Listed, OffForGood
<1> QED BY <1>2, <1>3, <1>4

\* The rows of an answer are those that are listed.
LEMMA AnsweredRows ==
  ASSUME TypeOK, key \in Keys
  PROVE  \A r : r \in RowsOf(Answer(key)) <=> Listed(r)
<1>1. ASSUME NEW p \in key PROVE p = <<p[1], p[2]>> /\ p[1] \in Rows
  BY <1>1 DEF Keys
<1>2. ASSUME NEW r, r \in RowsOf(Answer(key)) PROVE Listed(r)
  <2>1. PICK p \in key : p[2] = status[p[1]] /\ r = p[1]
    BY <1>2 DEF RowsOf, Answer
  <2> QED BY <1>1, <2>1 DEF Listed
<1>3. ASSUME NEW r, Listed(r) PROVE r \in RowsOf(Answer(key))
  <2>1. <<r, status[r]>> \in Answer(key)
    BY <1>3 DEF Listed, Answer
  <2> QED BY <2>1 DEF RowsOf
<1> QED BY <1>2, <1>3

\* Rows with a flag of their own, on a page whose effect alone reads.
LEMMA RowStep ==
  ASSUME Inv, OneEach, RowFlag, FlagOutlives, page.guard = "row", page' = page, key' = key,
         [Next]_vars
  PROVE  OneEach' /\ RowFlag'
<1>1. /\ tasks \subseteq TaskTypes /\ Each(tasks) /\ page.hides = "first" /\ OneReader
      /\ key \in Keys /\ key # NoKey /\ data.rows \in Keys /\ read.rows \in Keys
  <2>1. key \in Keys /\ key # NoKey
    BY PageType DEF Inv, TypeOK
  <2>2. page.hides = "first" /\ OneReader
    BY DEF FlagOutlives
  <2> QED BY <2>1, <2>2 DEF Inv, TypeOK, OneEach, Each
<1>2. \A t \in tasks : page.then = "reload" /\ ~ReadsAlone(t) /\ t.row \in Rows /\ t.command \in page.commands
  BY <1>1, OneReaderReloads DEF Inv, TaskInv, TaskTypes
<1>3. /\ data.key = NoKey => data.rows = {}
      /\ \A r \in RowsOf(data.rows) \cup RowsOf(read.rows) : Listed(r) \/ OffForGood(r)
      /\ RowsOf({}) = {}
  BY DEF RowFlag, RowsOf
<1>4. /\ \A t \in tasks : Acts(t) =>
            \/ t.row \in RowsOf(data.rows) \cap pending
            \/ OffForGood(t.row) /\ t.row \notin RowsOf(data.rows) \cup RowsOf(read.rows)
      /\ read.answered => \A r \in RowsOf(data.rows) \ RowsOf(read.rows) : OffForGood(r)
  BY DEF RowFlag
<1>5. ASSUME read'.rows = {}, ~read'.answered, data' = data, status' = status,
             NEW ts \in SUBSET tasks, NEW busy, Draw(ts, busy),
             \A t \in ts : Acts(t) /\ t.row \in pending => t.row \in busy
      PROVE  OneEach' /\ RowFlag'
  <2>1. ts \subseteq TaskTypes /\ Each(ts)
    BY <1>1, <1>5 DEF Each
  <2>2. \A t \in ts : Acts(t) =>
            \/ t.row \in RowsOf(data'.rows) \cap busy
            \/ OffForGood(t.row) /\ t.row \notin RowsOf(data'.rows) \cup RowsOf(read'.rows)
    BY <1>3, <1>4, <1>5
  <2> QED BY <1>1, <1>3, <1>5, <2>1, <2>2, RowDraws
<1>6. CASE HearHint
  <2>1. /\ read'.rows = {} /\ ~read'.answered /\ data' = data /\ status' = status
        /\ Draw(tasks, pending)
    BY <1>6 DEF HearHint, Run, NewRead
  <2> QED BY <1>5, <2>1
<1>7. CASE ReadFails
  <2>1. /\ read'.rows = {} /\ ~read'.answered /\ data' = data /\ status' = status
        /\ Draw(tasks, pending)
    BY <1>7 DEF ReadFails, NoRead
  <2> QED BY <1>5, <2>1
<1>8. CASE ReadArrives
  <2>1. /\ read'.rows = {} /\ ~read'.answered /\ data'.key = read.key /\ data'.rows = read.rows
        /\ status' = status /\ Draw(tasks, pending) /\ read.answered
    BY <1>8 DEF ReadArrives, NoRead
  <2>2. read.key # NoKey
    BY <2>1 DEF Inv, ReadInv, Reading
  <2>3. \A t \in tasks : Acts(t) =>
            \/ t.row \in RowsOf(data'.rows) \cap pending
            \/ OffForGood(t.row) /\ t.row \notin RowsOf(data'.rows) \cup RowsOf(read'.rows)
    BY <1>3, <1>4, <2>1
  <2> QED BY <1>1, <1>3, <2>1, <2>2, <2>3, RowDraws
<1>9. CASE AnswerRead
  <2>1. read.key = key /\ UNCHANGED <<data, tasks, pending, status>>
    BY <1>9 DEF AnswerRead, Inv, ReadInv
  <2>2. read'.rows = Answer(key)
    BY <1>9, <2>1 DEF AnswerRead, Inv, TypeOK
  <2>3. \A r : r \in RowsOf(read'.rows) <=> Listed(r)
    BY <1>1, <2>2, AnsweredRows DEF Inv
  <2>4. \A r : (Listed(r)' <=> Listed(r)) /\ (OffForGood(r)' <=> OffForGood(r))
    BY <2>1 DEF Listed, OffForGood
  <2>5. \A r : OffForGood(r) => ~Listed(r)
    BY DEF OffForGood
  <2>6. \A t \in tasks : Acts(t) =>
            \/ t.row \in RowsOf(data.rows) \cap pending
            \/ OffForGood(t.row) /\ t.row \notin RowsOf(data.rows) \cup RowsOf(read'.rows)
    BY <1>4, <2>3, <2>5
  <2>7. OneEach'
    BY <2>1 DEF OneEach, Acts, Creates
  <2> QED BY <1>3, <2>1, <2>3, <2>4, <2>6, <2>7 DEF RowFlag, Acts, Creates
<1>10. ASSUME NEW t \in tasks PROVE \A u \in tasks \ {t} : Acts(u) /\ u.row \in pending => u.row \in Cleared(t)
  BY <1>10 DEF Cleared, OneEach, Acts
<1>11. ASSUME NEW t \in tasks, Reloads(t), status' = status PROVE OneEach' /\ RowFlag'
  <2>1. read'.rows = {} /\ ~read'.answered /\ data' = data /\ Draw(tasks \ {t}, Cleared(t))
    BY <1>11 DEF Reloads, Run, NewRead
  <2> QED BY <1>5, <1>10, <1>11, <2>1
<1>12. ASSUME NEW t \in tasks, Done(t) \/ Refused(t) PROVE OneEach' /\ RowFlag'
  <2>1. CASE Reloads(t)
    BY <1>11, <1>12, <2>1 DEF Done, Refused
  <2>2. CASE UNCHANGED <<data, read, status>> /\ Draw(tasks \ {t}, Cleared(t))
    <3>1. tasks \ {t} \subseteq TaskTypes /\ Each(tasks \ {t})
      BY <1>1 DEF Each
    <3>2. \A u \in tasks \ {t} : Acts(u) =>
              \/ u.row \in RowsOf(data.rows) \cap Cleared(t)
              \/ OffForGood(u.row) /\ u.row \notin RowsOf(data.rows) \cup RowsOf(read.rows)
      BY <1>4, <1>10
    <3> QED BY <1>1, <1>3, <1>4, <2>2, <3>1, <3>2, RowDraws
  <2> QED BY <1>2, <1>12, <2>1, <2>2 DEF Done, Refused
<1>13. ASSUME NEW t \in tasks, AnswerLoad(t) \/ LoadArrives(t) \/ LoadFails(t) PROVE FALSE
  BY <1>2, <1>13 DEF AnswerLoad, LoadArrives, LoadFails, ReadsAlone
<1>14. ASSUME UNCHANGED <<data, read, pending>>, OneEach',
              \A r \in Rows : /\ OffForGood(r) => OffForGood(r)'
                              /\ Listed(r) \/ OffForGood(r) => (Listed(r) \/ OffForGood(r))',
              \A u \in tasks' : \E t \in tasks : u.row = t.row /\ u.command = t.command
       PROVE  OneEach' /\ RowFlag'
  <2>1. RowsOf(data.rows) \cup RowsOf(read.rows) \subseteq Rows
    BY <1>1 DEF RowsOf, Keys
  <2>2. \A r \in RowsOf(data.rows) \cup RowsOf(read.rows) : (Listed(r) \/ OffForGood(r))'
    BY <1>3, <1>14, <2>1
  <2>3. ASSUME NEW u \in tasks', Acts(u)
        PROVE  \/ u.row \in RowsOf(data.rows) \cap pending
               \/ OffForGood(u.row)' /\ u.row \notin RowsOf(data.rows) \cup RowsOf(read.rows)
    <3>1. PICK t \in tasks : u.row = t.row /\ u.command = t.command
      BY <1>14
    <3>2. Acts(t) /\ t.row \in Rows
      BY <1>2, <2>3, <3>1 DEF Acts, Creates
    <3>3. PICK r \in Rows : r = u.row
      BY <3>1, <3>2
    <3>4. \/ r \in RowsOf(data.rows) \cap pending
          \/ OffForGood(r) /\ r \notin RowsOf(data.rows) \cup RowsOf(read.rows)
      BY <1>4, <3>1, <3>2, <3>3
    <3>5. \/ r \in RowsOf(data.rows) \cap pending
          \/ OffForGood(r)' /\ r \notin RowsOf(data.rows) \cup RowsOf(read.rows)
      BY <1>14, <3>4
    <3> QED BY <3>3, <3>5 DEF Listed, OffForGood
  <2>4. read.answered => \A r \in RowsOf(data.rows) \ RowsOf(read.rows) : OffForGood(r)'
    BY <1>4, <1>14, <2>1
  <2> QED BY <1>3, <1>14, <2>2, <2>3, <2>4 DEF RowFlag, Acts, Creates, Listed, OffForGood
<1>15. ASSUME status' = status
       PROVE  \A r \in Rows : /\ OffForGood(r) => OffForGood(r)'
                              /\ Listed(r) \/ OffForGood(r) => (Listed(r) \/ OffForGood(r))'
  BY <1>15 DEF Listed, OffForGood
<1>16. ASSUME NEW t \in tasks, Handle(t) \/ Lose(t) PROVE OneEach' /\ RowFlag'
  <2>1. PICK stage : tasks' = (tasks \ {t}) \cup {[t EXCEPT !.stage = stage]}
    BY <1>16 DEF Handle, Lose, Goes
  <2>2. [t EXCEPT !.stage = stage].row = t.row /\ [t EXCEPT !.stage = stage].command = t.command
    BY <1>1, SameTurn
  <2>3. OneEach' /\ \A u \in tasks' : \E v \in tasks : u.row = v.row /\ u.command = v.command
    BY <2>1, <2>2, TaskTurns
  <2>4. UNCHANGED <<data, read, pending>>
    BY <1>16 DEF Handle, Lose
  <2>5. CASE status' = status
    BY <1>14, <1>15, <2>3, <2>4, <2>5
  <2>6. CASE /\ status[t.row] \in t.command.accepts
             /\ status' = [status EXCEPT ![t.row] = t.command.to]
    <3>1. t.row \in Rows /\ t.command \in page.commands \cup page.others
      BY <1>2
    <3>2. \A r \in Rows : /\ OffForGood(r) => OffForGood(r)'
                          /\ Listed(r) \/ OffForGood(r) => (Listed(r) \/ OffForGood(r))'
      BY <2>6, <3>1, FateStays
    <3> QED BY <1>14, <2>3, <2>4, <3>2
  <2> QED BY <1>16, <2>5, <2>6 DEF Handle, Lose
<1>17. ASSUME NEW r \in Rows, NEW m \in page.others, Elsewhere(r, m) PROVE OneEach' /\ RowFlag'
  <2>1. /\ m \in page.commands \cup page.others /\ status[r] \in m.accepts
        /\ status' = [status EXCEPT ![r] = m.to] /\ UNCHANGED <<data, read, pending, tasks>>
    BY <1>17 DEF Elsewhere
  <2>2. \A q \in Rows : /\ OffForGood(q) => OffForGood(q)'
                        /\ Listed(q) \/ OffForGood(q) => (Listed(q) \/ OffForGood(q))'
    BY <2>1, FateStays
  <2>3. OneEach'
    BY <2>1 DEF OneEach, Acts, Creates
  <2> QED BY <1>14, <2>1, <2>2, <2>3
<1>18. ASSUME UNCHANGED <<data, read, tasks, pending, status>> PROVE OneEach' /\ RowFlag'
  <2>1. OneEach'
    BY <1>18 DEF OneEach, Acts, Creates
  <2> QED BY <1>14, <1>15, <1>18, <2>1
<1>19. ASSUME NEW c \in page.commands, NEW r \in Rows, Send(c, r) PROVE OneEach' /\ RowFlag'
  <2>1. PICK u : tasks' = tasks \cup {u} /\ u.row = r /\ u.command = c
    BY <1>19, SentTask
  <2>2. UNCHANGED <<data, read, status>>
    BY <1>19 DEF Send
  <2>3. \A q : (Listed(q)' <=> Listed(q)) /\ (OffForGood(q)' <=> OffForGood(q))
    BY <2>2 DEF Listed, OffForGood
  <2>4. CASE Creates(c)
    <3>1. pending' = pending /\ ~Acts(u)
      BY <1>19, <2>1, <2>4 DEF Send, Acts
    <3>2. OneEach'
      BY <2>1, <3>1 DEF OneEach, Acts, Creates
    <3> QED BY <1>3, <1>4, <2>1, <2>2, <2>3, <3>1, <3>2 DEF RowFlag, Acts, Creates
  <2>5. CASE ~Creates(c)
    <3>1. r \in RowsOf(data.rows) /\ r \notin pending /\ pending' = pending \cup {r}
      BY <1>19, <2>5 DEF Send, Offered, Drawn, RowsOf
    <3>2. \A t \in tasks : Acts(t) => t.row # r
      BY <1>4, <3>1
    <3>3. OneEach'
      BY <2>1, <3>2 DEF OneEach, Acts, Creates
    <3>4. \A t \in tasks' : Acts(t) =>
              \/ t.row \in RowsOf(data.rows) \cap pending'
              \/ OffForGood(t.row) /\ t.row \notin RowsOf(data.rows) \cup RowsOf(read.rows)
      BY <1>4, <2>1, <3>1
    <3> QED BY <1>3, <1>4, <2>2, <2>3, <3>3, <3>4 DEF RowFlag, Acts, Creates
  <2> QED BY <2>4, <2>5
<1>20. \A k \in page.keys : ~Select(k)
  BY DEF Select
<1> QED BY <1>6, <1>7, <1>8, <1>9, <1>12, <1>13, <1>16, <1>17, <1>18, <1>19, <1>20
        DEF Next, LoseHint, vars

LEMMA FlagStep == Inv /\ Inv' /\ FlagInv /\ [Next]_vars => FlagInv'
<1> SUFFICES ASSUME Inv, Inv', FlagInv, [Next]_vars, FlagOutlives'
             PROVE  /\ OneEach' /\ (page'.guard = "page" => PageFlag')
                    /\ (page'.guard = "row" => RowFlag')
  BY DEF FlagInv
<1>1. page' = page /\ key' = key /\ FlagOutlives
  BY FlagFrame
<1>2. page.guard \in {"page", "row"}
  BY PagesAssumption DEF Inv, TypeOK, PageTypes
<1> QED BY <1>1, <1>2, PageStep, RowStep DEF FlagInv

LEMMA FlagOpens == Init => FlagInv
<1> SUFFICES ASSUME Init PROVE FlagInv
  OBVIOUS
<1>1. tasks = {} /\ data.rows = {} /\ read.rows = {} /\ ~read.answered
  BY DEF Init, NoData, NewRead
<1> QED BY <1>1 DEF FlagInv, OneEach, PageFlag, RowFlag, RowsOf

LEMMA FlagAlways == Spec => []FlagInv
  BY FlagOpens, FlagStep, InvAlways, PTL DEF Spec

\* The button of a row sends one command at a time, where the flag lives as long
\* as the command.
THEOREM OneCommandOut == Spec => []OneCommandPerRow
<1>1. FlagInv => OneCommandPerRow
  BY DEF FlagInv, OneCommandPerRow, OneEach, Acts
<1> QED BY <1>1, FlagAlways, PTL

-----------------------------------------------------------------------------

\* The types of a page, for any record of ScreenPages.
THEOREM ScreenTypes == Spec => []TypeOK
<1>1. Inv => TypeOK
  BY DEF Inv
<1> QED BY <1>1, InvAlways, PTL

\* No page loads for ever.
THEOREM NoSpinnerStays == Spec => []SpinnerEnds
<1>1. Inv => SpinnerEnds
  BY DEF Inv, SpinInv, SpinnerEnds, ReadsAlone
<1> QED BY <1>1, InvAlways, PTL

\* A page at rest without an error shows the filter that is selected.
THEOREM FilterIsShown == Spec => []SettledShowsKey
<1>1. Inv => SettledShowsKey
  BY DEF Inv, ShownInv, SettledShowsKey, Loud, Settled, Excused
<1> QED BY <1>1, InvAlways, PTL

\* A page at rest shows what its own commands did.
THEOREM OwnCommandsAreShown == Spec => []OwnWriteShown
<1>1. Inv => OwnWriteShown
  BY DEF Inv, ShownInv, OwnWriteShown, Loud, Settled, Excused, ErrorDrawn, Agrees
<1> QED BY <1>1, InvAlways, PTL

\* A page at rest that has missed no live update is in step with the server.
THEOREM LivePagesAreInStep == Spec => []InStepUnlessMissed
<1>1. Inv => InStepUnlessMissed
  BY DEF Inv, ShownInv, InStepUnlessMissed, Settled, Excused, Heard
<1> QED BY <1>1, InvAlways, PTL

\* No answer to a filter that was left reaches the screen.
THEOREM NoLateAnswer == Spec => LateAnswersIgnored
<1>1. ASSUME Inv, Next, OneReader, data' # data
      PROVE  data'.key = key'
  <2>1. CASE ReadArrives
    BY <1>1, <2>1 DEF ReadArrives, Inv, ReadInv
  <2>2. ASSUME NEW t \in tasks, Done(t) \/ LoadArrives(t)
        PROVE  FALSE
    <3>1. page.then = "reload" /\ ~ReadsAlone(t)
      BY <1>1, OneReaderReloads DEF Inv
    <3> QED BY <1>1, <2>2, <3>1 DEF Done, LoadArrives, Reloads, ReadsAlone
  <2> QED BY <1>1, <2>1, <2>2 DEF Next, Select, HearHint, LoseHint, AnswerRead, ReadFails,
             Send, Handle, Lose, Refused, Reloads, AnswerLoad, LoadFails, Elsewhere
<1>2. Inv /\ [Next]_vars => [OneReader /\ data' # data => data'.key = key']_vars
  BY <1>1 DEF vars
<1> QED BY <1>2, InvAlways, PTL DEF Spec, LateAnswersIgnored

=============================================================================
