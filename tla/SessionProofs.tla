---------------------------- MODULE SessionProofs ----------------------------
(***************************************************************************)
(* Theorems about the signed-in session, for every set of accounts and     *)
(* tabs and every number of tokens and calls: rotating the one refresh     *)
(* cookie that the tabs share strands no tab and leaves no call waiting.   *)
(***************************************************************************)
EXTENDS Session, TLAPS

-----------------------------------------------------------------------------
(* The inductive invariant.                                                 *)

\* refreshInFlight: a tab has one refresh in flight at a time.
OneRefresh == \A t \in Tabs : \A r, q \in refreshes[t] : r = q

Door(t) == calls[t]["door"]

\* Tokens that requests carry were issued, and a rotated one is revoked.
Within ==
  /\ \A t \in Tabs : \A r \in refreshes[t] : r.cookie <= issued /\ r.serial <= issued
  /\ \A t \in Tabs : \A s \in Slots : calls[t][s].cookie <= issued /\ calls[t][s].serial <= issued
  /\ \A n \in Serials : rotatedBy[n] # {} => n \in revoked

\* A serial on its way to a tab comes from a rotation, for the account of the
\* cookie that was rotated, or from a sign-in; what revokes it before it arrives
\* is the end of all sessions of its account.
Brought ==
  /\ \A t \in Tabs : \A r \in refreshes[t] : r.serial # 0 =>
       /\ r.answered /\ r.cookie \in revoked /\ owner[r.serial] = owner[r.cookie]
       /\ r.serial \in revoked => r.serial \in wasted /\ r.cookie \in wasted
  /\ \A t \in Tabs : \A s \in Slots : calls[t][s].serial # 0 =>
       /\ s = "door" /\ calls[t][s].kind \in {"login", "register"}
       /\ calls[t][s].stage = "answered" /\ calls[t][s].ok
       /\ calls[t][s].serial \in revoked => calls[t][s].serial \in wasted

\* The browser has never presented token n.
Unseen(n) ==
  /\ n # cookie /\ rotatedBy[n] = {}
  /\ \A t \in Tabs : \A r \in refreshes[t] : r.cookie # n
  /\ \A t \in Tabs : Door(t).cookie # n

SerialsUnseen ==
  /\ \A t \in Tabs : \A r \in refreshes[t] : r.serial # 0 => Unseen(r.serial)
  /\ \A t \in Tabs : Door(t).serial # 0 => Unseen(Door(t).serial)

\* Each serial is on its way to one tab, in one answer.
SerialsApart ==
  \A t, u \in Tabs :
    /\ \A r \in refreshes[t], q \in refreshes[u] : r.serial # 0 /\ r.serial = q.serial => t = u
    /\ Door(t).serial # 0 /\ Door(t).serial = Door(u).serial => t = u
    /\ \A r \in refreshes[t] : r.serial # 0 => r.serial # Door(u).serial

\* A tab that rotated a token is about to be told so, or has been told and will
\* not present it again.
RotationsTold ==
  \A t \in Tabs, n \in Serials : t \in rotatedBy[n] /\ n \notin wasted =>
     \/ \E r \in refreshes[t] : r.serial # 0 /\ r.cookie = n
     \/ n # cookie /\ \A r \in refreshes[t] : r.cookie # n

\* A revoked cookie was rotated, or signed out, by an answer on its way.
CookieReplaced ==
  cookie \in revoked /\ cookie \notin wasted =>
    \/ \E t \in Tabs : \E r \in refreshes[t] : r.serial # 0 /\ r.cookie = cookie
    \/ \E t \in Tabs : /\ Door(t).kind = "logout" /\ Door(t).stage = "answered" /\ Door(t).ok
                       /\ Door(t).cookie = cookie

SInv ==
  /\ TypeOK /\ OneRefresh /\ NobodyWaitsAlone /\ Within /\ Brought
  /\ SerialsUnseen /\ SerialsApart /\ RotationsTold /\ CookieReplaced

-----------------------------------------------------------------------------
(* The records.                                                             *)

LEMMA IdleCall ==
  /\ Idle \in Calls /\ Idle.kind = "data" /\ Idle.stage = "idle" /\ Idle.cookie = 0
  /\ Idle.serial = 0 /\ Idle.ok = FALSE
BY BoundsAssumption DEF Idle, Calls, Kinds, Tokens

LEMMA RestoringCall ==
  /\ Restoring \in Calls /\ Restoring.kind = "restore" /\ Restoring.stage = "waiting"
  /\ Restoring.cookie = 0 /\ Restoring.serial = 0 /\ Restoring.ok = FALSE
<1> DEFINE c == [Idle EXCEPT !.kind = "restore"]
<1>1. Restoring = [c EXCEPT !.stage = "waiting"]
  BY DEF Restoring
<1>2. /\ c \in Calls /\ c.kind = "restore" /\ c.cookie = 0 /\ c.serial = 0 /\ c.ok = FALSE
  BY IdleCall DEF Calls, Kinds
<1> HIDE DEF c
<1>3. QED
  BY <1>1, <1>2 DEF Calls

LEMMA NewRefreshShape ==
  ASSUME NEW sent \in Tokens, NEW before \in Tokens, NEW r, r = NewRefresh(sent, before)
  PROVE  r \in Refreshes /\ r.cookie = sent /\ r.serial = 0
BY BoundsAssumption DEF NewRefresh, Refreshes, Tokens

\* One call of a tab changes.
LEMMA OneCall ==
  ASSUME calls \in [Tabs -> [Slots -> Calls]], NEW t \in Tabs, NEW s \in Slots, NEW c \in Calls,
         calls' = [calls EXCEPT ![t][s] = c]
  PROVE  calls' \in [Tabs -> [Slots -> Calls]]
<1> DEFINE C == [calls[t] EXCEPT ![s] = c]
<1>1. C \in [Slots -> Calls]
  OBVIOUS
<1>2. calls' = [calls EXCEPT ![t] = C]
  OBVIOUS
<1> HIDE DEF C
<1>3. QED
  BY <1>1, <1>2

\* A call that a refresh resumes: it is as it was, is over, or is sent again.
LEMMA ResumedCall ==
  ASSUME NEW c \in Calls, NEW new \in Tokens, NEW sent \in Tokens,
         NEW d, d = Resumed(c, new, sent)
  PROVE  /\ d \in Calls /\ d.stage # "waiting"
         /\ c.stage # "waiting" => d = c
         /\ c.stage = "waiting" => d.serial = 0 /\ d.cookie \in {0, sent}
<1>1. CASE c.stage # "waiting"
  BY <1>1 DEF Resumed
<1>2. CASE c.stage = "waiting" /\ new = 0
  BY <1>2, IdleCall DEF Resumed
<1>3. CASE c.stage = "waiting" /\ new # 0
  <2> DEFINE k  == IF c.kind = "restore" THEN "me" ELSE c.kind
             b  == c.kind # "restore"
             cc == IF k = "logout" THEN sent ELSE 0
  <2>1. k \in Kinds /\ b \in BOOLEAN /\ c.account \in Accounts \cup {Nobody} /\ cc \in Tokens
    BY BoundsAssumption DEF Calls, Kinds, Tokens
  <2>2. d = [kind |-> k, account |-> c.account, stage |-> "sent", retry |-> b, bearer |-> new,
             cookie |-> cc, ok |-> FALSE, serial |-> 0]
    BY <1>3 DEF Resumed, Send
  <2>3. cc \in {0, sent}
    OBVIOUS
  <2> HIDE DEF k, b, cc
  <2>4. d \in Calls
    BY <2>1, <2>2, BoundsAssumption DEF Calls, Tokens
  <2>5. d.stage = "sent" /\ d.serial = 0 /\ d.ok = FALSE /\ d.cookie = cc
    BY <2>2
  <2>6. QED
    BY <1>3, <2>3, <2>4, <2>5
<1>4. QED
  BY <1>1, <1>2, <1>3

-----------------------------------------------------------------------------
(* What the kinds of step do to the invariant, types apart.                 *)

Bonds ==
  /\ OneRefresh /\ NobodyWaitsAlone /\ Within /\ Brought
  /\ SerialsUnseen /\ SerialsApart /\ RotationsTold /\ CookieReplaced

\* A sign-out that the API has handled, and that clears the cookie when it arrives.
SignsOut(c) == c.kind = "logout" /\ c.stage = "answered" /\ c.ok

Ledger == <<issued, owner, revoked, rotatedBy>>

\* One call changes and carries no serial; when it was a sign-out that the API
\* handled, the cookie is cleared or the token it used up is wasted.
LEMMA CallBonds ==
  ASSUME TypeOK, Bonds, NEW t \in Tabs, NEW s \in Slots, NEW c \in Calls,
         calls' = [calls EXCEPT ![t][s] = c], UNCHANGED <<Ledger, refreshes>>,
         c.serial = 0, c.stage # "waiting", c.cookie \in {0, cookie, calls[t][s].cookie},
         cookie' \in {0, cookie}, wasted \subseteq wasted',
         s = "door" /\ SignsOut(calls[t][s]) /\ calls[t][s].cookie = cookie /\ cookie' # 0
           /\ cookie \in revoked => cookie \in wasted'
  PROVE  Bonds'
<1> USE DEF TypeOK, Bonds, Ledger, Door
<1>1. \A u \in Tabs, x \in Slots : calls'[u][x] = IF u = t /\ x = s THEN c ELSE calls[u][x]
  OBVIOUS
<1>2. "door" \in Slots
  BY DEF Slots
<1>3. OneRefresh' /\ NobodyWaitsAlone'
  BY <1>1 DEF OneRefresh, NobodyWaitsAlone
<1>4. Within'
  BY <1>1, BoundsAssumption DEF Within, Tokens, Calls
<1>5. Brought'
  <2>1. issued' = issued /\ owner' = owner /\ revoked' = revoked
    OBVIOUS
  <2>2. \A u \in Tabs : \A r \in refreshes[u] : r.serial # 0 =>
          /\ r.answered /\ r.cookie \in revoked /\ owner[r.serial] = owner[r.cookie]
          /\ r.serial \in revoked => r.serial \in wasted' /\ r.cookie \in wasted'
    BY DEF Brought
  <2>3. ASSUME NEW u \in Tabs, NEW x \in Slots, calls'[u][x].serial # 0
        PROVE  /\ x = "door" /\ calls'[u][x].kind \in {"login", "register"}
               /\ calls'[u][x].stage = "answered" /\ calls'[u][x].ok
               /\ calls'[u][x].serial \in revoked => calls'[u][x].serial \in wasted'
    <3>1. calls'[u][x] = calls[u][x]
      BY <1>1, <2>3
    <3>2. QED
      BY <2>3, <3>1 DEF Brought
  <2>4. QED
    BY <2>1, <2>2, <2>3 DEF Brought
<1>6. SerialsUnseen'
  <2>1. ASSUME NEW n, n # 0, Unseen(n) PROVE n # cookie' /\ \A u \in Tabs : calls'[u]["door"].cookie # n
    BY <1>1, <1>2, <2>1 DEF Unseen
  <2>2. ASSUME NEW n, n # 0, Unseen(n) PROVE Unseen(n)'
    BY <2>1, <2>2 DEF Unseen
  <2>3. QED
    BY <1>1, <1>2, <2>2 DEF SerialsUnseen
<1>7. SerialsApart'
  BY <1>1, <1>2 DEF SerialsApart
<1>8. RotationsTold'
  BY DEF RotationsTold, Serials
<1>9. CookieReplaced'
  BY <1>1, <1>2 DEF CookieReplaced, SignsOut
<1>10. QED
  BY <1>3, <1>4, <1>5, <1>6, <1>7, <1>8, <1>9

\* The next serial is new to everybody.
LEMMA NextSerial ==
  ASSUME TypeOK, Bonds, issued < MaxIssued
  PROVE  /\ issued + 1 \in Serials /\ issued + 1 \notin revoked /\ issued + 1 # 0
         /\ Unseen(issued + 1)
         /\ \A t \in Tabs : \A r \in refreshes[t] : r.serial # issued + 1
         /\ \A t \in Tabs : Door(t).serial # issued + 1
<1> USE DEF TypeOK, Bonds, Tokens, Serials
<1> USE BoundsAssumption
<1>1. issued \in Nat /\ cookie \in Nat /\ cookie <= issued
  OBVIOUS
<1>2. issued + 1 \in Serials /\ issued + 1 \notin revoked
  BY <1>1
<1>3. \A t \in Tabs : \A r \in refreshes[t] : r.cookie \in Nat /\ r.serial \in Nat
  BY DEF Refreshes
<1>4. \A t \in Tabs : Door(t).cookie \in Nat /\ Door(t).serial \in Nat
  BY DEF Calls, Slots, Door
<1>5. "door" \in Slots
  BY DEF Slots
<1>6. \A t \in Tabs : \A r \in refreshes[t] : r.cookie # issued + 1 /\ r.serial # issued + 1
  BY <1>1, <1>3 DEF Within
<1>7. \A t \in Tabs : Door(t).cookie # issued + 1 /\ Door(t).serial # issued + 1
  BY <1>1, <1>4, <1>5 DEF Within, Door
<1>8. rotatedBy[issued + 1] = {}
  BY <1>2 DEF Within
<1>9. QED
  BY <1>1, <1>2, <1>6, <1>7, <1>8 DEF Unseen

\* RefreshView rotates a live token.
LEMMA RotateBonds ==
  ASSUME TypeOK, Bonds, NEW t \in Tabs, NEW r \in refreshes[t], NEW q \in Refreshes,
         ~r.answered, r.cookie # 0, r.cookie \notin revoked, Issue(owner[r.cookie]),
         q.cookie = r.cookie, q.answered, q.serial = issued + 1,
         revoked' = revoked \cup {r.cookie},
         rotatedBy' = [rotatedBy EXCEPT ![r.cookie] = @ \cup {t}],
         refreshes' = [refreshes EXCEPT ![t] = (@ \ {r}) \cup {q}],
         UNCHANGED <<cookie, wasted, calls>>
  PROVE  Bonds'
<1> USE DEF TypeOK, Bonds, Door
<1>1. refreshes[t] = {r} /\ refreshes'[t] = {q} /\ \A u \in Tabs \ {t} : refreshes'[u] = refreshes[u]
  BY DEF OneRefresh
<1>2. /\ issued + 1 \in Serials /\ issued + 1 \notin revoked /\ issued + 1 # 0
      /\ Unseen(issued + 1)
      /\ \A u \in Tabs : \A x \in refreshes[u] : x.serial # issued + 1
      /\ \A u \in Tabs : calls[u]["door"].serial # issued + 1
      /\ issued' = issued + 1
  BY NextSerial DEF Issue
<1>3. r.cookie \in Serials /\ r.cookie # issued + 1 /\ r.cookie <= issued /\ r.cookie \in Nat
  BY <1>2, BoundsAssumption DEF Refreshes, Tokens, Serials, Within, Unseen
<1>4. owner' = [owner EXCEPT ![issued + 1] = owner[r.cookie]] /\ issued \in Nat
  BY BoundsAssumption DEF Issue, Tokens
<1>5. \A n \in Serials : rotatedBy'[n] = IF n = r.cookie THEN rotatedBy[n] \cup {t} ELSE rotatedBy[n]
  OBVIOUS
<1>6. "door" \in Slots
  BY DEF Slots
<1>7. OneRefresh' /\ NobodyWaitsAlone'
  BY <1>1 DEF OneRefresh, NobodyWaitsAlone
<1>8. Within'
  <2>1. \A u \in Tabs : \A x \in refreshes'[u] : x.cookie <= issued + 1 /\ x.serial <= issued + 1
    BY <1>1, <1>3, <1>4, BoundsAssumption DEF Within, Refreshes, Tokens
  <2>2. \A u \in Tabs : \A s \in Slots : calls[u][s].cookie <= issued + 1 /\ calls[u][s].serial <= issued + 1
    BY <1>4, BoundsAssumption DEF Within, Calls, Tokens
  <2>3. \A n \in Serials : rotatedBy'[n] # {} => n \in revoked'
    BY <1>5 DEF Within
  <2>4. QED
    BY <1>2, <2>1, <2>2, <2>3 DEF Within
<1>9. Brought'
  <2>1. ASSUME NEW u \in Tabs, NEW x \in refreshes'[u], x.serial # 0
        PROVE  /\ x.answered /\ x.cookie \in revoked' /\ owner'[x.serial] = owner'[x.cookie]
               /\ x.serial \in revoked' => x.serial \in wasted /\ x.cookie \in wasted
    <3>1. CASE u = t
      BY <1>1, <1>2, <1>3, <1>4, <3>1
    <3>2. CASE u # t
      <4>1. x \in refreshes[u] /\ x \in Refreshes
        BY <1>1, <2>1, <3>2
      <4>2. x.serial # r.cookie
        BY <2>1, <4>1 DEF SerialsUnseen, Unseen
      <4>3. x.serial # issued + 1 /\ x.cookie # issued + 1
        BY <1>2, <4>1 DEF Unseen
      <4>4. owner'[x.serial] = owner[x.serial] /\ owner'[x.cookie] = owner[x.cookie]
        BY <1>4, <2>1, <4>1, <4>3 DEF Brought, Refreshes, Serials, Tokens
      <4>5. QED
        BY <2>1, <4>1, <4>2, <4>4 DEF Brought
    <3>3. QED
      BY <3>1, <3>2
  <2>2. \A u \in Tabs : calls[u]["door"].serial # 0 => calls[u]["door"].serial # r.cookie
    BY DEF SerialsUnseen, Unseen
  <2>3. QED
    BY <2>1, <2>2 DEF Brought
<1>10. ASSUME NEW n, n # issued + 1, n \in Serials, Unseen(n) PROVE Unseen(n)'
  BY <1>1, <1>5, <1>10 DEF Unseen
<1>11. Unseen(q.serial)'
  BY <1>1, <1>2, <1>3, <1>5 DEF Unseen
<1>12. SerialsUnseen'
  <2>1. \A u \in Tabs \ {t} : \A x \in refreshes[u] : x.serial # 0 => x.serial \in Serials
    BY BoundsAssumption DEF Refreshes, Tokens, Serials
  <2>2. \A u \in Tabs : calls[u]["door"].serial # 0 => calls[u]["door"].serial \in Serials
    BY <1>6, BoundsAssumption DEF Calls, Tokens, Serials
  <2>3. \A u \in Tabs \ {t} : \A x \in refreshes[u] : x.serial # 0 => Unseen(x.serial)'
    BY <1>2, <1>10, <2>1 DEF SerialsUnseen
  <2>4. \A u \in Tabs : calls[u]["door"].serial # 0 => Unseen(calls[u]["door"].serial)'
    BY <1>2, <1>10, <2>2 DEF SerialsUnseen
  <2>5. QED
    BY <1>1, <1>11, <2>3, <2>4 DEF SerialsUnseen, Unseen
<1>13. SerialsApart'
  BY <1>1, <1>2 DEF SerialsApart
<1>14. RotationsTold'
  BY <1>1, <1>2, <1>5 DEF RotationsTold
<1>15. CookieReplaced'
  BY <1>1, <1>2 DEF CookieReplaced
<1>16. QED
  BY <1>7, <1>8, <1>9, <1>12, <1>13, <1>14, <1>15

\* The requests of tab t become Q and its calls C while the ledger stays:
\* refreshes end, are answered with a refusal or start with the cookie; calls go
\* on with it.  A rotation that is no longer on its way has set the cookie, or
\* is wasted.
TabMoves(t, Q, C) ==
  /\ Q \in SUBSET Refreshes /\ C \in [Slots -> Calls]
  /\ refreshes' = [refreshes EXCEPT ![t] = Q] /\ calls' = [calls EXCEPT ![t] = C]
  /\ UNCHANGED Ledger /\ wasted \subseteq wasted'
  /\ \A q, p \in Q : q = p
  /\ \A q \in Q : \/ q \in refreshes[t]
                  \/ q.serial = 0 /\ \/ q.cookie = cookie'
                                     \/ \E r \in refreshes[t] : q.cookie = r.cookie
  /\ \A s \in Slots : \/ C[s] = calls[t][s]
                      \/ C[s].serial = 0 /\ C[s].cookie \in {0, cookie', calls[t][s].cookie}
  /\ \A s \in Slots : C[s].stage = "waiting" => Q # {}
  /\ cookie' = cookie \/ \E r \in refreshes[t] : r.serial # 0 /\ cookie' = r.serial
  /\ \A r \in refreshes[t] \ Q : r.serial # 0 =>
        r.cookie \in wasted' \/ (cookie' = r.serial /\ Q = {})
  /\ cookie' # cookie => Q = {}
  /\ SignsOut(calls[t]["door"]) /\ C["door"] # calls[t]["door"]
       /\ calls[t]["door"].cookie = cookie /\ cookie \in revoked /\ cookie' = cookie
         => cookie \in wasted'

LEMMA TabBonds ==
  ASSUME TypeOK, Bonds, NEW t \in Tabs, NEW Q, NEW C, TabMoves(t, Q, C)
  PROVE  Bonds'
<1> USE DEF TabMoves
<1> USE DEF TypeOK, Bonds, Ledger, Door
<1>1. /\ refreshes'[t] = Q /\ \A u \in Tabs \ {t} : refreshes'[u] = refreshes[u]
      /\ calls'[t] = C /\ \A u \in Tabs \ {t} : calls'[u] = calls[u]
      /\ issued' = issued /\ owner' = owner /\ revoked' = revoked /\ rotatedBy' = rotatedBy
  OBVIOUS
<1>2. "door" \in Slots
  BY DEF Slots
<1>3. OneRefresh' /\ NobodyWaitsAlone'
  BY <1>1 DEF OneRefresh, NobodyWaitsAlone
<1>4. cookie' \in Nat /\ cookie' <= issued /\ issued \in Nat
  BY BoundsAssumption DEF Within, Tokens, Refreshes
<1>5. Within'
  <2>1. ASSUME NEW q \in Q PROVE q.cookie <= issued /\ q.serial <= issued
    <3>1. CASE q \in refreshes[t]
      BY <3>1 DEF Within
    <3>2. CASE q.serial = 0 /\ q.cookie = cookie'
      BY <1>4, <3>2
    <3>3. CASE q.serial = 0 /\ \E r \in refreshes[t] : q.cookie = r.cookie
      BY <1>4, <3>3 DEF Within
    <3>4. QED
      BY <3>1, <3>2, <3>3
  <2>2. \A s \in Slots : C[s].cookie <= issued /\ C[s].serial <= issued
    BY <1>4 DEF Within
  <2>3. QED
    BY <1>1, <2>1, <2>2 DEF Within
<1>6. Brought'
  <2>1. ASSUME NEW u \in Tabs, NEW r \in refreshes'[u], r.serial # 0 PROVE r \in refreshes[u]
    BY <1>1, <2>1
  <2>2. ASSUME NEW u \in Tabs, NEW r \in refreshes'[u], r.serial # 0
        PROVE  /\ r.answered /\ r.cookie \in revoked /\ owner[r.serial] = owner[r.cookie]
               /\ r.serial \in revoked => r.serial \in wasted' /\ r.cookie \in wasted'
    <3>1. r \in refreshes[u]
      BY <2>1, <2>2
    <3>2. /\ r.answered /\ r.cookie \in revoked /\ owner[r.serial] = owner[r.cookie]
          /\ r.serial \in revoked => r.serial \in wasted /\ r.cookie \in wasted
      BY <2>2, <3>1 DEF Brought
    <3>3. QED
      BY <3>2
  <2>3. ASSUME NEW u \in Tabs, NEW x \in Slots, calls'[u][x].serial # 0
        PROVE  /\ x = "door" /\ calls'[u][x].kind \in {"login", "register"}
               /\ calls'[u][x].stage = "answered" /\ calls'[u][x].ok
               /\ calls'[u][x].serial \in revoked => calls'[u][x].serial \in wasted'
    <3>1. calls'[u][x] = calls[u][x]
      BY <1>1, <2>3
    <3>2. /\ x = "door" /\ calls[u][x].kind \in {"login", "register"}
          /\ calls[u][x].stage = "answered" /\ calls[u][x].ok
          /\ calls[u][x].serial \in revoked => calls[u][x].serial \in wasted
      BY <2>3, <3>1 DEF Brought
    <3>3. QED
      BY <3>1, <3>2
  <2>4. QED
    BY <1>1, <2>2, <2>3 DEF Brought
<1>7. ASSUME NEW n, n # 0, Unseen(n), n # cookie' PROVE Unseen(n)'
  <2>1. \A q \in Q : q.cookie # n
    BY <1>7 DEF Unseen
  <2>2. C["door"].cookie # n
    BY <1>2, <1>7 DEF Unseen
  <2>3. QED
    BY <1>1, <1>7, <2>1, <2>2 DEF Unseen
<1>8. SerialsUnseen'
  <2>1. ASSUME NEW u \in Tabs, NEW r \in refreshes'[u], r.serial # 0 PROVE Unseen(r.serial)'
    <3>1. r \in refreshes[u] /\ Unseen(r.serial)
      BY <1>1, <2>1 DEF SerialsUnseen
    <3>2. r.serial # cookie'
      <4>1. CASE cookie' = cookie
        BY <3>1, <4>1 DEF Unseen
      <4>2. CASE cookie' # cookie
        BY <1>1, <2>1, <3>1, <4>2 DEF SerialsApart
      <4>3. QED
        BY <4>1, <4>2
    <3>3. QED
      BY <1>7, <2>1, <3>1, <3>2
  <2>2. ASSUME NEW u \in Tabs, NEW n, n = calls'[u]["door"].serial, n # 0 PROVE Unseen(n)'
    <3>1. calls'[u]["door"] = calls[u]["door"]
      BY <1>1, <1>2, <2>2
    <3>2. Unseen(n)
      BY <2>2, <3>1 DEF SerialsUnseen
    <3>3. n # cookie'
      BY <2>2, <3>1, <3>2 DEF SerialsApart, Unseen
    <3>4. QED
      BY <1>7, <2>2, <3>2, <3>3
  <2>3. QED
    BY <2>1, <2>2 DEF SerialsUnseen, Unseen
<1>9. SerialsApart'
  BY <1>1, <1>2 DEF SerialsApart
<1>10. \A n \in Serials : rotatedBy[n] # {} /\ n # cookie => n # cookie'
  BY DEF SerialsUnseen, Unseen
<1>11. RotationsTold'
  <2>1. SUFFICES ASSUME NEW u \in Tabs, NEW n \in Serials, u \in rotatedBy[n], n \notin wasted'
                 PROVE  \/ \E r \in refreshes'[u] : r.serial # 0 /\ r.cookie = n
                        \/ n # cookie' /\ \A r \in refreshes'[u] : r.cookie # n
    BY <1>1 DEF RotationsTold
  <2>2. CASE \E r \in refreshes[u] : r.serial # 0 /\ r.cookie = n
    <3>1. PICK r \in refreshes[u] : r.serial # 0 /\ r.cookie = n
      BY <2>2
    <3>2. CASE r \in refreshes'[u]
      BY <3>1, <3>2
    <3>3. CASE r \notin refreshes'[u]
      <4>1. u = t /\ cookie' = r.serial /\ Q = {}
        BY <1>1, <2>1, <3>1, <3>3
      <4>2. n # r.serial
        BY <2>1, <3>1 DEF SerialsUnseen, Unseen
      <4>3. QED
        BY <1>1, <4>1, <4>2
    <3>4. QED
      BY <3>2, <3>3
  <2>3. CASE n # cookie /\ \A r \in refreshes[u] : r.cookie # n
    <3>1. n # cookie'
      BY <1>10, <2>1, <2>3
    <3>2. ASSUME NEW q \in refreshes'[u] PROVE q.cookie # n
      <4>1. CASE u = t
        BY <1>1, <2>3, <3>1, <4>1
      <4>2. CASE u # t
        BY <1>1, <2>3, <4>2
      <4>3. QED
        BY <4>1, <4>2
    <3>3. QED
      BY <3>1, <3>2
  <2>4. \/ \E r \in refreshes[u] : r.serial # 0 /\ r.cookie = n
        \/ n # cookie /\ \A r \in refreshes[u] : r.cookie # n
    BY <2>1 DEF RotationsTold
  <2>5. QED
    BY <2>2, <2>3, <2>4
<1>12. CookieReplaced'
  <2>1. SUFFICES ASSUME cookie' \in revoked, cookie' \notin wasted'
                 PROVE  \/ \E u \in Tabs : \E r \in refreshes'[u] : r.serial # 0 /\ r.cookie = cookie'
                        \/ \E u \in Tabs : /\ calls'[u]["door"].kind = "logout"
                                           /\ calls'[u]["door"].stage = "answered" /\ calls'[u]["door"].ok
                                           /\ calls'[u]["door"].cookie = cookie'
    BY <1>1 DEF CookieReplaced
  <2>2. cookie' = cookie
    BY <2>1 DEF Brought
  <2>3. CASE \E u \in Tabs : \E r \in refreshes[u] : r.serial # 0 /\ r.cookie = cookie
    <3>1. PICK u \in Tabs : \E r \in refreshes[u] : r.serial # 0 /\ r.cookie = cookie
      BY <2>3
    <3>2. PICK r \in refreshes[u] : r.serial # 0 /\ r.cookie = cookie
      BY <3>1
    <3>3. r.serial # cookie
      BY <3>2 DEF SerialsUnseen, Unseen
    <3>4. r \in refreshes'[u]
      BY <1>1, <2>1, <2>2, <3>2, <3>3
    <3>5. QED
      BY <2>2, <3>2, <3>4
  <2>4. CASE \E u \in Tabs : SignsOut(calls[u]["door"]) /\ calls[u]["door"].cookie = cookie
    <3>1. PICK u \in Tabs : SignsOut(calls[u]["door"]) /\ calls[u]["door"].cookie = cookie
      BY <2>4
    <3>2. calls'[u]["door"] = calls[u]["door"]
      BY <1>1, <2>1, <2>2, <3>1
    <3>3. QED
      BY <2>2, <3>1, <3>2 DEF SignsOut
  <2>5. QED
    BY <2>1, <2>2, <2>3, <2>4 DEF CookieReplaced, SignsOut
<1>13. QED
  BY <1>3, <1>5, <1>6, <1>8, <1>9, <1>11, <1>12

\* A sign-in is answered with the next pair of tokens.
LEMMA IssueBonds ==
  ASSUME TypeOK, Bonds, NEW t \in Tabs, NEW a, NEW c \in Calls, Issue(a),
         calls[t]["door"].stage = "sent",
         calls' = [calls EXCEPT ![t]["door"] = c],
         c.kind \in {"login", "register"}, c.stage = "answered", c.ok,
         c.serial = issued + 1, c.cookie = calls[t]["door"].cookie,
         UNCHANGED <<revoked, rotatedBy, refreshes, cookie, wasted>>
  PROVE  Bonds'
<1> USE DEF TypeOK, Bonds, Door
<1>1. "door" \in Slots
  BY DEF Slots
<1>2. /\ calls'[t]["door"] = c
      /\ \A u \in Tabs, s \in Slots : u # t \/ s # "door" => calls'[u][s] = calls[u][s]
      /\ \A u \in Tabs, s \in Slots : calls'[u][s].cookie = calls[u][s].cookie
      /\ \A u \in Tabs, s \in Slots : calls'[u][s].stage = "waiting" => calls[u][s].stage = "waiting"
  BY <1>1
<1>3. /\ issued + 1 \in Serials /\ issued + 1 \notin revoked /\ issued + 1 # 0
      /\ Unseen(issued + 1)
      /\ \A u \in Tabs : \A x \in refreshes[u] : x.serial # issued + 1
      /\ \A u \in Tabs : calls[u]["door"].serial # issued + 1
      /\ issued' = issued + 1
  BY NextSerial DEF Issue
<1>4. owner' = [owner EXCEPT ![issued + 1] = a] /\ issued \in Nat
  BY BoundsAssumption DEF Issue, Tokens
<1>5. OneRefresh' /\ NobodyWaitsAlone'
  BY <1>2 DEF OneRefresh, NobodyWaitsAlone
<1>6. Within'
  <2>1. \A u \in Tabs : \A x \in refreshes[u] : x.cookie <= issued + 1 /\ x.serial <= issued + 1
    BY <1>4, BoundsAssumption DEF Within, Refreshes, Tokens
  <2>2. \A u \in Tabs : \A s \in Slots : calls[u][s].cookie <= issued + 1 /\ calls[u][s].serial <= issued + 1
    BY <1>4, BoundsAssumption DEF Within, Calls, Tokens
  <2>3. \A u \in Tabs : \A s \in Slots : calls'[u][s].cookie <= issued + 1 /\ calls'[u][s].serial <= issued + 1
    BY <1>2, <1>4, <2>2
  <2>4. QED
    BY <1>3, <2>1, <2>3 DEF Within
<1>7. Brought'
  <2>1. ASSUME NEW u \in Tabs, NEW r \in refreshes[u], r.serial # 0
        PROVE  owner'[r.serial] = owner'[r.cookie]
    <3>1. owner[r.serial] = owner[r.cookie] /\ r.cookie \in revoked
      BY <2>1 DEF Brought
    <3>2. r.serial # issued + 1 /\ r.cookie # issued + 1
      BY <1>3, <3>1
    <3>3. r.serial \in Serials /\ r.cookie \in Serials
      BY <2>1, <3>1, BoundsAssumption DEF Refreshes, Tokens, Serials
    <3>4. QED
      BY <1>4, <3>1, <3>2, <3>3
  <2>2. ASSUME NEW u \in Tabs, NEW s \in Slots, calls'[u][s].serial # 0
        PROVE  /\ s = "door" /\ calls'[u][s].kind \in {"login", "register"}
               /\ calls'[u][s].stage = "answered" /\ calls'[u][s].ok
               /\ calls'[u][s].serial \in revoked => calls'[u][s].serial \in wasted
    <3>1. CASE u = t /\ s = "door"
      BY <1>2, <1>3, <3>1
    <3>2. CASE u # t \/ s # "door"
      <4>1. calls'[u][s] = calls[u][s]
        BY <1>2, <3>2
      <4>2. /\ s = "door" /\ calls[u][s].kind \in {"login", "register"}
            /\ calls[u][s].stage = "answered" /\ calls[u][s].ok
            /\ calls[u][s].serial \in revoked => calls[u][s].serial \in wasted
        BY <2>2, <4>1 DEF Brought
      <4>3. QED
        BY <4>1, <4>2
    <3>3. QED
      BY <3>1, <3>2
  <2>3. ASSUME NEW u \in Tabs, NEW r \in refreshes[u], r.serial # 0
        PROVE  /\ r.answered /\ r.cookie \in revoked
               /\ r.serial \in revoked => r.serial \in wasted /\ r.cookie \in wasted
    BY <2>3 DEF Brought
  <2>4. QED
    BY <2>1, <2>2, <2>3 DEF Brought
<1>8. ASSUME NEW n, Unseen(n) PROVE Unseen(n)'
  BY <1>1, <1>2, <1>8 DEF Unseen
<1>9. SerialsUnseen'
  <2>1. ASSUME NEW u \in Tabs, NEW n, n = calls'[u]["door"].serial, n # 0 PROVE Unseen(n)'
    <3>1. Unseen(n)
      BY <1>1, <1>2, <1>3, <2>1 DEF SerialsUnseen
    <3>2. QED
      BY <1>8, <3>1
  <2>2. ASSUME NEW u \in Tabs, NEW r \in refreshes'[u], r.serial # 0 PROVE Unseen(r.serial)'
    BY <1>8, <2>2 DEF SerialsUnseen
  <2>3. QED
    BY <2>1, <2>2 DEF SerialsUnseen, Unseen
<1>10. SerialsApart'
  BY <1>1, <1>2, <1>3 DEF SerialsApart
<1>11. RotationsTold'
  BY DEF RotationsTold
<1>12. CookieReplaced'
  BY <1>1, <1>2 DEF CookieReplaced
<1>13. QED
  BY <1>5, <1>6, <1>7, <1>9, <1>10, <1>11, <1>12

\* The answer of a sign-in sets the cookie it brought.
LEMMA SignedInBonds ==
  ASSUME TypeOK, Bonds, NEW t \in Tabs, NEW c \in Calls,
         calls[t]["door"].serial # 0,
         cookie' = calls[t]["door"].serial,
         calls' = [calls EXCEPT ![t]["door"] = c],
         c.serial = 0, c.stage # "waiting", c.cookie \in {0, cookie'},
         UNCHANGED <<Ledger, refreshes, wasted>>
  PROVE  Bonds'
<1> USE DEF TypeOK, Bonds, Door, Ledger
<1>1. "door" \in Slots
  BY DEF Slots
<1>2. /\ calls'[t]["door"] = c
      /\ \A u \in Tabs, s \in Slots : u # t \/ s # "door" => calls'[u][s] = calls[u][s]
      /\ issued' = issued /\ owner' = owner /\ revoked' = revoked /\ rotatedBy' = rotatedBy
  BY <1>1
<1>3. Unseen(cookie')
  BY DEF SerialsUnseen
<1>4. OneRefresh' /\ NobodyWaitsAlone'
  BY <1>2 DEF OneRefresh, NobodyWaitsAlone
<1>5. Within'
  <2>1. cookie' <= issued /\ 0 <= issued
    BY <1>1, BoundsAssumption DEF Within, Tokens
  <2>2. QED
    BY <1>2, <2>1 DEF Within
<1>6. Brought'
  <2>1. ASSUME NEW u \in Tabs, NEW s \in Slots, calls'[u][s].serial # 0
        PROVE  /\ s = "door" /\ calls'[u][s].kind \in {"login", "register"}
               /\ calls'[u][s].stage = "answered" /\ calls'[u][s].ok
               /\ calls'[u][s].serial \in revoked => calls'[u][s].serial \in wasted
    <3>1. calls'[u][s] = calls[u][s]
      BY <1>2, <2>1
    <3>2. /\ s = "door" /\ calls[u][s].kind \in {"login", "register"}
          /\ calls[u][s].stage = "answered" /\ calls[u][s].ok
          /\ calls[u][s].serial \in revoked => calls[u][s].serial \in wasted
      BY <2>1, <3>1 DEF Brought
    <3>3. QED
      BY <3>1, <3>2
  <2>2. QED
    BY <1>2, <2>1 DEF Brought
<1>7. ASSUME NEW n, n # 0, Unseen(n), n # cookie' PROVE Unseen(n)'
  BY <1>1, <1>2, <1>7 DEF Unseen
<1>8. SerialsUnseen'
  <2>1. ASSUME NEW u \in Tabs, NEW n, n = calls'[u]["door"].serial, n # 0 PROVE Unseen(n)'
    <3>1. u # t /\ n = calls[u]["door"].serial
      BY <1>1, <1>2, <2>1
    <3>2. n # cookie' /\ Unseen(n)
      BY <2>1, <3>1 DEF SerialsUnseen, SerialsApart
    <3>3. QED
      BY <1>7, <2>1, <3>2
  <2>2. ASSUME NEW u \in Tabs, NEW r \in refreshes'[u], r.serial # 0 PROVE Unseen(r.serial)'
    <3>1. r \in refreshes[u]
      BY <2>2
    <3>2. r.serial # cookie' /\ Unseen(r.serial)
      BY <2>2, <3>1 DEF SerialsUnseen, SerialsApart
    <3>3. QED
      BY <1>7, <2>2, <3>2
  <2>3. QED
    BY <2>1, <2>2 DEF SerialsUnseen, Unseen
<1>9. SerialsApart'
  BY <1>1, <1>2 DEF SerialsApart
<1>10. RotationsTold'
  BY <1>3 DEF RotationsTold, Unseen
<1>11. CookieReplaced'
  BY <1>1 DEF CookieReplaced, Brought
<1>12. QED
  BY <1>4, <1>5, <1>6, <1>8, <1>9, <1>10, <1>11

\* The tokens X are revoked, as a sign-out of tab t or the end of all sessions
\* does: nothing that is on its way is revoked untold, and neither is the cookie.
Revokes(t, X, c) ==
  /\ X \in SUBSET (1..issued) /\ c \in Calls
  /\ revoked' = revoked \cup X /\ wasted \subseteq wasted'
  /\ calls' = [calls EXCEPT ![t]["door"] = c]
  /\ \/ c = calls[t]["door"]
     \/ /\ ~ SignsOut(calls[t]["door"]) /\ c.serial = 0
        /\ c.stage # "waiting" /\ c.cookie = calls[t]["door"].cookie
  /\ \A u \in Tabs : \A r \in refreshes[u] :
        r.serial \in X => r.serial \in wasted' /\ r.cookie \in wasted'
  /\ \A u \in Tabs : calls[u]["door"].serial \in X => calls[u]["door"].serial \in wasted'
  /\ cookie \in X => cookie \in wasted' \/ (SignsOut(c) /\ c.cookie = cookie)
  /\ UNCHANGED <<issued, owner, rotatedBy, refreshes, cookie>>

LEMMA RevokeBonds ==
  ASSUME TypeOK, Bonds, NEW X, NEW t \in Tabs, NEW c, Revokes(t, X, c)
  PROVE  Bonds'
<1> USE DEF Revokes
<1> USE DEF TypeOK, Bonds, Door
<1>1. "door" \in Slots
  BY DEF Slots
<1>2. /\ calls'[t]["door"] = c
      /\ \A u \in Tabs, s \in Slots : u # t \/ s # "door" => calls'[u][s] = calls[u][s]
      /\ \A u \in Tabs, s \in Slots : calls'[u][s].cookie = calls[u][s].cookie
      /\ \A u \in Tabs, s \in Slots : calls'[u][s].serial # 0 => calls'[u][s] = calls[u][s]
      /\ \A u \in Tabs, s \in Slots : calls'[u][s].stage = "waiting" => calls[u][s].stage = "waiting"
  BY <1>1
<1>3. OneRefresh' /\ NobodyWaitsAlone'
  BY <1>2 DEF OneRefresh, NobodyWaitsAlone
<1>4. Within'
  <2>1. 0 <= issued
    BY BoundsAssumption DEF Tokens
  <2>2. ASSUME NEW u \in Tabs, NEW s \in Slots
        PROVE  calls'[u][s].cookie <= issued /\ calls'[u][s].serial <= issued
    BY <1>2, <2>1 DEF Within
  <2>3. QED
    BY <2>2 DEF Within
<1>5. Brought'
  <2>1. ASSUME NEW u \in Tabs, NEW s \in Slots, calls'[u][s].serial # 0
        PROVE  /\ s = "door" /\ calls'[u][s].kind \in {"login", "register"}
               /\ calls'[u][s].stage = "answered" /\ calls'[u][s].ok
               /\ calls'[u][s].serial \in revoked' => calls'[u][s].serial \in wasted'
    <3>1. calls'[u][s] = calls[u][s]
      BY <1>2, <2>1
    <3>2. /\ s = "door" /\ calls[u][s].kind \in {"login", "register"}
          /\ calls[u][s].stage = "answered" /\ calls[u][s].ok
          /\ calls[u][s].serial \in revoked => calls[u][s].serial \in wasted
      BY <2>1, <3>1 DEF Brought
    <3>3. QED
      BY <3>1, <3>2
  <2>2. ASSUME NEW u \in Tabs, NEW r \in refreshes[u], r.serial # 0
        PROVE  /\ r.answered /\ r.cookie \in revoked' /\ owner[r.serial] = owner[r.cookie]
               /\ r.serial \in revoked' => r.serial \in wasted' /\ r.cookie \in wasted'
    <3>1. /\ r.answered /\ r.cookie \in revoked /\ owner[r.serial] = owner[r.cookie]
          /\ r.serial \in revoked => r.serial \in wasted /\ r.cookie \in wasted
      BY <2>2 DEF Brought
    <3>2. QED
      BY <2>2, <3>1
  <2>3. QED
    BY <2>1, <2>2 DEF Brought
<1>6. ASSUME NEW n, Unseen(n) PROVE Unseen(n)'
  BY <1>1, <1>2, <1>6 DEF Unseen
<1>7. SerialsUnseen'
  <2>1. ASSUME NEW u \in Tabs, NEW n, n = calls'[u]["door"].serial, n # 0 PROVE Unseen(n)'
    <3>1. Unseen(n)
      BY <1>1, <1>2, <2>1 DEF SerialsUnseen
    <3>2. QED
      BY <1>6, <3>1
  <2>2. ASSUME NEW u \in Tabs, NEW r \in refreshes'[u], r.serial # 0 PROVE Unseen(r.serial)'
    BY <1>6, <2>2 DEF SerialsUnseen
  <2>3. QED
    BY <2>1, <2>2 DEF SerialsUnseen, Unseen
<1>8. SerialsApart'
  BY <1>1, <1>2 DEF SerialsApart
<1>9. RotationsTold'
  BY DEF RotationsTold
<1>10. CookieReplaced'
  <2>1. ASSUME NEW u \in Tabs, SignsOut(calls[u]["door"]) PROVE calls'[u]["door"] = calls[u]["door"]
    BY <1>1, <1>2, <2>1
  <2>2. QED
    BY <1>2, <2>1 DEF CookieReplaced, SignsOut
<1>11. QED
  BY <1>3, <1>4, <1>5, <1>7, <1>8, <1>9, <1>10

-----------------------------------------------------------------------------
(* The steps.                                                               *)

\* A first request that a tab sends from a free slot.
LEMMA SendStep ==
  ASSUME SInv, NEW t \in Tabs, NEW s \in Slots, NEW kind \in Kinds, NEW a \in Accounts \cup {Nobody},
         calls[t][s].stage = "idle",
         calls' = [calls EXCEPT ![t][s] =
            [kind |-> kind, account |-> a, stage |-> "sent", retry |-> FALSE, bearer |-> token[t],
             cookie |-> IF kind = "logout" THEN cookie ELSE 0, ok |-> FALSE, serial |-> 0]],
         UNCHANGED <<server, cookie, token, user, refreshes, history>>
  PROVE  SInv'
<1> USE DEF server, history
<1>1. token[t] \in Tokens /\ cookie \in Tokens
  BY BoundsAssumption DEF SInv, TypeOK, Tokens
<1> DEFINE cc == IF kind = "logout" THEN cookie ELSE 0
           c  == [kind |-> kind, account |-> a, stage |-> "sent", retry |-> FALSE,
                  bearer |-> token[t], cookie |-> cc, ok |-> FALSE, serial |-> 0]
<1>2. cc \in Tokens /\ cc \in {0, cookie}
  BY <1>1, BoundsAssumption DEF Tokens
<1>3. calls' = [calls EXCEPT ![t][s] = c]
  OBVIOUS
<1> HIDE DEF cc
<1>4. c \in Calls
  BY <1>1, <1>2, BoundsAssumption DEF Calls, Tokens
<1>5. c.serial = 0 /\ c.stage = "sent" /\ c.cookie = cc
  OBVIOUS
<1> HIDE DEF c
<1>6. TypeOK /\ Bonds /\ ~ SignsOut(calls[t][s])
  BY DEF SInv, Bonds, SignsOut
<1>7. UNCHANGED <<Ledger, refreshes>> /\ cookie' = cookie /\ wasted' = wasted
  BY DEF Ledger
<1>8. Bonds'
  BY <1>2, <1>3, <1>4, <1>5, <1>6, <1>7, CallBonds
<1>9. TypeOK'
  <2>1. calls' \in [Tabs -> [Slots -> Calls]]
    BY <1>3, <1>4, <1>6, OneCall DEF TypeOK
  <2>2. QED
    BY <1>6, <2>1 DEF TypeOK
<1>10. QED
  BY <1>8, <1>9 DEF SInv, Bonds

LEMMA PeopleSend ==
  ASSUME SInv, NEW t \in Tabs,
         \/ \E kind \in Kinds, a \in Accounts : SignIn(t, kind, a)
         \/ SignOut(t)
         \/ \E kind \in Kinds : Fetch(t, kind)
  PROVE  SInv'
<1> "door" \in Slots /\ "page" \in Slots /\ "logout" \in Kinds
  BY DEF Slots, Kinds
<1>1. ASSUME NEW kind \in Kinds, NEW a \in Accounts, SignIn(t, kind, a) PROVE SInv'
  BY <1>1, SendStep DEF SignIn, Send, MayCall
<1>2. CASE SignOut(t)
  BY <1>2, SendStep DEF SignOut, Send, MayCall
<1>3. ASSUME NEW kind \in Kinds, Fetch(t, kind) PROVE SInv'
  BY <1>3, SendStep DEF Fetch, Send, MayCall
<1>4. QED
  BY <1>1, <1>2, <1>3

LEMMA ReloadStep ==
  ASSUME SInv, NEW t \in Tabs, Reload(t)
  PROVE  SInv'
<1> DEFINE Q == {NewRefresh(cookie, 0)}
           C == [s \in Slots |-> IF s = "boot" THEN Restoring ELSE Idle]
<1>1. TypeOK /\ Bonds /\ cookie \in Tokens /\ 0 \in Tokens /\ "door" \in Slots
  BY BoundsAssumption DEF SInv, Bonds, TypeOK, Tokens, Slots
<1>2. Q \in SUBSET Refreshes /\ \A q \in Q : q.cookie = cookie /\ q.serial = 0
  <2> DEFINE r == NewRefresh(cookie, 0)
  <2>1. r = NewRefresh(cookie, 0) /\ Q = {r}
    OBVIOUS
  <2> HIDE DEF r, Q
  <2>2. r \in Refreshes /\ r.cookie = cookie /\ r.serial = 0
    BY <1>1, <2>1, NewRefreshShape
  <2>3. QED
    BY <2>1, <2>2
<1>3. /\ C \in [Slots -> Calls] /\ \A s \in Slots : C[s].serial = 0 /\ C[s].cookie = 0
  BY IdleCall, RestoringCall
<1>4. /\ refreshes' = [refreshes EXCEPT ![t] = Q] /\ calls' = [calls EXCEPT ![t] = C]
      /\ cookie' = cookie /\ UNCHANGED <<Ledger, lapsed>>
      /\ token' = [token EXCEPT ![t] = 0] /\ user' = [user EXCEPT ![t] = Nobody]
      /\ signedOut' = signedOut \ {t}
      /\ wasted \subseteq wasted' /\ wasted' \subseteq wasted \cup revoked
  BY DEF Reload, server, Ledger
<1>5. Q # {} /\ \A q, p \in Q : q = p
  OBVIOUS
<1> HIDE DEF Q, C
<1>6. \A r \in refreshes[t] \ Q : r.serial # 0 => r.cookie \in wasted'
  BY <1>1 DEF Reload, Untold, Bonds, Brought
<1>7. SignsOut(calls[t]["door"]) /\ calls[t]["door"].cookie = cookie /\ cookie \in revoked
        => cookie \in wasted'
  BY <1>1 DEF Reload, Untold, SignsOut
<1>8. \A s \in Slots : C[s].stage = "waiting" => Q # {}
  BY <1>5
<1>9. TabMoves(t, Q, C)
  BY <1>1, <1>2, <1>3, <1>4, <1>5, <1>6, <1>7, <1>8 DEF TabMoves
<1>10. Bonds'
  BY <1>1, <1>9, TabBonds
<1>11. TypeOK'
  BY <1>1, <1>2, <1>3, <1>4 DEF TypeOK, Ledger
<1>12. QED
  BY <1>10, <1>11 DEF SInv, Bonds

LEMMA LapseStep ==
  ASSUME SInv, NEW n, Lapse(n)
  PROVE  SInv'
<1>1. TypeOK'
  BY DEF SInv, TypeOK, Lapse, history
<1>2. QED
  BY <1>1 DEF SInv, OneRefresh, NobodyWaitsAlone, Within, Brought, Unseen, SerialsUnseen, Door,
              SerialsApart, RotationsTold, CookieReplaced, Lapse, history

LEMMA IssueTypes ==
  ASSUME TypeOK, NEW a \in Accounts \cup {Nobody}, Issue(a)
  PROVE  /\ issued' \in Tokens /\ 1..issued \subseteq 1..issued' /\ 0..issued \subseteq 0..issued'
         /\ owner' \in [Serials -> Accounts \cup {Nobody}]
BY BoundsAssumption DEF TypeOK, Issue, Tokens, Serials

LEMMA HandleRefreshStep ==
  ASSUME SInv, NEW t \in Tabs, NEW r \in refreshes[t], HandleRefresh(t, r)
  PROVE  SInv'
<1>1. /\ TypeOK /\ Bonds /\ r \in Refreshes /\ ~r.answered /\ r.serial = 0
      /\ UNCHANGED <<lapsed, cookie, token, user, calls, wasted, signedOut>>
  BY DEF SInv, Bonds, TypeOK, HandleRefresh, Brought
<1>2. CASE /\ r.cookie # 0 /\ r.cookie \notin revoked
           /\ Issue(owner[r.cookie])
           /\ revoked' = revoked \cup {r.cookie}
           /\ rotatedBy' = [rotatedBy EXCEPT ![r.cookie] = @ \cup {t}]
           /\ refreshes' = [refreshes EXCEPT ![t] = (@ \ {r}) \cup
                 {[r EXCEPT !.answered = TRUE, !.serial = issued + 1]}]
  <2> DEFINE q == [r EXCEPT !.answered = TRUE, !.serial = issued + 1]
  <2>1. issued + 1 \in Tokens /\ r.cookie \in Serials /\ r.cookie \in 1..issued
    BY <1>1, <1>2, BoundsAssumption DEF Issue, TypeOK, Tokens, Serials, Refreshes, Bonds, Within
  <2>2. q \in Refreshes /\ q.cookie = r.cookie /\ q.answered /\ q.serial = issued + 1
    BY <1>1, <2>1 DEF Refreshes
  <2>3. refreshes' = [refreshes EXCEPT ![t] = (@ \ {r}) \cup {q}]
    BY <1>2
  <2> HIDE DEF q
  <2>4. Bonds'
    BY <1>1, <1>2, <2>2, <2>3, RotateBonds
  <2>5. TypeOK'
    <3>1. owner[r.cookie] \in Accounts \cup {Nobody}
      BY <1>1, <2>1 DEF TypeOK
    <3>2. /\ issued' \in Tokens /\ 1..issued \subseteq 1..issued' /\ 0..issued \subseteq 0..issued'
          /\ owner' \in [Serials -> Accounts \cup {Nobody}]
      BY <1>1, <1>2, <3>1, IssueTypes
    <3>3. refreshes' \in [Tabs -> SUBSET Refreshes]
      BY <1>1, <2>2, <2>3 DEF TypeOK
    <3>4. rotatedBy' \in [Serials -> SUBSET Tabs] /\ revoked' \subseteq 1..issued'
      BY <1>1, <1>2, <2>1, <3>2 DEF TypeOK
    <3>5. QED
      BY <1>1, <1>2, <3>2, <3>3, <3>4 DEF TypeOK
  <2>6. QED
    BY <2>4, <2>5 DEF SInv, Bonds
<1>3. CASE /\ refreshes' = [refreshes EXCEPT ![t] = (@ \ {r}) \cup {[r EXCEPT !.answered = TRUE]}]
           /\ UNCHANGED <<issued, owner, revoked, rotatedBy>>
  <2> DEFINE q == [r EXCEPT !.answered = TRUE]
             Q == {q}
  <2>1. q \in Refreshes /\ q.cookie = r.cookie /\ q.serial = 0
    BY <1>1 DEF Refreshes
  <2>2. refreshes[t] \ {r} = {}
    BY <1>1 DEF Bonds, OneRefresh
  <2>3. refreshes' = [refreshes EXCEPT ![t] = Q] /\ Q \in SUBSET Refreshes /\ Q # {}
        /\ (\A x \in Q : x.serial = 0 /\ x.cookie = r.cookie) /\ \A x, y \in Q : x = y
    BY <1>3, <2>1, <2>2
  <2>4. calls' = [calls EXCEPT ![t] = calls[t]] /\ calls[t] \in [Slots -> Calls]
    BY <1>1 DEF TypeOK
  <2>5. \A x \in refreshes[t] : x.serial = 0
    BY <1>1, <2>2
  <2> HIDE DEF q, Q
  <2>6. TabMoves(t, Q, calls[t])
    BY <1>1, <1>3, <2>3, <2>4, <2>5 DEF TabMoves, Ledger
  <2>7. Bonds'
    BY <1>1, <2>6, TabBonds
  <2>8. TypeOK'
    BY <1>1, <1>3, <2>3 DEF TypeOK
  <2>9. QED
    BY <2>7, <2>8 DEF SInv, Bonds
<1>4. QED
  BY <1>2, <1>3 DEF HandleRefresh

LEMMA EditedCall ==
  ASSUME NEW d \in Calls, NEW ok, NEW serial
  PROVE  [[[d EXCEPT !.stage = "answered"] EXCEPT !.ok = ok] EXCEPT !.serial = serial] =
         [kind |-> d.kind, account |-> d.account, stage |-> "answered", retry |-> d.retry,
          bearer |-> d.bearer, cookie |-> d.cookie, ok |-> ok, serial |-> serial]
<1> DEFINE e == [d EXCEPT !.stage = "answered"]
           f == [e EXCEPT !.ok = ok]
<1>1. e = [kind |-> d.kind, account |-> d.account, stage |-> "answered", retry |-> d.retry,
           bearer |-> d.bearer, cookie |-> d.cookie, ok |-> d.ok, serial |-> d.serial]
  BY DEF Calls
<1> HIDE DEF e
<1>2. f = [kind |-> d.kind, account |-> d.account, stage |-> "answered", retry |-> d.retry,
           bearer |-> d.bearer, cookie |-> d.cookie, ok |-> ok, serial |-> d.serial]
  BY <1>1
<1> HIDE DEF f
<1>3. [f EXCEPT !.serial = serial] =
         [kind |-> d.kind, account |-> d.account, stage |-> "answered", retry |-> d.retry,
          bearer |-> d.bearer, cookie |-> d.cookie, ok |-> ok, serial |-> serial]
  BY <1>2
<1>4. QED
  BY <1>3 DEF e, f

\* The answer of the API to a sign-in or sign-out.
LEMMA AnsweredCall ==
  ASSUME TypeOK, NEW t \in Tabs, NEW ok \in BOOLEAN, NEW serial \in Tokens,
         calls' = [calls EXCEPT ![t]["door"].stage = "answered",
                                ![t]["door"].ok = ok, ![t]["door"].serial = serial]
  PROVE  \E c \in Calls :
            /\ calls' = [calls EXCEPT ![t]["door"] = c]
            /\ c.kind = calls[t]["door"].kind /\ c.cookie = calls[t]["door"].cookie
            /\ c.stage = "answered" /\ c.ok = ok /\ c.serial = serial
<1> DEFINE d == calls[t]["door"]
           c == [kind |-> d.kind, account |-> d.account, stage |-> "answered", retry |-> d.retry,
                 bearer |-> d.bearer, cookie |-> d.cookie, ok |-> ok, serial |-> serial]
<1>1. "door" \in Slots /\ calls \in [Tabs -> [Slots -> Calls]]
  BY DEF TypeOK, Slots
<1>2. d \in Calls
  BY <1>1
<1>3. c \in Calls
  BY <1>2 DEF Calls
<1>4. calls' = [calls EXCEPT ![t]["door"] = c]
  <2> DEFINE D == [[[d EXCEPT !.stage = "answered"] EXCEPT !.ok = ok] EXCEPT !.serial = serial]
  <2>1. D = c
    <3> HIDE DEF d
    <3>1. QED
      BY <1>2, EditedCall
  <2>2. calls' = [calls EXCEPT ![t] = [calls[t] EXCEPT !["door"] = D]]
    BY <1>1
  <2> HIDE DEF D, c
  <2>3. QED
    BY <1>1, <2>1, <2>2
<1>5. QED
  BY <1>3, <1>4

LEMMA HandleStep ==
  ASSUME SInv, NEW t \in Tabs, Handle(t)
  PROVE  SInv'
<1>1. /\ TypeOK /\ Bonds /\ "door" \in Slots /\ 0 \in Tokens /\ 0 \in 0..issued
      /\ calls[t]["door"].stage = "sent" /\ calls[t]["door"] \in Calls
      /\ UNCHANGED <<lapsed, cookie, token, user, refreshes, rotatedBy, wasted, signedOut>>
  BY BoundsAssumption DEF SInv, Bonds, TypeOK, Handle, Slots, Tokens, history
<1>2. CASE /\ calls' = [calls EXCEPT ![t]["door"].stage = "answered",
                                     ![t]["door"].ok = FALSE, ![t]["door"].serial = 0]
           /\ UNCHANGED <<issued, owner, revoked>>
  <2>1. PICK c \in Calls : /\ calls' = [calls EXCEPT ![t]["door"] = c]
                           /\ c.kind = calls[t]["door"].kind /\ c.cookie = calls[t]["door"].cookie
                           /\ c.stage = "answered" /\ c.ok = FALSE /\ c.serial = 0
    BY <1>1, <1>2, AnsweredCall
  <2>2. UNCHANGED <<Ledger, refreshes>> /\ cookie' = cookie /\ ~ SignsOut(calls[t]["door"])
    BY <1>1, <1>2 DEF Ledger, SignsOut
  <2>3. Bonds'
    BY <1>1, <2>1, <2>2, CallBonds
  <2>4. calls' \in [Tabs -> [Slots -> Calls]]
    BY <1>1, <2>1, OneCall DEF TypeOK
  <2>5. TypeOK'
    BY <1>1, <1>2, <2>4 DEF TypeOK
  <2>6. QED
    BY <2>3, <2>5 DEF SInv, Bonds
<1>3. CASE /\ calls[t]["door"].kind \in {"login", "register"}
           /\ Issue(calls[t]["door"].account)
           /\ calls' = [calls EXCEPT ![t]["door"].stage = "answered",
                                     ![t]["door"].ok = TRUE, ![t]["door"].serial = issued + 1]
           /\ UNCHANGED revoked
  <2>1. issued + 1 \in Tokens
    BY <1>1, <1>3, BoundsAssumption DEF TypeOK, Issue, Tokens
  <2>2. PICK c \in Calls : /\ calls' = [calls EXCEPT ![t]["door"] = c]
                           /\ c.kind = calls[t]["door"].kind /\ c.cookie = calls[t]["door"].cookie
                           /\ c.stage = "answered" /\ c.ok = TRUE /\ c.serial = issued + 1
    BY <1>1, <1>3, <2>1, AnsweredCall
  <2>3. Bonds'
    BY <1>1, <1>3, <2>2, IssueBonds
  <2>4. calls' \in [Tabs -> [Slots -> Calls]]
    BY <1>1, <2>2, OneCall DEF TypeOK
  <2>5. calls[t]["door"].account \in Accounts \cup {Nobody}
    BY <1>1 DEF Calls
  <2>6. /\ issued' \in Tokens /\ 1..issued \subseteq 1..issued' /\ 0..issued \subseteq 0..issued'
        /\ owner' \in [Serials -> Accounts \cup {Nobody}]
    BY <1>1, <1>3, <2>5, IssueTypes
  <2>7. TypeOK'
    BY <1>1, <1>3, <2>4, <2>6 DEF TypeOK
  <2>8. QED
    BY <2>3, <2>7 DEF SInv, Bonds
<1>4. CASE /\ calls[t]["door"].kind = "logout"
           /\ calls' = [calls EXCEPT ![t]["door"].stage = "answered",
                                     ![t]["door"].ok = TRUE, ![t]["door"].serial = 0]
           /\ revoked' = revoked \cup ({calls[t]["door"].cookie} \ {0})
           /\ UNCHANGED <<issued, owner>>
  <2> DEFINE X == {calls[t]["door"].cookie} \ {0}
  <2>1. PICK c \in Calls : /\ calls' = [calls EXCEPT ![t]["door"] = c]
                           /\ c.kind = calls[t]["door"].kind /\ c.cookie = calls[t]["door"].cookie
                           /\ c.stage = "answered" /\ c.ok = TRUE /\ c.serial = 0
    BY <1>1, <1>4, AnsweredCall
  <2>2. X \in SUBSET (1..issued)
    BY <1>1, BoundsAssumption DEF Bonds, Within, Calls, Tokens, TypeOK
  <2>3. ~ SignsOut(calls[t]["door"]) /\ (cookie \in X => SignsOut(c) /\ c.cookie = cookie)
    BY <1>1, <1>4, <2>1 DEF SignsOut
  <2>4. \A u \in Tabs : \A r \in refreshes[u] : r.serial \notin X
    BY <1>1 DEF Bonds, SerialsUnseen, Unseen, Door
  <2>5. \A u \in Tabs : calls[u]["door"].serial \notin X
    BY <1>1 DEF Bonds, SerialsUnseen, Unseen, Door
  <2>6. revoked' = revoked \cup X
    BY <1>4
  <2> HIDE DEF X
  <2>7. Revokes(t, X, c)
    BY <1>1, <1>4, <2>1, <2>2, <2>3, <2>4, <2>5, <2>6 DEF Revokes
  <2>8. Bonds'
    BY <1>1, <2>7, RevokeBonds
  <2>9. calls' \in [Tabs -> [Slots -> Calls]]
    BY <1>1, <2>1, OneCall DEF TypeOK
  <2>10. TypeOK'
    BY <1>1, <1>4, <2>2, <2>6, <2>9 DEF TypeOK
  <2>11. QED
    BY <2>8, <2>10 DEF SInv, Bonds
<1>5. QED
  BY <1>2, <1>3, <1>4 DEF Handle, Answer

LEMMA EndAllStep ==
  ASSUME SInv, NEW a \in Accounts, EndAllSessions(a)
  PROVE  SInv'
<1> DEFINE X == {n \in 1..issued : owner[n] = a}
<1>1. /\ TypeOK /\ Bonds /\ revoked' = revoked \cup X /\ wasted' = wasted \cup X
      /\ X \in SUBSET (1..issued)
      /\ UNCHANGED <<issued, owner, lapsed, cookie, token, user, refreshes, calls, rotatedBy, signedOut>>
  BY DEF SInv, Bonds, EndAllSessions
<1>2. ASSUME NEW u \in Tabs, NEW r \in refreshes[u], r.serial \in X
      PROVE  r.serial \in wasted' /\ r.cookie \in wasted'
  <2>1. r.serial # 0
    BY <1>1, <1>2, BoundsAssumption DEF TypeOK, Tokens
  <2>2. r.cookie \in revoked /\ owner[r.serial] = owner[r.cookie]
    BY <1>1, <2>1 DEF Bonds, Brought
  <2>3. r.cookie \in X
    BY <1>1, <1>2, <2>2 DEF TypeOK
  <2>4. QED
    BY <1>1, <1>2, <2>3
<1> HIDE DEF X
<1>3. ASSUME NEW t \in Tabs PROVE Bonds'
  <2> DEFINE c == calls[t]["door"]
  <2>1. c \in Calls /\ calls' = [calls EXCEPT ![t]["door"] = c]
    BY <1>1 DEF TypeOK, Slots
  <2>2. \A u \in Tabs : calls[u]["door"].serial \in X => calls[u]["door"].serial \in wasted'
    BY <1>1
  <2>3. wasted \subseteq wasted' /\ (cookie \in X => cookie \in wasted')
    BY <1>1
  <2>4. c = calls[t]["door"]
    OBVIOUS
  <2> HIDE DEF c
  <2>5. \A u \in Tabs : \A r \in refreshes[u] :
           r.serial \in X => r.serial \in wasted' /\ r.cookie \in wasted'
    BY <1>2
  <2>6. UNCHANGED <<issued, owner, rotatedBy, refreshes, cookie>>
    BY <1>1
  <2>7. X \in SUBSET (1..issued) /\ revoked' = revoked \cup X
    BY <1>1
  <2>8. Revokes(t, X, c)
    BY <2>1, <2>2, <2>3, <2>4, <2>5, <2>6, <2>7 DEF Revokes
  <2>9. QED
    BY <1>1, <2>8, RevokeBonds
<1>4. ASSUME Tabs = {} PROVE Bonds'
  BY <1>1, <1>4 DEF Bonds, OneRefresh, NobodyWaitsAlone, Within, Brought, SerialsUnseen, SerialsApart,
                    RotationsTold, CookieReplaced, TypeOK, Serials
<1>5. Bonds'
  BY <1>3, <1>4
<1>6. TypeOK'
  BY <1>1 DEF TypeOK
<1>7. QED
  BY <1>5, <1>6 DEF SInv, Bonds

\* The end of a refresh: with its serial for cookie, or with nothing and a
\* rotation that nobody is told of wasted.
LEMMA EndRefreshStep ==
  ASSUME SInv, NEW t \in Tabs, NEW r \in refreshes[t], NEW new \in Tokens, NEW kept \in 0..issued,
         EndRefresh(t, r, new, kept), UNCHANGED <<server, rotatedBy>>,
         wasted \subseteq wasted', wasted' \subseteq wasted \cup revoked,
         new = 0 => (r.serial # 0 => r.cookie \in wasted'),
         new # 0 => new = r.serial
  PROVE  SInv'
<1> DEFINE sent == IF new = 0 THEN cookie ELSE new
           C == [s \in Slots |-> Resumed(calls[t][s], new, sent)]
           Q == refreshes[t] \ {r}
<1>1. /\ TypeOK /\ Bonds /\ sent \in Tokens /\ 0 \in 0..issued /\ "door" \in Slots
      /\ refreshes[t] \subseteq Refreshes /\ calls[t] \in [Slots -> Calls]
  BY BoundsAssumption DEF SInv, Bonds, TypeOK, Tokens, Slots
<1>2. Q = {} /\ \A x \in refreshes[t] : x = r
  BY <1>1 DEF Bonds, OneRefresh
<1>3. /\ refreshes' = [refreshes EXCEPT ![t] = Q] /\ cookie' = sent
      /\ calls' = [calls EXCEPT ![t] = C] /\ UNCHANGED <<Ledger, lapsed>>
  BY DEF EndRefresh, Ledger, server
<1>4. /\ \A s \in Slots : C[s] = Resumed(calls[t][s], new, sent)
      /\ sent \in 0..issued
      /\ sent = cookie \/ (r.serial # 0 /\ sent = r.serial)
      /\ r.serial # 0 => r.cookie \in wasted' \/ sent = r.serial
  BY <1>1, BoundsAssumption DEF Bonds, Within, TypeOK, Tokens
<1> HIDE DEF sent, Q
<1>5. ASSUME NEW s \in Slots
      PROVE  /\ C[s] \in Calls /\ C[s].stage # "waiting"
             /\ \/ C[s] = calls[t][s]
                \/ C[s].serial = 0 /\ C[s].cookie \in {0, sent, calls[t][s].cookie}
             /\ SignsOut(calls[t][s]) => C[s] = calls[t][s]
  <2>1. calls[t][s] \in Calls /\ C[s] = Resumed(calls[t][s], new, sent)
    BY <1>1, <1>4
  <2> HIDE DEF C
  <2>2. /\ C[s] \in Calls /\ C[s].stage # "waiting"
        /\ calls[t][s].stage # "waiting" => C[s] = calls[t][s]
        /\ calls[t][s].stage = "waiting" => C[s].serial = 0 /\ C[s].cookie \in {0, sent}
    BY <1>1, <2>1, ResumedCall
  <2>3. QED
    BY <2>2 DEF SignsOut
<1>6. C \in [Slots -> Calls]
  BY <1>5
<1> HIDE DEF C
<1>7. TabMoves(t, Q, C)
  BY <1>1, <1>2, <1>3, <1>4, <1>5, <1>6 DEF TabMoves
<1>8. Bonds'
  BY <1>1, <1>7, TabBonds
<1>9. TypeOK'
  <2>1. token' \in [Tabs -> 0..issued] /\ user' \in [Tabs -> Accounts \cup {Nobody}] /\ signedOut' \subseteq Tabs
    BY <1>1 DEF EndRefresh, TypeOK
  <2>2. refreshes' \in [Tabs -> SUBSET Refreshes] /\ calls' \in [Tabs -> [Slots -> Calls]]
    BY <1>1, <1>2, <1>3, <1>6 DEF TypeOK
  <2>3. QED
    BY <1>1, <1>3, <1>4, <2>1, <2>2 DEF TypeOK, Ledger
<1>10. QED
  BY <1>8, <1>9 DEF SInv, Bonds

LEMMA DeliverRefreshStep ==
  ASSUME SInv, NEW t \in Tabs, DeliverRefresh(t)
  PROVE  SInv'
<1>1. PICK r \in refreshes[t] : RefreshSucceeds(t, r) \/ RefreshRefused(t, r) \/ RefreshLost(t, r)
  BY DEF DeliverRefresh
<1>2. /\ r \in Refreshes /\ r.serial \in Tokens /\ 0 \in Tokens /\ r.serial \in 0..issued
      /\ token[t] \in 0..issued /\ TokenAfterRefusal(t, r) \in 0..issued /\ wasted \subseteq revoked
      /\ r.serial # 0 => r.cookie \in revoked
  BY BoundsAssumption DEF SInv, TypeOK, Tokens, Refreshes, Within, Brought, TokenAfterRefusal
<1>3. CASE RefreshSucceeds(t, r)
  <2>1. /\ r.serial # 0 /\ UNCHANGED <<server, rotatedBy>> /\ EndRefresh(t, r, r.serial, r.serial)
        /\ wasted \subseteq wasted' /\ wasted' \subseteq wasted \cup revoked
    BY <1>3 DEF RefreshSucceeds
  <2>2. QED
    BY <1>2, <2>1, EndRefreshStep
<1>4. CASE RefreshRefused(t, r)
  <2>1. /\ r.serial = 0 /\ UNCHANGED <<server, rotatedBy>> /\ EndRefresh(t, r, 0, TokenAfterRefusal(t, r))
        /\ wasted \subseteq wasted' /\ wasted' \subseteq wasted \cup revoked
    BY <1>4 DEF RefreshRefused
  <2>2. QED
    BY <1>2, <2>1, EndRefreshStep
<1>5. CASE RefreshLost(t, r)
  <2>1. /\ UNCHANGED <<server, rotatedBy>> /\ EndRefresh(t, r, 0, token[t])
        /\ wasted \subseteq wasted' /\ wasted' \subseteq wasted \cup revoked
        /\ r.serial # 0 => r.cookie \in wasted'
    BY <1>2, <1>5 DEF RefreshLost
  <2>2. QED
    BY <1>2, <2>1, EndRefreshStep
<1>6. QED
  BY <1>1, <1>3, <1>4, <1>5

\* A call that waits: as it was, with its stage changed.
LEMMA WaitingCall ==
  ASSUME NEW d \in Calls, NEW c, c = [d EXCEPT !.stage = "waiting"]
  PROVE  c \in Calls /\ c.stage = "waiting" /\ c.cookie = d.cookie /\ c.serial = d.serial
BY DEF Calls

LEMMA RetryStep ==
  ASSUME SInv, NEW t \in Tabs, NEW s \in Slots, Retry(t, s)
  PROVE  SInv'
<1> DEFINE c == [calls[t][s] EXCEPT !.stage = "waiting"]
           C == [calls[t] EXCEPT ![s] = c]
           new == NewRefresh(cookie, token[t])
           Q == IF refreshes[t] # {} THEN refreshes[t] ELSE {new}
<1>1. /\ TypeOK /\ Bonds /\ cookie \in Tokens /\ token[t] \in Tokens /\ "door" \in Slots
      /\ refreshes[t] \subseteq Refreshes /\ calls[t] \in [Slots -> Calls] /\ calls[t][s] \in Calls
  BY BoundsAssumption DEF SInv, Bonds, TypeOK, Tokens, Slots
<1>2. calls[t][s].serial = 0 /\ ~ SignsOut(calls[t][s])
  BY <1>1 DEF Retry, Unauthorised, Reads, Bonds, Brought, SignsOut
<1>3. c = [calls[t][s] EXCEPT !.stage = "waiting"]
  OBVIOUS
<1>4. /\ refreshes' = [refreshes EXCEPT ![t] = Q] /\ calls' = [calls EXCEPT ![t] = C]
      /\ UNCHANGED <<Ledger, lapsed, cookie, token, user, wasted, signedOut>>
  <2>1. refreshes' = [refreshes EXCEPT ![t] = Q]
    BY <1>1 DEF Retry, JoinRefresh, TypeOK
  <2>2. calls' = [calls EXCEPT ![t] = C]
    BY <1>1 DEF Retry, TypeOK
  <2>3. QED
    BY <2>1, <2>2 DEF Retry, Ledger, server, history
<1>5. new = NewRefresh(cookie, token[t])
  OBVIOUS
<1> HIDE DEF c, new
<1>6. new \in Refreshes /\ new.cookie = cookie /\ new.serial = 0
  BY <1>1, <1>5, NewRefreshShape
<1>7. /\ Q \in SUBSET Refreshes /\ Q # {} /\ refreshes[t] \subseteq Q
      /\ \A q, p \in Q : q = p
      /\ \A q \in Q : q \in refreshes[t] \/ (q.serial = 0 /\ q.cookie = cookie)
  BY <1>1, <1>6 DEF Bonds, OneRefresh
<1>8. c \in Calls /\ c.serial = 0 /\ c.cookie = calls[t][s].cookie
  BY <1>1, <1>2, <1>3, WaitingCall
<1>9. /\ C \in [Slots -> Calls] /\ C[s] = c /\ \A x \in Slots : x # s => C[x] = calls[t][x]
  BY <1>1, <1>8
<1>10. \A x \in Slots : \/ C[x] = calls[t][x]
                        \/ C[x].serial = 0 /\ C[x].cookie \in {0, cookie, calls[t][x].cookie}
  BY <1>8, <1>9
<1>11. SignsOut(calls[t]["door"]) => C["door"] = calls[t]["door"]
  BY <1>1, <1>2, <1>9
<1> HIDE DEF Q, C
<1>12. TabMoves(t, Q, C)
  BY <1>1, <1>4, <1>7, <1>9, <1>10, <1>11 DEF TabMoves
<1>13. Bonds'
  BY <1>1, <1>12, TabBonds
<1>14. TypeOK'
  BY <1>1, <1>4, <1>7, <1>9 DEF TypeOK, Ledger
<1>15. QED
  BY <1>13, <1>14 DEF SInv, Bonds

\* A call is settled by what the tab does with its answer or its failure.
LEMMA SettleStep ==
  ASSUME SInv, NEW t \in Tabs, NEW s \in Slots, NEW c \in Calls, Settle(t, s, c),
         UNCHANGED <<server, refreshes, rotatedBy>>,
         c.serial = 0, c.stage # "waiting", c.cookie \in {0, cookie}, cookie' \in {0, cookie},
         wasted \subseteq wasted', wasted' \subseteq wasted \cup revoked,
         token' \in [Tabs -> 0..issued], user' \in [Tabs -> Accounts \cup {Nobody}],
         signedOut' \subseteq Tabs,
         s = "door" /\ SignsOut(calls[t][s]) /\ calls[t][s].cookie = cookie /\ cookie' # 0
           /\ cookie \in revoked => cookie \in wasted'
  PROVE  SInv'
<1>1. TypeOK /\ Bonds /\ calls' = [calls EXCEPT ![t][s] = c] /\ UNCHANGED <<Ledger, lapsed, refreshes>>
  BY DEF SInv, Bonds, Settle, server, Ledger
<1>2. Bonds'
  BY <1>1, CallBonds
<1>3. calls' \in [Tabs -> [Slots -> Calls]]
  BY <1>1, OneCall DEF TypeOK
<1>4. cookie' \in 0..issued
  BY <1>1, BoundsAssumption DEF TypeOK, Tokens
<1>5. TypeOK'
  BY <1>1, <1>3, <1>4 DEF TypeOK, Ledger
<1>6. QED
  BY <1>2, <1>5 DEF SInv, Bonds

LEMMA SignedInStep ==
  ASSUME SInv, NEW t \in Tabs, SignedIn(t)
  PROVE  SInv'
<1> DEFINE n == calls[t]["door"].serial
<1>1. /\ TypeOK /\ Bonds /\ "door" \in Slots /\ calls[t]["door"] \in Calls
      /\ calls[t]["door"].kind \in {"login", "register"}
      /\ UNCHANGED <<server, refreshes, rotatedBy, wasted>> /\ cookie' = n
      /\ token' = [token EXCEPT ![t] = n] /\ signedOut' = signedOut \ {t}
  BY DEF SInv, Bonds, TypeOK, Slots, SignedIn, Answered
<1>2. n \in 0..issued /\ n \in Tokens /\ 0 \in Tokens
  BY <1>1, BoundsAssumption DEF TypeOK, Bonds, Within, Calls, Tokens
<1>3. token' \in [Tabs -> 0..issued] /\ signedOut' \subseteq Tabs
  BY <1>1, <1>2 DEF TypeOK
<1>4. PICK c \in Calls : /\ Settle(t, "door", c)
                         /\ c.serial = 0 /\ c.stage # "waiting" /\ c.cookie = 0
  <2>1. CASE Settle(t, "door", [kind |-> "me", account |-> Nobody, stage |-> "sent", retry |-> FALSE,
                                bearer |-> n, cookie |-> 0, ok |-> FALSE, serial |-> 0])
    <3> DEFINE c == [kind |-> "me", account |-> Nobody, stage |-> "sent", retry |-> FALSE,
                     bearer |-> n, cookie |-> 0, ok |-> FALSE, serial |-> 0]
    <3> HIDE DEF n
    <3>1. c \in Calls
      BY <1>2 DEF Calls, Kinds
    <3>2. c.serial = 0 /\ c.stage = "sent" /\ c.cookie = 0
      OBVIOUS
    <3>3. Settle(t, "door", c)
      BY <2>1
    <3> HIDE DEF c
    <3>4. QED
      BY <3>1, <3>2, <3>3
  <2>2. CASE Settle(t, "door", Idle)
    BY <2>2, IdleCall
  <2>3. QED
    BY <2>1, <2>2 DEF SignedIn, Send
<1>5. user' \in [Tabs -> Accounts \cup {Nobody}]
  BY <1>1 DEF SignedIn, TypeOK, Calls
<1> HIDE DEF n
<1>6. CASE n = 0
  BY <1>1, <1>3, <1>4, <1>5, <1>6, SettleStep DEF SignsOut
<1>7. CASE n # 0
  <2>1. calls' = [calls EXCEPT ![t]["door"] = c] /\ UNCHANGED <<Ledger, refreshes, wasted>>
    BY <1>1, <1>4 DEF Settle, Ledger, server
  <2>2. Bonds'
    BY <1>1, <1>4, <1>7, <2>1, SignedInBonds DEF n
  <2>3. calls' \in [Tabs -> [Slots -> Calls]]
    BY <1>1, <2>1, OneCall DEF TypeOK
  <2>4. TypeOK'
    BY <1>1, <1>2, <1>3, <1>5, <2>3 DEF TypeOK, server
  <2>5. QED
    BY <2>2, <2>4 DEF SInv, Bonds
<1>8. QED
  BY <1>6, <1>7

\* The calls that end: an answer shown, a sign-out, a failure.
LEMMA EndStep ==
  ASSUME SInv, NEW t \in Tabs, NEW s \in Slots,
         \/ s = "door" /\ LoggedOut(t)
         \/ ShowProfile(t, s) \/ ShowData(t, s) \/ Fail(t, s)
  PROVE  SInv'
<1>1. /\ TypeOK /\ "door" \in Slots /\ calls[t][s] \in Calls /\ 0 \in 0..issued
      /\ token \in [Tabs -> 0..issued] /\ user \in [Tabs -> Accounts \cup {Nobody}]
      /\ signedOut \subseteq Tabs /\ wasted \subseteq revoked
  BY BoundsAssumption DEF SInv, TypeOK, Slots, Tokens
<1>2. Idle \in Calls /\ Idle.serial = 0 /\ Idle.stage # "waiting" /\ Idle.cookie = 0
  BY IdleCall
<1>3. /\ [token EXCEPT ![t] = 0] \in [Tabs -> 0..issued]
      /\ [user EXCEPT ![t] = Nobody] \in [Tabs -> Accounts \cup {Nobody}]
      /\ signedOut \cup {t} \subseteq Tabs
  BY <1>1
<1>4. CASE s = "door" /\ LoggedOut(t)
  <2>1. /\ Settle(t, "door", Idle) /\ UNCHANGED <<server, refreshes, rotatedBy>> /\ cookie' = 0
        /\ wasted' = wasted /\ token' = [token EXCEPT ![t] = 0]
        /\ user' = [user EXCEPT ![t] = Nobody] /\ signedOut' = signedOut \cup {t}
    BY <1>4 DEF LoggedOut, EndLogout
  <2>2. QED
    BY <1>1, <1>2, <1>3, <2>1, SettleStep
<1>5. CASE ShowProfile(t, s)
  <2>1. /\ Settle(t, s, Idle) /\ UNCHANGED <<server, cookie, token, refreshes, rotatedBy, wasted, signedOut>>
        /\ user' = [user EXCEPT ![t] = owner[calls[t][s].bearer]]
        /\ calls[t][s].kind = "me" /\ calls[t][s].bearer # 0
    BY <1>5 DEF ShowProfile, Answered, Refused, Reads, history
  <2>2. calls[t][s].bearer \in Serials
    BY <1>1, <2>1, BoundsAssumption DEF Calls, Tokens, Serials
  <2>3. user' \in [Tabs -> Accounts \cup {Nobody}]
    BY <1>1, <2>1, <2>2 DEF TypeOK
  <2>4. ~ SignsOut(calls[t][s])
    BY <2>1 DEF SignsOut
  <2>5. QED
    BY <1>1, <1>2, <2>1, <2>3, <2>4, SettleStep
<1>6. CASE ShowData(t, s)
  <2>1. /\ Settle(t, s, Idle)
        /\ UNCHANGED <<server, cookie, token, user, refreshes, rotatedBy, wasted, signedOut>>
        /\ ~ SignsOut(calls[t][s])
    BY <1>6 DEF ShowData, Answered, SignsOut, history
  <2>2. QED
    BY <1>1, <1>2, <2>1, SettleStep
<1>7. CASE Fail(t, s)
  <2>1. /\ wasted \subseteq wasted' /\ wasted' \subseteq wasted \cup revoked
        /\ SignsOut(calls[t][s]) /\ calls[t][s].cookie = cookie /\ cookie \in revoked
             => cookie \in wasted'
    BY <1>7 DEF Fail, SignsOut
  <2>2. /\ Settle(t, s, Idle) /\ UNCHANGED <<server, cookie, refreshes, rotatedBy>>
        /\ token' = token \/ token' = [token EXCEPT ![t] = 0]
        /\ user' = user \/ user' = [user EXCEPT ![t] = Nobody]
        /\ signedOut' = signedOut \/ signedOut' = signedOut \cup {t}
    BY <1>7 DEF Fail, EndLogout
  <2>3. /\ token' \in [Tabs -> 0..issued] /\ user' \in [Tabs -> Accounts \cup {Nobody}]
        /\ signedOut' \subseteq Tabs
    BY <1>1, <1>3, <2>2
  <2>4. QED
    BY <1>2, <2>1, <2>2, <2>3, SettleStep
<1>8. QED
  BY <1>4, <1>5, <1>6, <1>7

-----------------------------------------------------------------------------
(* The theorems.                                                            *)

LEMMA InvInit == Init => SInv
<1> SUFFICES ASSUME Init PROVE SInv
  OBVIOUS
<1> DEFINE r == NewRefresh(cookie, 0)
<1>1. /\ issued \in {0, 1} /\ issued \in Tokens /\ cookie = issued /\ 0 \in 0..issued /\ 0 \in Tokens
      /\ revoked = {} /\ wasted = {}
  BY BoundsAssumption DEF Init, Tokens
<1>2. r = NewRefresh(cookie, 0) /\ refreshes = [t \in Tabs |-> {r}]
  BY DEF Init
<1> HIDE DEF r
<1>3. r \in Refreshes /\ r.cookie = cookie /\ r.serial = 0
  BY <1>1, <1>2, NewRefreshShape
<1>4. \A t \in Tabs : refreshes[t] = {r}
  BY <1>2
<1>5. \A t \in Tabs, s \in Slots : calls[t][s] \in Calls /\ calls[t][s].serial = 0 /\ calls[t][s].cookie = 0
  BY IdleCall, RestoringCall DEF Init
<1>6. TypeOK
  <2>1. owner \in [Serials -> Accounts \cup {Nobody}]
    BY DEF Init
  <2>2. calls \in [Tabs -> [Slots -> Calls]]
    BY IdleCall, RestoringCall DEF Init
  <2>3. refreshes \in [Tabs -> SUBSET Refreshes]
    BY <1>2, <1>3
  <2>4. QED
    BY <1>1, <2>1, <2>2, <2>3 DEF TypeOK, Init
<1>7. OneRefresh /\ NobodyWaitsAlone
  BY <1>4 DEF OneRefresh, NobodyWaitsAlone
<1>8. Within
  BY <1>1, <1>3, <1>4, <1>5 DEF Within, Init
<1>9. Brought
  BY <1>3, <1>4, <1>5 DEF Brought
<1>10. SerialsUnseen /\ SerialsApart
  BY <1>3, <1>4, <1>5 DEF SerialsUnseen, SerialsApart, Door, Slots
<1>11. RotationsTold /\ CookieReplaced
  BY <1>1 DEF RotationsTold, CookieReplaced, Init
<1>12. QED
  BY <1>6, <1>7, <1>8, <1>9, <1>10, <1>11 DEF SInv

LEMMA InvStep == SInv /\ [Next]_vars => SInv'
<1> SUFFICES ASSUME SInv, [Next]_vars PROVE SInv'
  OBVIOUS
<1>1. ASSUME NEW t \in Tabs, People(t) PROVE SInv'
  BY <1>1, PeopleSend, ReloadStep DEF People
<1>2. ASSUME NEW t \in Tabs, API(t) PROVE SInv'
  BY <1>2, HandleRefreshStep, HandleStep DEF API
<1>3. ASSUME NEW t \in Tabs, DeliverRefresh(t) PROVE SInv'
  BY <1>3, DeliverRefreshStep
<1>4. ASSUME NEW t \in Tabs, NEW s \in Slots, Deliver(t, s) PROVE SInv'
  BY <1>4, SignedInStep, EndStep, RetryStep DEF Deliver
<1>5. ASSUME NEW n \in Serials, Lapse(n) PROVE SInv'
  BY <1>5, LapseStep
<1>6. ASSUME NEW a \in Accounts, EndAllSessions(a) PROVE SInv'
  BY <1>6, EndAllStep
<1>7. CASE UNCHANGED vars
  <2> USE <1>7 DEF vars, server, history
  <2>1. TypeOK'
    BY DEF SInv, TypeOK
  <2>2. OneRefresh' /\ NobodyWaitsAlone' /\ Within' /\ Brought'
    BY DEF SInv, OneRefresh, NobodyWaitsAlone, Within, Brought
  <2>3. SerialsUnseen' /\ SerialsApart'
    BY DEF SInv, Unseen, SerialsUnseen, Door, SerialsApart
  <2>4. RotationsTold' /\ CookieReplaced'
    BY DEF SInv, RotationsTold, CookieReplaced, Door
  <2>5. QED
    BY <2>1, <2>2, <2>3, <2>4 DEF SInv
<1>8. QED
  BY <1>1, <1>2, <1>3, <1>4, <1>5, <1>6, <1>7 DEF Next

LEMMA InvAlways == Spec => []SInv
BY InvInit, InvStep, PTL DEF Spec

\* The session is typed, whatever interleaving of tabs, answers and losses.
THEOREM TypeCorrect == Spec => []TypeOK
<1>1. SInv => TypeOK
  BY DEF SInv
<1>2. QED
  BY <1>1, InvAlways, PTL

\* A call that waits has a refresh in flight in its tab: no caller of apiFetch
\* is left waiting when the refresh it joined ends.
THEOREM NobodyLeftWaiting == Spec => []NobodyWaitsAlone
<1>1. SInv => NobodyWaitsAlone
  BY DEF SInv
<1>2. QED
  BY <1>1, InvAlways, PTL

\* A refused cookie of the browser is on the way to be replaced or cleared:
\* only an answer that was lost, or the end of all sessions, strands it.
THEOREM CookieKept == Spec => []CookieNeverStranded
<1>1. SInv => CookieNeverStranded
  <2> SUFFICES ASSUME SInv, cookie \in revoked, cookie \notin wasted
               PROVE  \E t \in Tabs : Coming(t)
    BY DEF CookieNeverStranded
  <2> "door" \in Slots
    BY DEF Slots
  <2>1. CASE \E t \in Tabs : \E r \in refreshes[t] : r.serial # 0 /\ r.cookie = cookie
    <3>1. PICK t \in Tabs : \E r \in refreshes[t] : r.serial # 0 /\ r.cookie = cookie
      BY <2>1
    <3>2. PICK r \in refreshes[t] : r.serial # 0 /\ r.cookie = cookie
      BY <3>1
    <3>3. r.answered /\ r.serial \notin revoked
      BY <3>2 DEF SInv, Brought
    <3>4. QED
      BY <3>2, <3>3 DEF Coming, Live
  <2>2. CASE \E t \in Tabs : SignsOut(calls[t]["door"])
    BY <2>2 DEF Coming, SignsOut
  <2>3. QED
    BY <2>1, <2>2 DEF SInv, CookieReplaced, Door, SignsOut
<1>2. QED
  BY <1>1, InvAlways, PTL

\* A refresh that is refused did not present a cookie its own tab rotated,
\* unless nobody was told of the rotation.
THEOREM RotationTold == Spec => []OwnRotationNeverRefuses
<1>1. SInv => OwnRotationNeverRefuses
  <2> SUFFICES ASSUME SInv, NEW t \in Tabs, NEW r \in refreshes[t], r.serial = 0, r.cookie # 0,
                      t \in rotatedBy[r.cookie], r.cookie \notin wasted
               PROVE  FALSE
    BY DEF OwnRotationNeverRefuses
  <2>1. r.cookie \in Serials
    BY BoundsAssumption DEF SInv, TypeOK, Refreshes, Tokens, Serials
  <2>2. PICK q \in refreshes[t] : q.serial # 0 /\ q.cookie = r.cookie
    BY <2>1 DEF SInv, RotationsTold
  <2>3. QED
    BY <2>2 DEF SInv, OneRefresh
<1>2. QED
  BY <1>1, InvAlways, PTL

\* A refused refresh leaves a token that was set while it was in flight, unless
\* a caller that waits for it clears the tab.
THEOREM RefusalSparesNewerToken == Spec => RefusalKeepsNewerToken
<1> DEFINE Keeps(t, r) ==
             refreshes'[t] = refreshes[t] \ {r} /\ r.answered /\ r.serial = 0
             /\ token[t] # r.before
             /\ (\A s \in Slots : calls[t][s].stage = "waiting" => ~Drops(t, s))
                => token'[t] = token[t]
<1>1. ASSUME SInv, [Next]_vars, NEW t \in Tabs, NEW r \in refreshes[t] PROVE Keeps(t, r)
  <2> SUFFICES ASSUME refreshes'[t] = refreshes[t] \ {r}, r.serial = 0, token[t] # r.before,
                      \A s \in Slots : calls[t][s].stage = "waiting" => ~Drops(t, s)
               PROVE  token'[t] = token[t]
    OBVIOUS
  <2>1. refreshes[t] = {r} /\ refreshes'[t] = {} /\ token \in [Tabs -> 0..issued]
        /\ refreshes \in [Tabs -> SUBSET Refreshes]
    BY <1>1 DEF SInv, OneRefresh, TypeOK
  <2>2. ASSUME NEW u \in Tabs, DeliverRefresh(u) PROVE token'[t] = token[t]
    <3>1. PICK q \in refreshes[u] : RefreshSucceeds(u, q) \/ RefreshRefused(u, q) \/ RefreshLost(u, q)
      BY <2>2 DEF DeliverRefresh
    <3>2. CASE u # t
      BY <2>1, <3>1, <3>2 DEF RefreshSucceeds, RefreshRefused, RefreshLost, EndRefresh
    <3>3. CASE u = t /\ RefreshRefused(u, q)
      BY <2>1, <3>1, <3>3 DEF RefreshRefused, EndRefresh, TokenAfterRefusal
    <3>4. CASE u = t /\ RefreshLost(u, q)
      BY <2>1, <3>1, <3>4 DEF RefreshLost, EndRefresh
    <3>5. CASE u = t /\ RefreshSucceeds(u, q)
      BY <2>1, <3>1, <3>5 DEF RefreshSucceeds
    <3>6. QED
      BY <3>1, <3>2, <3>3, <3>4, <3>5
  <2>3. ASSUME NEW u \in Tabs, Reload(u) PROVE token'[t] = token[t]
    BY <2>1, <2>3 DEF Reload
  <2>4. CASE UNCHANGED refreshes
    BY <2>1, <2>4
  <2>5. CASE UNCHANGED token
    BY <2>5
  <2>6. ASSUME NEW u \in Tabs, People(u) PROVE token'[t] = token[t]
    BY <2>3, <2>5, <2>6 DEF People, SignIn, SignOut, Fetch
  <2>7. ASSUME NEW u \in Tabs, API(u) PROVE token'[t] = token[t]
    BY <2>5, <2>7 DEF API, HandleRefresh, Handle
  <2>8. ASSUME NEW u \in Tabs, NEW s \in Slots, Deliver(u, s) PROVE token'[t] = token[t]
    BY <2>4, <2>5, <2>8 DEF Deliver, SignedIn, LoggedOut, EndLogout, Retry, ShowProfile, ShowData, Fail
  <2>9. QED
    BY <1>1, <2>2, <2>4, <2>5, <2>6, <2>7, <2>8 DEF Next, Lapse, EndAllSessions, vars
<1>2. SInv /\ [Next]_vars => [\A t \in Tabs : \A r \in refreshes[t] : Keeps(t, r)]_vars
  BY <1>1
<1>3. QED
  BY <1>2, InvAlways, PTL DEF Spec, RefusalKeepsNewerToken

\* No refresh that succeeded is on its way to a tab that has signed out.
NoLateRotation == \A t \in signedOut : \A r \in refreshes[t] : r.serial = 0

\* The answer of a refresh that succeeds after the sign-out is the only thing that
\* revives a session: without one, a tab that signed out holds no token until
\* somebody signs in, whatever else is in flight and whatever fails.
THEOREM OnlyRotationsRevive == Spec /\ []NoLateRotation => []SignedOutStaysOut
<1>1. Init => SignedOutStaysOut
  BY DEF Init, SignedOutStaysOut
<1>2. ASSUME SInv, NoLateRotation, SignedOutStaysOut, [Next]_vars, NEW t \in signedOut'
      PROVE  token'[t] = 0
  <2>1. /\ token \in [Tabs -> 0..issued] /\ signedOut \in SUBSET Tabs
        /\ \A u \in signedOut : token[u] = 0
    BY <1>2 DEF SInv, TypeOK, SignedOutStaysOut
  <2>2. CASE UNCHANGED <<token, signedOut>>
    BY <2>1, <2>2
  <2>3. ASSUME NEW u \in Tabs, token' = [token EXCEPT ![u] = 0], signedOut' \subseteq signedOut \cup {u}
        PROVE  token'[t] = 0
    BY <2>1, <2>3
  <2>4. ASSUME NEW u \in Tabs, DeliverRefresh(u) PROVE token'[t] = 0
    <3>1. PICK r \in refreshes[u] : RefreshSucceeds(u, r) \/ RefreshRefused(u, r) \/ RefreshLost(u, r)
      BY <2>4 DEF DeliverRefresh
    <3>2. CASE RefreshSucceeds(u, r)
      <4>1. u \notin signedOut
        BY <1>2, <3>2 DEF RefreshSucceeds, NoLateRotation
      <4>2. signedOut' = signedOut /\ token' = [token EXCEPT ![u] = token'[u]]
        BY <2>1, <3>2 DEF RefreshSucceeds, EndRefresh
      <4> QED BY <2>1, <4>1, <4>2
    <3>3. ASSUME NEW kept, EndRefresh(u, r, 0, kept), u \in signedOut => kept = 0
          PROVE  token'[t] = 0
      <4> DEFINE out == \E s \in Slots : calls[u][s].stage = "waiting" /\ Drops(u, s)
                 leaving == \E s \in Slots : calls[u][s].stage = "waiting" /\ calls[u][s].kind = "logout"
      <4>1. /\ token' = [token EXCEPT ![u] = IF out THEN 0 ELSE kept]
            /\ signedOut' = IF leaving THEN signedOut \cup {u} ELSE signedOut
        BY <3>3 DEF EndRefresh
      <4>2. leaving => out
        BY DEF Drops
      <4> HIDE DEF out, leaving
      <4> QED BY <2>1, <3>3, <4>1, <4>2
    <3>4. CASE RefreshRefused(u, r)
      <4>1. u \in signedOut => TokenAfterRefusal(u, r) = 0
        BY <2>1 DEF TokenAfterRefusal
      <4> QED BY <3>3, <3>4, <4>1 DEF RefreshRefused
    <3>5. CASE RefreshLost(u, r)
      BY <2>1, <3>3, <3>5 DEF RefreshLost
    <3> QED BY <3>1, <3>2, <3>4, <3>5
  <2>5. ASSUME NEW u \in Tabs, People(u) PROVE token'[t] = 0
    <3>1. CASE Reload(u)
      BY <2>3, <3>1 DEF Reload
    <3> QED BY <2>2, <2>5, <3>1 DEF People, SignIn, SignOut, Fetch, history
  <2>6. ASSUME NEW u \in Tabs, API(u) PROVE token'[t] = 0
    BY <2>2, <2>6 DEF API, HandleRefresh, Handle, history
  <2>7. ASSUME NEW u \in Tabs, NEW s \in Slots, Deliver(u, s) PROVE token'[t] = 0
    <3>1. CASE SignedIn(u)
      <4>1. signedOut' = signedOut \ {u} /\ token' = [token EXCEPT ![u] = token'[u]]
        BY <2>1, <3>1 DEF SignedIn
      <4> QED BY <2>1, <4>1
    <3>2. ASSUME NEW cleared, EndLogout(u, cleared) PROVE token'[t] = 0
      BY <2>3, <3>2 DEF EndLogout
    <3>3. CASE Fail(u, s)
      BY <2>2, <2>3, <3>2, <3>3 DEF Fail
    <3> QED BY <2>2, <2>7, <3>1, <3>2, <3>3 DEF Deliver, LoggedOut, Retry, ShowProfile, ShowData, history
  <2> QED BY <1>2, <2>2, <2>4, <2>5, <2>6, <2>7 DEF Next, Lapse, EndAllSessions, vars, history
<1>3. SInv /\ NoLateRotation /\ SignedOutStaysOut /\ [Next]_vars => SignedOutStaysOut'
  BY <1>2 DEF SignedOutStaysOut
<1>4. QED
  BY <1>1, <1>3, InvAlways, PTL DEF Spec

=============================================================================
