------------------------------- MODULE Session -------------------------------
(***************************************************************************)
(* The signed-in session of a browser: the access token and the user that  *)
(* every tab of src/frontend keeps in memory (lib/api-client.ts,           *)
(* lib/auth-context.tsx), the refresh cookie the tabs share, and the       *)
(* tokens the API issues, rotates and blacklists                           *)
(* (src/backend/apps/accounts/views.py).                                   *)
(*                                                                         *)
(* Tokens are numbered as they are issued.  An issue is a pair: an access  *)
(* token, which lapses by itself, and a refresh token, which is revoked    *)
(* when it is rotated or blacklisted.  0 stands for no token.  A request   *)
(* is sent, handled by the API at one instant and answered at a later one, *)
(* and may be lost in between.                                             *)
(***************************************************************************)
EXTENDS Naturals, FiniteSets

CONSTANTS
    Accounts,      \* the accounts people sign in with
    Nobody,        \* the user of a tab nobody is signed in to
    Tabs,          \* the tabs of one browser
    DoorTabs,      \* bound: the tabs people sign in and out in, and reload
    MaxIssued,     \* bound: how many token pairs the API issues
    MaxInFlight    \* bound: how many calls people have in flight at a time

ASSUME NobodyAssumption == Nobody \notin Accounts
ASSUME BoundsAssumption == MaxIssued \in Nat \ {0} /\ MaxInFlight \in Nat

VARIABLES
    issued,        \* how many token pairs were issued
    owner,         \* the account of each pair
    revoked,       \* the refresh tokens on the blacklist
    lapsed,        \* the access tokens that expired
    cookie,        \* the refresh cookie of the browser
    token,         \* accessToken, per tab
    user,          \* the user of AuthProvider, per tab
    refreshes,     \* the refresh requests in flight, per tab
    calls,         \* what the callers of apiFetch in a tab wait for
    rotatedBy,     \* history: the tabs that rotated a refresh token
    wasted,        \* history: refresh tokens revoked with nobody told
    signedOut      \* history: the tabs whose user signed out last

server == <<issued, owner, revoked, lapsed>>
history == <<rotatedBy, wasted, signedOut>>
vars == <<server, cookie, token, user, refreshes, calls, history>>

Serials == 1..MaxIssued
Tokens == 0..MaxIssued

\* A tab runs restoreSession once, one sign-in or sign-out at a time, and
\* requests of its pages.
Slots == {"boot", "door", "page"}
Kinds == {"restore", "login", "register", "logout", "me", "data"}

Refreshes ==
    [cookie : Tokens, before : Tokens, answered : BOOLEAN, serial : Tokens]

Calls ==
    [kind : Kinds, account : Accounts \cup {Nobody},
     stage : {"idle", "sent", "answered", "waiting"},
     retry : BOOLEAN, bearer : Tokens, cookie : Tokens,
     ok : BOOLEAN, serial : Tokens]

Idle ==
    [kind |-> "data", account |-> Nobody, stage |-> "idle", retry |-> FALSE,
     bearer |-> 0, cookie |-> 0, ok |-> FALSE, serial |-> 0]

\* The request as buildRequestInit sends it: with the token and the cookie
\* of the moment, which only logout reads.
Send(kind, account, retry, bearer, sent) ==
    [kind |-> kind, account |-> account, stage |-> "sent", retry |-> retry,
     bearer |-> bearer, cookie |-> IF kind = "logout" THEN sent ELSE 0,
     ok |-> FALSE, serial |-> 0]

Restoring == [Idle EXCEPT !.kind = "restore", !.stage = "waiting"]

NewRefresh(sent, before) ==
    [cookie |-> sent, before |-> before, answered |-> FALSE, serial |-> 0]

\* Mutant: callers do not share the refresh in flight.
JoinRefresh_EveryCaller(inFlight, sent, before) ==
    inFlight \cup {NewRefresh(sent, before)}

\* refreshAccessToken: callers share the refresh that is in flight.
JoinRefresh(inFlight, sent, before) ==
    IF inFlight # {} THEN inFlight ELSE {NewRefresh(sent, before)}

TypeOK ==
    /\ issued \in Tokens
    /\ owner \in [Serials -> Accounts \cup {Nobody}]
    /\ revoked \subseteq 1..issued
    /\ lapsed \subseteq 1..issued
    /\ cookie \in 0..issued
    /\ token \in [Tabs -> 0..issued]
    /\ user \in [Tabs -> Accounts \cup {Nobody}]
    /\ refreshes \in [Tabs -> SUBSET Refreshes]
    /\ calls \in [Tabs -> [Slots -> Calls]]
    /\ rotatedBy \in [Serials -> SUBSET Tabs]
    /\ wasted \subseteq revoked
    /\ signedOut \subseteq Tabs

\* A browser that may hold a cookie of an earlier visit; every tab starts
\* with restoreSession.
Init ==
    /\ \/ issued = 0 /\ owner = [n \in Serials |-> Nobody]
       \/ /\ issued = 1
          /\ \E a \in Accounts :
                owner = [n \in Serials |-> IF n = 1 THEN a ELSE Nobody]
    /\ revoked = {} /\ lapsed = 1..issued
    /\ cookie = issued
    /\ token = [t \in Tabs |-> 0]
    /\ user = [t \in Tabs |-> Nobody]
    /\ refreshes = [t \in Tabs |-> {NewRefresh(cookie, 0)}]
    /\ calls = [t \in Tabs |->
                  [s \in Slots |-> IF s = "boot" THEN Restoring ELSE Idle]]
    /\ rotatedBy = [n \in Serials |-> {}]
    /\ wasted = {} /\ signedOut = {}

-----------------------------------------------------------------------------
(* The user of a tab. *)

InFlight == {c \in Tabs \X Slots : calls[c[1]][c[2]].stage # "idle"}

MayCall(t, s) ==
    calls[t][s].stage = "idle" /\ Cardinality(InFlight) < MaxInFlight

\* login, registerCustomer, registerVendor: the form disables itself while
\* it submits.
SignIn(t, kind, a) ==
    /\ kind \in {"login", "register"}
    /\ MayCall(t, "door")
    /\ user[t] = Nobody
    /\ calls' = [calls EXCEPT ![t]["door"] =
                    Send(kind, a, FALSE, token[t], cookie)]
    /\ UNCHANGED <<server, cookie, token, user, refreshes, history>>

SignOut(t) ==
    /\ MayCall(t, "door")
    /\ user[t] # Nobody
    /\ calls' = [calls EXCEPT ![t]["door"] =
                    Send("logout", Nobody, FALSE, token[t], cookie)]
    /\ UNCHANGED <<server, cookie, token, user, refreshes, history>>

\* A page reads data, or refetches the profile (shop.updated, requestShop).
Fetch(t, kind) ==
    /\ kind \in {"data", "me"}
    /\ MayCall(t, "page")
    /\ user[t] # Nobody
    /\ calls' = [calls EXCEPT ![t]["page"] =
                    Send(kind, Nobody, FALSE, token[t], cookie)]
    /\ UNCHANGED <<server, cookie, token, user, refreshes, history>>

\* The refresh tokens that were used up for a tab that is not told.
Untold(t) ==
    {r.cookie : r \in {q \in refreshes[t] : q.answered /\ q.serial # 0}}
      \cup {calls[t][s].cookie : s \in {x \in Slots :
               calls[t][x].kind = "logout" /\ calls[t][x].stage = "answered"}}

\* The page is loaded again: its memory is gone, and what was in flight
\* is answered to nobody.
Reload(t) ==
    /\ token' = [token EXCEPT ![t] = 0]
    /\ user' = [user EXCEPT ![t] = Nobody]
    /\ refreshes' = [refreshes EXCEPT ![t] = {NewRefresh(cookie, 0)}]
    /\ calls' = [calls EXCEPT ![t] =
                    [s \in Slots |-> IF s = "boot" THEN Restoring ELSE Idle]]
    /\ wasted' = wasted \cup (revoked \cap Untold(t))
    /\ signedOut' = signedOut \ {t}
    /\ UNCHANGED <<server, cookie, rotatedBy>>

-----------------------------------------------------------------------------
(* The API. *)

\* An access token that a tab holds expires by the clock.
Lapse(n) ==
    /\ n \in 1..issued \ lapsed /\ \E t \in Tabs : token[t] = n
    /\ lapsed' = lapsed \cup {n}
    /\ UNCHANGED <<issued, owner, revoked, cookie, token, user, refreshes,
                   calls, history>>

\* issue_tokens: the next pair.
Issue(a) ==
    /\ issued < MaxIssued
    /\ issued' = issued + 1
    /\ owner' = [owner EXCEPT ![issued + 1] = a]

\* RefreshView: a live refresh token is rotated and blacklisted.
HandleRefresh(t, r) ==
    /\ r \in refreshes[t] /\ ~r.answered
    /\ \/ /\ r.cookie # 0 /\ r.cookie \notin revoked
          /\ Issue(owner[r.cookie])
          /\ revoked' = revoked \cup {r.cookie}
          /\ rotatedBy' = [rotatedBy EXCEPT ![r.cookie] = @ \cup {t}]
          /\ refreshes' = [refreshes EXCEPT ![t] = (@ \ {r}) \cup
                {[r EXCEPT !.answered = TRUE, !.serial = issued + 1]}]
       \/ /\ r.cookie = 0 \/ r.cookie \in revoked
          /\ refreshes' = [refreshes EXCEPT ![t] = (@ \ {r}) \cup
                {[r EXCEPT !.answered = TRUE]}]
          /\ UNCHANGED <<issued, owner, revoked, rotatedBy>>
    /\ UNCHANGED <<lapsed, cookie, token, user, calls, wasted, signedOut>>

Answer(t, ok, serial) ==
    calls' = [calls EXCEPT ![t]["door"].stage = "answered",
                           ![t]["door"].ok = ok, ![t]["door"].serial = serial]

\* A lapsed access token is refused by every endpoint, those that need no
\* sign-in included; /api/auth/me and the data of an account need one.
Refused(c) ==
    \/ c.bearer \in lapsed
    \/ c.bearer = 0 /\ c.kind \in {"me", "data"}

\* A read changes nothing at the API, so that it is handled when its answer
\* arrives is all that matters; a sign-in or sign-out changes it before.
Handle(t) ==
    LET c == calls[t]["door"] IN
    /\ c.stage = "sent" /\ c.kind # "me"
    /\ \/ /\ Refused(c) \/ c.kind # "logout"     \* or a wrong password
          /\ Answer(t, FALSE, 0)
          /\ UNCHANGED <<issued, owner, revoked>>
       \/ /\ ~Refused(c) /\ c.kind \in {"login", "register"}
          /\ Issue(c.account)
          /\ Answer(t, TRUE, issued + 1)
          /\ UNCHANGED revoked
       \/ /\ ~Refused(c) /\ c.kind = "logout"
          /\ Answer(t, TRUE, 0)
          /\ revoked' = revoked \cup ({c.cookie} \ {0})
          /\ UNCHANGED <<issued, owner>>
    /\ UNCHANGED <<lapsed, cookie, token, user, refreshes, history>>

\* blacklist_all_tokens: a password reset ends every session of an account.
EndAllSessions(a) ==
    LET theirs == {n \in 1..issued : owner[n] = a} IN
    /\ ~ theirs \subseteq revoked
    /\ revoked' = revoked \cup theirs
    /\ wasted' = wasted \cup theirs
    /\ UNCHANGED <<issued, owner, lapsed, cookie, token, user, refreshes,
                   calls, rotatedBy, signedOut>>

-----------------------------------------------------------------------------
(* Answers reaching a tab. *)

\* Mutant: the callers are not told of a refresh that failed.
Resumed_OnlyAnswered(c, new, sent) ==
    IF c.stage # "waiting" THEN c
    ELSE IF new = 0 THEN c
    ELSE Send(IF c.kind = "restore" THEN "me" ELSE c.kind, c.account,
              c.kind # "restore", new, sent)

\* How a call goes on when the refresh it waits for ends: it is sent once
\* more if there is a new token, and fails otherwise.
Resumed(c, new, sent) ==
    IF c.stage # "waiting" THEN c
    ELSE IF new = 0 THEN Idle
    ELSE Send(IF c.kind = "restore" THEN "me" ELSE c.kind, c.account,
              c.kind # "restore", new, sent)

\* The callers whose failure clears the tab: logout, and restoreSession,
\* which keeps the token if it was the refresh itself that failed.
Drops(t, s) ==
    calls[t][s].kind = "logout" \/ (s = "boot" /\ calls[t][s].kind = "me")

\* Mutant: the answer to a refresh does not set the rotated cookie.
EndRefresh_OldCookie(t, r, new, kept) ==
    LET failing == {s \in Slots : new = 0 /\ calls[t][s].stage = "waiting"}
        sent == IF new = 0 THEN cookie ELSE new
    IN
    /\ refreshes' = [refreshes EXCEPT ![t] = @ \ {r}]
    /\ cookie' = cookie
    /\ token' = [token EXCEPT ![t] =
                    IF \E s \in failing : Drops(t, s) THEN 0 ELSE kept]
    /\ user' = [user EXCEPT ![t] =
                    IF \E s \in failing : s = "boot" \/ Drops(t, s)
                      THEN Nobody ELSE @]
    /\ signedOut' = IF \E s \in failing : calls[t][s].kind = "logout"
                      THEN signedOut \cup {t} ELSE signedOut
    /\ calls' = [calls EXCEPT ![t] =
                    [s \in Slots |-> Resumed(calls[t][s], new, sent)]]

\* The end of doRefresh, for a result `new` (0 when refused or unreachable)
\* that leaves the access token `kept`; every caller waiting for it goes on.
EndRefresh(t, r, new, kept) ==
    LET failing == {s \in Slots : new = 0 /\ calls[t][s].stage = "waiting"}
        sent == IF new = 0 THEN cookie ELSE new
    IN
    /\ refreshes' = [refreshes EXCEPT ![t] = @ \ {r}]
    /\ cookie' = sent
    /\ token' = [token EXCEPT ![t] =
                    IF \E s \in failing : Drops(t, s) THEN 0 ELSE kept]
    /\ user' = [user EXCEPT ![t] =
                    IF \E s \in failing : s = "boot" \/ Drops(t, s)
                      THEN Nobody ELSE @]
    /\ signedOut' = IF \E s \in failing : calls[t][s].kind = "logout"
                      THEN signedOut \cup {t} ELSE signedOut
    /\ calls' = [calls EXCEPT ![t] =
                    [s \in Slots |-> Resumed(calls[t][s], new, sent)]]

RefreshSucceeds(t, r) ==
    /\ r \in refreshes[t] /\ r.answered /\ r.serial # 0
    /\ EndRefresh(t, r, r.serial, r.serial)
    /\ UNCHANGED <<server, rotatedBy, wasted>>

\* Mutant: a refused refresh clears whatever token there is.
TokenAfterRefusal_Always(t, r) == 0

\* Only the token the refresh was for is dropped, not one set meanwhile.
TokenAfterRefusal(t, r) == IF token[t] = r.before THEN 0 ELSE token[t]

RefreshRefused(t, r) ==
    /\ r \in refreshes[t] /\ r.answered /\ r.serial = 0
    /\ EndRefresh(t, r, 0, TokenAfterRefusal(t, r))
    /\ UNCHANGED <<server, rotatedBy, wasted>>

\* The API is unreachable, before or after it handled the refresh.
RefreshLost(t, r) ==
    /\ r \in refreshes[t]
    /\ EndRefresh(t, r, 0, token[t])
    /\ wasted' = IF r.serial # 0 THEN wasted \cup {r.cookie} ELSE wasted
    /\ UNCHANGED <<server, rotatedBy>>

Reads == {"me", "data"}

\* The answers of status 401.
Unauthorised(c) ==
    \/ c.kind \notin Reads /\ c.stage = "answered" /\ ~c.ok
    \/ c.kind \in Reads /\ c.stage = "sent" /\ Refused(c)

Answered(c, kind) ==
    /\ c.kind = kind
    /\ IF kind \in Reads THEN c.stage = "sent" /\ ~Refused(c)
                         ELSE c.stage = "answered" /\ c.ok

\* apiFetch: the first 401 of a request joins or starts a refresh.
Retry(t, s) ==
    LET c == calls[t][s] IN
    /\ Unauthorised(c) /\ ~c.retry
    /\ refreshes' = [refreshes EXCEPT ![t] = JoinRefresh(@, cookie, token[t])]
    /\ calls' = [calls EXCEPT ![t][s].stage = "waiting"]
    /\ UNCHANGED <<server, cookie, token, user, history>>

Settle(t, s, c) == calls' = [calls EXCEPT ![t][s] = c]

\* login sets the token and fetches the profile; registration answers with it.
SignedIn(t) ==
    LET c == calls[t]["door"] IN
    /\ Answered(c, "login") \/ Answered(c, "register")
    /\ cookie' = c.serial
    /\ token' = [token EXCEPT ![t] = c.serial]
    /\ signedOut' = signedOut \ {t}
    /\ \/ /\ c.kind = "login"
          /\ Settle(t, "door", Send("me", Nobody, FALSE, c.serial, c.serial))
          /\ UNCHANGED user
       \/ /\ c.kind = "register"
          /\ Settle(t, "door", Idle)
          /\ user' = [user EXCEPT ![t] = c.account]
    /\ UNCHANGED <<server, refreshes, rotatedBy, wasted>>

\* refreshUser: the profile shown is that of the token the request carried.
ShowProfile(t, s) ==
    LET c == calls[t][s] IN
    /\ Answered(c, "me")
    /\ user' = [user EXCEPT ![t] = owner[c.bearer]]
    /\ Settle(t, s, Idle)
    /\ UNCHANGED <<server, cookie, token, refreshes, history>>

ShowData(t, s) ==
    LET c == calls[t][s] IN
    /\ Answered(c, "data")
    /\ Settle(t, s, Idle)
    /\ UNCHANGED <<server, cookie, token, user, refreshes, history>>

\* logout ends: the tab is cleared whatever the API answered, the cookie
\* when it answered 204.
EndLogout(t, cleared) ==
    /\ cookie' = IF cleared THEN 0 ELSE cookie
    /\ token' = [token EXCEPT ![t] = 0]
    /\ user' = [user EXCEPT ![t] = Nobody]
    /\ signedOut' = signedOut \cup {t}
    /\ Settle(t, "door", Idle)
    /\ UNCHANGED <<server, refreshes, rotatedBy>>

LoggedOut(t) ==
    LET c == calls[t]["door"] IN
    /\ Answered(c, "logout")
    /\ EndLogout(t, TRUE)
    /\ UNCHANGED wasted

\* A call that fails for good: the second 401, or the network at any point.
Fail(t, s) ==
    LET c == calls[t][s] IN
    /\ c.stage \in {"sent", "answered"}
    /\ wasted' = IF c.kind = "logout" /\ c.ok
                   THEN wasted \cup ({c.cookie} \cap revoked) ELSE wasted
    /\ \/ s = "door" /\ c.kind = "logout" /\ EndLogout(t, FALSE)
       \/ /\ s = "boot"
          /\ Settle(t, s, Idle)
          /\ token' = [token EXCEPT ![t] = 0]
          /\ user' = [user EXCEPT ![t] = Nobody]
          /\ UNCHANGED <<server, cookie, refreshes, rotatedBy, signedOut>>
       \/ /\ c.kind # "logout" /\ s # "boot"
          /\ Settle(t, s, Idle)
          /\ UNCHANGED <<server, cookie, token, user, refreshes, rotatedBy,
                         signedOut>>

-----------------------------------------------------------------------------
\* A refresh in flight ends.
DeliverRefresh(t) ==
    \E r \in refreshes[t] :
        RefreshSucceeds(t, r) \/ RefreshRefused(t, r) \/ RefreshLost(t, r)

\* The answer to a call arrives, or the network fails it.
Deliver(t, s) ==
    \/ s = "door" /\ (SignedIn(t) \/ LoggedOut(t))
    \/ Retry(t, s) \/ ShowProfile(t, s) \/ ShowData(t, s) \/ Fail(t, s)

API(t) ==
    \/ \E r \in refreshes[t] : HandleRefresh(t, r)
    \/ Handle(t)

People(t) ==
    \/ /\ t \in DoorTabs
       /\ \/ \E kind \in Kinds, a \in Accounts : SignIn(t, kind, a)
          \/ SignOut(t)
          \/ Reload(t)
    \/ \E kind \in Kinds : Fetch(t, kind)

Next ==
    \/ \E t \in Tabs :
          \/ People(t) \/ API(t) \/ DeliverRefresh(t)
          \/ \E s \in Slots : Deliver(t, s)
    \/ \E n \in Serials : Lapse(n)
    \/ \E a \in Accounts : EndAllSessions(a)

\* The network answers or fails every request, and the browser runs the
\* continuation; nothing obliges people to act.
Fairness ==
    \A t \in Tabs :
        /\ WF_vars(DeliverRefresh(t))
        /\ \A s \in Slots : WF_vars(Deliver(t, s))

Spec == Init /\ [][Next]_vars /\ Fairness

-----------------------------------------------------------------------------
(* Properties. *)

Live(n) == n # 0 /\ n \notin revoked

\* The answers on their way that will set the cookie to a live token, or
\* clear it.
Coming(t) ==
    \/ \E r \in refreshes[t] : r.answered /\ Live(r.serial)
    \/ \E s \in Slots : calls[t][s].stage = "answered" /\ calls[t][s].ok
                          /\ calls[t][s].kind = "logout"

\* Rotation never strands the browser: a cookie the API would refuse is on
\* the way to be replaced or cleared, unless an answer was lost or the
\* account was signed out everywhere (RefreshView.post).
CookieNeverStranded ==
    cookie \in revoked => cookie \in wasted \/ \E t \in Tabs : Coming(t)

\* A tab is never refused because of its own rotation: callers share the
\* refresh in flight, so none presents the cookie the first one used up
\* (refreshInFlight in api-client.ts).
OwnRotationNeverRefuses ==
    \A t \in Tabs : \A r \in refreshes[t] :
        r.answered /\ r.serial = 0 /\ r.cookie # 0 /\ t \in rotatedBy[r.cookie]
            => r.cookie \in wasted

\* A refused refresh never takes away a token that was set while it was in
\* flight, by a sign-in for one, unless a caller that waits for it clears the
\* tab, as a sign-out does (doRefresh in api-client.ts).
RefusalKeepsNewerToken ==
    [][\A t \in Tabs : \A r \in refreshes[t] :
         refreshes'[t] = refreshes[t] \ {r} /\ r.answered /\ r.serial = 0
         /\ token[t] # r.before
         /\ (\A s \in Slots : calls[t][s].stage = "waiting" => ~Drops(t, s))
            => token'[t] = token[t]]_vars

\* Nobody waits for a refresh that is over: every call that waits has one
\* in flight in its tab, whatever ended the one before (refreshAccessToken).
NobodyWaitsAlone ==
    \A t \in Tabs : \A s \in Slots :
        calls[t][s].stage = "waiting" => refreshes[t] # {}

\* A tab that signed out holds no access token until somebody signs in.
SignedOutStaysOut == \A t \in signedOut : token[t] = 0
=============================================================================
