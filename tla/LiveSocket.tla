----------------------------- MODULE LiveSocket -----------------------------
(***************************************************************************)
(* The live-update socket of one tab: RealtimeConnection of                *)
(* src/frontend/src/lib/realtime.ts and the RealtimeConsumer that serves   *)
(* it (src/backend/apps/realtime/consumers.py).  Components mount and      *)
(* unmount, the access token changes under the connection, the socket      *)
(* drops, and messages are on their way in both directions, in order.      *)
(* The delay before a reconnection is left out: a timer fires at any time. *)
(***************************************************************************)
EXTENDS Naturals, Sequences, FiniteSets, SequencesExt

CONSTANTS
    Accounts,      \* the accounts that sign in
    Nobody,        \* no account: signed out, or an anonymous socket
    Components,    \* the mounted components that listen
    Watches,       \* the orders that may be watched
    Nothing,       \* the watch of a component that watches no order
    WatchOf,       \* the watch of each component
    MayWatch,      \* the orders an account may watch by id
    GuestWatches,  \* the orders watched by their private token
    MaxSubscriptions, \* MAX_ORDER_SUBSCRIPTIONS: the orders one socket may watch
    MaxQueue,      \* bound: messages on their way when people act
    MaxDrops       \* bound: how often the socket drops

ASSUME NamesAssumption == Nobody \notin Accounts /\ Nothing \notin Watches
ASSUME WatchAssumption ==
    /\ WatchOf \in [Components -> Watches \cup {Nothing}]
    /\ MayWatch \in [Accounts -> SUBSET Watches]
    /\ GuestWatches \subseteq Watches
ASSUME FiniteAssumption == IsFiniteSet(Components) /\ IsFiniteSet(Watches)
ASSUME CapAssumption == MaxSubscriptions \in Nat \ {0}
ASSUME BoundsAssumption == MaxQueue \in Nat /\ MaxDrops \in Nat

VARIABLES
    mounted,       \* the components listening
    subscriptions, \* how many of them watch each order
    token,         \* the access token: its account, and whether it is valid
    asking,        \* a refresh that auth.error asked for is in flight
    conn,          \* the connection, see Connections
    drops          \* how often the socket dropped

vars == <<mounted, subscriptions, token, asking, conn, drops>>

Somebody == Accounts \cup {Nobody}
AccessTokens == [account : Somebody, valid : BOOLEAN]
SignedOut == [account |-> Nobody, valid |-> FALSE]

ToServer ==
    [type : {"auth"}, account : Accounts, valid : BOOLEAN]
      \cup [type : {"subscribe", "unsubscribe"}, watch : Watches]
ToClient == {"auth.ok", "auth.error", "close"}

\* The fields of RealtimeConnection, and the consumer at the other end of
\* its current socket: who it authenticated and the order groups it joined.
Connections ==
    [socket : {"none", "connecting", "open"}, connected : BOOLEAN,
     retryTimer : BOOLEAN, authRetried : BOOLEAN,
     up : Seq(ToServer), down : Seq(ToClient),
     user : Somebody, groups : SUBSET Watches]

Unconnected ==
    [socket |-> "none", connected |-> FALSE, retryTimer |-> FALSE,
     authRetried |-> FALSE, up |-> <<>>, down |-> <<>>, user |-> Nobody,
     groups |-> {}]

TypeOK ==
    /\ mounted \subseteq Components
    /\ subscriptions \in [Watches -> 0..Cardinality(Components)]
    /\ token \in AccessTokens
    /\ asking \in BOOLEAN
    /\ conn \in Connections
    /\ drops \in 0..MaxDrops

Init ==
    /\ mounted = {}
    /\ subscriptions = [w \in Watches |-> 0]
    /\ token \in {SignedOut} \cup [account : Accounts, valid : {TRUE}]
    /\ asking = FALSE
    /\ conn = Unconnected
    /\ drops = 0

-----------------------------------------------------------------------------
(* The private methods, as what they make of a connection. *)

\* send: a message is dropped unless the socket is open.
Sent(c, messages) ==
    IF c.socket = "open" THEN [c EXCEPT !.up = @ \o messages] ELSE c

\* connect: a new socket.  One that cannot be created drops at once.
Connect(c) ==
    [Unconnected EXCEPT !.socket = "connecting", !.connected = c.connected]

\* The messages that subscribe to every order watched, in some order.
Listed(W) ==
    LET order == SetToSeq(W)
    IN  [i \in DOMAIN order |-> [type |-> "subscribe", watch |-> order[i]]]

\* Mutant: what was refused before the account was known is not sent again.
Ready_NothingResent(c, W) == [c EXCEPT !.connected = TRUE]

\* ready: every subscription is sent again.
Ready(c, W) == [Sent(c, Listed(W)) EXCEPT !.connected = TRUE]

Watched == {w \in Watches : subscriptions[w] > 0}

Auth(t) == [type |-> "auth", account |-> t.account, valid |-> t.valid]

\* Mutant: the socket of the old account is kept after a sign-out.
AfterToken_SocketKept(c, t) ==
    IF c.socket = "none" THEN c
    ELSE IF t.account # Nobody THEN Sent(c, <<Auth(t)>>)
    ELSE c

\* onTokenChange: a new token is presented on the socket that is open; a
\* sign-out replaces the socket.
AfterToken(c, t) ==
    IF c.socket = "none" THEN c
    ELSE IF t.account # Nobody THEN Sent(c, <<Auth(t)>>)
    ELSE Connect(Unconnected)

\* Mutant: a dropped socket is not opened again.
AfterClose_NoRetry(code) ==
    IF mounted = {} THEN Unconnected
    ELSE IF code = "close" THEN Connect(Unconnected)
    ELSE Unconnected

\* onclose: the server's wish to start over is followed at once, any other
\* close after a delay.
AfterClose(code) ==
    IF mounted = {} THEN Unconnected
    ELSE IF code = "close" THEN Connect(Unconnected)
    ELSE [Unconnected EXCEPT !.retryTimer = TRUE]

HasRoom == Len(conn.up) + Len(conn.down) < MaxQueue

-----------------------------------------------------------------------------
(* Components. *)

\* listen
Mount(p) ==
    LET w == WatchOf[p]
        first == w # Nothing /\ subscriptions[w] = 0
        told == IF first /\ conn.connected
                  THEN Sent(conn, <<[type |-> "subscribe", watch |-> w]>>)
                  ELSE conn
    IN
    /\ p \notin mounted /\ HasRoom
    /\ mounted' = mounted \cup {p}
    /\ subscriptions' = IF w = Nothing THEN subscriptions
                        ELSE [subscriptions EXCEPT ![w] = @ + 1]
    /\ conn' = IF told.socket # "none" \/ told.retryTimer
                 THEN told ELSE Connect(told)
    /\ UNCHANGED <<token, asking, drops>>

\* The function that listen returns; the last one stops the connection.
Unmount(p) ==
    LET w == WatchOf[p]
        last == w # Nothing /\ subscriptions[w] = 1
        told == IF last /\ conn.connected
                  THEN Sent(conn, <<[type |-> "unsubscribe", watch |-> w]>>)
                  ELSE conn
    IN
    /\ p \in mounted /\ HasRoom
    /\ mounted' = mounted \ {p}
    /\ subscriptions' = IF w = Nothing THEN subscriptions
                        ELSE [subscriptions EXCEPT ![w] = @ - 1]
    /\ conn' = IF mounted' = {} THEN Unconnected ELSE told
    /\ UNCHANGED <<token, asking, drops>>

\* wake: the tab becomes visible.
Wake ==
    /\ mounted # {} /\ conn.socket = "none"
    /\ conn' = Connect(conn)
    /\ UNCHANGED <<mounted, subscriptions, token, asking, drops>>

-----------------------------------------------------------------------------
(* The session changes the token; only a connection that listens is told. *)

SetToken(t) ==
    /\ token' = t
    /\ conn' = IF mounted = {} THEN conn ELSE AfterToken(conn, t)

\* A sign-in, or a refresh that a page asked for.
TokenSet(a) ==
    /\ HasRoom
    /\ SetToken([account |-> a, valid |-> TRUE])
    /\ UNCHANGED <<mounted, subscriptions, asking, drops>>

TokenCleared ==
    /\ token.account # Nobody
    /\ SetToken(SignedOut)
    /\ UNCHANGED <<mounted, subscriptions, asking, drops>>

TokenLapses ==
    /\ token.valid
    /\ token' = [token EXCEPT !.valid = FALSE]
    /\ UNCHANGED <<mounted, subscriptions, asking, conn, drops>>

\* The refresh that auth.error asked for: it sets a new token, of the account of
\* the cookie, even if the tab has signed out or in since,
RefreshSucceeds ==
    /\ asking
    /\ asking' = FALSE
    /\ \E a \in Accounts : SetToken([account |-> a, valid |-> TRUE])
    /\ UNCHANGED <<mounted, subscriptions, drops>>

\* or it is refused, clears the token, and the connection is ready without
\* one: whatever socket, if any, it has by then.  A valid token was set
\* meanwhile and is not cleared.
RefreshRefused ==
    /\ asking /\ ~token.valid
    /\ asking' = FALSE
    /\ token' = SignedOut
    /\ conn' = Ready(IF mounted = {} \/ token.account = Nobody THEN conn
                     ELSE AfterToken(conn, SignedOut), Watched)
    /\ UNCHANGED <<mounted, subscriptions, drops>>

\* or the token is kept: the API is unreachable, or a sign-in was quicker.
RefreshUnreachable ==
    /\ asking
    /\ asking' = FALSE
    /\ conn' = Ready(conn, Watched)
    /\ UNCHANGED <<mounted, subscriptions, token, drops>>

-----------------------------------------------------------------------------
(* The socket. *)

\* onopen: authenticate first, since an order watched by id needs it.
Open ==
    /\ conn.socket = "connecting"
    /\ LET c == [conn EXCEPT !.socket = "open"] IN
       conn' = IF token.account # Nobody THEN Sent(c, <<Auth(token)>>)
               ELSE Ready(c, Watched)
    /\ UNCHANGED <<mounted, subscriptions, token, asking, drops>>

\* The connection fails or drops, or the server closes an idle socket.
Drop ==
    /\ conn.socket # "none" /\ drops < MaxDrops
    /\ drops' = drops + 1
    /\ conn' = AfterClose("dropped")
    /\ UNCHANGED <<mounted, subscriptions, token, asking>>

RetryTimerFires ==
    /\ conn.retryTimer
    /\ conn' = Connect(conn)
    /\ UNCHANGED <<mounted, subscriptions, token, asking, drops>>

\* Mutant: the second refusal of a token is ignored.
Hear_SecondErrorIgnored ==
    /\ conn.socket = "open" /\ conn.down # <<>>
    /\ LET m == Head(conn.down)
           c == [conn EXCEPT !.down = Tail(@)]
       IN
       \/ /\ m = "auth.ok" \/ (m = "auth.error" /\ conn.authRetried)
          /\ conn' = IF m = "auth.ok" THEN Ready(c, Watched) ELSE c
          /\ UNCHANGED asking
       \/ /\ m = "auth.error" /\ ~conn.authRetried
          /\ conn' = [c EXCEPT !.authRetried = TRUE]
          /\ asking' = TRUE
       \/ /\ m = "close"
          /\ conn' = AfterClose("close")
          /\ UNCHANGED asking
    /\ UNCHANGED <<mounted, subscriptions, token, drops>>

\* onMessage
Hear ==
    /\ conn.socket = "open" /\ conn.down # <<>>
    /\ LET m == Head(conn.down)
           c == [conn EXCEPT !.down = Tail(@)]
       IN
       \/ /\ m = "auth.ok" \/ (m = "auth.error" /\ conn.authRetried)
          /\ conn' = Ready(c, Watched)
          /\ UNCHANGED asking
       \/ /\ m = "auth.error" /\ ~conn.authRetried
          /\ conn' = [c EXCEPT !.authRetried = TRUE]
          /\ asking' = TRUE
       \/ /\ m = "close"
          /\ conn' = AfterClose("close")
          /\ UNCHANGED asking
    /\ UNCHANGED <<mounted, subscriptions, token, drops>>

-----------------------------------------------------------------------------
(* The consumer. *)

Taken(c) == [c EXCEPT !.up = Tail(@)]

\* _auth: a second account on one socket makes it start over.  A token may
\* lapse, or its account be blocked, while the message is on its way.
Authenticate ==
    /\ conn.socket = "open" /\ conn.up # <<>>
    /\ LET m == Head(conn.up)
           c == Taken(conn)
           reply(r) == [c EXCEPT !.down = Append(@, r)]
       IN
       /\ m.type = "auth"
       /\ \/ conn' = reply("auth.error")
          \/ /\ m.valid
             /\ conn' = IF conn.user \in {Nobody, m.account}
                          THEN [reply("auth.ok") EXCEPT !.user = m.account]
                          ELSE reply("close")
    /\ UNCHANGED <<mounted, subscriptions, token, asking, drops>>

\* _order_id_for: the orders the requester may watch.
Permitted(c) ==
    GuestWatches \cup (IF c.user = Nobody THEN {} ELSE MayWatch[c.user])

\* _subscription: joins or leaves the group of an order; a socket that watches
\* too many joins no other, and stays open.
Subscription ==
    /\ conn.socket = "open" /\ conn.up # <<>>
    /\ LET m == Head(conn.up)
           c == Taken(conn)
           mine == {m.watch} \cap Permitted(c)
       IN
       \/ /\ m.type = "subscribe"
          /\ conn' = IF mine \subseteq c.groups \/ Cardinality(c.groups) < MaxSubscriptions
                       THEN [c EXCEPT !.groups = @ \cup mine]
                       ELSE c
       \/ /\ m.type = "unsubscribe"
          /\ conn' = [c EXCEPT !.groups = @ \ mine]
    /\ UNCHANGED <<mounted, subscriptions, token, asking, drops>>

-----------------------------------------------------------------------------
Session ==
    \/ \E a \in Accounts : TokenSet(a)
    \/ TokenCleared \/ TokenLapses

Refresh == RefreshSucceeds \/ RefreshRefused \/ RefreshUnreachable

Network == Open \/ RetryTimerFires \/ Hear \/ Authenticate \/ Subscription

Next ==
    \/ \E p \in Components : Mount(p) \/ Unmount(p)
    \/ Wake \/ Session \/ Refresh \/ Drop \/ Network

\* The browser and the server handle what reaches them; people, the
\* session and failures owe nothing.
Fairness ==
    /\ WF_vars(Open) /\ WF_vars(RetryTimerFires) /\ WF_vars(Hear)
    /\ WF_vars(Authenticate \/ Subscription) /\ WF_vars(Refresh)

Spec == Init /\ [][Next]_vars /\ Fairness

-----------------------------------------------------------------------------
(* Properties. *)

\* Nothing is on its way between the two ends, and the session is quiet.
Quiet == conn.socket = "open" /\ conn.up = <<>> /\ conn.down = <<>> /\ ~asking

\* Once a connected socket is quiet, the server's groups are exactly the
\* watched orders its account may see: subscriptions refused before the
\* account was known were sent again, and those given up were left (ready).
\* consumers.py says of its cap that nobody legitimately watches more orders: if
\* there are more, a watch that was refused is missed, but none is kept too long.
WatchesJoined ==
    Quiet /\ conn.connected =>
        /\ conn.groups \subseteq Watched \cap Permitted(conn)
        /\ Cardinality(Watches) <= MaxSubscriptions =>
               Watched \cap Permitted(conn) \subseteq conn.groups

\* The socket never keeps an account the tab has left: the server is still
\* to be told of another, about to close, or it refused a token on this
\* socket (onTokenChange, _auth).
SocketFollowsAccount ==
    conn.socket = "open" /\ conn.user # Nobody /\ token.account # conn.user =>
        \/ \E i \in 1..Len(conn.up) :
              conn.up[i].type = "auth" /\ conn.up[i].account # conn.user
        \/ \E i \in 1..Len(conn.down) : conn.down[i] \in {"close", "auth.error"}
        \/ conn.authRetried

\* A tab that listens always has a socket or a timer that will open one,
\* and one that does not has neither (start, stop, scheduleReconnect).
NeverStuckNorLeaked ==
    mounted # {} <=> conn.socket # "none" \/ conn.retryTimer

\* Listening components are connected in the end, or leave, once people
\* stop signing in and out: no refusal, lapse or drop silences the tab for
\* good.
ListenersGetConnected ==
    <>[][~Session]_vars =>
        (mounted # {} ~> (mounted # {} => conn.socket = "open" /\ conn.connected))

-----------------------------------------------------------------------------
(* What the repository says and the code does not keep: a run of TLC with    *)
(* this added refutes it.  No run of the project checks it.                *)

\* isConnected tells pages that the socket is up, so that they poll less.
ConnectedMeansUp == conn.connected => conn.socket = "open"

=============================================================================
