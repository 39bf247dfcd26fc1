-------------------------- MODULE LiveSocketProofs --------------------------
(***************************************************************************)
(* Proofs about LiveSocket, for any accounts, components and orders, and   *)
(* any number of messages and drops: a listening tab always has a socket   *)
(* or a timer, the socket follows the account, and a quiet connection      *)
(* watches exactly what the components watch, up to the server's cap.      *)
(***************************************************************************)
EXTENDS LiveSocket, FiniteSetTheorems, TLAPS

-----------------------------------------------------------------------------
(* Queues: whether one has a message of a kind, and what the last is.      *)

Lacks(q, M) == \A i \in 1..Len(q) : q[i] \notin M

\* The last message of kind M, if there is one, is in X.
LastIn(q, M, X) ==
    \/ Lacks(q, M)
    \/ \E j \in 1..Len(q) : /\ q[j] \in M \cap X
                            /\ \A k \in 1..Len(q) : k > j => q[k] \notin M

LEMMA TailQueue ==
  ASSUME NEW S, NEW q \in Seq(S), q # <<>>, NEW M
  PROVE  /\ Tail(q) \in Seq(S) /\ Head(q) \in S
         /\ Lacks(q, M) => Lacks(Tail(q), M)
         /\ Lacks(Tail(q), M) /\ Head(q) \notin M => Lacks(q, M)
<1>1. /\ Tail(q) \in Seq(S) /\ Len(Tail(q)) = Len(q) - 1 /\ Len(q) \in Nat \ {0}
      /\ Head(q) = q[1] /\ Head(q) \in S
      /\ \A i \in 1..Len(Tail(q)) : Tail(q)[i] = q[i + 1]
  OBVIOUS
<1>2. ASSUME Lacks(q, M)
      PROVE  Lacks(Tail(q), M)
  BY <1>1, <1>2 DEF Lacks
<1>3. ASSUME Lacks(Tail(q), M), Head(q) \notin M
      PROVE  Lacks(q, M)
  <2> SUFFICES ASSUME NEW i \in 1..Len(q) PROVE q[i] \notin M
    BY DEF Lacks
  <2>1. CASE i = 1
    BY <2>1, <1>1, <1>3
  <2>2. CASE i # 1
    <3>1. i - 1 \in 1..Len(Tail(q)) /\ Tail(q)[i - 1] = q[i]
      BY <2>2, <1>1
    <3> QED BY <3>1, <1>3 DEF Lacks
  <2> QED BY <2>1, <2>2
<1> QED BY <1>1, <1>2, <1>3

LEMMA TailLast ==
  ASSUME NEW S, NEW q \in Seq(S), q # <<>>, NEW M, NEW X, LastIn(q, M, X)
  PROVE  /\ LastIn(Tail(q), M, X)
         /\ Lacks(Tail(q), M) /\ Head(q) \in M => Head(q) \in X
<1>1. /\ Tail(q) \in Seq(S) /\ Len(Tail(q)) = Len(q) - 1 /\ Len(q) \in Nat \ {0}
      /\ Head(q) = q[1]
      /\ \A i \in 1..Len(Tail(q)) : Tail(q)[i] = q[i + 1]
  OBVIOUS
<1>2. CASE Lacks(q, M)
  BY <1>1, <1>2, TailQueue DEF LastIn, Lacks
<1>3. CASE ~Lacks(q, M)
  <2>1. PICK j \in 1..Len(q) : /\ q[j] \in M \cap X
                               /\ \A k \in 1..Len(q) : k > j => q[k] \notin M
    BY <1>3 DEF LastIn
  <2>2. CASE j = 1
    <3>1. Lacks(Tail(q), M)
      BY <2>1, <2>2, <1>1 DEF Lacks
    <3> QED BY <3>1, <2>1, <2>2, <1>1 DEF LastIn
  <2>3. CASE j # 1
    <3>1. j - 1 \in 1..Len(Tail(q)) /\ Tail(q)[j - 1] \in M \cap X
      BY <2>1, <2>3, <1>1
    <3>2. \A k \in 1..Len(Tail(q)) : k > j - 1 => Tail(q)[k] \notin M
      BY <2>1, <1>1
    <3>3. LastIn(Tail(q), M, X) /\ ~Lacks(Tail(q), M)
      BY <3>1, <3>2 DEF LastIn, Lacks
    <3> QED BY <3>3
  <2> QED BY <2>2, <2>3
<1> QED BY <1>2, <1>3

LEMMA JoinedQueues ==
  ASSUME NEW S, NEW q \in Seq(S), NEW r \in Seq(S), NEW M
  PROVE  /\ q \o r \in Seq(S)
         /\ Lacks(q \o r, M) <=> Lacks(q, M) /\ Lacks(r, M)
<1>1. /\ q \o r \in Seq(S) /\ Len(q \o r) = Len(q) + Len(r)
      /\ Len(q) \in Nat /\ Len(r) \in Nat
      /\ \A i \in 1..Len(q) : (q \o r)[i] = q[i] /\ i \in 1..Len(q \o r)
      /\ \A i \in 1..Len(r) : (q \o r)[Len(q) + i] = r[i] /\ Len(q) + i \in 1..Len(q \o r)
  OBVIOUS
<1>2. \A i \in 1..Len(q \o r) :
         i \in 1..Len(q) \/ (i - Len(q) \in 1..Len(r) /\ (q \o r)[i] = r[i - Len(q)])
  BY <1>1
<1> QED BY <1>1, <1>2 DEF Lacks

LEMMA JoinedLast ==
  ASSUME NEW S, NEW q \in Seq(S), NEW r \in Seq(S), NEW M, NEW X, LastIn(r, M, X),
         LastIn(q, M, X) \/ ~Lacks(r, M)
  PROVE  LastIn(q \o r, M, X)
<1>1. /\ q \o r \in Seq(S) /\ Len(q \o r) = Len(q) + Len(r)
      /\ Len(q) \in Nat /\ Len(r) \in Nat
      /\ \A i \in 1..Len(q) : (q \o r)[i] = q[i] /\ i \in 1..Len(q \o r)
      /\ \A i \in 1..Len(r) : (q \o r)[Len(q) + i] = r[i] /\ Len(q) + i \in 1..Len(q \o r)
  OBVIOUS
<1>2. \A i \in 1..Len(q \o r) :
         i \in 1..Len(q) \/ (i - Len(q) \in 1..Len(r) /\ (q \o r)[i] = r[i - Len(q)])
  BY <1>1
<1>3. CASE Lacks(r, M) /\ Lacks(q, M)
  BY <1>3, JoinedQueues DEF LastIn
<1>4. CASE Lacks(r, M) /\ ~Lacks(q, M)
  <2>1. PICK j \in 1..Len(q) : /\ q[j] \in M \cap X
                               /\ \A k \in 1..Len(q) : k > j => q[k] \notin M
    BY <1>4 DEF LastIn
  <2>2. j \in 1..Len(q \o r) /\ (q \o r)[j] \in M \cap X
    BY <2>1, <1>1
  <2>3. \A k \in 1..Len(q \o r) : k > j => (q \o r)[k] \notin M
    BY <2>1, <1>1, <1>2, <1>4 DEF Lacks
  <2> QED BY <2>2, <2>3 DEF LastIn
<1>5. CASE ~Lacks(r, M)
  <2>1. PICK j \in 1..Len(r) : /\ r[j] \in M \cap X
                               /\ \A k \in 1..Len(r) : k > j => r[k] \notin M
    BY <1>5 DEF LastIn
  <2>2. Len(q) + j \in 1..Len(q \o r) /\ (q \o r)[Len(q) + j] \in M \cap X
    BY <2>1, <1>1
  <2>3. \A k \in 1..Len(q \o r) : k > Len(q) + j => (q \o r)[k] \notin M
    <3> SUFFICES ASSUME NEW k \in 1..Len(q \o r), k > Len(q) + j
                 PROVE  (q \o r)[k] \notin M
      OBVIOUS
    <3>1. k - Len(q) \in 1..Len(r) /\ (q \o r)[k] = r[k - Len(q)] /\ k - Len(q) > j
      BY <1>1, <1>2
    <3> QED BY <3>1, <2>1
  <2> QED BY <2>2, <2>3 DEF LastIn
<1> QED BY <1>3, <1>4, <1>5

LEMMA OneMore ==
  ASSUME NEW S, NEW q \in Seq(S), NEW m \in S, NEW M, NEW X
  PROVE  /\ q \o <<m>> \in Seq(S)
         /\ Lacks(q \o <<m>>, M) <=> Lacks(q, M) /\ m \notin M
         /\ m \in M \cap X \/ (m \notin M /\ LastIn(q, M, X)) => LastIn(q \o <<m>>, M, X)
<1> DEFINE r == <<m>>
<1>1. r \in Seq(S) /\ Len(r) = 1 /\ r[1] = m
  OBVIOUS
<1>2. \A i \in 1..1 : i = 1
  OBVIOUS
<1> HIDE DEF r
<1>3. Lacks(r, M) <=> m \notin M
  BY <1>1, <1>2 DEF Lacks
<1>4. m \in M \cap X => LastIn(r, M, X)
  BY <1>1, <1>2 DEF LastIn
<1>5. m \notin M => LastIn(r, M, X)
  BY <1>3 DEF LastIn
<1>6. q \o r \in Seq(S) /\ (Lacks(q \o r, M) <=> Lacks(q, M) /\ Lacks(r, M))
  BY <1>1, JoinedQueues
<1>7. LastIn(r, M, X) /\ (LastIn(q, M, X) \/ ~Lacks(r, M)) => LastIn(q \o r, M, X)
  BY <1>1, JoinedLast
<1> QED BY <1>3, <1>4, <1>5, <1>6, <1>7 DEF r

-----------------------------------------------------------------------------
(* The connection.                                                         *)

Auths == [type : {"auth"}, account : Accounts, valid : BOOLEAN]
AuthsOf(a) == {m \in Auths : m.account = a}
Joining(w) == [type : {"subscribe"}, watch : {w}]
Leaving(w) == [type : {"unsubscribe"}, watch : {w}]
About(w) == Joining(w) \cup Leaving(w)

Right(w, W) == IF w \in W THEN Joining(w) ELSE Leaving(w)

\* The server will not take the account the tab has left for its own.
Refusing(c) ==
    c.authRetried \/ \E i \in 1..Len(c.down) : c.down[i] \in {"close", "auth.error"}

\* What is so of a connection c of a tab that is signed in as a and watches the
\* orders W: the last authentication sent is of a, the last message about an order
\* says whether it is watched, and no order is watched but by such a message.
Sound(c, a, W) ==
    /\ c \in Connections
    /\ c.socket # "open" =>
          c.up = <<>> /\ c.down = <<>> /\ c.user = Nobody /\ c.groups = {}
    /\ ~c.connected => c.groups = {} /\ \A w \in Watches : Lacks(c.up, About(w))
    /\ c.groups \subseteq Permitted(c)
    /\ LastIn(c.up, Auths, AuthsOf(a))
    /\ Lacks(c.up, Auths) /\ c.user # Nobody /\ c.user # a => Refusing(c)
    /\ \A w \in Watches : LastIn(c.up, About(w), Right(w, W))
    /\ \A w \in Watches \ W : Lacks(c.up, About(w)) => w \notin c.groups

\* There are no more orders than a socket may watch.
Fits == Cardinality(Watches) <= MaxSubscriptions

\* Then a connection that has nothing on its way is joined to the orders it may watch.
Joined(c, W) ==
    Fits /\ c.connected /\ c.socket = "open" /\ Lacks(c.up, Auths) /\ c.down = <<>> =>
        \A w \in W \cap Permitted(c) : Lacks(c.up, About(w)) => w \in c.groups

LEMMA Kinds ==
  /\ \A m \in Auths : m \in ToServer /\ m.type = "auth" /\ \A w : m \notin About(w)
  /\ \A w \in Watches : \A m \in About(w) :
        m \in ToServer /\ m.type # "auth" /\ m \notin Auths /\ m.watch = w
  /\ \A m \in ToServer :
        \/ m \in Auths
        \/ /\ m.watch \in Watches /\ m \in About(m.watch)
           /\ \A w : w # m.watch => m \notin About(w)
           /\ m.type = "subscribe" <=> m \in Joining(m.watch)
           /\ m.type = "unsubscribe" <=> m \in Leaving(m.watch)
           /\ m.type \in {"subscribe", "unsubscribe"}
<1>1. \A m \in Auths : m \in ToServer /\ m.type = "auth" /\ \A w : m \notin About(w)
  BY DEF Auths, ToServer, About, Joining, Leaving
<1>2. \A w \in Watches : \A m \in About(w) :
         m \in ToServer /\ m.type # "auth" /\ m \notin Auths /\ m.watch = w
  BY DEF Auths, ToServer, About, Joining, Leaving
<1>3. ASSUME NEW m \in ToServer, m \notin Auths
      PROVE  /\ m.watch \in Watches /\ m \in About(m.watch)
             /\ \A w : w # m.watch => m \notin About(w)
             /\ m.type = "subscribe" <=> m \in Joining(m.watch)
             /\ m.type = "unsubscribe" <=> m \in Leaving(m.watch)
             /\ m.type \in {"subscribe", "unsubscribe"}
  <2>1. m \in [type : {"subscribe", "unsubscribe"}, watch : Watches]
    BY <1>3 DEF Auths, ToServer
  <2> QED BY <2>1 DEF About, Joining, Leaving
<1> QED BY <1>1, <1>2, <1>3

LEMMA PermittedWatches ==
  ASSUME NEW c \in Connections
  PROVE  Permitted(c) \subseteq Watches
<1>1. c.user \in Somebody
  BY DEF Connections
<1> QED BY <1>1, WatchAssumption DEF Permitted, Somebody

LEMMA JoiningLeaving ==
  ASSUME NEW w
  PROVE  /\ Joining(w) \subseteq About(w) /\ Leaving(w) \subseteq About(w)
         /\ \A m \in Joining(w) : m \notin Leaving(w)
  BY DEF Joining, Leaving, About

LEMMA EmptyQueue ==
  ASSUME NEW M, NEW X
  PROVE  Lacks(<<>>, M) /\ LastIn(<<>>, M, X)
  BY DEF Lacks, LastIn

\* A socket that is not open has nothing on its way and nobody behind it.
LEMMA ClosedIsSound ==
  ASSUME NEW c \in Connections, c.socket # "open",
         c.up = <<>>, c.down = <<>>, c.user = Nobody, c.groups = {},
         NEW a, NEW W
  PROVE  Sound(c, a, W) /\ Joined(c, W)
<1>1. \A M, X : Lacks(c.up, M) /\ LastIn(c.up, M, X)
  BY EmptyQueue
<1> QED BY <1>1 DEF Sound, Joined

LEMMA StillClosed ==
  ASSUME NEW c, NEW b, NEW V, Sound(c, b, V), c.socket # "open", NEW a, NEW W
  PROVE  Sound(c, a, W) /\ Joined(c, W)
  BY ClosedIsSound DEF Sound

LEMMA NoSocketAtAll ==
  ASSUME NEW a, NEW W
  PROVE  /\ Unconnected \in Connections /\ Sound(Unconnected, a, W) /\ Joined(Unconnected, W)
         /\ Unconnected.socket = "none" /\ ~Unconnected.retryTimer
<1>1. <<>> \in Seq(ToServer) /\ <<>> \in Seq(ToClient)
  OBVIOUS
<1>2. Unconnected \in Connections
  BY <1>1 DEF Unconnected, Connections, Somebody
<1>3. /\ Unconnected.up = <<>> /\ Unconnected.down = <<>> /\ Unconnected.user = Nobody
      /\ Unconnected.groups = {} /\ Unconnected.socket = "none" /\ ~Unconnected.retryTimer
  BY DEF Unconnected
<1> QED BY <1>2, <1>3, ClosedIsSound

LEMMA NewSocket ==
  ASSUME NEW c \in Connections, NEW a, NEW W
  PROVE  /\ Connect(c) \in Connections /\ Sound(Connect(c), a, W) /\ Joined(Connect(c), W)
         /\ Connect(c).socket = "connecting" /\ ~Connect(c).retryTimer
<1>1. c.connected \in BOOLEAN /\ Unconnected \in Connections
  BY NoSocketAtAll DEF Connections
<1>2. Connect(c) \in Connections
  BY <1>1 DEF Connect, Connections
<1>3. /\ Connect(c).up = <<>> /\ Connect(c).down = <<>> /\ Connect(c).user = Nobody
      /\ Connect(c).groups = {} /\ Connect(c).socket = "connecting" /\ ~Connect(c).retryTimer
  BY DEF Connect, Unconnected
<1> QED BY <1>2, <1>3, ClosedIsSound

LEMMA WaitingSocket ==
  ASSUME NEW a, NEW W
  PROVE  LET c == [Unconnected EXCEPT !.retryTimer = TRUE]
         IN c \in Connections /\ Sound(c, a, W) /\ Joined(c, W) /\ c.retryTimer
<1> DEFINE c == [Unconnected EXCEPT !.retryTimer = TRUE]
<1>1. Unconnected \in Connections
  BY NoSocketAtAll
<1>2. c \in Connections
  BY <1>1 DEF Connections
<1>3. /\ c.up = <<>> /\ c.down = <<>> /\ c.user = Nobody
      /\ c.groups = {} /\ c.socket = "none" /\ c.retryTimer
  BY DEF Unconnected
<1> HIDE DEF c
<1> QED BY <1>2, <1>3, ClosedIsSound DEF c

-----------------------------------------------------------------------------
(* What is sent.                                                           *)

\* Only the queue of an open socket changes.
LEMMA SentFields ==
  ASSUME NEW c \in Connections, NEW ms \in Seq(ToServer)
  PROVE  /\ Sent(c, ms) \in Connections
         /\ Sent(c, ms).up = IF c.socket = "open" THEN c.up \o ms ELSE c.up
         /\ Sent(c, ms).socket = c.socket /\ Sent(c, ms).connected = c.connected
         /\ Sent(c, ms).retryTimer = c.retryTimer /\ Sent(c, ms).authRetried = c.authRetried
         /\ Sent(c, ms).down = c.down /\ Sent(c, ms).user = c.user
         /\ Sent(c, ms).groups = c.groups
<1>1. c.up \in Seq(ToServer) /\ c.up \o ms \in Seq(ToServer)
  BY DEF Connections
<1> QED BY <1>1 DEF Sent, Connections

LEMMA AuthSent ==
  ASSUME NEW c, NEW b, NEW W, Sound(c, b, W),
         NEW t \in [account : Accounts, valid : BOOLEAN]
  PROVE  /\ Sound(Sent(c, <<Auth(t)>>), t.account, W) /\ Joined(Sent(c, <<Auth(t)>>), W)
         /\ Sent(c, <<Auth(t)>>).socket = c.socket
         /\ Sent(c, <<Auth(t)>>).retryTimer = c.retryTimer
<1> DEFINE m == Auth(t)
           d == Sent(c, <<m>>)
<1>1. m \in Auths /\ m \in AuthsOf(t.account) /\ m \in ToServer
  BY Kinds DEF Auth, Auths, AuthsOf
<1>2. <<m>> \in Seq(ToServer) /\ \A w : m \notin About(w)
  BY <1>1, Kinds
<1>3. c \in Connections
  BY DEF Sound
<1> HIDE DEF m
<1>4. /\ d \in Connections
      /\ d.up = IF c.socket = "open" THEN c.up \o <<m>> ELSE c.up
      /\ d.socket = c.socket /\ d.connected = c.connected
      /\ d.retryTimer = c.retryTimer /\ d.authRetried = c.authRetried
      /\ d.down = c.down /\ d.user = c.user /\ d.groups = c.groups
  BY <1>2, <1>3, SentFields
<1> HIDE DEF d
<1>5. CASE c.socket # "open"
  <2>1. d.socket # "open" /\ d.up = <<>> /\ d.down = <<>> /\ d.user = Nobody /\ d.groups = {}
    BY <1>4, <1>5 DEF Sound
  <2> QED BY <2>1, <1>4, ClosedIsSound DEF d, m
<1>6. CASE c.socket = "open"
  <2>1. c.up \in Seq(ToServer)
    BY <1>3 DEF Connections
  <2>2. d.up = c.up \o <<m>>
    BY <1>4, <1>6
  <2>7. ~Lacks(d.up, Auths) /\ LastIn(d.up, Auths, AuthsOf(t.account))
    BY <1>1, <2>1, <2>2, OneMore
  <2>3. ASSUME NEW w \in Watches
        PROVE  /\ Lacks(d.up, About(w)) <=> Lacks(c.up, About(w))
               /\ LastIn(d.up, About(w), Right(w, W))
    <3>1. LastIn(c.up, About(w), Right(w, W)) /\ m \notin About(w)
      BY <1>2 DEF Sound
    <3> QED BY <1>1, <2>1, <2>2, <3>1, OneMore
  <2>4. Permitted(d) = Permitted(c)
    BY <1>4 DEF Permitted
  <2>5. Sound(d, t.account, W)
    BY <1>4, <1>6, <2>7, <2>3, <2>4 DEF Sound
  <2>6. Joined(d, W)
    BY <2>7 DEF Joined
  <2> QED BY <2>5, <2>6, <1>4 DEF d, m
<1> QED BY <1>5, <1>6

LEMMA ListedQueue ==
  ASSUME NEW W \in SUBSET Watches
  PROVE  /\ Listed(W) \in Seq(ToServer)
         /\ Lacks(Listed(W), Auths)
         /\ \A w \in W : ~Lacks(Listed(W), About(w))
         /\ \A w \in Watches : LastIn(Listed(W), About(w), Right(w, W))
<1> DEFINE n == Cardinality(W)
           f == SetToSeq(W)
           q == Listed(W)
<1>1. IsFiniteSet(W) /\ n \in Nat
  BY FiniteAssumption, FS_Subset, FS_CardinalityType
<1>2. ExistsBijection(1..n, W)
  BY <1>1, FS_CardinalityType
<1>3. f \in [1..n -> W] /\ IsInjective(f)
  <2>1. \E g : g \in [1..n -> W] /\ IsInjective(g)
    BY <1>2 DEF ExistsBijection, Bijection, Injection
  <2> QED BY <2>1 DEF SetToSeq
<1>4. \A w \in W : \E i \in 1..n : f[i] = w
  <2>1. f \in Injection(1..n, W)
    BY <1>3 DEF Injection
  <2>2. Cardinality(1..n) = Cardinality(W)
    BY <1>1, FS_Interval
  <2>3. f \in Surjection(1..n, W)
    BY <1>1, <2>1, <2>2, FS_Injection
  <2> QED BY <2>3 DEF Surjection
<1>5. q = [i \in 1..n |-> [type |-> "subscribe", watch |-> f[i]]]
  BY <1>3 DEF Listed
<1>6. \A i \in 1..n :
         /\ q[i] = [type |-> "subscribe", watch |-> f[i]]
         /\ f[i] \in W /\ f[i] \in Watches
         /\ q[i] \in ToServer
  <2>1. \A i \in 1..n : q[i] = [type |-> "subscribe", watch |-> f[i]] /\ f[i] \in W
    BY <1>3, <1>5
  <2> HIDE DEF q, f
  <2> QED BY <2>1 DEF ToServer
<1> HIDE DEF f, n
<1>7. q \in Seq(ToServer) /\ Len(q) = n
  BY <1>1, <1>5, <1>6
<1> HIDE DEF q
<1>8. \A i \in 1..n : /\ q[i] \notin Auths /\ q[i] \in Joining(f[i])
                      /\ \A w : q[i] \in About(w) <=> w = f[i]
  <2> SUFFICES ASSUME NEW i \in 1..n
               PROVE  /\ q[i] \notin Auths /\ q[i] \in Joining(f[i])
                      /\ \A w : q[i] \in About(w) <=> w = f[i]
    OBVIOUS
  <2>1. /\ q[i] = [type |-> "subscribe", watch |-> f[i]]
        /\ q[i].type = "subscribe" /\ q[i].watch = f[i]
    BY <1>6
  <2>2. q[i] \notin Auths
    BY <2>1 DEF Auths
  <2>3. q[i] \in Joining(f[i])
    BY <2>1 DEF Joining
  <2>4. ASSUME NEW w, q[i] \in About(w)
        PROVE  w = f[i]
    BY <2>1, <2>4 DEF About, Joining, Leaving
  <2> QED BY <2>2, <2>3, <2>4 DEF About
<1>9. Lacks(q, Auths)
  BY <1>7, <1>8 DEF Lacks
<1>10. \A w \in W : ~Lacks(q, About(w))
  BY <1>4, <1>7, <1>8 DEF Lacks
<1>11. ASSUME NEW w \in Watches
       PROVE  LastIn(q, About(w), Right(w, W))
  <2>1. CASE w \notin W
    BY <1>6, <1>7, <1>8, <2>1 DEF LastIn, Lacks
  <2>2. CASE w \in W
    <3>1. PICK i \in 1..n : f[i] = w
      BY <1>4, <2>2
    <3>2. q[i] \in About(w) \cap Right(w, W)
      BY <1>8, <2>2, <3>1 DEF Right
    <3>3. \A k \in 1..n : k > i => f[k] # w
      BY <1>1, <1>3, <3>1 DEF IsInjective
    <3> QED BY <1>7, <1>8, <3>1, <3>2, <3>3 DEF LastIn
  <2> QED BY <2>1, <2>2
<1> QED BY <1>7, <1>9, <1>10, <1>11 DEF q

LEMMA ReadyIsSound ==
  ASSUME NEW c, NEW a, NEW W \in SUBSET Watches, Sound(c, a, W)
  PROVE  /\ Sound(Ready(c, W), a, W) /\ Joined(Ready(c, W), W)
         /\ Ready(c, W).socket = c.socket /\ Ready(c, W).retryTimer = c.retryTimer
<1> DEFINE L == Listed(W)
           d == Ready(c, W)
<1>1. c \in Connections /\ c.up \in Seq(ToServer)
  BY DEF Sound, Connections
<1>2. /\ L \in Seq(ToServer)
      /\ Lacks(L, Auths)
      /\ \A w \in W : ~Lacks(L, About(w))
      /\ \A w \in Watches : LastIn(L, About(w), Right(w, W))
  BY ListedQueue
<1> HIDE DEF L
<1>3. /\ d \in Connections
      /\ d.up = IF c.socket = "open" THEN c.up \o L ELSE c.up
      /\ d.connected /\ d.socket = c.socket
      /\ d.retryTimer = c.retryTimer /\ d.authRetried = c.authRetried
      /\ d.down = c.down /\ d.user = c.user /\ d.groups = c.groups
  <2>1. /\ Sent(c, L) \in Connections
        /\ Sent(c, L).up = IF c.socket = "open" THEN c.up \o L ELSE c.up
        /\ Sent(c, L).socket = c.socket /\ Sent(c, L).connected = c.connected
        /\ Sent(c, L).retryTimer = c.retryTimer /\ Sent(c, L).authRetried = c.authRetried
        /\ Sent(c, L).down = c.down /\ Sent(c, L).user = c.user
        /\ Sent(c, L).groups = c.groups
    BY <1>1, <1>2, SentFields
  <2>2. d = [Sent(c, L) EXCEPT !.connected = TRUE]
    BY DEF Ready, L
  <2> HIDE DEF d
  <2> QED BY <2>1, <2>2 DEF Connections
<1> HIDE DEF d
<1>4. CASE c.socket # "open"
  <2>1. d.socket # "open" /\ d.up = <<>> /\ d.down = <<>> /\ d.user = Nobody /\ d.groups = {}
    BY <1>3, <1>4 DEF Sound
  <2> QED BY <2>1, <1>3, ClosedIsSound DEF d
<1>5. CASE c.socket = "open"
  <2>1. d.up = c.up \o L
    BY <1>3, <1>5
  <2>2. /\ Lacks(d.up, Auths) => Lacks(c.up, Auths)
        /\ LastIn(d.up, Auths, AuthsOf(a))
    <3>1. LastIn(c.up, Auths, AuthsOf(a)) /\ LastIn(L, Auths, AuthsOf(a))
      BY <1>2 DEF Sound, LastIn
    <3> QED BY <1>1, <1>2, <2>1, <3>1, JoinedQueues, JoinedLast
  <2>3. ASSUME NEW w \in Watches
        PROVE  /\ Lacks(d.up, About(w)) => Lacks(c.up, About(w)) /\ w \notin W
               /\ LastIn(d.up, About(w), Right(w, W))
    <3>1. LastIn(c.up, About(w), Right(w, W)) /\ LastIn(L, About(w), Right(w, W))
      BY <1>2 DEF Sound
    <3>2. Lacks(d.up, About(w)) <=> Lacks(c.up, About(w)) /\ Lacks(L, About(w))
      BY <1>1, <1>2, <2>1, JoinedQueues
    <3>3. LastIn(d.up, About(w), Right(w, W))
      BY <1>1, <1>2, <2>1, <3>1, JoinedLast
    <3> QED BY <1>2, <3>2, <3>3
  <2>4. Permitted(d) = Permitted(c) /\ (Refusing(d) <=> Refusing(c))
    BY <1>3 DEF Permitted, Refusing
  <2>5. Sound(d, a, W)
    BY <1>3, <1>5, <2>2, <2>3, <2>4 DEF Sound
  <2>6. Joined(d, W)
    BY <2>3 DEF Joined
  <2> QED BY <2>5, <2>6, <1>3 DEF d
<1> QED BY <1>4, <1>5

\* The message about the first component to watch an order, or the last.
LEMMA WatchSent ==
  ASSUME NEW c, NEW a, NEW W, NEW V, NEW w \in Watches, Sound(c, a, W),
         NEW m \in Right(w, V), \A v : v # w => (v \in V <=> v \in W),
         NEW d, d = IF c.connected THEN Sent(c, <<m>>) ELSE c
  PROVE  /\ Sound(d, a, V) /\ (Joined(c, W) => Joined(d, V))
         /\ d.socket = c.socket /\ d.retryTimer = c.retryTimer
<1>1. c \in Connections /\ c.up \in Seq(ToServer) /\ c.connected \in BOOLEAN
  BY DEF Sound, Connections
<1>2. m \in About(w) /\ m \in ToServer /\ m \notin Auths /\ \A v : v # w => m \notin About(v)
  <2>1. m \in About(w)
    BY JoiningLeaving DEF Right
  <2>2. m \in ToServer /\ m \notin Auths /\ m.watch = w
    BY <2>1, Kinds
  <2> QED BY <2>1, <2>2, Kinds
<1>3. <<m>> \in Seq(ToServer)
  BY <1>2
<1>4. CASE c.connected /\ c.socket = "open"
  <2>1. /\ d \in Connections /\ d.up = c.up \o <<m>>
        /\ d.socket = c.socket /\ d.connected = c.connected
        /\ d.retryTimer = c.retryTimer /\ d.authRetried = c.authRetried
        /\ d.down = c.down /\ d.user = c.user /\ d.groups = c.groups
    BY <1>1, <1>3, <1>4, SentFields
  <2>0. ASSUME NEW M, NEW X
        PROVE  /\ Lacks(d.up, M) <=> Lacks(c.up, M) /\ m \notin M
               /\ m \in M \cap X => LastIn(d.up, M, X)
               /\ m \notin M /\ LastIn(c.up, M, X) => LastIn(d.up, M, X)
    <3>1. c.up \in Seq(ToServer) /\ m \in ToServer
      BY <1>1, <1>2
    <3>2. /\ Lacks(c.up \o <<m>>, M) <=> Lacks(c.up, M) /\ m \notin M
          /\ m \in M \cap X \/ (m \notin M /\ LastIn(c.up, M, X))
               => LastIn(c.up \o <<m>>, M, X)
      BY ONLY <3>1, OneMore
    <3>3. d.up = c.up \o <<m>>
      BY <2>1
    <3> HIDE <2>1
    <3> QED BY ONLY <3>2, <3>3, Zenon
  <2>2. /\ Lacks(d.up, Auths) <=> Lacks(c.up, Auths)
        /\ LastIn(d.up, Auths, AuthsOf(a))
    <3>1. LastIn(c.up, Auths, AuthsOf(a))
      BY DEF Sound
    <3> QED BY <1>2, <2>0, <3>1
  <2>3. ASSUME NEW v \in Watches
        PROVE  /\ LastIn(d.up, About(v), Right(v, V))
               /\ Lacks(d.up, About(v)) <=> Lacks(c.up, About(v)) /\ v # w
    <3>1. Lacks(d.up, About(v)) <=> Lacks(c.up, About(v)) /\ m \notin About(v)
      BY <2>0
    <3>2. CASE v = w
      <4>1. LastIn(d.up, About(v), Right(v, V))
        <5>1. m \in About(v) \cap Right(v, V)
          BY <1>2, <3>2
        <5> QED BY <5>1, <2>0
      <4> QED BY <4>1, <3>1, <3>2, <1>2
    <3>3. CASE v # w
      <4>1. LastIn(c.up, About(v), Right(v, V)) /\ m \notin About(v)
        BY <3>3, <1>2 DEF Sound, Right
      <4>2. LastIn(d.up, About(v), Right(v, V))
        BY <2>0, <4>1
      <4> QED BY <4>1, <4>2, <3>1, <3>3
    <3> QED BY <3>2, <3>3
  <2>4. Permitted(d) = Permitted(c) /\ (Refusing(d) <=> Refusing(c))
    BY <2>1 DEF Permitted, Refusing
  <2>5. Sound(d, a, V)
    BY <1>4, <2>1, <2>2, <2>3, <2>4 DEF Sound
  <2>6. ASSUME Joined(c, W) PROVE Joined(d, V)
    <3> SUFFICES ASSUME Fits, Lacks(d.up, Auths), d.down = <<>>,
                        NEW v \in V \cap Permitted(d), Lacks(d.up, About(v))
                 PROVE  v \in d.groups
      BY DEF Joined
    <3>1. v \in Watches
      BY <2>1, PermittedWatches
    <3> QED BY <3>1, <2>6, <1>4, <2>1, <2>2, <2>3, <2>4 DEF Joined
  <2> QED BY <2>1, <2>5, <2>6
<1>5. CASE c.socket # "open"
  <2>1. /\ d \in Connections /\ d.up = c.up
        /\ d.socket = c.socket /\ d.retryTimer = c.retryTimer
        /\ d.down = c.down /\ d.user = c.user /\ d.groups = c.groups
    BY <1>1, <1>3, <1>5, SentFields
  <2>2. d.socket # "open" /\ d.up = <<>> /\ d.down = <<>> /\ d.user = Nobody /\ d.groups = {}
    BY <2>1, <1>5 DEF Sound
  <2> QED BY <2>1, <2>2, ClosedIsSound
<1>6. CASE ~c.connected
  <2>1. d = c /\ c.groups = {} /\ \A v \in Watches : Lacks(c.up, About(v))
    BY <1>6 DEF Sound
  <2>2. \A v \in Watches : LastIn(c.up, About(v), Right(v, V))
    BY <2>1 DEF LastIn
  <2>3. Sound(d, a, V) /\ Joined(d, V)
    BY <2>1, <2>2, <1>6 DEF Sound, Joined
  <2> QED BY <2>1, <2>3
<1> QED BY <1>4, <1>5, <1>6

-----------------------------------------------------------------------------
(* What is heard.                                                          *)

\* The answer to an authentication is on its way.
LEMMA AuthTaken ==
  ASSUME NEW c, NEW a, NEW W, Sound(c, a, W), c.socket = "open", c.up # <<>>,
         Head(c.up).type = "auth",
         NEW r \in ToClient, NEW u \in Somebody,
         \/ u = c.user /\ r # "auth.ok"
         \/ u = Head(c.up).account /\ r = "auth.ok" /\ c.user \in {Nobody, u},
         NEW d \in Connections, d.up = Tail(c.up), d.down = Append(c.down, r),
         d.user = u, d.groups = c.groups, d.socket = "open",
         d.connected = c.connected, d.authRetried = c.authRetried
  PROVE  Sound(d, a, W) /\ Joined(d, W)
<1> DEFINE m == Head(c.up)
<1>1. /\ c \in Connections /\ c.up \in Seq(ToServer) /\ c.down \in Seq(ToClient)
      /\ c.user \in Somebody
  BY DEF Sound, Connections
<1>2. Tail(c.up) \in Seq(ToServer) /\ m \in ToServer
  BY <1>1, TailQueue
<1>3. m \in Auths /\ \A w : m \notin About(w)
  BY <1>2, Kinds
<1>4. /\ Append(c.down, r) \in Seq(ToClient) /\ Append(c.down, r) # <<>>
      /\ \E i \in 1..Len(Append(c.down, r)) : Append(c.down, r)[i] = r
  <2> DEFINE q == Append(c.down, r)
  <2>1. /\ q \in Seq(ToClient) /\ Len(q) = Len(c.down) + 1 /\ Len(c.down) \in Nat
        /\ q[Len(c.down) + 1] = r
    BY <1>1
  <2> HIDE DEF q
  <2>2. Len(q) \in 1..Len(q) /\ q[Len(q)] = r /\ q # <<>>
    BY <2>1
  <2> QED BY <2>1, <2>2 DEF q
<1>5. c.user = Nobody \/ u = c.user
  OBVIOUS
<1>6. Permitted(c) \subseteq Permitted(d)
  BY <1>5 DEF Permitted
<1>7. /\ LastIn(d.up, Auths, AuthsOf(a))
      /\ Lacks(d.up, Auths) => m \in AuthsOf(a)
  <2>1. LastIn(c.up, Auths, AuthsOf(a))
    BY DEF Sound
  <2> QED BY <1>1, <1>3, <2>1, TailLast
<1>8. Lacks(d.up, Auths) /\ u # Nobody /\ u # a => Refusing(d)
  <2>1. CASE r # "auth.ok"
    BY <2>1, <1>4 DEF Refusing, ToClient
  <2>2. CASE r = "auth.ok"
    BY <2>2, <1>7 DEF AuthsOf
  <2> QED BY <2>1, <2>2
<1>9. ASSUME NEW w \in Watches
      PROVE  /\ LastIn(d.up, About(w), Right(w, W))
             /\ Lacks(d.up, About(w)) <=> Lacks(c.up, About(w))
  <2>1. LastIn(c.up, About(w), Right(w, W))
    BY DEF Sound
  <2>2. LastIn(d.up, About(w), Right(w, W))
    BY <1>1, <2>1, TailLast
  <2>3. Lacks(d.up, About(w)) <=> Lacks(c.up, About(w))
    BY <1>1, <1>3, TailQueue
  <2> QED BY <2>2, <2>3
<1> HIDE DEF m
<1>10. Sound(d, a, W)
  BY <1>6, <1>7, <1>8, <1>9 DEF Sound
<1>11. Joined(d, W)
  BY <1>4 DEF Joined
<1> QED BY <1>10, <1>11

LEMMA SubscriptionTaken ==
  ASSUME NEW c, NEW a, NEW W, Sound(c, a, W), c.socket = "open", c.up # <<>>,
         NEW d \in Connections, d.up = Tail(c.up), d.down = c.down, d.user = c.user,
         d.socket = "open", d.connected = c.connected, d.authRetried = c.authRetried,
         LET m == Head(c.up)
             mine == {m.watch} \cap Permitted(c)
         IN \/ /\ m.type = "subscribe"
               /\ d.groups = c.groups \cup mine \/ (d.groups = c.groups /\ ~Fits)
            \/ m.type = "unsubscribe" /\ d.groups = c.groups \ mine
  PROVE  Sound(d, a, W) /\ (Joined(c, W) => Joined(d, W))
<1> DEFINE m == Head(c.up)
           w == m.watch
           mine == {w} \cap Permitted(c)
<1>1. /\ c \in Connections /\ c.up \in Seq(ToServer) /\ c.groups \subseteq Watches
  BY DEF Sound, Connections
<1>2. Tail(c.up) \in Seq(ToServer) /\ m \in ToServer
  BY <1>1, TailQueue
<1>3. /\ m \notin Auths /\ w \in Watches /\ m \in About(w)
      /\ \A v : v # w => m \notin About(v)
      /\ m.type = "subscribe" <=> m \in Joining(w)
      /\ m.type = "unsubscribe" <=> m \in Leaving(w)
      /\ m.type \in {"subscribe", "unsubscribe"}
  BY <1>2, Kinds
<1>4. /\ m.type = "subscribe" =>
            d.groups = c.groups \cup mine \/ (d.groups = c.groups /\ ~Fits)
      /\ m.type # "subscribe" => d.groups = c.groups \ mine
  OBVIOUS
<1>5. c.connected
  <2>1. ~Lacks(c.up, About(w))
    <3>1. 1 \in 1..Len(c.up) /\ c.up[1] = m
      BY <1>1
    <3> QED BY <3>1, <1>3 DEF Lacks
  <2> QED BY <2>1, <1>3 DEF Sound
<1>6. Permitted(d) = Permitted(c) /\ (Refusing(d) <=> Refusing(c))
  BY DEF Permitted, Refusing
<1>7. d.groups \subseteq Permitted(c)
  BY <1>4 DEF Sound
<1>8. /\ LastIn(d.up, Auths, AuthsOf(a))
      /\ Lacks(d.up, Auths) <=> Lacks(c.up, Auths)
  <2>1. LastIn(c.up, Auths, AuthsOf(a))
    BY DEF Sound
  <2>2. LastIn(d.up, Auths, AuthsOf(a))
    BY <1>1, <2>1, TailLast
  <2>3. Lacks(d.up, Auths) <=> Lacks(c.up, Auths)
    BY <1>1, <1>3, TailQueue
  <2> QED BY <2>2, <2>3
<1>9. ASSUME NEW v \in Watches
      PROVE  /\ LastIn(d.up, About(v), Right(v, W))
             /\ v # w => (Lacks(d.up, About(v)) <=> Lacks(c.up, About(v)))
             /\ v = w /\ Lacks(d.up, About(v)) => m \in Right(v, W)
  <2>1. LastIn(c.up, About(v), Right(v, W))
    BY DEF Sound
  <2>2. /\ LastIn(d.up, About(v), Right(v, W))
        /\ Lacks(d.up, About(v)) /\ m \in About(v) => m \in Right(v, W)
    BY <1>1, <2>1, TailLast
  <2>3. v # w => (Lacks(d.up, About(v)) <=> Lacks(c.up, About(v)))
    BY <1>1, <1>3, TailQueue
  <2> QED BY <2>2, <2>3, <1>3
<1> HIDE DEF m, w
<1>10. ASSUME NEW v \in Watches, Lacks(d.up, About(v))
       PROVE  /\ v \notin W => v \notin d.groups
              /\ Fits /\ v \in W \cap Permitted(c) /\ v = w => v \in d.groups
              /\ v # w => (v \in d.groups <=> v \in c.groups)
  <2>1. CASE v = w
    <3>1. m \in Right(w, W)
      BY <1>9, <1>10, <2>1
    <3>2. v \in W => m.type = "subscribe"
      BY <2>1, <3>1, <1>3 DEF Right
    <3>3. v \notin W => m.type # "subscribe"
      BY <2>1, <3>1, <1>3, JoiningLeaving DEF Right
    <3>4. v \notin W => v \notin c.groups \ mine
      BY <2>1 DEF Sound
    <3> QED BY <2>1, <3>2, <3>3, <3>4, <1>4
  <2>2. CASE v # w
    <3>1. v \in d.groups <=> v \in c.groups
      BY <2>2, <1>4
    <3>2. Lacks(c.up, About(v))
      BY <2>2, <1>9, <1>10
    <3> QED BY <2>2, <3>1, <3>2 DEF Sound
  <2> QED BY <2>1, <2>2
<1> HIDE DEF mine
<1>11. Sound(d, a, W)
  <2>1. \A v \in Watches : LastIn(d.up, About(v), Right(v, W))
    BY <1>9
  <2>2. \A v \in Watches \ W : Lacks(d.up, About(v)) => v \notin d.groups
    BY <1>10
  <2> QED BY <1>5, <1>6, <1>7, <1>8, <2>1, <2>2 DEF Sound
<1>12. ASSUME Joined(c, W) PROVE Joined(d, W)
  <2> SUFFICES ASSUME Fits, Lacks(d.up, Auths), d.down = <<>>,
                      NEW v \in W \cap Permitted(d), Lacks(d.up, About(v))
               PROVE  v \in d.groups
    BY DEF Joined
  <2>1. v \in Watches
    BY PermittedWatches
  <2>2. v # w => v \in c.groups
    <3>1. v # w => Lacks(c.up, About(v))
      BY <1>9, <2>1
    <3>2. v \in W \cap Permitted(c) /\ Lacks(c.up, Auths) /\ c.down = <<>>
      BY <1>6, <1>8
    <3> QED BY <1>5, <1>12, <3>1, <3>2 DEF Joined
  <2> QED BY <2>1, <2>2, <1>6, <1>10
<1> QED BY <1>11, <1>12

\* A message of the server is taken off the queue.
LEMMA MessageHeard ==
  ASSUME NEW c, NEW a, NEW W, Sound(c, a, W), c.socket = "open", c.down # <<>>,
         NEW d \in Connections, d.down = Tail(c.down), d.up = c.up, d.user = c.user,
         d.groups = c.groups, d.socket = "open", d.connected = c.connected,
         d.authRetried \/ (Head(c.down) = "auth.ok" /\ d.authRetried = c.authRetried)
  PROVE  Sound(d, a, W)
<1>1. c.down \in Seq(ToClient)
  BY DEF Sound, Connections
<1>2. Permitted(d) = Permitted(c)
  BY DEF Permitted
<1>3. ASSUME Refusing(c) PROVE Refusing(d)
  <2>1. CASE d.authRetried
    BY <2>1 DEF Refusing
  <2>2. CASE ~d.authRetried
    <3> DEFINE M == {"close", "auth.error"}
    <3>1. Head(c.down) \notin M
      BY <2>2
    <3>2. ~Lacks(c.down, M)
      BY <1>3, <2>2 DEF Refusing, Lacks
    <3>3. ~Lacks(d.down, M)
      BY <1>1, <3>1, <3>2, TailQueue
    <3> QED BY <3>3 DEF Refusing, Lacks
  <2> QED BY <2>1, <2>2
<1> QED BY <1>2, <1>3 DEF Sound

\* onopen
LEMMA SocketOpened ==
  ASSUME NEW c, NEW a, NEW W, Sound(c, a, W), c.socket # "open"
  PROVE  LET d == [c EXCEPT !.socket = "open"] IN Sound(d, a, W) /\ d.socket = "open"
<1> DEFINE d == [c EXCEPT !.socket = "open"]
<1>1. c \in Connections /\ c.up = <<>> /\ c.down = <<>> /\ c.user = Nobody /\ c.groups = {}
  BY DEF Sound
<1>2. /\ d \in Connections /\ d.socket = "open" /\ d.up = <<>> /\ d.user = Nobody
      /\ d.groups = {}
  BY <1>1 DEF Connections
<1> HIDE DEF d
<1>3. \A M, X : Lacks(d.up, M) /\ LastIn(d.up, M, X)
  BY <1>2, EmptyQueue
<1> QED BY <1>2, <1>3 DEF Sound, d

LEMMA TokenPresented ==
  ASSUME NEW c, NEW a, NEW W, Sound(c, a, W), NEW t \in AccessTokens
  PROVE  /\ Sound(AfterToken(c, t), t.account, W) /\ Joined(AfterToken(c, t), W)
         /\ (c.socket # "none" => AfterToken(c, t).socket # "none")
         /\ (c.socket = "none" => AfterToken(c, t) = c)
<1>1. CASE c.socket = "none"
  BY <1>1, StillClosed DEF AfterToken
<1>2. CASE c.socket # "none" /\ t.account # Nobody
  <2>1. t \in [account : Accounts, valid : BOOLEAN]
    BY <1>2 DEF AccessTokens, Somebody
  <2>2. AfterToken(c, t) = Sent(c, <<Auth(t)>>)
    BY <1>2 DEF AfterToken
  <2> QED BY <1>2, <2>1, <2>2, AuthSent
<1>3. CASE c.socket # "none" /\ t.account = Nobody
  <2>1. AfterToken(c, t) = Connect(Unconnected)
    BY <1>3 DEF AfterToken
  <2>2. Unconnected \in Connections
    BY NoSocketAtAll
  <2> QED BY <1>3, <2>1, <2>2, NewSocket
<1> QED BY <1>1, <1>2, <1>3

LEMMA SocketClosed ==
  ASSUME NEW code, NEW a, NEW W
  PROVE  /\ Sound(AfterClose(code), a, W) /\ Joined(AfterClose(code), W)
         /\ mounted # {} <=> \/ AfterClose(code).socket # "none"
                             \/ AfterClose(code).retryTimer
<1> DEFINE waiting == [Unconnected EXCEPT !.retryTimer = TRUE]
<1>1. /\ Sound(Unconnected, a, W) /\ Joined(Unconnected, W) /\ Unconnected \in Connections
      /\ Unconnected.socket = "none" /\ ~Unconnected.retryTimer
  BY NoSocketAtAll
<1>2. /\ Sound(Connect(Unconnected), a, W) /\ Joined(Connect(Unconnected), W)
      /\ Connect(Unconnected).socket = "connecting"
  BY <1>1, NewSocket
<1>3. Sound(waiting, a, W) /\ Joined(waiting, W) /\ waiting.retryTimer
  BY WaitingSocket
<1>4. AfterClose(code) = IF mounted = {} THEN Unconnected
                         ELSE IF code = "close" THEN Connect(Unconnected) ELSE waiting
  BY DEF AfterClose
<1> HIDE DEF waiting
<1> QED BY <1>1, <1>2, <1>3, <1>4

-----------------------------------------------------------------------------
(* Listening.                                                              *)

Watching(w) == {p \in mounted : WatchOf[p] = w}

\* subscriptions counts the components that watch an order.
Counted == \A w \in Watches : subscriptions[w] = Cardinality(Watching(w))

SocketTypes ==
    /\ mounted \subseteq Components
    /\ subscriptions \in [Watches -> 0..Cardinality(Components)]
    /\ token \in AccessTokens
    /\ asking \in BOOLEAN
    /\ drops \in 0..MaxDrops

\* The inductive invariant: Joined is suspended while a refused token is
\* being refreshed, and is restored by whatever answer the refresh gets.
SocketInv ==
    /\ SocketTypes /\ Counted
    /\ Sound(conn, token.account, Watched)
    /\ ~asking => Joined(conn, Watched)
    /\ NeverStuckNorLeaked

LEMMA WatchingFinite ==
  ASSUME NEW w, mounted \subseteq Components
  PROVE  /\ IsFiniteSet(Watching(w)) /\ Cardinality(Watching(w)) \in Nat
         /\ Cardinality(Watching(w)) \in 0..Cardinality(Components)
<1>1. Watching(w) \subseteq Components
  BY DEF Watching
<1>2. /\ IsFiniteSet(Watching(w)) /\ Cardinality(Watching(w)) <= Cardinality(Components)
      /\ IsFiniteSet(Components)
  BY <1>1, FiniteAssumption, FS_Subset
<1>3. Cardinality(Watching(w)) \in Nat /\ Cardinality(Components) \in Nat
  BY <1>2, FS_CardinalityType
<1> QED BY <1>2, <1>3

LEMMA InitSound == Init => SocketInv
<1> SUFFICES ASSUME Init PROVE SocketInv
  OBVIOUS
<1>1. Cardinality(Components) \in Nat
  BY FiniteAssumption, FS_CardinalityType
<1>2. token \in AccessTokens
  <2>1. CASE token = SignedOut
    BY <2>1 DEF AccessTokens, SignedOut, Somebody
  <2>2. CASE token \in [account : Accounts, valid : {TRUE}]
    BY <2>2 DEF AccessTokens, Somebody
  <2> QED BY <2>1, <2>2 DEF Init
<1>3. SocketTypes
  <2>1. subscriptions \in [Watches -> 0..Cardinality(Components)]
    <3>1. subscriptions = [w \in Watches |-> 0] /\ 0 \in 0..Cardinality(Components)
      BY <1>1 DEF Init
    <3> QED BY <3>1
  <2>2. mounted = {} /\ asking = FALSE /\ drops = 0 /\ 0 \in 0..MaxDrops
    BY BoundsAssumption DEF Init
  <2> QED BY <1>2, <2>1, <2>2 DEF SocketTypes
<1>4. Counted
  <2> SUFFICES ASSUME NEW w \in Watches PROVE subscriptions[w] = Cardinality(Watching(w))
    BY DEF Counted
  <2>1. Watching(w) = {} /\ subscriptions[w] = 0
    BY DEF Init, Watching
  <2> QED BY <2>1, FS_EmptySet
<1>5. /\ Sound(conn, token.account, Watched) /\ Joined(conn, Watched)
      /\ conn.socket = "none" /\ ~conn.retryTimer
  BY NoSocketAtAll DEF Init
<1>6. NeverStuckNorLeaked
  BY <1>5 DEF Init, NeverStuckNorLeaked
<1> QED BY <1>3, <1>4, <1>5, <1>6 DEF SocketInv

\* What an action that neither mounts nor unmounts has to show.
LEMMA SameListeners ==
  ASSUME SocketInv, UNCHANGED <<mounted, subscriptions>>,
         token' \in AccessTokens, asking' \in BOOLEAN, drops' \in 0..MaxDrops,
         Sound(conn', token'.account, Watched), ~asking' => Joined(conn', Watched),
         mounted # {} <=> conn'.socket # "none" \/ conn'.retryTimer
  PROVE  SocketInv'
<1>1. SocketTypes'
  BY DEF SocketInv, SocketTypes
<1>2. Counted'
  <2>1. \A w \in Watches : subscriptions'[w] = subscriptions[w] /\ Watching(w)' = Watching(w)
    BY DEF Watching
  <2> QED BY <2>1 DEF SocketInv, Counted
<1>3. Watched' = Watched
  BY DEF Watched
<1>4. NeverStuckNorLeaked'
  BY DEF NeverStuckNorLeaked
<1>5. (token.account)' = token'.account
  OBVIOUS
<1>6. Sound(conn, token.account, Watched)'
  BY <1>3 DEF Sound
<1>7. (asking' = FALSE) => Joined(conn, Watched)'
  BY <1>3 DEF Joined
<1> QED BY <1>1, <1>2, <1>4, <1>6, <1>7 DEF SocketInv

\* One more component, or one less: the count follows, and so does Watched.
LEMMA OneMoreWatches ==
  ASSUME SocketInv, NEW p \in Components, p \notin mounted, Mount(p)
  PROVE  /\ SocketTypes' /\ Counted'
         /\ \A v \in Watches : v # WatchOf[p] => subscriptions'[v] = subscriptions[v]
         /\ WatchOf[p] \in Watches => subscriptions'[WatchOf[p]] > 0
<1> DEFINE w == WatchOf[p]
<1>1. mounted' = mounted \cup {p} /\ mounted' \subseteq Components /\ mounted \subseteq Components
  BY DEF Mount, SocketInv, SocketTypes
<1>2. ASSUME NEW v \in Watches
      PROVE  Cardinality(Watching(v)') = IF v = w THEN Cardinality(Watching(v)) + 1
                                         ELSE Cardinality(Watching(v))
  <2>1. p \notin Watching(v) /\ IsFiniteSet(Watching(v))
    BY <1>1, WatchingFinite DEF Watching
  <2>2. CASE v = w
    <3>1. Watching(v)' = Watching(v) \cup {p}
      BY <1>1, <2>2 DEF Watching
    <3> QED BY <2>1, <2>2, <3>1, FS_AddElement
  <2>3. CASE v # w
    <3>1. Watching(v)' = Watching(v)
      BY <1>1, <2>3 DEF Watching
    <3> QED BY <2>3, <3>1
  <2> QED BY <2>2, <2>3
<1>3. ASSUME NEW v \in Watches
      PROVE  /\ Cardinality(Watching(v)') \in 0..Cardinality(Components)
             /\ Cardinality(Watching(v)) \in Nat
             /\ subscriptions[v] = Cardinality(Watching(v))
  <2>1. Watching(v)' \subseteq Components
    BY <1>1 DEF Watching
  <2>2. /\ IsFiniteSet(Watching(v)')
        /\ Cardinality(Watching(v)') <= Cardinality(Components)
    BY <2>1, FiniteAssumption, FS_Subset
  <2>3. Cardinality(Watching(v)') \in Nat /\ Cardinality(Components) \in Nat
    BY <2>2, FiniteAssumption, FS_CardinalityType
  <2> QED BY <1>1, <2>2, <2>3, WatchingFinite DEF SocketInv, Counted
<1>4. DOMAIN subscriptions = Watches /\ w \in Watches \cup {Nothing} /\ Nothing \notin Watches
  BY NamesAssumption, WatchAssumption DEF SocketInv, SocketTypes
<1>5. /\ DOMAIN subscriptions' = Watches
      /\ subscriptions' = [v \in Watches |-> subscriptions'[v]]
      /\ \A v \in Watches :
            subscriptions'[v] = IF v = w THEN subscriptions[v] + 1 ELSE subscriptions[v]
  <2>1. subscriptions = [v \in Watches |-> subscriptions[v]]
    BY DEF SocketInv, SocketTypes
  <2>2. CASE w = Nothing
    BY <2>1, <2>2, <1>4 DEF Mount
  <2>3. CASE w # Nothing
    <3>1. subscriptions' = [subscriptions EXCEPT ![w] = @ + 1]
      BY <2>3 DEF Mount
    <3> HIDE DEF w
    <3> QED BY <2>1, <2>3, <3>1, <1>4
  <2> QED BY <2>2, <2>3
<1> HIDE DEF w
<1>6. \A v \in Watches : subscriptions'[v] = Cardinality(Watching(v)')
  BY <1>2, <1>3, <1>5
<1>7. Counted'
  BY <1>6 DEF Counted
<1>8. subscriptions' \in [Watches -> 0..Cardinality(Components)]
  BY <1>3, <1>5, <1>6
<1>9. SocketTypes'
  BY <1>1, <1>8 DEF Mount, SocketInv, SocketTypes
<1>10. w \in Watches => subscriptions'[w] > 0
  BY <1>3, <1>5
<1>11. \A v \in Watches : v # w => subscriptions'[v] = subscriptions[v]
  BY <1>5
<1> QED BY <1>7, <1>9, <1>10, <1>11 DEF w

LEMMA OneLessWatches ==
  ASSUME SocketInv, NEW p \in Components, p \in mounted, Unmount(p)
  PROVE  /\ SocketTypes' /\ Counted'
         /\ \A v \in Watches : v # WatchOf[p] => subscriptions'[v] = subscriptions[v]
         /\ WatchOf[p] \in Watches =>
               /\ subscriptions[WatchOf[p]] > 0
               /\ subscriptions'[WatchOf[p]] > 0 <=> subscriptions[WatchOf[p]] # 1
<1> DEFINE w == WatchOf[p]
<1>1. mounted' = mounted \ {p} /\ mounted' \subseteq Components /\ mounted \subseteq Components
  BY DEF Unmount, SocketInv, SocketTypes
<1>2. ASSUME NEW v \in Watches
      PROVE  /\ Cardinality(Watching(v)') = IF v = w THEN Cardinality(Watching(v)) - 1
                                            ELSE Cardinality(Watching(v))
             /\ v = w => Watching(v) # {}
  <2>1. IsFiniteSet(Watching(v))
    BY <1>1, WatchingFinite
  <2>2. CASE v = w
    <3>1. Watching(v)' = Watching(v) \ {p} /\ p \in Watching(v)
      BY <1>1, <2>2 DEF Watching
    <3> QED BY <2>1, <2>2, <3>1, FS_RemoveElement
  <2>3. CASE v # w
    <3>1. Watching(v)' = Watching(v)
      BY <1>1, <2>3 DEF Watching
    <3> QED BY <2>3, <3>1
  <2> QED BY <2>2, <2>3
<1>3. ASSUME NEW v \in Watches
      PROVE  /\ Cardinality(Watching(v)') \in 0..Cardinality(Components)
             /\ Cardinality(Watching(v)) \in Nat
             /\ v = w => Cardinality(Watching(v)) > 0
             /\ subscriptions[v] = Cardinality(Watching(v))
  <2>1. Watching(v)' \subseteq Components
    BY <1>1 DEF Watching
  <2>2. /\ IsFiniteSet(Watching(v)')
        /\ Cardinality(Watching(v)') <= Cardinality(Components)
    BY <2>1, FiniteAssumption, FS_Subset
  <2>3. Cardinality(Watching(v)') \in Nat /\ Cardinality(Components) \in Nat
    BY <2>2, FiniteAssumption, FS_CardinalityType
  <2>4. v = w => Cardinality(Watching(v)) # 0
    BY <1>1, <1>2, WatchingFinite, FS_EmptySet
  <2> QED BY <1>1, <2>2, <2>3, <2>4, WatchingFinite DEF SocketInv, Counted
<1>4. DOMAIN subscriptions = Watches /\ w \in Watches \cup {Nothing} /\ Nothing \notin Watches
  BY NamesAssumption, WatchAssumption DEF SocketInv, SocketTypes
<1>5. /\ DOMAIN subscriptions' = Watches
      /\ subscriptions' = [v \in Watches |-> subscriptions'[v]]
      /\ \A v \in Watches :
            subscriptions'[v] = IF v = w THEN subscriptions[v] - 1 ELSE subscriptions[v]
  <2>1. subscriptions = [v \in Watches |-> subscriptions[v]]
    BY DEF SocketInv, SocketTypes
  <2>2. CASE w = Nothing
    BY <2>1, <2>2, <1>4 DEF Unmount
  <2>3. CASE w # Nothing
    <3>1. subscriptions' = [subscriptions EXCEPT ![w] = @ - 1]
      BY <2>3 DEF Unmount
    <3> HIDE DEF w
    <3> QED BY <2>1, <2>3, <3>1, <1>4
  <2> QED BY <2>2, <2>3
<1> HIDE DEF w
<1>6. \A v \in Watches : subscriptions'[v] = Cardinality(Watching(v)')
  BY <1>2, <1>3, <1>5
<1>7. Counted'
  BY <1>6 DEF Counted
<1>8. subscriptions' \in [Watches -> 0..Cardinality(Components)]
  BY <1>3, <1>5, <1>6
<1>9. SocketTypes'
  BY <1>1, <1>8 DEF Unmount, SocketInv, SocketTypes
<1>10. w \in Watches => /\ subscriptions[w] > 0
                        /\ subscriptions'[w] > 0 <=> subscriptions[w] # 1
  BY <1>3, <1>5
<1>11. \A v \in Watches : v # w => subscriptions'[v] = subscriptions[v]
  BY <1>5
<1> QED BY <1>7, <1>9, <1>10, <1>11 DEF w

LEMMA MountSound == ASSUME SocketInv, NEW p \in Components, Mount(p) PROVE SocketInv'
<1> DEFINE w == WatchOf[p]
           first == w # Nothing /\ subscriptions[w] = 0
           m == [type |-> "subscribe", watch |-> w]
           told == IF first /\ conn.connected THEN Sent(conn, <<m>>) ELSE conn
<1>1. /\ p \notin mounted /\ mounted' = mounted \cup {p}
      /\ conn' = IF told.socket # "none" \/ told.retryTimer THEN told ELSE Connect(told)
      /\ UNCHANGED <<token, asking, drops>>
  BY DEF Mount
<1>2. /\ Sound(conn, token.account, Watched) /\ (~asking => Joined(conn, Watched))
      /\ w \in Watches \cup {Nothing} /\ Nothing \notin Watches
      /\ subscriptions \in [Watches -> 0..Cardinality(Components)]
      /\ Cardinality(Components) \in Nat
  BY NamesAssumption, WatchAssumption, FiniteAssumption, FS_CardinalityType
     DEF SocketInv, SocketTypes
<1>3. /\ SocketTypes' /\ Counted'
      /\ \A v \in Watches : v # w => subscriptions'[v] = subscriptions[v]
      /\ w \in Watches => subscriptions'[w] > 0
  BY <1>1, OneMoreWatches
<1>4. \A v : v # w => (v \in Watched' <=> v \in Watched)
  BY <1>3 DEF Watched
<1>5. /\ Sound(told, token.account, Watched')
      /\ Joined(conn, Watched) => Joined(told, Watched')
      /\ told.socket = conn.socket /\ told.retryTimer = conn.retryTimer
  <2>1. CASE first
    <3>1. w \in Watches /\ w \in Watched'
      BY <1>2, <1>3, <2>1 DEF Watched
    <3>2. m \in Right(w, Watched')
      BY <3>1 DEF Right, Joining
    <3>3. told = IF conn.connected THEN Sent(conn, <<m>>) ELSE conn
      BY <2>1
    <3> HIDE DEF told, m, w
    <3> QED BY <1>2, <1>4, <3>1, <3>2, <3>3, WatchSent
  <2>2. CASE ~first
    <3>1. Watched' = Watched
      <4>1. w \in Watches => w \in Watched /\ w \in Watched'
        BY <1>2, <1>3, <2>2 DEF Watched
      <4>2. w \notin Watches => w \notin Watched /\ w \notin Watched'
        BY DEF Watched
      <4> QED BY <1>4, <4>1, <4>2
    <3>2. told = conn
      BY <2>2
    <3> HIDE DEF told
    <3> QED BY <1>2, <3>1, <3>2
  <2> QED BY <2>1, <2>2
<1> HIDE DEF told, w
<1>6. told \in Connections
  BY <1>5 DEF Sound
<1>7. /\ Sound(conn', token.account, Watched')
      /\ ~asking => Joined(conn', Watched')
      /\ conn'.socket # "none" \/ conn'.retryTimer
  <2>1. CASE told.socket # "none" \/ told.retryTimer
    BY <1>1, <1>2, <1>5, <2>1
  <2>2. CASE ~(told.socket # "none" \/ told.retryTimer)
    <3>1. conn' = Connect(told)
      BY <1>1, <2>2
    <3>2. /\ Sound(Connect(told), token.account, Watched') /\ Joined(Connect(told), Watched')
          /\ Connect(told).socket = "connecting"
      BY <1>6, NewSocket
    <3> QED BY <3>1, <3>2
  <2> QED BY <2>1, <2>2
<1>8. NeverStuckNorLeaked'
  BY <1>1, <1>7 DEF NeverStuckNorLeaked
<1>9. Sound(conn, token.account, Watched)' /\ (~asking => Joined(conn, Watched))'
  BY <1>1, <1>7
<1> QED BY <1>3, <1>8, <1>9 DEF SocketInv

LEMMA UnmountSound == ASSUME SocketInv, NEW p \in Components, Unmount(p) PROVE SocketInv'
<1> DEFINE w == WatchOf[p]
           last == w # Nothing /\ subscriptions[w] = 1
           m == [type |-> "unsubscribe", watch |-> w]
           told == IF last /\ conn.connected THEN Sent(conn, <<m>>) ELSE conn
<1>1. /\ p \in mounted /\ mounted' = mounted \ {p}
      /\ conn' = IF mounted' = {} THEN Unconnected ELSE told
      /\ UNCHANGED <<token, asking, drops>>
  BY DEF Unmount
<1>2. /\ Sound(conn, token.account, Watched) /\ (~asking => Joined(conn, Watched))
      /\ conn.socket # "none" \/ conn.retryTimer
      /\ w \in Watches \cup {Nothing} /\ Nothing \notin Watches
  BY <1>1, NamesAssumption, WatchAssumption DEF SocketInv, SocketTypes, NeverStuckNorLeaked
<1>3. /\ SocketTypes' /\ Counted'
      /\ \A v \in Watches : v # w => subscriptions'[v] = subscriptions[v]
      /\ w \in Watches => /\ subscriptions[w] > 0
                          /\ subscriptions'[w] > 0 <=> subscriptions[w] # 1
  BY <1>1, OneLessWatches
<1>4. \A v : v # w => (v \in Watched' <=> v \in Watched)
  BY <1>3 DEF Watched
<1>5. /\ Sound(told, token.account, Watched')
      /\ Joined(conn, Watched) => Joined(told, Watched')
      /\ told.socket = conn.socket /\ told.retryTimer = conn.retryTimer
  <2>1. CASE last
    <3>1. w \in Watches /\ w \notin Watched'
      BY <1>2, <1>3, <2>1 DEF Watched
    <3>2. m \in Right(w, Watched')
      BY <3>1 DEF Right, Leaving
    <3>3. told = IF conn.connected THEN Sent(conn, <<m>>) ELSE conn
      BY <2>1
    <3> HIDE DEF told, m, w
    <3> QED BY <1>2, <1>4, <3>1, <3>2, <3>3, WatchSent
  <2>2. CASE ~last
    <3>1. Watched' = Watched
      <4>1. w \in Watches => w \in Watched /\ w \in Watched'
        BY <1>2, <1>3, <2>2 DEF Watched
      <4>2. w \notin Watches => w \notin Watched /\ w \notin Watched'
        BY DEF Watched
      <4> QED BY <1>4, <4>1, <4>2
    <3>2. told = conn
      BY <2>2
    <3> HIDE DEF told
    <3> QED BY <1>2, <3>1, <3>2
  <2> QED BY <2>1, <2>2
<1> HIDE DEF told, w
<1>6. /\ Sound(conn', token.account, Watched')
      /\ ~asking => Joined(conn', Watched')
      /\ mounted' # {} <=> conn'.socket # "none" \/ conn'.retryTimer
  <2>1. CASE mounted' = {}
    <3>1. conn' = Unconnected
      BY <1>1, <2>1
    <3> QED BY <2>1, <3>1, NoSocketAtAll
  <2>2. CASE mounted' # {}
    BY <1>1, <1>2, <1>5, <2>2
  <2> QED BY <2>1, <2>2
<1>7. NeverStuckNorLeaked'
  BY <1>6 DEF NeverStuckNorLeaked
<1>8. Sound(conn, token.account, Watched)' /\ (~asking => Joined(conn, Watched))'
  BY <1>1, <1>6
<1> QED BY <1>3, <1>7, <1>8 DEF SocketInv

LEMMA TokenSound ==
  ASSUME SocketInv, NEW t \in AccessTokens, SetToken(t)
  PROVE  /\ Sound(conn', token'.account, Watched)
         /\ Joined(conn', Watched) /\ token' \in AccessTokens
         /\ mounted # {} <=> conn'.socket # "none" \/ conn'.retryTimer
<1>1. /\ Sound(conn, token.account, Watched)
      /\ mounted # {} <=> conn.socket # "none" \/ conn.retryTimer
  BY DEF SocketInv, NeverStuckNorLeaked
<1>2. token' = t /\ conn' = IF mounted = {} THEN conn ELSE AfterToken(conn, t)
  BY DEF SetToken
<1>3. CASE mounted = {}
  BY <1>1, <1>2, <1>3, StillClosed
<1>4. CASE mounted # {}
  BY <1>1, <1>2, <1>4, TokenPresented
<1> QED BY <1>3, <1>4

LEMMA SignedOutToken == SignedOut \in AccessTokens
  BY DEF SignedOut, AccessTokens, Somebody

LEMMA SessionSound == ASSUME SocketInv, Session PROVE SocketInv'
<1>1. SocketTypes /\ token \in AccessTokens /\ token.account \in Somebody
  BY DEF SocketInv, SocketTypes, AccessTokens
<1>2. ASSUME NEW a \in Accounts, TokenSet(a) PROVE SocketInv'
  <2>1. [account |-> a, valid |-> TRUE] \in AccessTokens
    BY DEF AccessTokens, Somebody
  <2> QED BY <1>1, <1>2, <2>1, TokenSound, SameListeners DEF TokenSet, SocketTypes
<1>3. CASE TokenCleared
  BY <1>1, <1>3, SignedOutToken, TokenSound, SameListeners DEF TokenCleared, SocketTypes
<1>4. CASE TokenLapses
  <2>1. token' \in AccessTokens /\ token'.account = token.account
    BY <1>1, <1>4 DEF TokenLapses, AccessTokens
  <2> QED BY <1>1, <1>4, <2>1, SameListeners
          DEF TokenLapses, SocketInv, SocketTypes, NeverStuckNorLeaked
<1> QED BY <1>2, <1>3, <1>4 DEF Session

LEMMA WatchedOrders == Watched \in SUBSET Watches
  BY DEF Watched

LEMMA RefreshSound == ASSUME SocketInv, Refresh PROVE SocketInv'
<1>1. /\ SocketTypes /\ token \in AccessTokens /\ token.account \in Somebody
      /\ Sound(conn, token.account, Watched)
      /\ mounted # {} <=> conn.socket # "none" \/ conn.retryTimer
  BY DEF SocketInv, SocketTypes, AccessTokens, NeverStuckNorLeaked
<1>2. CASE RefreshSucceeds
  <2>1. PICK a \in Accounts : SetToken([account |-> a, valid |-> TRUE])
    BY <1>2 DEF RefreshSucceeds
  <2>2. [account |-> a, valid |-> TRUE] \in AccessTokens
    BY DEF AccessTokens, Somebody
  <2> QED BY <1>1, <1>2, <2>1, <2>2, TokenSound, SameListeners DEF RefreshSucceeds, SocketTypes
<1>3. CASE RefreshRefused
  <2> DEFINE c == IF mounted = {} \/ token.account = Nobody THEN conn
                  ELSE AfterToken(conn, SignedOut)
  <2>1. token' = SignedOut /\ SignedOut.account = Nobody /\ conn' = Ready(c, Watched)
    BY <1>3 DEF RefreshRefused, SignedOut
  <2>2. /\ Sound(c, Nobody, Watched)
        /\ mounted # {} <=> c.socket # "none" \/ c.retryTimer
    <3>1. CASE mounted = {}
      BY <1>1, <3>1, StillClosed
    <3>2. CASE mounted # {} /\ token.account = Nobody
      BY <1>1, <3>2
    <3>3. CASE mounted # {} /\ token.account # Nobody
      BY <1>1, <2>1, <3>3, SignedOutToken, TokenPresented
    <3> QED BY <3>1, <3>2, <3>3
  <2> HIDE DEF c
  <2>3. /\ Sound(conn', token'.account, Watched) /\ Joined(conn', Watched)
        /\ mounted # {} <=> conn'.socket # "none" \/ conn'.retryTimer
    BY <2>1, <2>2, WatchedOrders, ReadyIsSound
  <2> QED BY <1>1, <1>3, <2>1, <2>3, SignedOutToken, SameListeners
          DEF RefreshRefused, SocketTypes
<1>4. CASE RefreshUnreachable
  <2>1. /\ Sound(conn', token'.account, Watched) /\ Joined(conn', Watched)
        /\ mounted # {} <=> conn'.socket # "none" \/ conn'.retryTimer
    BY <1>1, <1>4, WatchedOrders, ReadyIsSound DEF RefreshUnreachable
  <2> QED BY <1>1, <1>4, <2>1, SameListeners DEF RefreshUnreachable, SocketTypes
<1> QED BY <1>2, <1>3, <1>4 DEF Refresh

LEMMA WakeSound == ASSUME SocketInv, Wake \/ RetryTimerFires PROVE SocketInv'
<1>1. /\ conn \in Connections /\ SocketTypes
      /\ mounted # {} <=> conn.socket # "none" \/ conn.retryTimer
  BY DEF SocketInv, Sound, NeverStuckNorLeaked
<1>2. /\ conn' = Connect(conn) /\ mounted # {}
      /\ UNCHANGED <<mounted, subscriptions, token, asking, drops>>
  BY <1>1 DEF Wake, RetryTimerFires
<1>3. /\ Sound(conn', token'.account, Watched) /\ Joined(conn', Watched)
      /\ conn'.socket = "connecting"
  BY <1>1, <1>2, NewSocket
<1> QED BY <1>1, <1>2, <1>3, SameListeners DEF SocketTypes

LEMMA OpenSound == ASSUME SocketInv, Open PROVE SocketInv'
<1> DEFINE c == [conn EXCEPT !.socket = "open"]
<1>1. /\ Sound(conn, token.account, Watched) /\ SocketTypes
      /\ conn.socket = "connecting" /\ mounted # {} /\ token \in AccessTokens
      /\ conn' = IF token.account # Nobody THEN Sent(c, <<Auth(token)>>) ELSE Ready(c, Watched)
      /\ UNCHANGED <<mounted, subscriptions, token, asking, drops>>
  BY DEF SocketInv, SocketTypes, NeverStuckNorLeaked, Open
<1>2. Sound(c, token.account, Watched) /\ c.socket = "open"
  BY <1>1, SocketOpened
<1> HIDE DEF c
<1>3. /\ Sound(conn', token.account, Watched) /\ Joined(conn', Watched)
      /\ conn'.socket = "open"
  <2>1. CASE token.account # Nobody
    <3>1. token \in [account : Accounts, valid : BOOLEAN]
      BY <1>1, <2>1 DEF AccessTokens, Somebody
    <3> QED BY <1>1, <1>2, <2>1, <3>1, AuthSent
  <2>2. CASE token.account = Nobody
    BY <1>1, <1>2, <2>2, WatchedOrders, ReadyIsSound
  <2> QED BY <2>1, <2>2
<1> QED BY <1>1, <1>3, SameListeners DEF SocketTypes

LEMMA DropSound == ASSUME SocketInv, Drop PROVE SocketInv'
<1>1. /\ SocketTypes /\ drops' = drops + 1 /\ drops < MaxDrops
      /\ conn' = AfterClose("dropped") /\ UNCHANGED <<mounted, subscriptions, token, asking>>
  BY DEF SocketInv, Drop
<1>2. drops' \in 0..MaxDrops
  BY <1>1, BoundsAssumption DEF SocketTypes
<1>3. /\ Sound(conn', token'.account, Watched) /\ Joined(conn', Watched)
      /\ mounted # {} <=> conn'.socket # "none" \/ conn'.retryTimer
  BY <1>1, SocketClosed
<1> QED BY <1>1, <1>2, <1>3, SameListeners DEF SocketTypes

LEMMA HearSound == ASSUME SocketInv, Hear PROVE SocketInv'
<1> DEFINE m == Head(conn.down)
           c == [conn EXCEPT !.down = Tail(@)]
           refused == [c EXCEPT !.authRetried = TRUE]
<1>1. /\ Sound(conn, token.account, Watched) /\ SocketTypes /\ conn.socket = "open"
      /\ conn.down # <<>> /\ mounted # {} /\ token \in AccessTokens
      /\ UNCHANGED <<mounted, subscriptions, token, drops>>
  BY DEF SocketInv, SocketTypes, NeverStuckNorLeaked, Hear
<1>2. conn \in Connections /\ Tail(conn.down) \in Seq(ToClient)
  <2>1. conn \in Connections /\ conn.down \in Seq(ToClient)
    BY <1>1 DEF Sound, Connections
  <2> QED BY <1>1, <2>1, TailQueue
<1>3. /\ c \in Connections /\ c.down = Tail(conn.down) /\ c.up = conn.up
      /\ c.user = conn.user /\ c.groups = conn.groups /\ c.socket = "open"
      /\ c.connected = conn.connected /\ c.authRetried = conn.authRetried
  BY <1>1, <1>2 DEF Connections
<1>4. CASE (m = "auth.ok" \/ (m = "auth.error" /\ conn.authRetried)) /\ conn' = Ready(c, Watched)
           /\ UNCHANGED asking
  <2>1. Sound(c, token.account, Watched)
    BY <1>1, <1>3, <1>4, MessageHeard
  <2> HIDE DEF c
  <2>2. /\ Sound(conn', token.account, Watched) /\ Joined(conn', Watched)
        /\ conn'.socket = "open"
    BY <1>3, <1>4, <2>1, WatchedOrders, ReadyIsSound
  <2> QED BY <1>1, <1>4, <2>2, SameListeners DEF SocketTypes
<1>5. CASE conn' = refused /\ asking' = TRUE
  <2>1. /\ refused \in Connections /\ refused.down = c.down /\ refused.up = c.up
        /\ refused.user = c.user /\ refused.groups = c.groups /\ refused.socket = c.socket
        /\ refused.connected = c.connected /\ refused.authRetried
    <3> HIDE DEF c
    <3> QED BY <1>3 DEF Connections
  <2> HIDE DEF c, refused
  <2>2. Sound(refused, token.account, Watched)
    BY <1>1, <1>3, <2>1, MessageHeard
  <2> QED BY <1>1, <1>3, <1>5, <2>1, <2>2, SameListeners DEF SocketTypes
<1>6. CASE conn' = AfterClose("close") /\ UNCHANGED asking
  <2>1. /\ Sound(conn', token'.account, Watched) /\ Joined(conn', Watched)
        /\ mounted # {} <=> conn'.socket # "none" \/ conn'.retryTimer
    BY <1>1, <1>6, SocketClosed
  <2> QED BY <1>1, <1>6, <2>1, SameListeners DEF SocketTypes
<1> QED BY <1>4, <1>5, <1>6 DEF Hear

LEMMA MessageTaken ==
  ASSUME NEW c \in Connections, c.up # <<>>
  PROVE  /\ Taken(c) \in Connections /\ Taken(c).up = Tail(c.up)
         /\ Taken(c).down = c.down /\ Taken(c).user = c.user
         /\ Taken(c).groups = c.groups /\ Taken(c).socket = c.socket
         /\ Taken(c).connected = c.connected /\ Taken(c).authRetried = c.authRetried
<1>1. c.up \in Seq(ToServer)
  BY DEF Connections
<1>2. Tail(c.up) \in Seq(ToServer)
  BY <1>1, TailQueue
<1> QED BY <1>2 DEF Taken, Connections

LEMMA AuthenticateSound == ASSUME SocketInv, Authenticate PROVE SocketInv'
<1> DEFINE m == Head(conn.up)
           c == Taken(conn)
           reply(r) == [c EXCEPT !.down = Append(@, r)]
<1>1. /\ Sound(conn, token.account, Watched) /\ SocketTypes /\ conn.socket = "open"
      /\ conn.up # <<>> /\ m.type = "auth" /\ mounted # {} /\ token \in AccessTokens
      /\ UNCHANGED <<mounted, subscriptions, token, asking, drops>>
  BY DEF SocketInv, SocketTypes, NeverStuckNorLeaked, Authenticate
<1>2. conn \in Connections /\ m.account \in Somebody
  <2>1. conn \in Connections /\ conn.up \in Seq(ToServer)
    BY <1>1 DEF Sound, Connections
  <2>2. m \in ToServer
    BY <1>1, <2>1, TailQueue
  <2>3. m \in Auths
    BY <1>1, <2>2, Kinds
  <2> QED BY <2>1, <2>3 DEF Auths, Somebody
<1>3. /\ c \in Connections /\ c.up = Tail(conn.up) /\ c.down = conn.down
      /\ c.user = conn.user /\ c.groups = conn.groups /\ c.socket = "open"
      /\ c.connected = conn.connected /\ c.authRetried = conn.authRetried
  BY <1>1, <1>2, MessageTaken
<1> HIDE DEF c
<1>4. ASSUME NEW r \in ToClient
      PROVE  /\ reply(r) \in Connections /\ reply(r).up = Tail(conn.up)
             /\ reply(r).down = Append(conn.down, r) /\ reply(r).user = conn.user
             /\ reply(r).groups = conn.groups /\ reply(r).socket = "open"
             /\ reply(r).connected = conn.connected
             /\ reply(r).authRetried = conn.authRetried
  <2>1. c.down \in Seq(ToClient)
    BY <1>3 DEF Connections
  <2>2. Append(c.down, r) \in Seq(ToClient)
    BY <2>1
  <2> QED BY <1>3, <2>2 DEF Connections
<1> HIDE DEF reply
<1>5. /\ Sound(conn', token.account, Watched) /\ Joined(conn', Watched)
      /\ conn'.socket = "open"
  <2>1. conn.user \in Somebody
    BY <1>2 DEF Connections
  <2>2. ASSUME NEW r \in ToClient, r # "auth.ok", conn' = reply(r)
        PROVE  /\ Sound(conn', token.account, Watched) /\ Joined(conn', Watched)
               /\ conn'.socket = "open"
    BY <1>1, <1>4, <2>1, <2>2, AuthTaken
  <2>3. CASE /\ conn.user \in {Nobody, m.account}
             /\ conn' = [reply("auth.ok") EXCEPT !.user = m.account]
    <3> DEFINE d == [reply("auth.ok") EXCEPT !.user = m.account]
    <3>1. "auth.ok" \in ToClient
      BY DEF ToClient
    <3>2. /\ d \in Connections /\ d.up = Tail(conn.up)
          /\ d.down = Append(conn.down, "auth.ok") /\ d.user = m.account
          /\ d.groups = conn.groups /\ d.socket = "open"
          /\ d.connected = conn.connected /\ d.authRetried = conn.authRetried
      BY <1>2, <1>4, <3>1 DEF Connections
    <3> HIDE DEF d
    <3>3. Sound(d, token.account, Watched) /\ Joined(d, Watched)
      BY <1>1, <1>2, <2>3, <3>1, <3>2, AuthTaken
    <3> QED BY <2>3, <3>2, <3>3 DEF d
  <2>4. \/ conn' = reply("auth.error") \/ conn' = reply("close")
        \/ /\ conn.user \in {Nobody, m.account}
           /\ conn' = [reply("auth.ok") EXCEPT !.user = m.account]
    BY DEF Authenticate, reply, c
  <2>5. "auth.error" \in ToClient /\ "close" \in ToClient
    BY DEF ToClient
  <2> QED BY <2>2, <2>3, <2>4, <2>5
<1> QED BY <1>1, <1>5, SameListeners DEF SocketTypes

LEMMA SubscriptionSound == ASSUME SocketInv, Subscription PROVE SocketInv'
<1> DEFINE m == Head(conn.up)
           c == Taken(conn)
           mine == {m.watch} \cap Permitted(conn)
<1>1. /\ Sound(conn, token.account, Watched) /\ (~asking => Joined(conn, Watched))
      /\ SocketTypes /\ conn.socket = "open"
      /\ conn.up # <<>> /\ mounted # {} /\ token \in AccessTokens
      /\ UNCHANGED <<mounted, subscriptions, token, asking, drops>>
  BY DEF SocketInv, SocketTypes, NeverStuckNorLeaked, Subscription
<1>2. conn \in Connections
  BY <1>1 DEF Sound
<1>3. /\ c \in Connections /\ c.up = Tail(conn.up) /\ c.down = conn.down
      /\ c.user = conn.user /\ c.groups = conn.groups /\ c.socket = "open"
      /\ c.connected = conn.connected /\ c.authRetried = conn.authRetried
  BY <1>1, <1>2, MessageTaken
<1>4. Permitted(c) = Permitted(conn) /\ mine \subseteq Watches /\ conn.groups \subseteq Watches
  BY <1>2, <1>3, PermittedWatches DEF Permitted, Connections
<1>5. \/ /\ m.type = "subscribe"
         /\ \/ conn' = [c EXCEPT !.groups = @ \cup mine]
            \/ conn' = c /\ ~(mine \subseteq conn.groups)
               /\ ~(Cardinality(conn.groups) < MaxSubscriptions)
      \/ m.type = "unsubscribe" /\ conn' = [c EXCEPT !.groups = @ \ mine]
  BY <1>3, <1>4 DEF Subscription
<1> HIDE DEF c
<1>6. ASSUME NEW gs \in SUBSET Watches, conn' = [c EXCEPT !.groups = gs]
      PROVE  /\ conn' \in Connections /\ conn'.up = Tail(conn.up) /\ conn'.down = conn.down
             /\ conn'.user = conn.user /\ conn'.groups = gs /\ conn'.socket = "open"
             /\ conn'.connected = conn.connected /\ conn'.authRetried = conn.authRetried
  BY <1>3, <1>6 DEF Connections
<1>7. ASSUME ~(mine \subseteq conn.groups), ~(Cardinality(conn.groups) < MaxSubscriptions)
       PROVE  ~Fits
  <2>1. conn.groups # Watches /\ conn.groups \subseteq Watches
    BY <1>4, <1>7
  <2>2. /\ Cardinality(conn.groups) < Cardinality(Watches)
        /\ Cardinality(conn.groups) \in Nat /\ Cardinality(Watches) \in Nat
    BY <2>1, FiniteAssumption, FS_Subset, FS_CardinalityType
  <2> QED BY <2>2, <1>7, CapAssumption DEF Fits
<1>8. c = [c EXCEPT !.groups = conn.groups]
  BY <1>3 DEF Connections
<1>9. \/ /\ m.type = "subscribe"
         /\ \/ conn' = [c EXCEPT !.groups = conn.groups \cup mine]
            \/ conn' = [c EXCEPT !.groups = conn.groups] /\ ~Fits
      \/ m.type = "unsubscribe" /\ conn' = [c EXCEPT !.groups = conn.groups \ mine]
  BY <1>3, <1>5, <1>7, <1>8
<1>10. conn.groups \cup mine \in SUBSET Watches /\ conn.groups \ mine \in SUBSET Watches
  BY <1>4
<1> DEFINE d == conn'
<1>11. /\ d \in Connections /\ d.up = Tail(conn.up) /\ d.down = conn.down
       /\ d.user = conn.user /\ d.socket = "open"
       /\ d.connected = conn.connected /\ d.authRetried = conn.authRetried
       /\ \/ /\ m.type = "subscribe"
             /\ d.groups = conn.groups \cup mine \/ (d.groups = conn.groups /\ ~Fits)
          \/ m.type = "unsubscribe" /\ d.groups = conn.groups \ mine
  BY <1>4, <1>6, <1>9, <1>10
<1>12. /\ Sound(conn', token.account, Watched)
       /\ Joined(conn, Watched) => Joined(conn', Watched)
  BY <1>1, <1>11, SubscriptionTaken
<1> QED BY <1>1, <1>11, <1>12, SameListeners DEF SocketTypes

-----------------------------------------------------------------------------
(* The invariant holds, and says what the runs check.                      *)

LEMMA StepSound == SocketInv /\ [Next]_vars => SocketInv'
<1> SUFFICES ASSUME SocketInv, [Next]_vars PROVE SocketInv'
  OBVIOUS
<1>1. CASE UNCHANGED vars
  BY <1>1, SameListeners DEF vars, SocketInv, SocketTypes, NeverStuckNorLeaked
<1>2. CASE Next
  BY <1>2, MountSound, UnmountSound, WakeSound, SessionSound, RefreshSound, DropSound,
     OpenSound, HearSound, AuthenticateSound, SubscriptionSound DEF Next, Network
<1> QED BY <1>1, <1>2

LEMMA Inductive == Spec => []SocketInv
  BY InitSound, StepSound, PTL DEF Spec

\* The types of the connection and of what the tab keeps.
THEOREM SocketHasTypes == Spec => []TypeOK
<1>1. SocketInv => TypeOK
  BY DEF SocketInv, SocketTypes, Sound, TypeOK
<1> QED BY Inductive, <1>1, PTL

\* A tab that listens has a socket or a timer that will open one, and one
\* that does not has neither (start, stop, scheduleReconnect).
THEOREM NeverStuck == Spec => []NeverStuckNorLeaked
<1>1. SocketInv => NeverStuckNorLeaked
  BY DEF SocketInv
<1> QED BY Inductive, <1>1, PTL

\* Nothing on its way: the server's groups are watched orders that its account
\* may see, and all of them unless there are more than a socket may watch
\* (listen, ready, _subscription).
THEOREM QuietIsJoined == Spec => []WatchesJoined
<1>1. SocketInv => WatchesJoined
  <2> SUFFICES ASSUME SocketInv, Quiet, conn.connected
               PROVE  /\ conn.groups \subseteq Watched \cap Permitted(conn)
                      /\ Fits => Watched \cap Permitted(conn) \subseteq conn.groups
    BY DEF Fits, WatchesJoined
  <2>1. /\ Sound(conn, token.account, Watched) /\ Joined(conn, Watched)
        /\ conn.up = <<>> /\ conn.down = <<>> /\ conn.socket = "open"
    BY DEF SocketInv, Quiet
  <2>2. \A M : Lacks(conn.up, M)
    BY <2>1, EmptyQueue
  <2>3. conn.groups \subseteq Permitted(conn) /\ Permitted(conn) \subseteq Watches
    BY <2>1, PermittedWatches DEF Sound
  <2>4. \A w \in Watches \ Watched : w \notin conn.groups
    BY <2>1, <2>2 DEF Sound
  <2>5. Fits => \A w \in Watched \cap Permitted(conn) : w \in conn.groups
    BY <2>1, <2>2 DEF Joined
  <2> QED BY <2>3, <2>4, <2>5
<1> QED BY Inductive, <1>1, PTL

\* The socket keeps no account the tab has left without a message on its
\* way, or a refusal, that ends it (onTokenChange, _auth).
THEOREM AccountIsFollowed == Spec => []SocketFollowsAccount
<1>1. SocketInv => SocketFollowsAccount
  <2> SUFFICES ASSUME SocketInv, conn.user # Nobody, token.account # conn.user,
                      ~Refusing(conn)
               PROVE  \E i \in 1..Len(conn.up) :
                         conn.up[i].type = "auth" /\ conn.up[i].account # conn.user
    BY DEF SocketFollowsAccount, Refusing
  <2>1. Sound(conn, token.account, Watched)
    BY DEF SocketInv
  <2>2. LastIn(conn.up, Auths, AuthsOf(token.account)) /\ ~Lacks(conn.up, Auths)
    BY <2>1 DEF Sound
  <2>3. PICK j \in 1..Len(conn.up) : conn.up[j] \in Auths \cap AuthsOf(token.account)
    BY <2>2 DEF LastIn
  <2>4. conn.up[j].type = "auth" /\ conn.up[j].account = token.account
    BY <2>3 DEF Auths, AuthsOf
  <2> QED BY <2>4
<1> QED BY Inductive, <1>1, PTL

=============================================================================
