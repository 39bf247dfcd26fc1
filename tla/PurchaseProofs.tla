--------------------------- MODULE PurchaseProofs ---------------------------
(***************************************************************************)
(* Proofs about Purchase, for any places, methods and bounds: the checkout *)
(* form's promises, that the fee was quoted for the order's place, that    *)
(* prepaid orders of a cart exclude each other, and that a failed payment  *)
(* stays failed.                                                           *)
(***************************************************************************)
EXTENDS Purchase, TLAPS

-----------------------------------------------------------------------------
(* The form.                                                               *)

\* A quote under way is for the pin, and the fee shown is for the pin once it
\* has arrived; a name that is looked up is that of the pin.
FormInv ==
    /\ quoting <=> ask.stage # "none"
    /\ ask.stage # "none" => ask.pin = pin
    /\ ~quoting /\ quote # NoPin => quote = pin
    /\ geocode # NoPin => geocode = pin
    /\ TypedKept
    /\ AddressFollowsPin

USE DEF MaybePin, NoAsk, EmptyAddress, TypedAddress, NameOf

LEMMA FormOpens ==
  ASSUME FormInit
  PROVE  FormTypeOK /\ FormInv
<1>1. FormTypeOK
  BY DEF FormInit, FormTypeOK
<1>2. FormInv
  BY DEF FormInit, FormInv, TypedKept, AddressFollowsPin
<1> QED BY <1>1, <1>2

LEMMA FormReset ==
  ASSUME ResetForm
  PROVE  FormTypeOK' /\ FormInv'
<1>1. FormTypeOK'
  BY DEF ResetForm, FormTypeOK
<1>2. FormInv'
  BY DEF ResetForm, FormInv, TypedKept, AddressFollowsPin
<1> QED BY <1>1, <1>2

LEMMA FormStands ==
  ASSUME FormTypeOK, FormInv, UNCHANGED formVars
  PROVE  FormTypeOK' /\ FormInv'
  BY DEF formVars, FormTypeOK, FormInv, TypedKept, AddressFollowsPin

LEMMA FormUsed ==
  ASSUME FormTypeOK, FormInv, NEW f, FormNext(f)
  PROVE  FormTypeOK' /\ FormInv'
<1> USE NoPinAssumption DEF FormTypeOK, FormInv, TypedKept, AddressFollowsPin
<1>1. ASSUME NEW p \in Pins, ChangePinFromMap(p)
      PROVE  FormTypeOK' /\ FormInv'
  <2>1. FormTypeOK'
    BY <1>1 DEF ChangePinFromMap, ChangePin
  <2>2. FormInv'
    BY <1>1 DEF ChangePinFromMap, ChangePin
  <2> QED BY <2>1, <2>2
<1>2. ASSUME NEW p \in Pins, SelectPlace(p)
      PROVE  FormTypeOK' /\ FormInv'
  BY <1>2 DEF SelectPlace, ChangePin
<1>3. ASSUME NEW blank \in BOOLEAN, TypeAddress(blank)
      PROVE  FormTypeOK' /\ FormInv'
  <2>1. FormTypeOK'
    BY <1>3 DEF TypeAddress
  <2>2. FormInv'
    BY <1>3 DEF TypeAddress
  <2> QED BY <2>1, <2>2
<1>4. CASE NameFound
  BY <1>4 DEF NameFound
<1>5. CASE NameNotFound
  BY <1>5 DEF NameNotFound
<1>6. CASE AskQuote
  BY <1>6 DEF AskQuote
<1>7. CASE QuoteArrives(f)
  BY <1>7 DEF QuoteArrives
<1>8. CASE QuoteFails
  BY <1>8 DEF QuoteFails
<1> QED BY <1>1, <1>2, <1>3, <1>4, <1>5, <1>6, <1>7, <1>8 DEF FormNext

-----------------------------------------------------------------------------
(* The orders.                                                             *)

\* Cash orders are placed at once, a prompt is of mobile money, and a cart that
\* still has its lines has no placed order.
OrdersInv ==
    /\ \A i \in Ids :
          /\ orders[i].method = "cod" => orders[i].status = "PLACED"
          /\ orders[i].phone # "none" => orders[i].method = "mobile_money"
          /\ filled => orders[i].status # "PLACED"
    /\ ChargedAsShown
    /\ PrepaidOnce

\* A step that places no order: an order that was settled stays as it was
\* settled, and one that is placed empties the cart.
Evolves ==
    /\ orders' \in Seq(OrderTypes) /\ Len(orders') = Len(orders)
    /\ filled' \in BOOLEAN /\ (filled' => filled)
    /\ \A i \in Ids :
          /\ orders'[i].method = orders[i].method
          /\ orders'[i].asShown = orders[i].asShown
          /\ orders'[i].phone # "none" =>
                orders[i].phone # "none" \/ orders[i].method = "mobile_money"
          /\ orders[i].status # "AWAITING_PAYMENT" => orders'[i].status = orders[i].status
          /\ orders'[i].status = "PLACED" /\ filled' => orders[i].status = "PLACED"

\* What an order is to requests and pages: it is there afterwards, by the same
\* method, and failed if it was.
OrdersStay ==
    /\ Len(orders') >= Len(orders)
    /\ \A i \in Ids :
          /\ orders'[i].method = orders[i].method
          /\ orders[i].status = "PAYMENT_FAILED" => orders'[i].status = "PAYMENT_FAILED"

\* What a step may add while a checkout holds the Cart row.
OnlyCashAdded == \A i \in Ids' \ Ids : orders'[i].method = "cod"

ServerTypeOK ==
    /\ filled \in BOOLEAN
    /\ orders \in Seq(OrderTypes) /\ Len(orders) <= MaxOrders

\* What every step of the server keeps.
ServerKept == ServerTypeOK' /\ OrdersInv' /\ OrdersStay

LEMMA ServerStands ==
  ASSUME ServerTypeOK, OrdersInv, UNCHANGED serverVars
  PROVE  ServerKept /\ OnlyCashAdded
  BY DEF serverVars, ServerKept, ServerTypeOK, OrdersInv, OrdersStay, ChargedAsShown,
         PrepaidOnce, OnlyCashAdded, Ids

LEMMA ServerEvolves ==
  ASSUME ServerTypeOK, OrdersInv, Evolves
  PROVE  ServerKept /\ OnlyCashAdded
<1>1. Ids = 1..Len(orders) /\ DOMAIN orders' = Ids
  BY DEF Evolves, ServerTypeOK, Ids
<1>2. ServerTypeOK'
  BY DEF Evolves, ServerTypeOK
<1>3. OrdersStay
  BY DEF Evolves, ServerTypeOK, OrdersStay
<1>4. \A i \in Ids : orders[i] \in OrderTypes /\ orders'[i] \in OrderTypes
  BY <1>1 DEF Evolves, ServerTypeOK
<1>5. ASSUME NEW i \in Ids
      PROVE  /\ orders'[i].method = "cod" => orders'[i].status = "PLACED"
             /\ orders'[i].phone # "none" => orders'[i].method = "mobile_money"
             /\ filled' => orders'[i].status # "PLACED"
             /\ orders'[i].asShown
             /\ orders'[i].status # "PAYMENT_FAILED" => orders[i].status # "PAYMENT_FAILED"
  BY <1>5 DEF Evolves, OrdersInv, ChargedAsShown
<1>6. PrepaidOnce'
  BY <1>1, <1>5 DEF Evolves, OrdersInv, PrepaidOnce, Ids
<1>7. OrdersInv'
  BY <1>1, <1>5, <1>6 DEF OrdersInv, ChargedAsShown, Ids
<1>8. OnlyCashAdded
  BY <1>1 DEF OnlyCashAdded, Ids
<1> QED BY <1>2, <1>3, <1>7, <1>8 DEF ServerKept

\* The sweep, as a sequence.
LEMMA SweptOrders ==
  ASSUME ServerTypeOK
  PROVE  /\ Swept \in Seq(OrderTypes) /\ Len(Swept) = Len(orders) /\ DOMAIN Swept = Ids
         /\ \A i \in Ids :
               /\ Swept[i].method = orders[i].method
               /\ Swept[i].asShown = orders[i].asShown
               /\ Swept[i].phone = orders[i].phone
               /\ orders[i].status # "AWAITING_PAYMENT" => Swept[i].status = orders[i].status
               /\ orders[i].status = "AWAITING_PAYMENT" =>
                     Swept[i].status \in {"AWAITING_PAYMENT", "PAYMENT_FAILED"}
<1>1. Ids = 1..Len(orders) /\ Len(orders) \in Nat
  BY DEF ServerTypeOK, Ids
<1>2. \A i \in Ids : orders[i] \in OrderTypes
  BY <1>1 DEF ServerTypeOK
<1>3. \A i \in Ids :
         /\ Into(orders[i], "PAYMENT_FAILED") \in OrderTypes
         /\ Into(orders[i], "PAYMENT_FAILED").method = orders[i].method
         /\ Into(orders[i], "PAYMENT_FAILED").asShown = orders[i].asShown
         /\ Into(orders[i], "PAYMENT_FAILED").phone = orders[i].phone
         /\ Into(orders[i], "PAYMENT_FAILED").status = "PAYMENT_FAILED"
  BY <1>2 DEF Into, OrderTypes, OrderStatuses
<1>4. \A i \in Ids :
         Swept[i] = IF orders[i].status = "AWAITING_PAYMENT" /\ orders[i].aged
                    THEN Into(orders[i], "PAYMENT_FAILED") ELSE orders[i]
  BY DEF Swept
<1>5. Swept \in [1..Len(orders) -> OrderTypes]
  BY <1>1, <1>2, <1>3 DEF Swept
<1>6. Swept \in Seq(OrderTypes) /\ Len(Swept) = Len(orders) /\ DOMAIN Swept = Ids
  BY <1>1, <1>5
<1> QED BY <1>2, <1>3, <1>4, <1>6

LEMMA ServerSweeps ==
  ASSUME ServerTypeOK, OrdersInv, orders' = Swept, filled' = filled
  PROVE  ServerKept /\ OnlyCashAdded
<1>1. Evolves
  BY SweptOrders DEF Evolves, ServerTypeOK
<1> QED BY <1>1, ServerEvolves

LEMMA SequenceOf ==
  ASSUME NEW S, NEW n \in Nat, NEW f \in [1..n -> S]
  PROVE  f \in Seq(S) /\ Len(f) = n
  OBVIOUS

\* A step of one order.
LEMMA ServerSettlesOne ==
  ASSUME ServerTypeOK, OrdersInv, NEW k \in Ids, NEW o \in OrderTypes,
         orders' = [orders EXCEPT ![k] = o],
         filled' \in BOOLEAN, filled' => filled,
         o.method = orders[k].method, o.asShown = orders[k].asShown,
         o.phone # "none" => orders[k].phone # "none" \/ orders[k].method = "mobile_money",
         orders[k].status # "AWAITING_PAYMENT" => o.status = orders[k].status,
         o.status = "PLACED" /\ filled' => orders[k].status = "PLACED"
  PROVE  ServerKept /\ OnlyCashAdded
<1>1. Ids = 1..Len(orders) /\ Len(orders) \in Nat
  BY DEF ServerTypeOK, Ids
<1>2. /\ orders' \in [1..Len(orders) -> OrderTypes]
      /\ orders'[k] = o
      /\ \A i \in Ids \ {k} : orders'[i] = orders[i]
  BY <1>1 DEF ServerTypeOK
<1>3. orders' \in Seq(OrderTypes) /\ Len(orders') = Len(orders)
  <2>1. \A f \in [1..Len(orders) -> OrderTypes] :
            f \in Seq(OrderTypes) /\ Len(f) = Len(orders)
    BY ONLY <1>1, SequenceOf
  <2> QED BY <2>1, <1>2
<1>4. ASSUME NEW i \in Ids
      PROVE  /\ orders'[i].method = orders[i].method
             /\ orders'[i].asShown = orders[i].asShown
             /\ orders'[i].phone # "none" =>
                   orders[i].phone # "none" \/ orders[i].method = "mobile_money"
             /\ orders[i].status # "AWAITING_PAYMENT" => orders'[i].status = orders[i].status
             /\ orders'[i].status = "PLACED" /\ filled' => orders[i].status = "PLACED"
  <2>1. CASE i = k
    BY <2>1, <1>2
  <2>2. CASE i # k
    BY <2>2, <1>2
  <2> QED BY <2>1, <2>2
<1>5. Evolves
  BY <1>3, <1>4 DEF Evolves
<1> QED BY <1>5, ServerEvolves

\* A new order: it is paid in cash and empties the cart, or none is alive but
\* those paid in cash.
LEMMA ServerAdds ==
  ASSUME ServerTypeOK, OrdersInv, Len(orders) < MaxOrders,
         NEW o \in OrderTypes, orders' = Append(orders, o),
         filled' \in BOOLEAN, filled' => filled,
         o.asShown, o.phone = "none",
         \/ o.method = "cod" /\ o.status = "PLACED" /\ ~filled'
         \/ /\ o.method # "cod" /\ o.status # "PLACED"
            /\ \A i \in Ids : orders[i].method = "cod" \/ orders[i].status = "PAYMENT_FAILED"
  PROVE  /\ ServerKept
         /\ Len(orders') = Len(orders) + 1 /\ orders'[Len(orders) + 1] = o
         /\ o.method = "cod" => OnlyCashAdded
<1> DEFINE n == Len(orders)
<1>1. n \in Nat /\ Ids = 1..n
  BY DEF ServerTypeOK, Ids
<1>2. /\ orders' \in Seq(OrderTypes) /\ Len(orders') = n + 1
      /\ orders'[n + 1] = o
      /\ \A i \in Ids : orders'[i] = orders[i]
  BY <1>1 DEF ServerTypeOK
<1>3. Ids' = Ids \cup {n + 1} /\ n + 1 \notin Ids
  BY <1>1, <1>2 DEF Ids
<1>4. ServerTypeOK'
  BY <1>1, <1>2, BoundsAssumption DEF ServerTypeOK
<1>5. OrdersStay
  BY <1>1, <1>2 DEF OrdersStay
<1>6. PrepaidOnce'
  <2> SUFFICES ASSUME NEW i \in Ids', NEW j \in Ids', i < j,
                      orders'[i].status # "PAYMENT_FAILED",
                      orders'[j].status # "PAYMENT_FAILED"
               PROVE  orders'[i].method = "cod" \/ orders'[j].method = "cod"
    BY DEF PrepaidOnce
  <2>1. i \in Ids
    BY <1>1, <1>3
  <2>2. CASE j \in Ids
    <3>1. orders[i].method = "cod" \/ orders[j].method = "cod"
      BY <1>2, <2>1, <2>2 DEF OrdersInv, PrepaidOnce
    <3> QED BY <3>1, <1>2, <2>1, <2>2
  <2>3. CASE j = n + 1
    BY <1>2, <2>1, <2>3
  <2> QED BY <2>2, <2>3, <1>3
<1>7. ASSUME NEW i \in Ids'
      PROVE  /\ orders'[i].method = "cod" => orders'[i].status = "PLACED"
             /\ orders'[i].phone # "none" => orders'[i].method = "mobile_money"
             /\ filled' => orders'[i].status # "PLACED"
             /\ orders'[i].asShown
  <2>1. CASE i \in Ids
    BY <2>1, <1>2 DEF OrdersInv, ChargedAsShown
  <2>2. CASE i = n + 1
    BY <2>2, <1>2
  <2> QED BY <2>1, <2>2, <1>3
<1>8. OrdersInv'
  BY <1>6, <1>7 DEF OrdersInv, ChargedAsShown
<1>9. o.method = "cod" => OnlyCashAdded
  BY <1>2, <1>3 DEF OnlyCashAdded
<1> QED BY <1>2, <1>4, <1>5, <1>8, <1>9 DEF ServerKept

-----------------------------------------------------------------------------
(* The requests.                                                           *)

\* The fee of a request was that of its pin, and it is answered with an order
\* that is there; the gateway is asked about an order of mobile money.
RequestOk(r) ==
    /\ r \in RequestTypes /\ r.asShown /\ r.placed <= Len(orders)
    /\ r.at \in {"committed", "asked"} =>
          r.placed \in Ids /\ orders[r.placed].method = "mobile_money"

RequestsInv ==
    /\ \A r \in requests : RequestOk(r)
    /\ \A p, q \in requests : p.id = q.id => p = q

\* The lock of the Cart row has one holder, and while it is held no order of
\* the cart is alive but those paid in cash.
LockInv ==
    /\ \A p, q \in requests : HoldsCart(p) /\ HoldsCart(q) => p.id = q.id
    /\ CartLocked =>
          \A i \in Ids : orders[i].method = "cod" \/ orders[i].status = "PAYMENT_FAILED"

\* A step that gives nobody the lock.
HoldersStay ==
    \A q \in requests' : HoldsCart(q) => \E p \in requests : HoldsCart(p) /\ p.id = q.id

LEMMA LockStands ==
  ASSUME ServerTypeOK, ServerKept, LockInv, HoldersStay, OnlyCashAdded
  PROVE  LockInv'
<1>1. ASSUME NEW p \in requests', NEW q \in requests', HoldsCart(p), HoldsCart(q)
      PROVE  p.id = q.id
  BY <1>1 DEF HoldersStay, LockInv
<1>2. ASSUME CartLocked', NEW i \in Ids'
      PROVE  orders'[i].method = "cod" \/ orders'[i].status = "PAYMENT_FAILED"
  <2>1. CartLocked
    BY <1>2 DEF HoldersStay, CartLocked
  <2>2. CASE i \in Ids
    BY <2>1, <2>2 DEF LockInv, ServerKept, OrdersStay
  <2>3. CASE i \notin Ids
    BY <1>2, <2>3 DEF OnlyCashAdded
  <2> QED BY <2>2, <2>3
<1> QED BY <1>1, <1>2 DEF LockInv, HoldsCart

LEMMA RequestStands ==
  ASSUME ServerTypeOK, ServerKept, NEW r, RequestOk(r)
  PROVE  RequestOk(r)'
<1>1. Ids = 1..Len(orders) /\ Len(orders) \in Nat
  BY DEF ServerTypeOK, Ids
<1>2. Ids' = 1..Len(orders') /\ Len(orders') \in Nat /\ Len(orders') >= Len(orders)
  BY DEF ServerKept, ServerTypeOK, OrdersStay, Ids
<1>3. r.placed \in 0..MaxOrders
  BY DEF RequestOk, RequestTypes
<1>4. r.placed <= Len(orders')
  BY <1>1, <1>2, <1>3, BoundsAssumption DEF RequestOk
<1>5. r.at \in {"committed", "asked"} =>
         r.placed \in Ids' /\ orders'[r.placed].method = "mobile_money"
  BY <1>1, <1>2 DEF RequestOk, ServerKept, OrdersStay
<1> QED BY <1>4, <1>5 DEF RequestOk

LEMMA RequestsStand ==
  ASSUME ServerTypeOK, ServerKept, RequestsInv, requests' \subseteq requests
  PROVE  RequestsInv' /\ HoldersStay
<1>1. \A r \in requests : RequestOk(r)'
  BY RequestStands DEF RequestsInv
<1> QED BY <1>1 DEF RequestsInv, HoldersStay

\* A request moves on.
LEMMA RequestMoves ==
  ASSUME ServerTypeOK, ServerKept, RequestsInv,
         NEW r \in requests, NEW q, q.id = r.id, RequestOk(q)',
         requests' \subseteq (requests \ {r}) \cup {q}
  PROVE  RequestsInv' /\ ((HoldsCart(q) => HoldsCart(r)) => HoldersStay)
<1>1. \A s \in requests : RequestOk(s)'
  BY RequestStands DEF RequestsInv
<1>2. \A s, t \in requests' : s.id = t.id => s = t
  BY DEF RequestsInv
<1>3. (HoldsCart(q) => HoldsCart(r)) => HoldersStay
  BY DEF HoldersStay
<1> QED BY <1>1, <1>2, <1>3 DEF RequestsInv

LEMMA RequestAnswered ==
  ASSUME ServerTypeOK, ServerKept, RequestsInv,
         NEW r \in requests, NEW i \in 0..Len(orders'), NEW pays \in BOOLEAN,
         Answered(r, i, pays)
  PROVE  RequestsInv' /\ HoldersStay
<1> DEFINE q == [r EXCEPT !.at = "answered", !.placed = i, !.pays = pays]
<1>1. Len(orders') \in Nat /\ Len(orders') <= MaxOrders
  BY DEF ServerTypeOK, ServerKept
<1>2. r \in RequestTypes /\ r.asShown
  BY DEF RequestsInv, RequestOk
<1>3. i \in 0..MaxOrders
  BY <1>1, BoundsAssumption
<1>4. /\ q \in RequestTypes /\ q.asShown /\ q.placed = i /\ q.id = r.id
      /\ q.at = "answered"
  BY <1>2, <1>3 DEF RequestTypes
<1>5. requests' \subseteq (requests \ {r}) \cup {q}
  BY DEF Answered, Becomes, Forgets
<1> HIDE DEF q
<1>6. RequestOk(q)'
  BY <1>1, <1>4 DEF RequestOk
<1>7. ~HoldsCart(q)
  BY <1>4 DEF HoldsCart
<1> QED BY <1>4, <1>5, <1>6, <1>7, RequestMoves

-----------------------------------------------------------------------------
(* The pages.                                                              *)

\* The payment page has an order, and what it was told of a failure is so.
ScreenInv ==
    /\ page \in {"checkout", "payment", "order", "elsewhere"}
    /\ seen \in 0..Len(orders)
    /\ page = "payment" => seen # 0
    /\ status = "PAYMENT_FAILED" \/ poll.status = "PAYMENT_FAILED" =>
          page = "payment" /\ orders[seen].status = "PAYMENT_FAILED"

LEMMA SeenOrder ==
  ASSUME ServerTypeOK, ScreenInv, page = "payment"
  PROVE  seen \in Ids /\ orders[seen] \in OrderTypes
  BY DEF ServerTypeOK, ScreenInv, Ids

LEMMA PagesStand ==
  ASSUME ServerTypeOK, ServerKept, ScreenTypeOK, ScreenInv,
         UNCHANGED <<screenVars, page, seen>>
  PROVE  ScreenTypeOK' /\ ScreenInv'
<1>1. page = "payment" => seen \in Ids
  BY SeenOrder
<1>2. Len(orders) \in Nat /\ Len(orders') \in Nat /\ Len(orders') >= Len(orders)
  BY DEF ServerTypeOK, ServerKept, OrdersStay
<1>3. \A i \in Ids :
         orders[i].status = "PAYMENT_FAILED" => orders'[i].status = "PAYMENT_FAILED"
  BY DEF ServerKept, OrdersStay
<1> QED BY <1>1, <1>2, <1>3 DEF screenVars, ScreenTypeOK, ScreenInv

LEMMA PagesMove ==
  ASSUME ServerTypeOK, UNCHANGED serverVars, FormTypeOK, FormInv,
         NEW next \in {"checkout", "payment", "order", "elsewhere"},
         NEW i \in 0..Len(orders), next = "payment" => i # 0,
         Moves(next, i)
  PROVE  FormTypeOK' /\ FormInv' /\ ScreenTypeOK' /\ ScreenInv'
<1>1. FormTypeOK' /\ FormInv'
  BY FormReset, FormStands DEF Moves
<1>2. ScreenTypeOK' /\ status' # "PAYMENT_FAILED" /\ poll'.status # "PAYMENT_FAILED"
  <2>1. CASE OpenScreen
    BY <2>1 DEF OpenScreen, FirstPoll, ScreenTypeOK
  <2>2. CASE CloseScreen
    BY <2>2 DEF CloseScreen, NoPoll, ScreenTypeOK
  <2> QED BY <2>1, <2>2 DEF Moves
<1>3. ScreenInv'
  BY <1>2 DEF ScreenInv, Moves, serverVars
<1> QED BY <1>1, <1>2, <1>3

\* The timers and answers of the payment page.
LEMMA PagePolls ==
  ASSUME ScreenTypeOK, ScreenInv, NEW m, ScreenNext(m),
         UNCHANGED <<page, seen, orders>>
  PROVE  ScreenTypeOK' /\ ScreenInv'
<1>1. ScreenTypeOK'
  <2> USE DEF ScreenTypeOK, NoPoll, FirstPoll, Repoll
  <2>1. CASE OrderLoads(m)
    BY <2>1 DEF OrderLoads
  <2>2. CASE SocketTurns(m)
    BY <2>2 DEF SocketTurns
  <2>3. CASE HearUpdate
    BY <2>3 DEF HearUpdate
  <2>4. CASE TimerFires
    BY <2>4 DEF TimerFires
  <2>5. CASE PollArrives
    BY <2>5 DEF PollArrives
  <2>6. CASE PollDropped
    BY <2>6 DEF PollDropped
  <2> QED BY <2>1, <2>2, <2>3, <2>4, <2>5, <2>6 DEF ScreenNext
<1>2. /\ poll'.status = "PAYMENT_FAILED" => poll.status = "PAYMENT_FAILED"
      /\ status' = "PAYMENT_FAILED" =>
            status = "PAYMENT_FAILED" \/ poll.status = "PAYMENT_FAILED"
  BY DEF ScreenNext, OrderLoads, SocketTurns, HearUpdate, TimerFires, PollArrives,
         PollDropped, NoPoll, FirstPoll, Repoll
<1> QED BY <1>1, <1>2 DEF ScreenInv

-----------------------------------------------------------------------------
(* The invariant.                                                          *)

PurchaseInv ==
    /\ FormTypeOK /\ FormInv
    /\ ServerTypeOK /\ OrdersInv
    /\ RequestsInv /\ LockInv
    /\ ScreenTypeOK /\ ScreenInv

LEMMA PurchaseOpens == Init => PurchaseInv
<1> SUFFICES ASSUME Init PROVE PurchaseInv
  OBVIOUS
<1>1. FormTypeOK /\ FormInv
  BY FormOpens DEF Init
<1>2. ServerTypeOK /\ OrdersInv
  BY BoundsAssumption DEF Init, ServerTypeOK, OrdersInv, ChargedAsShown, PrepaidOnce, Ids
<1>3. RequestsInv /\ LockInv
  BY DEF Init, RequestsInv, LockInv, CartLocked
<1>4. ScreenTypeOK /\ ScreenInv
  <2>1. ScreenTypeOK
    BY DEF Init, ScreenInit, ScreenTypeOK, NoPoll
  <2>2. ScreenInv
    BY DEF Init, ScreenInit, ScreenInv, NoPoll
  <2> QED BY <2>1, <2>2
<1> QED BY <1>1, <1>2, <1>3, <1>4 DEF PurchaseInv

LEMMA PurchaseUsesForm ==
  ASSUME PurchaseInv, Form
  PROVE  PurchaseInv'
<1>1. FormTypeOK' /\ FormInv'
  BY FormUsed DEF Form, PurchaseInv
<1>2. ServerKept /\ OnlyCashAdded
  BY ServerStands DEF Form, PurchaseInv
<1>3. RequestsInv' /\ HoldersStay
  BY <1>2, RequestsStand DEF Form, PurchaseInv
<1>4. LockInv'
  BY <1>2, <1>3, LockStands DEF PurchaseInv
<1> QED BY <1>1, <1>2, <1>3, <1>4, PagesStand DEF Form, PurchaseInv, ServerKept

\* The fee shown is that of the pin: this is where Priced is needed.
LEMMA PurchaseSubmits ==
  ASSUME PurchaseInv, Submit
  PROVE  PurchaseInv'
<1>1. ServerKept /\ OnlyCashAdded
  BY ServerStands DEF Submit, PurchaseInv
<1>2. FormTypeOK' /\ FormInv'
  BY FormStands DEF Submit, PurchaseInv
<1>3. quote = pin
  BY DEF Submit, Priced, PurchaseInv, FormInv
<1> DEFINE n == CHOOSE k \in FreeIds : TRUE
<1>4. n \in 1..MaxRequests /\ \A r \in requests : r.id # n
  BY DEF Submit, CanTry, FreeIds
<1>5. PICK m \in Methods :
         requests' = requests \cup
            {[id |-> n, here |-> TRUE, lost |-> FALSE, at |-> "new",
              method |-> m, asShown |-> quote = pin, placed |-> 0, pays |-> FALSE]}
  BY DEF Submit
<1> HIDE DEF n
<1>6. PICK q : q = [id |-> n, here |-> TRUE, lost |-> FALSE, at |-> "new",
                    method |-> m, asShown |-> quote = pin, placed |-> 0, pays |-> FALSE]
  OBVIOUS
<1>7. requests' = requests \cup {q}
  BY <1>5, <1>6
<1>8. 0 \in 0..MaxOrders
  BY BoundsAssumption
<1>9. /\ q.asShown = (quote = pin) /\ q.placed = 0 /\ q.at = "new" /\ q.id = n
       /\ q \in RequestTypes
  BY <1>4, <1>6, <1>8 DEF RequestTypes
<1>10. /\ q \in RequestTypes /\ q.asShown /\ q.placed = 0 /\ q.at = "new" /\ q.id = n
      /\ requests' = requests \cup {q}
  BY <1>3, <1>7, <1>9
<1>11. Len(orders') \in Nat
  BY <1>1 DEF ServerKept, ServerTypeOK
<1>12. RequestOk(q)' /\ ~HoldsCart(q)
  BY <1>10, <1>11 DEF RequestOk, HoldsCart
<1>13. \A r \in requests : RequestOk(r)'
  BY <1>1, RequestStands DEF PurchaseInv, RequestsInv
<1>14. RequestsInv' /\ HoldersStay
  BY <1>4, <1>10, <1>12, <1>13 DEF PurchaseInv, RequestsInv, HoldersStay
<1>15. LockInv'
  BY <1>1, <1>14, LockStands DEF PurchaseInv
<1> QED BY <1>1, <1>2, <1>14, <1>15, PagesStand DEF Submit, PurchaseInv, ServerKept

\* A request that stays a request of a page.
LEMMA RequestType ==
  ASSUME PurchaseInv, NEW r \in requests
  PROVE  /\ RequestOk(r) /\ r \in RequestTypes /\ r.method \in Methods /\ r.asShown
         /\ r.placed \in 0..Len(orders)
<1>1. RequestOk(r)
  BY DEF PurchaseInv, RequestsInv
<1> QED BY <1>1, BoundsAssumption DEF RequestTypes, RequestOk

\* What is left to show of a step of the server that answers a request.
LEMMA PurchaseAnswers ==
  ASSUME PurchaseInv, ServerKept, OnlyCashAdded, RequestsInv', HoldersStay,
         UNCHANGED <<formVars, screenVars, page, seen>>
  PROVE  PurchaseInv'
<1>1. LockInv'
  BY LockStands DEF PurchaseInv
<1> QED BY <1>1, FormStands, PagesStand DEF PurchaseInv, ServerKept

\* A request that goes on, and changes nothing but its place.
LEMMA RequestGoes ==
  ASSUME PurchaseInv, ServerKept, NEW r \in requests,
         NEW at \in {"new", "swept", "read", "committed", "asked", "answered"}, Goes(r, at),
         at \in {"committed", "asked"} => r.at \in {"committed", "asked"}
  PROVE  /\ RequestsInv' /\ (at # "read" => HoldersStay)
         /\ \A q \in requests' : q \in requests \/ (q.id = r.id /\ q.method = r.method)
<1> DEFINE q == [r EXCEPT !.at = at]
<1>1. /\ q \in RequestTypes /\ q.asShown /\ q.id = r.id /\ q.placed = r.placed
      /\ q.method = r.method /\ q.at = at
  BY RequestType DEF RequestTypes
<1>2. requests' = (requests \ {r}) \cup {q}
  BY DEF Goes, Becomes
<1> HIDE DEF q
<1>3. RequestOk(r)'
  BY RequestType, RequestStands DEF PurchaseInv
<1>4. RequestOk(q)'
  BY <1>1, <1>3 DEF RequestOk
<1>5. at # "read" => ~HoldsCart(q)
  BY <1>1 DEF HoldsCart
<1>6. RequestsInv' /\ (at # "read" => HoldersStay)
  BY <1>1, <1>2, <1>4, <1>5, RequestMoves DEF PurchaseInv
<1>7. \A s \in requests' : s \in requests \/ (s.id = r.id /\ s.method = r.method)
  BY <1>1, <1>2
<1> QED BY <1>6, <1>7

LEMMA PurchaseReads ==
  ASSUME PurchaseInv, NEW r \in requests, ReadCart(r)
  PROVE  PurchaseInv'
<1>1. ServerKept /\ OnlyCashAdded
  BY ServerStands DEF ReadCart, PurchaseInv
<1>2. /\ RequestsInv'
      /\ \A q \in requests' : q \in requests \/ (q.id = r.id /\ q.method = r.method)
  BY <1>1, RequestGoes DEF ReadCart
<1>3. HoldersStay
  BY <1>2 DEF HoldersStay, HoldsCart, ReadCart
<1> QED BY <1>1, <1>2, <1>3, PurchaseAnswers DEF ReadCart

LEMMA PurchasePlacesCash ==
  ASSUME PurchaseInv, NEW r \in requests, PlaceCashOrder(r)
  PROVE  PurchaseInv'
<1> DEFINE o == NewOrder(r, "PLACED")
<1>1. o \in OrderTypes /\ o.asShown /\ o.method = "cod" /\ o.status = "PLACED" /\ o.phone = "none"
  BY RequestType DEF PlaceCashOrder, NewOrder, OrderTypes, OrderStatuses
<1>2. orders' = Append(orders, o) /\ ~filled' /\ filled' \in BOOLEAN /\ Len(orders) < MaxOrders
  BY DEF PlaceCashOrder
<1> HIDE DEF o
<1>3. ServerKept /\ OnlyCashAdded /\ Len(orders') = Len(orders) + 1
  BY <1>1, <1>2, ServerAdds DEF PurchaseInv
<1>4. Len(orders) + 1 \in 0..Len(orders')
  BY <1>3 DEF PurchaseInv, ServerTypeOK
<1>5. RequestsInv' /\ HoldersStay
  BY <1>3, <1>4, RequestAnswered DEF PlaceCashOrder, PurchaseInv
<1> QED BY <1>3, <1>5, PurchaseAnswers DEF PlaceCashOrder

LEMMA PurchaseSweeps ==
  ASSUME PurchaseInv, NEW r \in requests, SweepStale(r)
  PROVE  PurchaseInv'
<1>1. ServerKept /\ OnlyCashAdded
  BY ServerSweeps DEF SweepStale, PurchaseInv
<1>2. RequestsInv' /\ HoldersStay
  BY <1>1, RequestGoes DEF SweepStale
<1> QED BY <1>1, <1>2, PurchaseAnswers DEF SweepStale

\* No order awaits its payment, and none is placed since the cart has its lines.
LEMMA PurchaseLocks ==
  ASSUME PurchaseInv, NEW r \in requests, LockCart(r)
  PROVE  PurchaseInv'
<1>1. ServerKept /\ orders' = orders
  BY ServerStands DEF LockCart, PurchaseInv, serverVars
<1>2. /\ RequestsInv'
      /\ \A q \in requests' : q \in requests \/ (q.id = r.id /\ q.method = r.method)
  BY <1>1, RequestGoes DEF LockCart
<1>3. \A p, q \in requests' : HoldsCart(p) /\ HoldsCart(q) => p.id = q.id
  BY <1>2 DEF LockCart, CartLocked
<1>4. \A i \in Ids : orders[i].status = "PAYMENT_FAILED"
  <2> SUFFICES ASSUME NEW i \in Ids PROVE orders[i].status = "PAYMENT_FAILED"
    OBVIOUS
  <2>1. orders[i] \in OrderTypes
    BY DEF PurchaseInv, ServerTypeOK, Ids
  <2>2. orders[i].status # "AWAITING_PAYMENT" /\ orders[i].status # "PLACED"
    BY DEF LockCart, Awaiting, PurchaseInv, OrdersInv, Ids
  <2> QED BY <2>1, <2>2 DEF OrderTypes, OrderStatuses
<1>5. LockInv'
  BY <1>1, <1>3, <1>4 DEF LockInv, Ids, HoldsCart
<1> QED BY <1>1, <1>2, <1>5, FormStands, PagesStand DEF LockCart, PurchaseInv, ServerKept

LEMMA PurchasePends ==
  ASSUME PurchaseInv, NEW r \in requests, PaymentPending(r)
  PROVE  PurchaseInv'
<1>1. ServerKept /\ OnlyCashAdded /\ orders' = orders
  BY ServerStands DEF PaymentPending, PurchaseInv, serverVars
<1> DEFINE i == CHOOSE j \in Awaiting(orders) : TRUE
<1>2. i \in Awaiting(orders)
  BY DEF PaymentPending
<1>3. i \in 0..Len(orders')
  BY <1>1, <1>2 DEF Awaiting, PurchaseInv, ServerTypeOK
<1>4. Answered(r, i, TRUE)
  BY DEF PaymentPending
<1> HIDE DEF i
<1>5. RequestsInv' /\ HoldersStay
  BY <1>1, <1>3, <1>4, RequestAnswered DEF PurchaseInv
<1> QED BY <1>1, <1>5, PurchaseAnswers DEF PaymentPending

\* The order is placed, and the lock given up.
LEMMA PurchasePlaces ==
  ASSUME PurchaseInv, NEW r \in requests, PlaceAwaitingOrder(r)
  PROVE  PurchaseInv'
<1> DEFINE n == Len(orders)
           o == NewOrder(r, "AWAITING_PAYMENT")
<1>1. HoldsCart(r) /\ r.method # "cod" /\ n \in Nat /\ n < MaxOrders
  BY DEF PlaceAwaitingOrder, HoldsCart, PurchaseInv, ServerTypeOK
<1>2. /\ o \in OrderTypes /\ o.asShown /\ o.method = r.method /\ o.status = "AWAITING_PAYMENT"
      /\ o.phone = "none"
  BY RequestType DEF NewOrder, OrderTypes, OrderStatuses
<1>3. orders' = Append(orders, o) /\ filled' = filled /\ filled' \in BOOLEAN
  BY DEF PlaceAwaitingOrder, PurchaseInv, ServerTypeOK
<1>4. \A i \in Ids : orders[i].method = "cod" \/ orders[i].status = "PAYMENT_FAILED"
  BY <1>1 DEF PurchaseInv, LockInv, CartLocked
<1>5. PICK q : q = [r EXCEPT !.at = "committed", !.placed = n + 1]
  OBVIOUS
<1>6. n + 1 \in 0..MaxOrders
  BY <1>1, BoundsAssumption
<1>7. /\ q \in RequestTypes /\ q.asShown /\ q.id = r.id /\ q.placed = n + 1
      /\ q.method = r.method /\ q.at = "committed"
  BY <1>5, <1>6, RequestType DEF RequestTypes
<1>8. IF r.method = "mobile_money" THEN Becomes(r, q) ELSE Answered(r, n + 1, TRUE)
  BY <1>5 DEF PlaceAwaitingOrder
<1> HIDE DEF o
<1>9. ServerKept /\ Len(orders') = n + 1 /\ orders'[n + 1] = o
  BY <1>1, <1>2, <1>3, <1>4, ServerAdds DEF PurchaseInv
<1>10. n + 1 \in Ids' /\ n + 1 \in 0..Len(orders')
  BY <1>1, <1>9 DEF ServerKept, ServerTypeOK, Ids
<1>11. RequestsInv' /\ ~CartLocked'
  <2>1. \A p \in requests : HoldsCart(p) => p = r
    BY <1>1 DEF PurchaseInv, LockInv, RequestsInv
  <2>2. CASE r.method = "mobile_money"
    <3>1. RequestOk(q)'
      BY <1>2, <1>7, <1>9, <1>10, <2>2 DEF RequestOk, ServerKept, ServerTypeOK
    <3>2. requests' = (requests \ {r}) \cup {q}
      BY <1>8, <2>2 DEF Becomes
    <3>3. RequestsInv'
      BY <3>1, <3>2, <1>7, <1>9, RequestMoves DEF PurchaseInv
    <3>4. ~CartLocked'
      BY <2>1, <3>2, <1>7 DEF CartLocked, HoldsCart
    <3> QED BY <3>3, <3>4
  <2>3. CASE r.method # "mobile_money"
    <3>1. RequestsInv'
      BY <1>8, <1>9, <1>10, <2>3, RequestAnswered DEF PurchaseInv
    <3>2. [r EXCEPT !.at = "answered", !.placed = n + 1, !.pays = TRUE].at = "answered"
      BY RequestType DEF RequestTypes
    <3>3. \A p \in requests' : p \in requests \ {r} \/ p.at = "answered"
      BY <1>8, <2>3, <3>2 DEF Answered, Becomes, Forgets
    <3>4. ~CartLocked'
      BY <2>1, <3>3 DEF CartLocked, HoldsCart
    <3> QED BY <3>1, <3>4
  <2> QED BY <2>2, <2>3
<1>12. LockInv'
  BY <1>11 DEF LockInv, CartLocked
<1> QED BY <1>9, <1>11, <1>12, FormStands, PagesStand DEF PlaceAwaitingOrder, PurchaseInv, ServerKept

LEMMA PurchaseRefuses ==
  ASSUME PurchaseInv, NEW r \in requests, RefuseCheckout(r)
  PROVE  PurchaseInv'
<1>1. ServerKept /\ OnlyCashAdded
  BY ServerStands DEF RefuseCheckout, PurchaseInv
<1>2. 0 \in 0..Len(orders')
  BY <1>1 DEF ServerKept, ServerTypeOK
<1>3. RequestsInv' /\ HoldersStay
  BY <1>1, <1>2, RequestAnswered DEF RefuseCheckout, PurchaseInv
<1> QED BY <1>1, <1>3, PurchaseAnswers DEF RefuseCheckout

LEMMA PurchaseLoses ==
  ASSUME PurchaseInv, NEW r \in requests, LoseCheckout(r)
  PROVE  PurchaseInv'
<1> DEFINE q == [r EXCEPT !.lost = TRUE, !.here = FALSE]
<1>1. ServerKept /\ OnlyCashAdded
  BY ServerStands DEF LoseCheckout, PurchaseInv
<1>2. /\ q \in RequestTypes /\ q.asShown /\ q.id = r.id /\ q.placed = r.placed
      /\ q.method = r.method /\ q.at = r.at
  BY RequestType DEF RequestTypes
<1>3. requests' \subseteq (requests \ {r}) \cup {q}
  BY DEF LoseCheckout, Becomes, Forgets
<1> HIDE DEF q
<1>4. RequestOk(r)'
  BY <1>1, RequestType, RequestStands DEF PurchaseInv
<1>5. RequestOk(q)' /\ (HoldsCart(q) => HoldsCart(r))
  BY <1>2, <1>4 DEF RequestOk, HoldsCart
<1>6. RequestsInv' /\ HoldersStay
  BY <1>1, <1>2, <1>3, <1>5, RequestMoves DEF PurchaseInv
<1> QED BY <1>1, <1>6, PurchaseAnswers DEF LoseCheckout

LEMMA PurchaseMoves ==
  ASSUME PurchaseInv, UNCHANGED serverVars,
         NEW next \in {"checkout", "payment", "order", "elsewhere"},
         NEW i \in 0..Len(orders), next = "payment" => i # 0,
         Moves(next, i), RequestsInv', HoldersStay
  PROVE  PurchaseInv'
<1>1. ServerKept /\ OnlyCashAdded
  BY ServerStands DEF PurchaseInv
<1>2. FormTypeOK' /\ FormInv' /\ ScreenTypeOK' /\ ScreenInv'
  BY PagesMove DEF PurchaseInv
<1>3. LockInv'
  BY <1>1, LockStands DEF PurchaseInv
<1> QED BY <1>1, <1>2, <1>3 DEF PurchaseInv, ServerKept

\* A request that goes on without its page is a request still.
LEMMA RequestsLeave ==
  ASSUME PurchaseInv, UNCHANGED serverVars, NEW rs, rs \subseteq requests,
         requests' = Leave(rs)
  PROVE  RequestsInv' /\ HoldersStay
<1> DEFINE Left(r) == [r EXCEPT !.here = FALSE]
<1>1. \A r \in rs : r \in requests /\ RequestOk(r) /\ r \in RequestTypes
  BY DEF PurchaseInv, RequestsInv, RequestOk
<1>2. \A r \in rs : /\ Left(r) \in RequestTypes /\ Left(r).asShown = r.asShown
                    /\ Left(r).id = r.id /\ Left(r).placed = r.placed
                    /\ Left(r).at = r.at /\ Left(r).method = r.method
  BY <1>1 DEF RequestTypes
<1>3. requests' = {Left(r) : r \in rs}
  BY DEF Leave
<1> HIDE DEF Left
<1>4. ASSUME NEW q \in requests' PROVE RequestOk(q)'
  BY <1>1, <1>2, <1>3 DEF RequestOk, serverVars, Ids
<1>5. \A p, q \in requests' : p.id = q.id => p = q
  BY <1>1, <1>2, <1>3 DEF PurchaseInv, RequestsInv
<1>6. HoldersStay
  BY <1>1, <1>2, <1>3 DEF HoldersStay, HoldsCart
<1> QED BY <1>4, <1>5, <1>6 DEF RequestsInv

LEMMA PurchaseArrives ==
  ASSUME PurchaseInv, NEW r \in requests, CheckoutArrives(r)
  PROVE  PurchaseInv'
<1>1. ServerKept /\ OnlyCashAdded
  BY ServerStands DEF CheckoutArrives, PurchaseInv
<1>2. CASE /\ requests' = Leave(requests \ {r})
           /\ r.placed # 0
           /\ Moves(IF r.pays THEN "payment" ELSE "order", IF r.pays THEN r.placed ELSE 0)
  <2>1. RequestsInv' /\ HoldersStay
    BY <1>2, RequestsLeave DEF CheckoutArrives
  <2>2. r.placed \in 0..Len(orders) /\ 0 \in 0..Len(orders)
    BY RequestType DEF PurchaseInv, ServerTypeOK
  <2>3. CASE r.pays
    BY <1>2, <2>1, <2>2, <2>3, PurchaseMoves DEF CheckoutArrives
  <2>4. CASE ~r.pays
    BY <1>2, <2>1, <2>2, <2>4, PurchaseMoves DEF CheckoutArrives
  <2> QED BY <2>3, <2>4
<1>3. CASE Forgets(r) /\ UNCHANGED <<formVars, screenVars, page, seen>>
  <2>1. RequestsInv' /\ HoldersStay
    BY <1>1, <1>3, RequestsStand DEF Forgets, PurchaseInv
  <2> QED BY <1>1, <1>3, <2>1, PurchaseAnswers
<1> QED BY <1>2, <1>3 DEF CheckoutArrives

LEMMA PurchaseGoes ==
  ASSUME PurchaseInv, NEW next \in {"checkout", "elsewhere"}, GoTo(next)
  PROVE  PurchaseInv'
<1>1. RequestsInv' /\ HoldersStay
  BY RequestsLeave DEF GoTo
<1>2. 0 \in 0..Len(orders)
  BY DEF PurchaseInv, ServerTypeOK
<1> QED BY <1>1, <1>2, PurchaseMoves DEF GoTo

LEMMA PurchasePolls ==
  ASSUME PurchaseInv, Screen
  PROVE  PurchaseInv'
<1>1. ServerKept /\ OnlyCashAdded
  BY ServerStands DEF Screen, PurchaseInv
<1>2. FormTypeOK' /\ FormInv' /\ ScreenTypeOK' /\ ScreenInv'
  BY FormStands, PagePolls DEF Screen, PurchaseInv, serverVars
<1>3. RequestsInv' /\ HoldersStay
  BY <1>1, RequestsStand DEF Screen, PurchaseInv
<1>4. LockInv'
  BY <1>1, <1>3, LockStands DEF PurchaseInv
<1> QED BY <1>1, <1>2, <1>3, <1>4 DEF PurchaseInv, ServerKept

\* The status that is sent is the one the server has by then.
LEMMA PurchaseAnswersPoll ==
  ASSUME PurchaseInv, AnswerPoll
  PROVE  PurchaseInv'
<1> DEFINE o == orders[seen]
           late == o.status = "AWAITING_PAYMENT" /\ o.aged
           now == IF late THEN "PAYMENT_FAILED" ELSE o.status
           new == IF late THEN Into(o, now) ELSE o
<1>1. page = "payment" /\ seen \in Ids /\ o \in OrderTypes
  BY SeenOrder DEF AnswerPoll, PurchaseInv
<1>2. /\ new \in OrderTypes /\ new.status = now
      /\ new.method = o.method /\ new.asShown = o.asShown /\ new.phone = o.phone
      /\ o.status # "AWAITING_PAYMENT" => new.status = o.status
      /\ new.status = "PLACED" => o.status = "PLACED"
      /\ now \in OrderStatuses
  BY <1>1 DEF OrderTypes, OrderStatuses, Into
<1>3. orders' = [orders EXCEPT ![seen] = new] /\ PollAnswered(now)
        /\ UNCHANGED <<formVars, page, seen, requests, filled>>
  BY DEF AnswerPoll
<1>4. filled' \in BOOLEAN /\ orders'[seen] = new /\ seen \in 0..Len(orders')
  BY <1>1, <1>3 DEF PurchaseInv, ServerTypeOK, Ids
<1> HIDE DEF o, late, now, new
<1>5. ServerKept /\ OnlyCashAdded
  BY <1>1, <1>2, <1>3, <1>4, ServerSettlesOne DEF PurchaseInv, o
<1>6. RequestsInv' /\ HoldersStay
  BY <1>3, <1>5, RequestsStand DEF PurchaseInv
<1>7. FormTypeOK' /\ FormInv'
  BY <1>3, FormStands DEF PurchaseInv
<1>8. ScreenTypeOK'
  BY <1>2, <1>3 DEF PollAnswered, ScreenTypeOK, PurchaseInv
<1>9. status = "PAYMENT_FAILED" => orders'[seen].status = "PAYMENT_FAILED"
  BY <1>1, <1>5 DEF PurchaseInv, ScreenInv, ServerKept, OrdersStay
<1>10. ScreenInv'
  BY <1>1, <1>2, <1>3, <1>4, <1>9 DEF PollAnswered, ScreenInv, PurchaseInv
<1>11. LockInv'
  BY <1>5, <1>6, LockStands DEF PurchaseInv
<1> QED BY <1>5, <1>6, <1>7, <1>8, <1>10, <1>11 DEF PurchaseInv, ServerKept

LEMMA PurchaseMovesOn ==
  ASSUME PurchaseInv, PaidMovesOn
  PROVE  PurchaseInv'
<1>1. ServerKept /\ 0 \in 0..Len(orders)
  BY ServerStands DEF PaidMovesOn, PurchaseInv, ServerTypeOK
<1>2. RequestsInv' /\ HoldersStay
  BY <1>1, RequestsStand DEF PaidMovesOn, PurchaseInv
<1> QED BY <1>1, <1>2, PurchaseMoves DEF PaidMovesOn

LEMMA OrderType ==
  ASSUME PurchaseInv, NEW k \in Ids
  PROVE  orders[k] \in OrderTypes
  BY DEF PurchaseInv, ServerTypeOK, Ids

\* A step of one order that no page sees.
LEMMA PurchaseSettlesOne ==
  ASSUME PurchaseInv, NEW k \in Ids, NEW o \in OrderTypes,
         orders' = [orders EXCEPT ![k] = o],
         filled' \in BOOLEAN, filled' => filled,
         o.method = orders[k].method, o.asShown = orders[k].asShown,
         o.phone # "none" => orders[k].phone # "none",
         orders[k].status # "AWAITING_PAYMENT" => o.status = orders[k].status,
         o.status = "PLACED" /\ filled' => orders[k].status = "PLACED",
         UNCHANGED <<formVars, screenVars, page, seen, requests>>
  PROVE  PurchaseInv'
<1>1. ServerKept /\ OnlyCashAdded
  BY ServerSettlesOne DEF PurchaseInv
<1>2. RequestsInv' /\ HoldersStay
  BY <1>1, RequestsStand DEF PurchaseInv
<1> QED BY <1>1, <1>2, PurchaseAnswers

LEMMA ServerSettles ==
  ASSUME PurchaseInv, NEW k \in Ids, NEW paid \in BOOLEAN,
         NEW phone \in {"none", "prompt", "approved", "called"},
         phone # "none" => orders[k].phone # "none",
         Settle(k, paid, phone)
  PROVE  ServerKept /\ OnlyCashAdded
<1> DEFINE first == orders[k].status = "AWAITING_PAYMENT"
           outcome == IF paid THEN "PLACED" ELSE "PAYMENT_FAILED"
           o == [IF first THEN Into(orders[k], outcome) ELSE orders[k] EXCEPT !.phone = phone]
<1>1. /\ o \in OrderTypes /\ o.phone = phone
      /\ o.method = orders[k].method /\ o.asShown = orders[k].asShown
      /\ o.status = IF first THEN outcome ELSE orders[k].status
  BY OrderType DEF OrderTypes, OrderStatuses, Into
<1>2. orders' = [orders EXCEPT ![k] = o]
  BY DEF Settle
<1>3. filled' = (filled /\ ~(first /\ paid))
  BY DEF Settle
<1> HIDE DEF o
<1>4. o.status = "PLACED" /\ filled' => orders[k].status = "PLACED"
  BY <1>1, <1>3
<1>5. orders[k].status # "AWAITING_PAYMENT" => o.status = orders[k].status
  BY <1>1
<1>6. filled' \in BOOLEAN /\ (filled' => filled)
  BY <1>3
<1> QED BY <1>1, <1>2, <1>4, <1>5, <1>6, ServerSettlesOne DEF PurchaseInv

LEMMA PurchaseSettles ==
  ASSUME PurchaseInv, NEW k \in Ids, NEW paid \in BOOLEAN,
         NEW phone \in {"none", "prompt", "approved", "called"},
         phone # "none" => orders[k].phone # "none",
         Settle(k, paid, phone),
         UNCHANGED <<formVars, screenVars, page, seen, requests>>
  PROVE  PurchaseInv'
<1>1. ServerKept /\ OnlyCashAdded
  BY ServerSettles
<1>2. RequestsInv' /\ HoldersStay
  BY <1>1, RequestsStand DEF PurchaseInv
<1> QED BY <1>1, <1>2, PurchaseAnswers

LEMMA PurchasePushes ==
  ASSUME PurchaseInv, NEW r \in requests, InitiatePush(r) \/ PushAccepted(r) \/ PushRefused(r)
  PROVE  PurchaseInv'
<1> DEFINE k == r.placed
<1>1. k \in Ids /\ orders[k].method = "mobile_money" /\ k \in 0..Len(orders)
  BY RequestType DEF InitiatePush, PushAccepted, PushRefused, RequestOk
<1>2. orders[k] \in OrderTypes
  BY <1>1, OrderType
<1>3. CASE InitiatePush(r)
  <2> DEFINE o == [orders[k] EXCEPT !.phone = "prompt"]
  <2>1. /\ o \in OrderTypes /\ o.status = orders[k].status
        /\ o.method = orders[k].method /\ o.asShown = orders[k].asShown
    BY <1>2 DEF OrderTypes, OrderStatuses
  <2>2. orders' = [orders EXCEPT ![k] = o] /\ filled' = filled /\ filled' \in BOOLEAN
    BY <1>3 DEF InitiatePush, PurchaseInv, ServerTypeOK
  <2> HIDE DEF o
  <2>3. ServerKept /\ OnlyCashAdded
    BY <1>1, <2>1, <2>2, ServerSettlesOne DEF PurchaseInv
  <2>4. RequestsInv' /\ HoldersStay
    BY <1>3, <2>3, RequestGoes DEF InitiatePush
  <2> QED BY <1>3, <2>3, <2>4, PurchaseAnswers DEF InitiatePush
<1>4. CASE PushAccepted(r)
  <2>1. ServerKept /\ OnlyCashAdded /\ orders' = orders
    BY <1>4, ServerStands DEF PushAccepted, PurchaseInv, serverVars
  <2>2. Answered(r, k, orders[k].status = "AWAITING_PAYMENT")
    BY <1>4 DEF PushAccepted
  <2>3. RequestsInv' /\ HoldersStay
    BY <1>1, <2>1, <2>2, RequestAnswered DEF PurchaseInv
  <2> QED BY <1>4, <2>1, <2>3, PurchaseAnswers DEF PushAccepted
<1>5. CASE PushRefused(r)
  <2>1. ServerKept /\ OnlyCashAdded
    BY <1>1, <1>2, <1>5, ServerSettles DEF PushRefused, OrderTypes
  <2>2. 0 \in 0..Len(orders')
    BY <2>1 DEF ServerKept, ServerTypeOK
  <2>3. RequestsInv' /\ HoldersStay
    BY <1>5, <2>1, <2>2, RequestAnswered DEF PushRefused, PurchaseInv
  <2> QED BY <1>5, <2>1, <2>3, PurchaseAnswers DEF PushRefused
<1> QED BY <1>3, <1>4, <1>5

LEMMA PurchasePays ==
  ASSUME PurchaseInv, NEW k \in Ids,
         Approve(k) \/ Callback(k) \/ SettleManually(k) \/ ExpireStale(k) \/ Age(k)
  PROVE  PurchaseInv'
<1>1. CASE Approve(k)
  <2> DEFINE o == [orders[k] EXCEPT !.phone = "approved"]
  <2>1. /\ o \in OrderTypes /\ orders[k].phone # "none"
        /\ o.method = orders[k].method /\ o.asShown = orders[k].asShown
        /\ o.status = orders[k].status
    BY <1>1, OrderType DEF OrderTypes, OrderStatuses, Approve
  <2>2. orders' = [orders EXCEPT ![k] = o] /\ filled' = filled /\ filled' \in BOOLEAN
          /\ UNCHANGED <<formVars, screenVars, page, seen, requests>>
    BY <1>1 DEF Approve, PurchaseInv, ServerTypeOK
  <2> HIDE DEF o
  <2> QED BY <2>1, <2>2, PurchaseSettlesOne
<1>2. CASE Callback(k)
  BY <1>2, PurchaseSettles DEF Callback
<1>3. CASE SettleManually(k)
  BY <1>3, PurchaseSettles DEF SettleManually
<1>4. CASE Age(k)
  <2> DEFINE o == [orders[k] EXCEPT !.aged = TRUE]
  <2>1. /\ o \in OrderTypes /\ o.phone = orders[k].phone
        /\ o.method = orders[k].method /\ o.asShown = orders[k].asShown
        /\ o.status = orders[k].status
    BY OrderType DEF OrderTypes, OrderStatuses
  <2>2. orders' = [orders EXCEPT ![k] = o] /\ filled' = filled /\ filled' \in BOOLEAN
          /\ UNCHANGED <<formVars, screenVars, page, seen, requests>>
    BY <1>4 DEF Age, PurchaseInv, ServerTypeOK
  <2> HIDE DEF o
  <2> QED BY <2>1, <2>2, PurchaseSettlesOne
<1>5. CASE ExpireStale(k)
  <2>1. orders[k].phone \in {"none", "prompt", "approved", "called"}
    BY OrderType DEF OrderTypes
  <2> QED BY <1>5, <2>1, PurchaseSettles DEF ExpireStale
<1> QED BY <1>1, <1>2, <1>3, <1>4, <1>5

LEMMA PurchaseStands ==
  ASSUME PurchaseInv, UNCHANGED vars
  PROVE  PurchaseInv'
<1>1. ServerKept /\ OnlyCashAdded
  BY ServerStands DEF vars, serverVars, PurchaseInv
<1>2. RequestsInv' /\ HoldersStay
  BY <1>1, RequestsStand DEF vars, PurchaseInv
<1> QED BY <1>1, <1>2, PurchaseAnswers DEF vars

LEMMA PurchaseStep == PurchaseInv /\ [Next]_vars => PurchaseInv'
<1> SUFFICES ASSUME PurchaseInv, [Next]_vars
             PROVE  PurchaseInv'
  OBVIOUS
<1>1. ASSUME NEW r \in requests,
             \/ ReadCart(r) \/ PlaceCashOrder(r)
             \/ SweepStale(r) \/ LockCart(r) \/ PaymentPending(r) \/ PlaceAwaitingOrder(r)
             \/ InitiatePush(r) \/ PushAccepted(r) \/ PushRefused(r)
             \/ RefuseCheckout(r) \/ LoseCheckout(r) \/ CheckoutArrives(r)
      PROVE  PurchaseInv'
  BY <1>1, PurchaseReads, PurchasePlacesCash, PurchaseSweeps, PurchaseLocks, PurchasePends,
     PurchasePlaces, PurchasePushes, PurchaseRefuses, PurchaseLoses, PurchaseArrives
<1> QED BY <1>1, PurchaseUsesForm, PurchaseSubmits, PurchaseGoes, PurchasePolls,
           PurchaseAnswersPoll, PurchaseMovesOn, PurchasePays, PurchaseStands DEF Next

LEMMA PurchaseAlways == Spec => []PurchaseInv
  BY PurchaseOpens, PurchaseStep, PTL DEF Spec

-----------------------------------------------------------------------------

\* The types of the two pages, the requests and the orders.
THEOREM PurchaseTypes == Spec => []TypeOK
<1>1. PurchaseInv => TypeOK
  BY DEF PurchaseInv, ServerTypeOK, RequestsInv, RequestOk, ScreenInv, TypeOK
<1> QED BY <1>1, PurchaseAlways, PTL

\* The form: the fee is never "being priced" for ever, what was typed stays, and
\* the name filled in is that of the pin.
THEOREM FormIsTrue == Spec => [](QuotingEnds /\ TypedKept /\ AddressFollowsPin)
<1>1. PurchaseInv => QuotingEnds /\ TypedKept /\ AddressFollowsPin
  BY DEF PurchaseInv, FormInv, QuotingEnds
<1> QED BY <1>1, PurchaseAlways, PTL

\* Nobody pays for the delivery to another place than the one the button priced.
THEOREM FeeIsTheOneShown == Spec => []ChargedAsShown
<1>1. PurchaseInv => ChargedAsShown
  BY DEF PurchaseInv, OrdersInv
<1> QED BY <1>1, PurchaseAlways, PTL

\* However many checkouts of a cart are lost, sent again, overlap or are done late,
\* two of its orders that have not failed are never both prepaid.  Nothing is
\* claimed of orders in cash: OrderedInCashOnce says what the code does not keep.
THEOREM PrepaidOrdersExclude == Spec => []PrepaidOnce
<1>1. PurchaseInv => PrepaidOnce
  BY DEF PurchaseInv, OrdersInv
<1> QED BY <1>1, PurchaseAlways, PTL

\* The page says "not completed" of failed orders only.
THEOREM FailureIsTrue == Spec => []FailedNotPlaced
<1>1. PurchaseInv => FailedNotPlaced
  BY DEF PurchaseInv, ScreenInv, FailedNotPlaced, Drawn
<1> QED BY <1>1, PurchaseAlways, PTL

=============================================================================
