---------------------------- MODULE GatewayProof ----------------------------
(***************************************************************************)
(* Theorems about two order gateways, which have nothing in common but     *)
(* that strategies trade through them.                                     *)
(*                                                                         *)
(* First what GlobexGateway tells the strategies, for every number of      *)
(* orders, messages, lost connections and every limit of a resend request. *)
(*                                                                         *)
(* Then what FemasGateway promises, for all orders to be verified, orders  *)
(* of the strategies and lost connections, whatever is under way.  FemasInv*)
(* has two parts.  StartInv: Start makes one request at a time, its queries*)
(* for orders are answered in sequence, so that it is enough to count the  *)
(* answers, and so it was told of everything that lies behind it.          *)
(* NumbersInv: until something happens that calm excludes, the numbers are *)
(* given out once, above those of the orders to be verified, and every     *)
(* message has a number that leads to its order.                           *)
(***************************************************************************)
EXTENDS GlobexGateway, FemasGateway, FiniteSetTheorems, SequenceTheorems, TLAPS

Over == {"filled", "cancelled", "rejected", "expired"}

\* The exchange's messages up to the k-th that tell of a trade of order id.
IsTrade(m, id)   == IsFill(m) /\ m.id = id /\ m.qty = 1
Trades(s, id, k) == {n \in 1 .. k : IsTrade(s[n], id)}

\* A resend request is about messages there are.
Asked ==
  \A i \in DOMAIN asks :
    /\ asks[i].from \in 1 .. LastSent
    /\ asks[i].to = 0 \/ asks[i].from <= asks[i].to

\* An order that is still on its way to the exchange is new to it.
Fresh ==
  /\ \A id \in Ids \ added : book[id] = "none"
  /\ \A i \in DOMAIN requests :
       /\ requests[i].type # "queryAll" => requests[i].id \in Ids
       /\ requests[i].type = "add" =>
            /\ requests[i].id \in added
            /\ book[requests[i].id] = "none"
            /\ \A j \in DOMAIN requests :
                 requests[j].type = "add" /\ requests[j].id = requests[i].id
                   => j = i

\* What can still be traded.
Tradable ==
  \A id \in Ids :
    /\ book[id] = "none" => traded[id] = 0
    /\ Open(id) => traded[id] < Quantity

\* Every trade is a message, and told when it is its turn.
Counted ==
  \A id \in Ids :
    /\ traded[id] = Cardinality(Trades(sent, id, LastSent))
    /\ filled[id] = Cardinality(Trades(sent, id, expected - 1))

\* A message that ends an order was sent when it ended.
Ended ==
  \A n \in DOMAIN sent :
    sent[n].type = "report" /\ sent[n].status \in {"rejected", "expired"}
      => book[sent[n].id] \in Over

Inv == TypeOK /\ Asked /\ Fresh /\ Tradable /\ Counted /\ Ended /\ OverIsOver

-----------------------------------------------------------------------------
(* Messages and what is told of them.                                      *)

LEMMA StatusType ==
  ASSUME NEW s \in OrdStatus
  PROVE  /\ Convert_order_status(s) \in Told
         /\ Convert_order_status(s) = "rejected" => s = "rejected"
         /\ Convert_order_status(s) = "cancelled" =>
              s \in {"expired", "busted"}
BY DEF OrdStatus, Convert_order_status, Told

LEMMA MessageType ==
  ASSUME NEW id \in Ids, NEW s \in OrdStatus, NEW q \in {0, 1}
  PROVE  /\ Report(id, s, q) \in Messages
         /\ Refusal(id) \in Messages
         /\ LogonMessage \in Messages
         /\ OtherMessage \in Messages
BY DEF Report, Refusal, LogonMessage, OtherMessage, NoReport, Messages,
       OrdStatus

\* Trades of what is sent stay where they are, and appending one adds one.
LEMMA TradesFinite ==
  ASSUME NEW s, NEW id, NEW k \in Nat
  PROVE  /\ IsFiniteSet(Trades(s, id, k))
         /\ Cardinality(Trades(s, id, k)) \in Nat
<1>1. IsFiniteSet(1 .. k)
  BY FS_Interval
<1>2. Trades(s, id, k) \in SUBSET (1 .. k)
  BY DEF Trades
<1> QED BY <1>1, <1>2, FS_Subset, FS_CardinalityType

LEMMA TradesUpTo ==
  ASSUME NEW s, NEW id, NEW j \in Nat, NEW k \in Nat, j <= k
  PROVE  Cardinality(Trades(s, id, j)) <= Cardinality(Trades(s, id, k))
<1>1. Trades(s, id, j) \in SUBSET Trades(s, id, k)
  BY DEF Trades
<1> QED BY <1>1, TradesFinite, FS_Subset

LEMMA TradesNext ==
  ASSUME NEW s, NEW id, NEW k \in Nat
  PROVE  Cardinality(Trades(s, id, k + 1)) =
           Cardinality(Trades(s, id, k))
             + (IF IsTrade(s[k + 1], id) THEN 1 ELSE 0)
<1>1. CASE IsTrade(s[k + 1], id)
  <2>1. Trades(s, id, k + 1) = Trades(s, id, k) \cup {k + 1}
    BY <1>1 DEF Trades
  <2>2. k + 1 \notin Trades(s, id, k)
    BY DEF Trades
  <2> QED BY <1>1, <2>1, <2>2, TradesFinite, FS_AddElement
<1>2. CASE ~IsTrade(s[k + 1], id)
  <2>1. Trades(s, id, k + 1) = Trades(s, id, k)
    BY <1>2 DEF Trades
  <2> QED BY <1>2, <2>1, TradesFinite
<1> QED BY <1>1, <1>2

LEMMA Appended ==
  ASSUME NEW s \in Seq(Messages), NEW ms \in Seq(Messages)
  PROVE  /\ s \o ms \in Seq(Messages)
         /\ Len(s \o ms) = Len(s) + Len(ms)
         /\ \A n \in 1 .. Len(s) : (s \o ms)[n] = s[n]
         /\ \A n \in 1 .. Len(ms) : (s \o ms)[Len(s) + n] = ms[n]
         /\ \A n \in DOMAIN (s \o ms) :
              \/ n \in DOMAIN s /\ (s \o ms)[n] = s[n]
              \/ \E k \in DOMAIN ms : (s \o ms)[n] = ms[k]
<1>1. \A n \in DOMAIN (s \o ms) :
         \/ n \in DOMAIN s /\ (s \o ms)[n] = s[n]
         \/ n - Len(s) \in DOMAIN ms /\ (s \o ms)[n] = ms[n - Len(s)]
  OBVIOUS
<1> QED BY <1>1

LEMMA TradesKept ==
  ASSUME NEW s \in Seq(Messages), NEW ms \in Seq(Messages), NEW id,
         NEW k \in 0 .. Len(s)
  PROVE  Trades(s \o ms, id, k) = Trades(s, id, k)
<1>1. \A n \in 1 .. k : (s \o ms)[n] = s[n]
  BY Appended
<1> QED BY <1>1 DEF Trades

LEMMA NoTrades ==
  ASSUME NEW s \in Seq(Messages), NEW ms \in Seq(Messages), NEW id,
         \A n \in DOMAIN ms : ~IsTrade(ms[n], id)
  PROVE  Trades(s \o ms, id, Len(s \o ms)) = Trades(s, id, Len(s))
<1>a. DOMAIN s = 1 .. Len(s) /\ DOMAIN (s \o ms) = 1 .. Len(s \o ms)
  OBVIOUS
<1>1. \A n \in 1 .. Len(s \o ms) :
         \/ n \in 1 .. Len(s) /\ (s \o ms)[n] = s[n]
         \/ \E k \in DOMAIN ms : (s \o ms)[n] = ms[k]
  BY <1>a, Appended
<1>2. 1 .. Len(s) \subseteq 1 .. Len(s \o ms)
  BY Appended
<1>3. \A n \in 1 .. Len(s) : (s \o ms)[n] = s[n]
  BY Appended
<1> QED BY <1>1, <1>2, <1>3 DEF Trades

-----------------------------------------------------------------------------
(* The steps.                                                              *)

THEOREM InitInv == Init => Inv
<1> SUFFICES ASSUME Init PROVE Inv
  OBVIOUS
<1> USE SessionAssumption, GatewayAssumption DEF Init, SessionInit, LastSent
<1>1. TypeOK
  <2>1. /\ sent \in Seq(Messages) /\ wire \in Seq(1 .. LastSent)
        /\ asks \in Seq(Ask) /\ requests \in Seq(Requests)
    OBVIOUS
  <2>2. /\ LastSent = 0 /\ expected \in 1 .. LastSent + 1
        /\ received \in 0 .. LastSent /\ held \subseteq expected .. LastSent
    OBVIOUS
  <2>3. up \in BOOLEAN /\ stopped \in BOOLEAN /\ added \subseteq Ids
    OBVIOUS
  <2>6. traded \in [Ids -> 0 .. Quantity] /\ filled \in [Ids -> Nat]
    OBVIOUS
  <2>4. book \in [Ids -> BookStatus] /\ heard \in [Ids -> Told]
    BY DEF BookStatus, Told
  <2>5. /\ drops \in 0 .. MaxDrops /\ beats \in 0 .. MaxBeats
        /\ other \in 0 .. MaxOther
    OBVIOUS
  <2> QED BY <2>1, <2>2, <2>3, <2>4, <2>5, <2>6 DEF TypeOK
<1>2. Asked /\ Fresh /\ Ended /\ OverIsOver
  BY DEF Asked, Fresh, Ended, OverIsOver
<1>3. Tradable
  BY DEF Tradable, Open
<1>4. Counted
  <2>1. \A id \in Ids : Cardinality(Trades(sent, id, 0)) = 0
    BY FS_EmptySet DEF Trades
  <2>2. LastSent = 0 /\ expected - 1 = 0
    OBVIOUS
  <2> QED BY <2>1, <2>2 DEF Counted
<1> QED BY <1>1, <1>2, <1>3, <1>4 DEF Inv

\* What the exchange sends does not disturb what it has sent.
LEMMA SendKeeps ==
  ASSUME Inv, NEW ms \in Seq(Messages), Send(ms)
  PROVE  /\ sent' \in Seq(Messages)
         /\ wire' \in Seq(1 .. LastSent')
         /\ LastSent' \in Nat /\ LastSent <= LastSent'
         /\ LastSent' = LastSent + Len(ms)
<1> USE DEF Inv, TypeOK, Send, LastSent
<1>1. sent' \in Seq(Messages) /\ LastSent' = LastSent + Len(ms)
  OBVIOUS
<1>2. LastSent \in Nat /\ Len(ms) \in Nat
  OBVIOUS
<1>3. wire \in Seq(1 .. LastSent')
  <2>1. 1 .. LastSent \subseteq 1 .. LastSent'
    BY <1>1, <1>2
  <2> QED BY <2>1, <1>1, <1>2
<1>4. [i \in 1 .. Len(ms) |-> LastSent + i] \in Seq(1 .. LastSent')
  BY <1>1, <1>2
<1>5. wire' \in Seq(1 .. LastSent')
  <2>1. CASE up
    BY <2>1, <1>3, <1>4
  <2>2. CASE ~up
    BY <2>2, <1>3
  <2> QED BY <2>1, <2>2
<1> QED BY <1>1, <1>2, <1>5

\* The session's part of the type, and the gateway's.
SessionOK ==
  /\ sent \in Seq(Messages)
  /\ wire \in Seq(1 .. LastSent)
  /\ asks \in Seq(Ask)
  /\ up \in BOOLEAN
  /\ expected \in 1 .. LastSent + 1
  /\ received \in 0 .. LastSent
  /\ held \subseteq expected .. LastSent

OrdersOK ==
  /\ requests \in Seq(Requests)
  /\ added \subseteq Ids
  /\ book \in [Ids -> BookStatus]
  /\ traded \in [Ids -> 0 .. Quantity]
  /\ heard \in [Ids -> Told]
  /\ filled \in [Ids -> Nat]
  /\ stopped \in BOOLEAN

LimitsOK ==
  /\ drops \in 0 .. MaxDrops
  /\ beats \in 0 .. MaxBeats
  /\ other \in 0 .. MaxOther

LEMMA Parts == TypeOK <=> SessionOK /\ OrdersOK /\ LimitsOK
BY DEF TypeOK, SessionOK, OrdersOK, LimitsOK

LEMMA Wider ==
  ASSUME NEW l \in Nat, NEW k \in Nat, l <= k,
         NEW e \in 1 .. l + 1, NEW r \in 0 .. l, NEW h \in SUBSET (e .. l)
  PROVE  e \in 1 .. k + 1 /\ r \in 0 .. k /\ h \in SUBSET (e .. k)
OBVIOUS

LEMMA SessionAfterSend ==
  ASSUME Inv, NEW ms \in Seq(Messages), Send(ms),
         UNCHANGED <<asks, up, expected, received, held>>
  PROVE  SessionOK' /\ Asked'
<1>1. /\ sent' \in Seq(Messages) /\ wire' \in Seq(1 .. LastSent')
      /\ LastSent' \in Nat /\ LastSent <= LastSent' /\ LastSent \in Nat
  BY SendKeeps DEF Inv, TypeOK, LastSent
<1>2. SessionOK'
  <2>1. /\ expected' \in 1 .. LastSent' + 1 /\ received' \in 0 .. LastSent'
        /\ held' \subseteq expected' .. LastSent'
    <3>1. /\ expected \in 1 .. LastSent + 1 /\ received \in 0 .. LastSent
          /\ held \subseteq expected .. LastSent
      BY DEF Inv, TypeOK
    <3>2. expected' = expected /\ received' = received /\ held' = held
      OBVIOUS
    <3>3. /\ LastSent' \in Nat /\ LastSent <= LastSent' /\ LastSent \in Nat
      BY <1>1
    <3>4. expected \in 1 .. LastSent' + 1
      BY <3>1, <3>3, Wider
    <3>5. expected' \in 1 .. LastSent' + 1
      BY <3>4, <3>2
    <3>6. received' \in 0 .. LastSent'
      BY <3>1, <3>2, <3>3, Wider
    <3> QED BY <3>1, <3>2, <3>3, <3>5, <3>6, Wider
  <2>2. asks' \in Seq(Ask) /\ up' \in BOOLEAN
    BY DEF Inv, TypeOK
  <2> QED BY <1>1, <2>1, <2>2 DEF SessionOK
<1>3. Asked'
  BY <1>1 DEF Inv, Asked
<1> QED BY <1>2, <1>3

\* Messages without a trade change no count.
LEMMA CountedAfterSend ==
  ASSUME Inv, NEW ms \in Seq(Messages), Send(ms),
         \A n \in DOMAIN ms : \A id \in Ids : ~IsTrade(ms[n], id),
         UNCHANGED <<traded, filled, expected>>
  PROVE  Counted'
<1> SUFFICES ASSUME NEW id \in Ids
             PROVE  /\ traded'[id] = Cardinality(Trades(sent', id, LastSent'))
                    /\ filled'[id] =
                         Cardinality(Trades(sent', id, expected' - 1))
  BY DEF Counted
<1>1. sent' = sent \o ms /\ sent \in Seq(Messages)
  BY DEF Send, Inv, TypeOK
<1>2. Trades(sent', id, LastSent') = Trades(sent, id, LastSent)
  BY <1>1, NoTrades DEF LastSent
<1>3. expected - 1 \in 0 .. Len(sent)
  BY DEF Inv, TypeOK, LastSent
<1>4. Trades(sent', id, expected - 1) = Trades(sent, id, expected - 1)
  BY <1>1, <1>3, TradesKept
<1> QED BY <1>2, <1>4 DEF Inv, Counted

\* What was sent of orders that ended stays true while they stay ended.
LEMMA EndedAfterSend ==
  ASSUME Inv, NEW ms \in Seq(Messages), Send(ms),
         \A id \in Ids : book[id] \in Over => book'[id] \in Over,
         \A n \in DOMAIN ms :
           ms[n].type = "report" /\ ms[n].status \in {"rejected", "expired"}
             => book'[ms[n].id] \in Over
  PROVE  Ended'
<1> SUFFICES ASSUME NEW n \in DOMAIN sent', sent'[n].type = "report",
                    sent'[n].status \in {"rejected", "expired"}
             PROVE  book'[sent'[n].id] \in Over
  BY DEF Ended
<1>1. sent' = sent \o ms /\ sent \in Seq(Messages)
  BY DEF Send, Inv, TypeOK
<1>2. CASE n \in DOMAIN sent /\ sent'[n] = sent[n]
  <2>1. sent[n] \in Messages
    BY <1>1, <1>2
  <2>2. sent[n].id \in Ids
    <3>1. sent[n].type = "report"
      BY <1>2
    <3>2. LogonMessage.type = "logon" /\ OtherMessage.type = "other"
      BY DEF LogonMessage, OtherMessage, NoReport
    <3> QED BY <2>1, <3>1, <3>2 DEF Messages, Refusal
  <2> QED BY <1>2, <2>2 DEF Inv, Ended
<1>3. CASE \E k \in DOMAIN ms : sent'[n] = ms[k]
  BY <1>3
<1> QED BY <1>1, <1>2, <1>3, Appended

LEMMA StillOver ==
  ASSUME Inv, UNCHANGED heard,
         \A id \in Ids : book[id] \in Over => book'[id] \in Over
  PROVE  OverIsOver'
BY DEF Inv, OverIsOver, Over

LEMMA Together ==
  ASSUME SessionOK', OrdersOK', LimitsOK', Asked', Fresh', Tradable',
         Counted', Ended', OverIsOver'
  PROVE  Inv'
BY Parts, PTL DEF Inv

-----------------------------------------------------------------------------
(* The exchange.                                                           *)

LEMMA OneMessage ==
  ASSUME NEW m \in Messages
  PROVE  /\ <<m>> \in Seq(Messages)
         /\ Len(<<m>>) = 1
         /\ \A n \in DOMAIN <<m>> : <<m>>[n] = m
OBVIOUS

LEMMA CountedAfterOne ==
  ASSUME Inv, NEW m \in Messages, Send(<<m>>),
         \A id \in Ids : ~IsTrade(m, id),
         UNCHANGED <<traded, filled, expected>>
  PROVE  Counted'
<1>1. \A n \in DOMAIN <<m>> : \A id \in Ids : ~IsTrade(<<m>>[n], id)
  BY OneMessage
<1> QED BY <1>1, OneMessage, CountedAfterSend

LEMMA EndedAfterOne ==
  ASSUME Inv, NEW m \in Messages, Send(<<m>>),
         \A id \in Ids : book[id] \in Over => book'[id] \in Over,
         m.type = "report" /\ m.status \in {"rejected", "expired"}
           => book'[m.id] \in Over
  PROVE  Ended'
BY OneMessage, EndedAfterSend

LEMMA HeartbeatStep == ASSUME Inv, Heartbeat PROVE Inv'
<1> USE DEF Heartbeat
<1>1. OtherMessage \in Messages
  BY DEF Messages
<1>2. OtherMessage.type = "other"
  BY DEF OtherMessage, NoReport
<1>3. SessionOK' /\ Asked'
  BY <1>1, OneMessage, SessionAfterSend
<1>4. OrdersOK' /\ LimitsOK'
  BY GatewayAssumption, Parts DEF Inv, OrdersOK, LimitsOK, ordersVars
<1>5. Fresh' /\ Tradable'
  BY DEF Inv, Fresh, Tradable, ordersVars, Open
<1>6. Counted'
  BY <1>1, <1>2, OneMessage, CountedAfterSend
     DEF IsTrade, IsFill, ordersVars
<1>7. Ended'
  BY <1>1, <1>2, OneMessage, EndedAfterSend DEF ordersVars
<1>8. OverIsOver'
  BY StillOver DEF ordersVars
<1> QED BY <1>3, <1>4, <1>5, <1>6, <1>7, <1>8, Together

LEMMA OneMore ==
  ASSUME NEW s \in Seq(Messages), NEW m \in Messages, NEW id
  PROVE  Cardinality(Trades(s \o <<m>>, id, Len(s \o <<m>>))) =
           Cardinality(Trades(s, id, Len(s)))
             + (IF IsTrade(m, id) THEN 1 ELSE 0)
<1>1. Len(s \o <<m>>) = Len(s) + 1 /\ Len(s) \in Nat
  OBVIOUS
<1>2. (s \o <<m>>)[Len(s) + 1] = m
  OBVIOUS
<1>3. Trades(s \o <<m>>, id, Len(s)) = Trades(s, id, Len(s))
  <2>1. <<m>> \in Seq(Messages) /\ Len(s) \in 0 .. Len(s)
    BY <1>1
  <2> QED BY <2>1, TradesKept
<1> HIDE DEF IsTrade
<1>4. Cardinality(Trades(s \o <<m>>, id, Len(s) + 1)) =
        Cardinality(Trades(s \o <<m>>, id, Len(s)))
          + (IF IsTrade((s \o <<m>>)[Len(s) + 1], id) THEN 1 ELSE 0)
  BY <1>1, TradesNext
<1> QED BY <1>1, <1>2, <1>3, <1>4

LEMMA EventStep == ASSUME Inv, Event PROVE Inv'
<1> USE DEF Event
<1>u. UNCHANGED <<asks, up, expected, received, held, requests, added, heard,
                  filled, stopped, drops, beats, other>>
  OBVIOUS
<1>q. Quantity \in Nat
  BY GatewayAssumption
<1>t. /\ book \in [Ids -> BookStatus] /\ traded \in [Ids -> 0 .. Quantity]
      /\ sent \in Seq(Messages)
  BY DEF Inv, TypeOK
<1>l. LimitsOK'
  BY <1>u, Parts DEF Inv, LimitsOK
<1>f. ASSUME NEW id \in Ids, Open(id), NEW v \in BookStatus \ {"none"},
             book' = [book EXCEPT ![id] = v]
      PROVE  Fresh'
  BY <1>f, <1>u, <1>t DEF Inv, Fresh, Open
<1>1. ASSUME NEW id \in Ids, Open(id), NEW v \in {"filled", "partial"},
             v = (IF traded[id] + 1 = Quantity THEN "filled" ELSE "partial"),
             book' = [book EXCEPT ![id] = v],
             traded' = [traded EXCEPT ![id] = @ + 1],
             Send(<<Report(id, v, 1)>>)
      PROVE  Inv'
  <2> USE <1>u, <1>q, <1>t, <1>1
  <2>1. Report(id, v, 1) \in Messages
    BY MessageType DEF OrdStatus
  <2>2. SessionOK' /\ Asked'
    BY <2>1, OneMessage, SessionAfterSend
  <2>3. traded[id] < Quantity /\ traded[id] \in Nat
    BY DEF Inv, Tradable
  <2>4. OrdersOK'
    <3>1. traded' \in [Ids -> 0 .. Quantity]
      BY <2>3
    <3>2. book' \in [Ids -> BookStatus]
      BY DEF BookStatus
    <3> QED BY <3>1, <3>2, Parts DEF Inv, OrdersOK
  <2>5. Fresh'
    BY <1>f DEF BookStatus
  <2>6. Tradable'
    BY <2>3 DEF Inv, Tradable, Open
  <2>7. Counted'
    <3> SUFFICES ASSUME NEW j \in Ids
                 PROVE  /\ traded'[j] =
                             Cardinality(Trades(sent', j, LastSent'))
                        /\ filled'[j] =
                             Cardinality(Trades(sent', j, expected' - 1))
      BY DEF Counted
    <3>1. sent' = sent \o <<Report(id, v, 1)>>
      BY DEF Send
    <3>2. IsTrade(Report(id, v, 1), j) <=> j = id
      BY DEF IsTrade, IsFill, Report
    <3>3. Cardinality(Trades(sent', j, LastSent')) =
            Cardinality(Trades(sent, j, LastSent)) + (IF j = id THEN 1 ELSE 0)
      BY <2>1, <3>1, <3>2, OneMore DEF LastSent
    <3>4. /\ traded[j] \in Nat
          /\ traded'[j] = traded[j] + (IF j = id THEN 1 ELSE 0)
      OBVIOUS
    <3>5. expected - 1 \in 0 .. Len(sent)
      BY DEF Inv, TypeOK, LastSent
    <3>6. Trades(sent', j, expected - 1) = Trades(sent, j, expected - 1)
      <4>1. <<Report(id, v, 1)>> \in Seq(Messages)
        BY <2>1, OneMessage
      <4>2. PICK k \in 0 .. Len(sent) : k = expected - 1
        BY <3>5
      <4>3. Trades(sent \o <<Report(id, v, 1)>>, j, k) = Trades(sent, j, k)
        BY ONLY <4>1, <1>t, <4>2, TradesKept
      <4> QED BY <4>2, <4>3, <3>1
    <3> QED BY <3>3, <3>4, <3>6 DEF Inv, Counted
  <2>8. \A j \in Ids : book[j] \in Over => book'[j] \in Over
    BY DEF Open, Over
  <2>9. Ended'
    <3>1. Report(id, v, 1).status \notin {"rejected", "expired"}
      BY DEF Report
    <3> QED BY <2>1, <2>8, <3>1, OneMessage, EndedAfterSend
  <2>10. OverIsOver'
    BY <2>8, StillOver
  <2> QED BY <1>l, <2>2, <2>4, <2>5, <2>6, <2>7, <2>9, <2>10, Together
<1>2. ASSUME NEW id \in Ids, Open(id),
             book' = [book EXCEPT ![id] = "expired"],
             Send(<<Report(id, "expired", 0)>>), traded' = traded
      PROVE  Inv'
  <2> USE <1>u, <1>q, <1>t, <1>2
  <2>1. Report(id, "expired", 0) \in Messages
    BY MessageType DEF OrdStatus
  <2>2. SessionOK' /\ Asked'
    BY <2>1, OneMessage, SessionAfterSend
  <2>4. OrdersOK'
    <3>2. book' \in [Ids -> BookStatus]
      BY DEF BookStatus
    <3> QED BY <3>2, Parts DEF Inv, OrdersOK
  <2>5. Fresh'
    BY <1>f DEF BookStatus
  <2>6. Tradable'
    BY DEF Inv, Tradable, Open
  <2>7. Counted'
    <3>1. Report(id, "expired", 0).qty = 0
      BY DEF Report
    <3>2. \A j \in Ids : ~IsTrade(Report(id, "expired", 0), j)
      BY <3>1 DEF IsTrade
    <3> QED BY <2>1, <3>2, CountedAfterOne
  <2>8. \A j \in Ids : book[j] \in Over => book'[j] \in Over
    BY DEF Open, Over
  <2>9. Ended'
    <3>1. Report(id, "expired", 0).id = id /\ book'[id] \in Over
      BY DEF Report, Over
    <3> QED BY <2>1, <2>8, <3>1, OneMessage, EndedAfterSend
  <2>10. OverIsOver'
    BY <2>8, StillOver
  <2> QED BY <1>l, <2>2, <2>4, <2>5, <2>6, <2>7, <2>9, <2>10, Together
<1>3. ASSUME NEW id \in Ids, Send(<<Report(id, "busted", 1)>>),
             UNCHANGED <<book, traded>>
      PROVE  Inv'
  <2> USE <1>u, <1>q, <1>t, <1>3
  <2>1. Report(id, "busted", 1) \in Messages
    BY MessageType DEF OrdStatus
  <2>2. SessionOK' /\ Asked'
    BY <2>1, OneMessage, SessionAfterSend
  <2>4. OrdersOK'
    BY Parts DEF Inv, OrdersOK
  <2>5. Fresh' /\ Tradable'
    BY DEF Inv, Fresh, Tradable, Open
  <2>7. Counted'
    <3>1. Report(id, "busted", 1).status = "busted"
      BY DEF Report
    <3>2. \A j \in Ids : ~IsTrade(Report(id, "busted", 1), j)
      BY <3>1 DEF IsTrade, IsFill
    <3> QED BY <2>1, <3>2, CountedAfterOne
  <2>9. Ended'
    <3>1. Report(id, "busted", 1).status = "busted"
      BY DEF Report
    <3> QED BY <2>1, <3>1, EndedAfterOne
  <2>10. OverIsOver'
    BY StillOver
  <2> QED BY <1>l, <2>2, <2>4, <2>5, <2>7, <2>9, <2>10, Together
<1> QED
  <2>1. PICK id \in Ids :
          \/ /\ Open(id)
             /\ LET v == IF traded[id] + 1 = Quantity THEN "filled"
                                                      ELSE "partial"
                IN  /\ book' = [book EXCEPT ![id] = v]
                    /\ traded' = [traded EXCEPT ![id] = @ + 1]
                    /\ Send(<<Report(id, v, 1)>>)
          \/ /\ Open(id)
             /\ book' = [book EXCEPT ![id] = "expired"]
             /\ Send(<<Report(id, "expired", 0)>>)
             /\ UNCHANGED traded
          \/ /\ Send(<<Report(id, "busted", 1)>>)
             /\ UNCHANGED <<book, traded>>
    OBVIOUS
  <2> QED BY <2>1, <1>1, <1>2, <1>3

\* A step of the exchange on a request: what it sends tells of no trade.
LEMMA RequestServed ==
  ASSUME Inv, requests # <<>>, requests' = Tail(requests),
         NEW id \in Ids, NEW v \in BookStatus \ {"none"},
         \/ book' = book
         \/ /\ book' = [book EXCEPT ![id] = v]
            /\ Open(id) => v \notin {"new", "partial"}
            /\ Open(id) \/ /\ Head(requests).type = "add"
                           /\ Head(requests).id = id,
         UNCHANGED <<added, traded, heard, filled, stopped>>
  PROVE  /\ OrdersOK'
         /\ Fresh'
         /\ Tradable'
         /\ \A j \in Ids : book[j] \in Over => book'[j] \in Over
<1>t. /\ book \in [Ids -> BookStatus] /\ requests \in Seq(Requests)
      /\ traded \in [Ids -> 0 .. Quantity] /\ Quantity \in Nat \ {0}
  BY GatewayAssumption DEF Inv, TypeOK
<1>h. \A i \in DOMAIN requests' :
        i + 1 \in DOMAIN requests /\ requests'[i] = requests[i + 1]
  BY <1>t
<1>1. requests' \in Seq(Requests) /\ 1 \in DOMAIN requests
      /\ Head(requests) = requests[1]
  BY <1>t
<1>b. book' \in [Ids -> BookStatus]
  BY <1>t
<1>2. OrdersOK'
  BY <1>1, <1>b, Parts DEF Inv, OrdersOK
<1>n. book' = book \/ book[id] = "none" \/ Open(id)
  BY <1>1 DEF Inv, Fresh
<1>3. Fresh'
  <2>1. \A j \in Ids \ added' : book'[j] = "none"
    BY <1>1, <1>t DEF Inv, Fresh, Open
  <2>2. ASSUME NEW i \in DOMAIN requests'
        PROVE  /\ requests'[i].type # "queryAll" => requests'[i].id \in Ids
               /\ requests'[i].type = "add" =>
                    /\ requests'[i].id \in added'
                    /\ book'[requests'[i].id] = "none"
                    /\ \A j \in DOMAIN requests' :
                         requests'[j].type = "add"
                           /\ requests'[j].id = requests'[i].id => j = i
    <3>1. /\ requests[i + 1].type # "queryAll" => requests[i + 1].id \in Ids
          /\ requests[i + 1].type = "add" =>
               /\ requests[i + 1].id \in added
               /\ book[requests[i + 1].id] = "none"
               /\ \A j \in DOMAIN requests :
                    requests[j].type = "add"
                      /\ requests[j].id = requests[i + 1].id => j = i + 1
      <4>1. i + 1 \in DOMAIN requests
        BY <1>h, <2>2
      <4>2. \A k \in DOMAIN requests :
              /\ requests[k].type # "queryAll" => requests[k].id \in Ids
              /\ requests[k].type = "add" =>
                   /\ requests[k].id \in added
                   /\ book[requests[k].id] = "none"
                   /\ \A j \in DOMAIN requests :
                        requests[j].type = "add"
                          /\ requests[j].id = requests[k].id => j = k
        BY DEF Inv, Fresh
      <4> QED BY <4>1, <4>2
    <3>2. i \in Nat /\ i # 0
      BY <1>1, <2>2
    <3>3. requests[i + 1].type = "add" => book'[requests[i + 1].id] = "none"
      BY <3>1, <3>2, <1>1, <1>t DEF Open
    <3> QED BY <3>1, <3>2, <3>3, <1>h, <1>1, <2>2
  <2> QED BY <2>1, <2>2 DEF Fresh
<1>4. Tradable'
  BY <1>t, <1>n DEF Inv, Tradable, Open, BookStatus
<1>5. \A j \in Ids : book[j] \in Over => book'[j] \in Over
  BY <1>t, <1>n DEF Open, Over
<1> QED BY <1>2, <1>3, <1>4, <1>5

\* What a list of open orders becomes.
LEMMA ListingSent ==
  ASSUME Inv, NEW f \in Listings
  PROVE  /\ [i \in DOMAIN f |-> Status(f[i])] \in Seq(Messages)
         /\ \A i \in DOMAIN f :
              /\ Status(f[i]).qty = 0
              /\ Status(f[i]).status \notin {"rejected", "expired"}
<1> DEFINE open == {id \in Ids : Open(id)}
<1>1. IsFiniteSet(open) /\ Cardinality(open) \in Nat
  <2>1. open \in SUBSET Ids
    OBVIOUS
  <2> QED BY <2>1, GatewayAssumption, FS_Subset, FS_CardinalityType
<1>2. f \in [1 .. Cardinality(open) -> open]
  BY DEF Listings, Injection
<1>3. ASSUME NEW id \in Ids
      PROVE  /\ Status(id) \in Messages
             /\ Status(id).qty = 0
             /\ Status(id).status \notin {"rejected", "expired"}
  <2>1. CASE Open(id)
    BY <2>1, MessageType DEF Status, Report, Open, OrdStatus
  <2>2. CASE ~Open(id)
    BY <2>2, MessageType DEF Status, Report, OrdStatus
  <2> QED BY <2>1, <2>2
<1>4. \A i \in DOMAIN f : f[i] \in Ids
  BY <1>2
<1>5. [i \in 1 .. Cardinality(open) |-> Status(f[i])] \in Seq(Messages)
  BY <1>1, <1>2, <1>3, <1>4
<1> QED BY <1>2, <1>3, <1>4, <1>5

\* One answer to a request.
LEMMA Answered ==
  ASSUME Inv, requests # <<>>, requests' = Tail(requests),
         NEW id \in Ids, NEW v \in BookStatus \ {"none"},
         \/ book' = book
         \/ /\ book' = [book EXCEPT ![id] = v]
            /\ Open(id) => v \notin {"new", "partial"}
            /\ Open(id) \/ /\ Head(requests).type = "add"
                           /\ Head(requests).id = id,
         NEW m \in Messages, Send(<<m>>), m.qty = 0,
         m.type = "report" /\ m.status \in {"rejected", "expired"}
           => book'[m.id] \in Over,
         UNCHANGED <<asks, up, expected, received, held, added, traded, heard,
                     filled, stopped, drops, beats, other>>
  PROVE  Inv'
<1>1. /\ OrdersOK' /\ Fresh' /\ Tradable'
      /\ \A j \in Ids : book[j] \in Over => book'[j] \in Over
  BY RequestServed
<1>2. SessionOK' /\ Asked'
  BY OneMessage, SessionAfterSend
<1>3. LimitsOK'
  BY Parts DEF Inv, LimitsOK
<1>4. Counted'
  <2>1. \A j \in Ids : ~IsTrade(m, j)
    BY DEF IsTrade
  <2> QED BY <2>1, CountedAfterOne
<1>5. Ended'
  BY <1>1, EndedAfterOne
<1>6. OverIsOver'
  BY <1>1, StillOver
<1> QED BY <1>1, <1>2, <1>3, <1>4, <1>5, <1>6, Together

LEMMA ServeStep == ASSUME Inv, Serve PROVE Inv'
<1> DEFINE r == Head(requests)
<1>r. requests # <<>> /\ requests' = Tail(requests)
  BY DEF Serve
<1>u. UNCHANGED <<asks, up, expected, received, held, added, traded, heard,
                  filled, stopped, drops, beats, other>>
  BY DEF Serve
<1>t. /\ book \in [Ids -> BookStatus] /\ requests \in Seq(Requests)
      /\ r \in Requests /\ r = requests[1] /\ 1 \in DOMAIN requests
  BY <1>r DEF Inv, TypeOK
<1>i. r.type # "queryAll" => r.id \in Ids
  BY <1>t DEF Inv, Fresh
<1>n. r.type = "add" => book[r.id] = "none"
  BY <1>t DEF Inv, Fresh
<1> HIDE DEF r
<1>m. \A id \in Ids, st \in OrdStatus :
        /\ Report(id, st, 0) \in Messages /\ Refusal(id) \in Messages
        /\ Report(id, st, 0).qty = 0 /\ Refusal(id).qty = 0
        /\ Report(id, st, 0).status = st /\ Refusal(id).type = "refusal"
        /\ Report(id, st, 0).id = id
  BY MessageType DEF Report, Refusal
<1>o. /\ OtherMessage \in Messages /\ OtherMessage.qty = 0
      /\ OtherMessage.type = "other"
  BY DEF Messages, OtherMessage, NoReport
<1>1. ASSUME r.type = "add", NEW st \in {"new", "rejected"},
             book' = [book EXCEPT ![r.id] = st],
             Send(<<Report(r.id, st, 0)>>)
      PROVE  Inv'
  <2>1. r.id \in Ids /\ ~Open(r.id) /\ st \in OrdStatus
        /\ st \in BookStatus \ {"none"}
    BY <1>1, <1>i, <1>n DEF Open, OrdStatus, BookStatus
  <2>2. st = "rejected" => book'[r.id] \in Over
    BY <1>1, <1>t, <2>1 DEF Over
  <2> QED BY <1>1, <1>r, <1>u, <1>m, <2>1, <2>2, Answered, ZenonT(40) DEF r
<1>2. ASSUME r.type = "add", Send(<<OtherMessage>>), book' = book
      PROVE  Inv'
  <2>1. r.id \in Ids /\ "new" \in BookStatus \ {"none"}
    BY <1>2, <1>i DEF BookStatus
  <2> QED BY <1>2, <1>r, <1>u, <1>o, <2>1, Answered
<1>3. ASSUME r.type = "delete", Open(r.id),
             book' = [book EXCEPT ![r.id] = "cancelled"],
             Send(<<Report(r.id, "cancelled", 0)>>)
      PROVE  Inv'
  <2>1. /\ r.id \in Ids /\ "cancelled" \in BookStatus \ {"none"}
        /\ "cancelled" \in OrdStatus
    BY <1>3, <1>i DEF BookStatus, OrdStatus
  <2> QED BY <1>3, <1>r, <1>u, <1>m, <2>1, Answered, ZenonT(40)
<1>4. ASSUME r.type = "change", Send(<<Report(r.id, "replaced", 0)>>),
             book' = book
      PROVE  Inv'
  <2>1. /\ r.id \in Ids /\ "new" \in BookStatus \ {"none"}
        /\ "replaced" \in OrdStatus
    BY <1>4, <1>i DEF BookStatus, OrdStatus
  <2> QED BY <1>4, <1>r, <1>u, <1>m, <2>1, Answered
<1>5. ASSUME r.type \in {"delete", "change"}, Send(<<Refusal(r.id)>>),
             book' = book
      PROVE  Inv'
  <2>1. /\ r.id \in Ids /\ "new" \in BookStatus \ {"none"}
        /\ "new" \in OrdStatus
    BY <1>5, <1>i DEF BookStatus, OrdStatus
  <2> QED BY <1>5, <1>r, <1>u, <1>m, <2>1, Answered
<1>6. ASSUME r.type = "query", Send(<<Status(r.id)>>), book' = book
      PROVE  Inv'
  <2>1. r.id \in Ids /\ "new" \in BookStatus \ {"none"}
    BY <1>6, <1>i DEF BookStatus
  <2>2. PICK st \in OrdStatus \ {"rejected", "expired"} :
          Status(r.id) = Report(r.id, st, 0)
    BY DEF Status, Open, OrdStatus
  <2> QED BY <1>6, <1>r, <1>u, <1>m, <2>1, <2>2, Answered
<1>7. ASSUME NEW f \in Listings,
             Send([i \in DOMAIN f |-> Status(f[i])]), book' = book
      PROVE  Inv'
  <2> DEFINE ms == [i \in DOMAIN f |-> Status(f[i])]
  <2>1. /\ ms \in Seq(Messages)
        /\ \A i \in DOMAIN ms :
             /\ ms[i].qty = 0
             /\ ms[i].status \notin {"rejected", "expired"}
    BY ListingSent
  <2>2. Send(ms)
    BY <1>7
  <2> HIDE DEF ms
  <2>3. SessionOK' /\ Asked'
    BY <1>u, <2>1, <2>2, SessionAfterSend
  <2>4. LimitsOK'
    BY <1>u, Parts DEF Inv, LimitsOK
  <2>5. OrdersOK'
    BY <1>7, <1>r, <1>u, <1>t, Parts DEF Inv, OrdersOK
  <2>6. Tradable'
    BY <1>7, <1>u DEF Inv, Tradable, Open
  <2>7. Fresh'
    <3>1. \A i \in DOMAIN requests' :
            /\ i + 1 \in DOMAIN requests /\ requests'[i] = requests[i + 1]
            /\ i \in Nat
      BY <1>r, <1>t
    <3> QED BY <3>1, <1>7, <1>u DEF Inv, Fresh
  <2>8. Counted'
    <3>1. \A n \in DOMAIN ms : \A id \in Ids : ~IsTrade(ms[n], id)
      BY <2>1 DEF IsTrade
    <3> QED BY <1>u, <2>1, <2>2, <3>1, CountedAfterSend
  <2>9. Ended'
    BY <1>7, <2>1, <2>2, EndedAfterSend
  <2>10. OverIsOver'
    BY <1>7, <1>u, StillOver
  <2> QED BY <2>3, <2>4, <2>5, <2>6, <2>7, <2>8, <2>9, <2>10, Together
<1> QED
  BY <1>1, <1>2, <1>3, <1>4, <1>5, <1>6, <1>7 DEF Serve, r

-----------------------------------------------------------------------------
(* The gateway.                                                            *)

\* A resend request about a gap below message h.
LEMMA AskType ==
  ASSUME NEW b \in Nat, NEW e \in Int, NEW h \in Nat, 1 <= b
  PROVE  /\ appendResendRequestField(b, e, h) \in Ask
         /\ appendResendRequestField(b, e, h).from = b
         /\ \/ appendResendRequestField(b, e, h).to = 0
            \/ b <= appendResendRequestField(b, e, h).to
BY SessionAssumption DEF appendResendRequestField, Ask

LEMMA AskAppended ==
  ASSUME Inv, NEW l \in Nat, NEW a \in Ask, a.from \in 1 .. l,
         a.to = 0 \/ a.from <= a.to, LastSent <= l,
         asks' = Append(asks, a), LastSent' = l
  PROVE  asks' \in Seq(Ask) /\ Asked'
<1>1. asks \in Seq(Ask) /\ LastSent \in Nat
  BY DEF Inv, TypeOK, LastSent
<1>2. \A i \in DOMAIN asks' :
        \/ i \in DOMAIN asks /\ asks'[i] = asks[i]
        \/ asks'[i] = a
  BY <1>1
<1>3. \A i \in DOMAIN asks : asks[i].from \in 1 .. l
  BY <1>1 DEF Inv, Asked
<1> QED BY <1>1, <1>2, <1>3 DEF Inv, Asked

LEMMA FreshAppend ==
  ASSUME Inv, NEW q, q.type # "add", q.type # "queryAll" => q.id \in Ids,
         requests' = Append(requests, q), UNCHANGED <<added, book>>
  PROVE  Fresh'
<1>1. requests \in Seq(Requests)
  BY DEF Inv, TypeOK
<1>2. \A i \in DOMAIN requests' :
        \/ i \in DOMAIN requests /\ requests'[i] = requests[i]
        \/ requests'[i] = q
  BY <1>1
<1> QED BY <1>2 DEF Inv, Fresh

LEMMA SeqWiden ==
  ASSUME NEW S, NEW T, S \subseteq T, NEW s \in Seq(S)
  PROVE  s \in Seq(T)
OBVIOUS

LEMMA LogonStep == ASSUME Inv, Logon PROVE Inv'
<1> DEFINE n == LastSent + 1
<1>1. /\ LastSent \in Nat /\ sent \in Seq(Messages)
      /\ expected \in 1 .. LastSent + 1
      /\ held \subseteq expected .. LastSent /\ wire \in Seq(1 .. LastSent)
      /\ asks \in Seq(Ask)
  BY DEF Inv, TypeOK, LastSent
<1>2. LogonMessage \in Messages /\ LogonMessage.type = "logon"
  BY DEF Messages, LogonMessage, NoReport
<1>3. /\ sent' = sent \o <<LogonMessage>> /\ sent' \in Seq(Messages)
      /\ LastSent' = n
  <2>1. sent' = Append(sent, LogonMessage)
    BY DEF Logon, LogonAnswer
  <2>2. /\ sent' = sent \o <<LogonMessage>> /\ sent' \in Seq(Messages)
        /\ Len(sent') = Len(sent) + 1
    BY <1>1, <1>2, <2>1
  <2> QED BY <2>2 DEF LastSent
<1>u. /\ UNCHANGED <<added, book, traded, heard, filled, stopped, drops, beats,
                      other, wire>>
      /\ up' = TRUE /\ received' = n
      /\ requests' = Append(requests, [type |-> "queryAll", id |-> "-"])
  BY DEF Logon, LogonAnswer
<1>4. wire' \in Seq(1 .. n)
  <2>1. 1 .. LastSent \subseteq 1 .. n
    BY <1>1
  <2>2. wire \in Seq(1 .. n)
    BY ONLY <2>1, <1>1, SeqWiden
  <2> QED BY <2>2, <1>u
<1>5. /\ expected' \in 1 .. n + 1 /\ held' \subseteq expected' .. n
      /\ \/ expected' = expected
         \/ expected' = n + 1 /\ expected = n
  <2>1. CASE n = expected
    <3>1. expected' = n + 1 /\ held' = held
      BY <2>1 DEF Logon, LogonAnswer
    <3>2. held = {}
      BY <1>1, <2>1
    <3> QED BY <1>1, <2>1, <3>1, <3>2
  <2>2. CASE n # expected
    <3>1. expected' = expected /\ held' = {n}
      BY <2>2 DEF Logon, LogonAnswer
    <3>2. /\ expected \in 1 .. n + 1 /\ n \in expected .. n
          /\ {n} \subseteq expected .. n
      BY <1>1, <2>2
    <3> HIDE DEF n
    <3> QED BY <3>1, <3>2
  <2> QED BY <2>1, <2>2
<1>6. asks' \in Seq(Ask) /\ Asked'
  <2>1. CASE n = expected
    <3>1. asks' = asks
      BY <2>1 DEF Logon, LogonAnswer
    <3> QED BY <1>1, <1>3, <3>1 DEF Inv, Asked
  <2>2. CASE n # expected
    <3>1. asks' = Append(asks, appendResendRequestField(expected, n, n))
      BY <2>2 DEF Logon, LogonAnswer
    <3>2. /\ expected \in Nat /\ 1 <= expected /\ n \in Nat
          /\ expected \in 1 .. n /\ LastSent <= n /\ LastSent' = n
      BY <1>1, <1>3, <2>2
    <3> DEFINE a == appendResendRequestField(expected, n, n)
    <3>3. a \in Ask /\ a.from = expected /\ (a.to = 0 \/ expected <= a.to)
      <4> HIDE DEF n
      <4>1. n \in Int
        BY <3>2
      <4> QED BY ONLY <3>2, <4>1, AskType
    <3> HIDE DEF n
    <3>4. asks' = Append(asks, a)
      BY <3>1
    <3> HIDE DEF a
    <3> QED BY <3>2, <3>3, <3>4, AskAppended
  <2> QED BY <2>1, <2>2
<1>7. SessionOK'
  <2>0. n \in Nat /\ n \in 0 .. n
    BY <1>1
  <2>1. received' \in 0 .. n /\ up' \in BOOLEAN
    BY <2>0, <1>u
  <2> HIDE DEF n
  <2> QED BY <1>3, <1>4, <1>5, <1>6, <2>1 DEF SessionOK
<1>8. OrdersOK' /\ LimitsOK'
  <2>1. [type |-> "queryAll", id |-> "-"] \in Requests
    BY DEF Requests
  <2>2. requests \in Seq(Requests)
    BY DEF Inv, TypeOK
  <2> DEFINE q == [type |-> "queryAll", id |-> "-"]
  <2>3. requests' \in Seq(Requests)
    <3>1. q \in Requests /\ requests' = Append(requests, q)
      BY <1>u, <2>1
    <3> HIDE DEF q
    <3> QED BY <2>2, <3>1
  <2> QED BY <1>u, <2>3, Parts DEF Inv, OrdersOK, LimitsOK
<1>9. Fresh' /\ Tradable'
  BY <1>u, FreshAppend DEF Inv, Tradable, Open
<1>10. Counted'
  <2> SUFFICES ASSUME NEW id \in Ids
               PROVE  /\ traded[id] = Cardinality(Trades(sent', id, LastSent'))
                      /\ filled[id] =
                           Cardinality(Trades(sent', id, expected' - 1))
    BY <1>u DEF Counted
  <2>1. ~IsTrade(LogonMessage, id)
    BY <1>2 DEF IsTrade, IsFill
  <2>2. \A k \in DOMAIN <<LogonMessage>> :
           ~IsTrade(<<LogonMessage>>[k], id)
    BY <2>1
  <2>3. <<LogonMessage>> \in Seq(Messages)
    BY <1>2
  <2>4. Trades(sent', id, LastSent') = Trades(sent, id, LastSent)
    BY <1>1, <1>3, <2>2, <2>3, NoTrades DEF LastSent
  <2>5. CASE expected' = expected
    <3>1. PICK k \in 0 .. Len(sent) : k = expected - 1
      BY <1>1 DEF LastSent
    <3>2. Trades(sent \o <<LogonMessage>>, id, k) = Trades(sent, id, k)
      BY ONLY <1>1, <2>3, <3>1, TradesKept
    <3> QED BY <1>3, <2>4, <2>5, <3>1, <3>2 DEF Inv, Counted
  <2>6. CASE expected' = n + 1 /\ expected = n
    <3>1. expected' - 1 = LastSent' /\ expected - 1 = LastSent
      BY <1>1, <1>3, <2>6
    <3> QED BY <2>4, <3>1 DEF Inv, Counted
  <2> QED BY <1>5, <2>5, <2>6
<1>11. Ended'
  <2> SUFFICES ASSUME NEW k \in DOMAIN sent', sent'[k].type = "report",
                      sent'[k].status \in {"rejected", "expired"}
               PROVE  book'[sent'[k].id] \in Over
    BY DEF Ended
  <2>1. k \in DOMAIN sent /\ sent'[k] = sent[k]
    BY <1>1, <1>2, <1>3
  <2> QED BY <1>u, <2>1 DEF Inv, Ended
<1>12. OverIsOver'
  BY <1>u, StillOver
<1> QED BY <1>6, <1>7, <1>8, <1>9, <1>10, <1>11, <1>12, Together

LEMMA MessageKind ==
  ASSUME NEW m \in Messages, IsFill(m) \/ IsStatus(m)
  PROVE  /\ m.id \in Ids /\ m.status \in OrdStatus /\ m.qty \in {0, 1}
         /\ m.type = "report" \/ m.status = "undefined"
<1>1. m # LogonMessage /\ m # OtherMessage
  BY DEF LogonMessage, OtherMessage, NoReport, IsFill, IsStatus
<1>2. CASE m \in {Refusal(id) : id \in Ids}
  BY <1>2 DEF Refusal, OrdStatus
<1>3. CASE m \in [type : {"report"}, id : Ids, status : OrdStatus,
                  qty : {0, 1}]
  BY <1>3
<1> QED BY <1>1, <1>2, <1>3 DEF Messages

LEMMA TurnIsSent ==
  ASSUME Inv, InTurn
  PROVE  /\ expected \in 1 .. LastSent /\ LastSent \in Nat
         /\ wire' \in Seq(1 .. LastSent)
         /\ held' \subseteq expected + 1 .. LastSent
<1> USE DEF InTurn
<1>1. /\ wire \in Seq(1 .. LastSent) /\ LastSent \in Nat
      /\ expected \in 1 .. LastSent + 1
      /\ held \subseteq expected .. LastSent
  BY DEF Inv, TypeOK, LastSent
<1>2. CASE expected \in held /\ held' = held \ {expected} /\ wire' = wire
  BY <1>1, <1>2
<1>3. CASE /\ expected \notin held /\ wire # <<>> /\ Head(wire) = expected
           /\ wire' = Tail(wire) /\ held' = held
  <2> DEFINE S == 1 .. LastSent
  <2>1. wire \in Seq(S)
    BY <1>1
  <2>2. Head(wire) \in S /\ Tail(wire) \in Seq(S)
    <3> HIDE DEF S
    <3> QED BY <2>1, <1>3
  <2>3. expected \in 1 .. LastSent
    BY <1>3, <2>2
  <2>4. held' \subseteq expected + 1 .. LastSent
    BY <1>1, <1>3, <2>3
  <2> QED BY <1>1, <1>3, <2>2, <2>3, <2>4
<1> QED BY <1>2, <1>3

LEMMA FromStep == ASSUME Inv, From PROVE Inv'
<1> DEFINE m == sent[expected]
<1>1. InTurn /\ Order_response(m) /\ setCurrentReceivedSeq(LogonMessage)
  BY DEF From
<1>2. /\ expected \in 1 .. LastSent /\ LastSent \in Nat
      /\ wire' \in Seq(1 .. LastSent)
      /\ held' \subseteq expected + 1 .. LastSent
  BY <1>1, TurnIsSent
<1>u. /\ UNCHANGED <<sent, asks, up, requests, added, book, traded, stopped,
                      drops, beats, other>>
      /\ expected' = expected + 1 /\ LastSent' = LastSent
  BY DEF From, InTurn, LastSent
<1>3. m \in Messages
  BY <1>2 DEF Inv, TypeOK, LastSent
<1>t. /\ filled \in [Ids -> Nat] /\ heard \in [Ids -> Told]
      /\ received \in 0 .. LastSent
  BY DEF Inv, TypeOK
<1> HIDE DEF m
<1>4. SessionOK'
  <2>1. /\ expected' \in 1 .. LastSent' + 1
        /\ held' \subseteq expected' .. LastSent'
    BY <1>2, <1>u
  <2>2. received' \in 0 .. LastSent'
    <3>1. received' = received \/ received' = expected
      BY <1>1 DEF setCurrentReceivedSeq
    <3> QED BY <3>1, <1>2, <1>t, <1>u
  <2>3. sent' \in Seq(Messages) /\ asks' \in Seq(Ask) /\ up' \in BOOLEAN
    BY <1>u DEF Inv, TypeOK
  <2> QED BY <1>2, <1>u, <2>1, <2>2, <2>3 DEF SessionOK
<1>5. /\ filled' \in [Ids -> Nat]
      /\ \A id \in Ids :
           filled'[id] = filled[id] + (IF IsTrade(m, id) THEN 1 ELSE 0)
  <2>1. CASE IsFill(m)
    <3>1. m.id \in Ids /\ m.qty \in {0, 1}
      BY <2>1, <1>3, MessageKind
    <3>2. filled' = [filled EXCEPT ![m.id] = @ + m.qty]
      BY <2>1, <1>1 DEF Order_response
    <3>3. filled' \in [Ids -> Nat]
      BY <1>t, <3>1, <3>2
    <3>4. ASSUME NEW id \in Ids
          PROVE  filled'[id] = filled[id] + (IF IsTrade(m, id) THEN 1 ELSE 0)
      <4>1. CASE m.id = id /\ m.qty = 1
        BY <1>t, <2>1, <3>2, <4>1 DEF IsTrade
      <4>2. CASE m.id = id /\ m.qty = 0
        BY <1>t, <3>2, <4>2 DEF IsTrade
      <4>3. CASE m.id # id
        BY <1>t, <3>2, <4>3 DEF IsTrade
      <4> QED BY <3>1, <4>1, <4>2, <4>3
    <3> QED BY <3>3, <3>4
  <2>2. CASE ~IsFill(m)
    BY <2>2, <1>1, <1>t DEF Order_response, IsTrade
  <2> QED BY <2>1, <2>2
<1>6. /\ heard' \in [Ids -> Told]
      /\ \A id \in Ids :
           \/ heard'[id] = heard[id]
           \/ /\ IsStatus(m) /\ m.id = id
              /\ heard'[id] = Convert_order_status(m.status)
  <2>1. CASE IsStatus(m)
    <3>1. m.id \in Ids /\ m.status \in OrdStatus
      BY <2>1, <1>3, MessageKind
    <3>2. Convert_order_status(m.status) \in Told
      BY <3>1, StatusType
    <3>3. heard' = [heard EXCEPT ![m.id] = Convert_order_status(m.status)]
      BY <2>1, <1>1 DEF Order_response
    <3> QED BY <2>1, <1>t, <3>1, <3>2, <3>3
  <2>2. CASE ~IsStatus(m)
    BY <2>2, <1>1, <1>t DEF Order_response
  <2> QED BY <2>1, <2>2
<1>7. OrdersOK' /\ LimitsOK'
  BY <1>u, <1>5, <1>6, Parts DEF Inv, OrdersOK, LimitsOK
<1>8. Asked' /\ Fresh' /\ Tradable' /\ Ended'
  BY <1>u DEF Inv, Asked, Fresh, Tradable, Open, Ended
<1>9. Counted'
  <2> SUFFICES ASSUME NEW id \in Ids
               PROVE  /\ traded[id] = Cardinality(Trades(sent, id, LastSent))
                      /\ filled'[id] =
                           Cardinality(Trades(sent, id, expected))
    BY <1>2, <1>u DEF Counted
  <2>1. PICK k \in Nat : k = expected - 1
    BY <1>2
  <2>2. sent[k + 1] = m /\ k + 1 = expected
    BY <1>2, <2>1 DEF m
  <2> HIDE DEF IsTrade
  <2>3. Cardinality(Trades(sent, id, k + 1)) =
          Cardinality(Trades(sent, id, k))
            + (IF IsTrade(sent[k + 1], id) THEN 1 ELSE 0)
    BY <2>1, TradesNext
  <2>4. filled[id] = Cardinality(Trades(sent, id, k))
    BY <2>1 DEF Inv, Counted
  <2> QED BY <1>5, <2>2, <2>3, <2>4 DEF Inv, Counted
<1>10. OverIsOver'
  <2> SUFFICES ASSUME NEW id \in Ids, heard'[id] \in {"cancelled", "rejected"}
               PROVE  book[id] \in Over
    BY <1>u DEF OverIsOver, Over
  <2>1. CASE heard'[id] = heard[id]
    BY <2>1 DEF Inv, OverIsOver, Over
  <2>2. CASE /\ IsStatus(m) /\ m.id = id
             /\ heard'[id] = Convert_order_status(m.status)
    <3>1. /\ m.status \in OrdStatus
          /\ m.type = "report" \/ m.status = "undefined"
      BY <1>3, <2>2, MessageKind
    <3>2. m.status \in {"rejected", "expired", "busted"}
      BY <2>2, <3>1, StatusType
    <3>3. m.type = "report" /\ m.status # "busted"
      BY <2>2, <3>1, <3>2 DEF IsStatus
    <3>4. expected \in DOMAIN sent
      BY <1>2 DEF Inv, TypeOK, LastSent
    <3> QED BY <2>2, <3>2, <3>3, <3>4 DEF Inv, Ended, m
  <2> QED BY <1>6, <2>1, <2>2
<1> QED BY <1>4, <1>7, <1>8, <1>9, <1>10, Together

LEMMA SortStep == ASSUME Inv, Sort PROVE Inv'
<1>u. /\ UNCHANGED <<requests, added, book, traded, heard, filled, stopped,
                      drops, beats, other, sent, up, expected, received>>
      /\ LastSent' = LastSent
  BY DEF Sort, TooHigh, TooLow, ordersVars, LastSent
<1> DEFINE S == 1 .. LastSent
           h == Head(wire)
<1>1. /\ LastSent \in Nat /\ wire \in Seq(S) /\ asks \in Seq(Ask)
      /\ expected \in 1 .. LastSent + 1 /\ received \in 0 .. LastSent
      /\ held \subseteq expected .. LastSent
  BY DEF Inv, TypeOK, LastSent
<1>2. wire # <<>> /\ wire' = Tail(wire)
  BY DEF Sort, TooHigh, TooLow
<1>3. h \in S /\ wire' \in Seq(S)
  <2> HIDE DEF S
  <2> QED BY <1>1, <1>2
<1>4. /\ held' \subseteq expected .. LastSent
      /\ asks' \in Seq(Ask) /\ Asked'
  <2>1. CASE TooLow
    BY <2>1, <1>1, <1>u DEF TooLow, Inv, Asked
  <2>2. CASE TooHigh
    <3> DEFINE a == appendResendRequestField(expected, received, h)
    <3>1. h > expected /\ held' = held \cup {h} /\ asks' = Append(asks, a)
      BY <2>2 DEF TooHigh
    <3>2. held' \subseteq expected .. LastSent /\ expected \in 1 .. LastSent
      <4>1. h \in 1 .. LastSent
        BY <1>3
      <4>2. /\ LastSent \in Nat /\ expected \in 1 .. LastSent + 1
            /\ held \subseteq expected .. LastSent
        BY <1>1
      <4> HIDE DEF h
      <4> QED BY ONLY <4>1, <4>2, <3>1
    <3>3. expected \in Nat /\ received \in Int /\ h \in Nat /\ 1 <= expected
      BY <1>1, <1>3
    <3>4. a \in Ask /\ a.from = expected /\ (a.to = 0 \/ expected <= a.to)
      BY ONLY <3>3, AskType
    <3>5. LastSent \in Nat /\ LastSent <= LastSent
      BY <1>1
    <3>6. a.from \in 1 .. LastSent /\ (a.to = 0 \/ a.from <= a.to)
      BY <3>2, <3>4
    <3>7. asks' = Append(asks, a) /\ LastSent' = LastSent
      BY <1>u, <3>1
    <3> HIDE DEF a, h
    <3>8. asks' \in Seq(Ask) /\ Asked'
      BY <3>4, <3>5, <3>6, <3>7, AskAppended
    <3> QED BY ONLY <3>2, <3>8
  <2> QED BY <2>1, <2>2 DEF Sort
<1>5. SessionOK'
  BY <1>1, <1>3, <1>4, <1>u DEF SessionOK, Inv, TypeOK
<1>6. OrdersOK' /\ LimitsOK' /\ Fresh' /\ Tradable' /\ Ended' /\ OverIsOver'
  BY <1>u, Parts
     DEF Inv, OrdersOK, LimitsOK, Fresh, Tradable, Open, Ended, OverIsOver
<1>7. Counted'
  BY <1>u DEF Inv, Counted
<1> QED BY <1>4, <1>5, <1>6, <1>7, Together

LEMMA AskedRange ==
  ASSUME NEW f \in Nat, NEW l \in Nat, NEW n \in Nat, 1 <= f, l <= n
  PROVE  [i \in 1 .. l - f + 1 |-> f + i - 1] \in Seq(1 .. n)
<1>1. CASE l < f
  <2>1. 1 .. l - f + 1 = 1 .. 0
    BY <1>1
  <2>2. [i \in 1 .. 0 |-> f + i - 1] \in Seq(1 .. n)
    OBVIOUS
  <2> QED BY <2>1, <2>2
<1>2. CASE f <= l
  <2>1. PICK k \in Nat : k = l - f + 1
    BY <1>2
  <2>2. \A i \in 1 .. k : f + i - 1 \in 1 .. n
    BY <2>1
  <2>3. [i \in 1 .. k |-> f + i - 1] \in Seq(1 .. n)
    BY <2>2
  <2> QED BY <2>1, <2>3
<1> QED BY <1>1, <1>2

LEMMA SeqConcat ==
  ASSUME NEW S, NEW s \in Seq(S), NEW t \in Seq(S)
  PROVE  s \o t \in Seq(S)
OBVIOUS

LEMMA SendAgainStep == ASSUME Inv, SendAgain PROVE Inv'
<1>u. /\ UNCHANGED <<requests, added, book, traded, heard, filled, stopped,
                      drops, beats, other, sent, up, expected, received, held>>
      /\ LastSent' = LastSent
      /\ asks # <<>> /\ asks' = Tail(asks)
  BY DEF SendAgain, Resend, ordersVars, LastSent
<1> DEFINE a    == Head(asks)
           last == IF a.to = 0 \/ a.to > LastSent THEN LastSent ELSE a.to
           ns   == [i \in 1 .. last - a.from + 1 |-> a.from + i - 1]
<1>1. /\ LastSent \in Nat /\ wire \in Seq(1 .. LastSent)
      /\ asks \in Seq(Ask)
  BY DEF Inv, TypeOK, LastSent
<1>2. a = asks[1] /\ 1 \in DOMAIN asks /\ a \in Ask /\ asks' \in Seq(Ask)
  BY <1>1, <1>u
<1>3. /\ a.from \in Nat /\ 1 <= a.from
      /\ last \in Nat /\ last <= LastSent
  <2>1. a.from \in 1 .. LastSent
    BY <1>2 DEF Inv, Asked
  <2>2. a.to \in Nat
    BY <1>2 DEF Ask
  <2> QED BY <1>1, <2>1, <2>2
<1>4. wire' \in Seq(1 .. LastSent)
  <2>1. wire' = wire \o ns
    BY DEF SendAgain, Resend
  <2>2. ns \in Seq(1 .. LastSent)
    <3> HIDE DEF a, last
    <3> QED BY ONLY <1>1, <1>3, AskedRange
  <2> HIDE DEF ns
  <2> QED BY <1>1, <2>1, <2>2, SeqConcat
<1>5. Asked'
  <2>1. \A i \in DOMAIN asks' : i + 1 \in DOMAIN asks /\ asks'[i] = asks[i + 1]
    BY <1>1, <1>u
  <2> QED BY <1>u, <2>1 DEF Inv, Asked
<1>6. SessionOK'
  BY <1>2, <1>4, <1>u DEF SessionOK, Inv, TypeOK
<1>7. OrdersOK' /\ LimitsOK' /\ Fresh' /\ Tradable' /\ Ended' /\ OverIsOver'
  BY <1>u, Parts
     DEF Inv, OrdersOK, LimitsOK, Fresh, Tradable, Open, Ended, OverIsOver
<1>8. Counted'
  BY <1>u DEF Inv, Counted
<1> QED BY <1>5, <1>6, <1>7, <1>8, Together

\* A lost connection, and one that is given up.
LEMMA DisconnectKeeps ==
  ASSUME Inv, Disconnect
  PROVE  SessionOK' /\ Asked' /\ UNCHANGED <<sent, expected, LastSent>>
<1>1. /\ UNCHANGED <<sent, expected, received, LastSent>>
      /\ up' = FALSE /\ wire' = <<>> /\ asks' = <<>> /\ held' = {}
  BY DEF Disconnect, LastSent
<1>2. SessionOK'
  <2>1. /\ sent' \in Seq(Messages) /\ expected' \in 1 .. LastSent' + 1
        /\ received' \in 0 .. LastSent'
    BY <1>1 DEF Inv, TypeOK
  <2>2. wire' \in Seq(1 .. LastSent') /\ asks' \in Seq(Ask)
    BY <1>1
  <2>3. up' \in BOOLEAN /\ held' \subseteq expected' .. LastSent'
    BY <1>1
  <2> QED BY <2>1, <2>2, <2>3 DEF SessionOK
<1>3. Asked'
  BY <1>1 DEF Asked
<1> QED BY <1>1, <1>2, <1>3

LEMMA LoseStep == ASSUME Inv, Lose PROVE Inv'
<1>1. SessionOK' /\ Asked' /\ UNCHANGED <<sent, expected, LastSent>>
  BY DisconnectKeeps DEF Lose
<1>u. UNCHANGED <<requests, added, book, traded, heard, filled, stopped,
                  beats, other>>
  BY DEF Lose, ordersVars
<1>2. LimitsOK'
  <2>1. drops' \in 0 .. MaxDrops
    BY GatewayAssumption DEF Lose, Inv, TypeOK
  <2> QED BY <1>u, <2>1 DEF Inv, TypeOK, LimitsOK
<1>3. OrdersOK' /\ Fresh' /\ Tradable' /\ Ended' /\ OverIsOver'
  BY <1>1, <1>u, Parts
     DEF Inv, OrdersOK, Fresh, Tradable, Open, Ended, OverIsOver
<1>4. Counted'
  BY <1>1, <1>u DEF Inv, Counted
<1> QED BY <1>1, <1>2, <1>3, <1>4, Together

LEMMA StopStep == ASSUME Inv, Stop PROVE Inv'
<1>1. SessionOK' /\ Asked' /\ UNCHANGED <<sent, expected, LastSent>>
  <2>1. CASE up
    BY <2>1, DisconnectKeeps DEF Stop
  <2>2. CASE ~up
    BY <2>2, Parts DEF Stop, sessionVars, SessionOK, Asked, LastSent, Inv
  <2> QED BY <2>1, <2>2
<1>u. /\ UNCHANGED <<requests, added, book, traded, heard, filled, drops,
                      beats, other>>
      /\ stopped' = TRUE
  BY DEF Stop
<1>2. OrdersOK' /\ LimitsOK' /\ Fresh' /\ Tradable' /\ Ended' /\ OverIsOver'
  BY <1>1, <1>u, Parts
     DEF Inv, OrdersOK, LimitsOK, Fresh, Tradable, Open, Ended, OverIsOver
<1>3. Counted'
  BY <1>1, <1>u DEF Inv, Counted
<1> QED BY <1>1, <1>2, <1>3, Together

-----------------------------------------------------------------------------
(* The strategies.                                                         *)

LEMMA AskStep ==
  ASSUME Inv, NEW id \in Ids,
         NEW t \in {"add", "change", "delete", "query"},
         Ask_exchange(t, id)
  PROVE  /\ SessionOK' /\ Asked' /\ Tradable' /\ Counted' /\ Ended'
         /\ OverIsOver'
         /\ requests' \in Seq(Requests)
         /\ UNCHANGED <<book, traded, heard, filled, stopped, drops, beats>>
<1>u. /\ UNCHANGED <<sent, wire, asks, up, expected, received, held, LastSent,
                      book, traded, heard, filled, stopped, drops, beats>>
      /\ requests' = Append(requests, [type |-> t, id |-> id])
  BY DEF Ask_exchange, sessionVars, LastSent
<1>1. requests' \in Seq(Requests)
  <2> DEFINE q == [type |-> t, id |-> id]
  <2>1. q \in Requests /\ requests' = Append(requests, q)
    BY <1>u DEF Requests
  <2>2. requests \in Seq(Requests)
    BY DEF Inv, TypeOK
  <2> HIDE DEF q
  <2> QED BY <2>1, <2>2
<1>2. SessionOK' /\ Asked' /\ Tradable' /\ Ended' /\ OverIsOver'
  BY <1>u, Parts
     DEF Inv, SessionOK, Asked, Tradable, Open, Ended, OverIsOver
<1>3. Counted'
  BY <1>u DEF Inv, Counted
<1> QED BY <1>u, <1>1, <1>2, <1>3

LEMMA LaterStep ==
  ASSUME Inv, NEW id \in Ids, NEW t \in {"change", "delete", "query"},
         Later(t, id)
  PROVE  Inv'
<1>1. Ask_exchange(t, id) /\ UNCHANGED added
  BY DEF Later
<1>2. OrdersOK'
  BY <1>1, AskStep DEF Inv, TypeOK, OrdersOK
<1>3. LimitsOK'
  <2>1. other' \in 0 .. MaxOther
    BY GatewayAssumption DEF Later, Inv, TypeOK
  <2> QED BY <1>1, <2>1, AskStep DEF Inv, TypeOK, LimitsOK
<1>4. Fresh'
  <2> DEFINE q == [type |-> t, id |-> id]
  <2>1. /\ q.type # "add" /\ q.id \in Ids
        /\ requests' = Append(requests, q) /\ UNCHANGED <<added, book>>
    BY <1>1 DEF Ask_exchange
  <2> HIDE DEF q
  <2> QED BY <2>1, FreshAppend
<1> QED BY <1>1, <1>2, <1>3, <1>4, AskStep, Together

LEMMA AddStep == ASSUME Inv, NEW id \in Ids, Add(id) PROVE Inv'
<1>1. /\ Ask_exchange("add", id) /\ id \notin added
      /\ added' = added \cup {id} /\ UNCHANGED other
  BY DEF Add
<1>2. OrdersOK' /\ LimitsOK'
  BY <1>1, AskStep DEF Inv, TypeOK, OrdersOK, LimitsOK
<1>3. Fresh'
  <2> DEFINE q == [type |-> "add", id |-> id]
             n == Len(requests) + 1
  <2>1. requests' = Append(requests, q) /\ book' = book
    BY <1>1 DEF Ask_exchange
  <2>2. requests \in Seq(Requests)
    BY DEF Inv, TypeOK
  <2>3. q.type = "add" /\ q.id = id /\ book[id] = "none"
    BY <1>1 DEF Inv, Fresh
  <2> HIDE DEF q
  <2>4. \A i \in DOMAIN requests' :
          \/ i \in DOMAIN requests /\ requests'[i] = requests[i]
          \/ i = n /\ requests'[i] = q
    BY <2>1, <2>2
  <2>5. n \notin DOMAIN requests
    BY <2>2
  <2> HIDE DEF n
  <2>6. \A i \in DOMAIN requests : requests[i].type = "add" =>
          requests[i].id \in added /\ requests[i].id # id
    BY <1>1 DEF Inv, Fresh
  <2>7. \A x \in Ids \ added' : book'[x] = "none"
    BY <1>1, <2>1 DEF Inv, Fresh
  <2>8. ASSUME NEW i \in DOMAIN requests'
        PROVE  /\ requests'[i].type # "queryAll" => requests'[i].id \in Ids
               /\ requests'[i].type = "add" =>
                    /\ requests'[i].id \in added'
                    /\ book'[requests'[i].id] = "none"
    BY <1>1, <2>1, <2>3, <2>4 DEF Inv, Fresh
  <2>9. ASSUME NEW i \in DOMAIN requests', NEW j \in DOMAIN requests',
               requests'[i].type = "add", requests'[j].type = "add",
               requests'[j].id = requests'[i].id
        PROVE  j = i
    BY <2>3, <2>4, <2>5, <2>6, <2>9 DEF Inv, Fresh
  <2> QED BY <2>7, <2>8, <2>9 DEF Fresh
<1> QED BY <1>1, <1>2, <1>3, AskStep, Together

-----------------------------------------------------------------------------
(* The theorems.                                                           *)

\* Inv is inductive.
THEOREM InvNext == Inv /\ [Next]_vars => Inv'
<1> SUFFICES ASSUME Inv, [Next]_vars PROVE Inv'
  OBVIOUS
<1>1. CASE Logon
  BY <1>1, LogonStep
<1>2. CASE From
  BY <1>2, FromStep
<1>3. CASE Sort
  BY <1>3, SortStep
<1>4. CASE Serve
  BY <1>4, ServeStep
<1>5. CASE SendAgain
  BY <1>5, SendAgainStep
<1>6. CASE Heartbeat
  BY <1>6, HeartbeatStep
<1>7. CASE Event
  BY <1>7, EventStep
<1>8. CASE Lose
  BY <1>8, LoseStep
<1>9. CASE Stop
  BY <1>9, StopStep
<1>10. CASE \E id \in Ids : Add(id) \/ Change(id) \/ Delete(id) \/ Query(id)
  <2> PICK id \in Ids : Add(id) \/ Change(id) \/ Delete(id) \/ Query(id)
    BY <1>10
  <2> QED BY AddStep, LaterStep DEF Change, Delete, Query
<1>11. CASE UNCHANGED vars
  <2>1. SessionOK' /\ OrdersOK' /\ LimitsOK'
    BY <1>11, Parts
       DEF vars, sessionVars, ordersVars, SessionOK, OrdersOK, LimitsOK, Inv,
           LastSent
  <2>2. Asked' /\ Fresh' /\ Tradable' /\ Counted' /\ Ended' /\ OverIsOver'
    BY <1>11
       DEF vars, sessionVars, ordersVars, Inv, Asked, Fresh, Tradable, Open,
           Counted, Ended, OverIsOver, LastSent
  <2> QED BY <2>1, <2>2, Together
<1> QED BY <1>1, <1>2, <1>3, <1>4, <1>5, <1>6, <1>7, <1>8, <1>9, <1>10, <1>11
        DEF Next, Gateway, Exchange

THEOREM Safety == Spec => []Inv
BY InitInv, InvNext, PTL DEF Spec

\* The type invariant of the gateway and its session.
THEOREM TypeCorrect == Spec => []TypeOK
<1>1. Inv => TypeOK
  BY DEF Inv
<1> QED BY <1>1, Safety, PTL

\* Every trade is told to the strategies once, whatever is lost or sent
\* again: fills are counted along the messages, and a message has its turn
\* once.
THEOREM TradesToldOnce == Spec => []FillsToldOnce
<1>1. Inv => FillsToldOnce
  <2> SUFFICES ASSUME Inv, NEW id \in Ids
               PROVE  /\ filled[id] <= traded[id]
                      /\ expected > LastSent => filled[id] = traded[id]
    BY DEF FillsToldOnce
  <2>1. /\ traded[id] = Cardinality(Trades(sent, id, LastSent))
        /\ filled[id] = Cardinality(Trades(sent, id, expected - 1))
    BY DEF Inv, Counted
  <2>2. LastSent \in Nat /\ expected \in 1 .. LastSent + 1
    BY DEF Inv, TypeOK, LastSent
  <2>3. filled[id] <= traded[id]
    <3>1. PICK j \in Nat : j = expected - 1
      BY <2>2
    <3>2. j <= LastSent
      BY <2>2, <3>1
    <3> QED BY <2>1, <2>2, <3>1, <3>2, TradesUpTo
  <2>4. expected > LastSent => expected - 1 = LastSent
    BY <2>2
  <2> QED BY <2>1, <2>3, <2>4
<1> QED BY <1>1, Safety, PTL

\* No order is told to be over before it is, not even one whose cancellation
\* the exchange refused.
THEOREM OverStaysOver == Spec => []OverIsOver
<1>1. Inv => OverIsOver
  BY DEF Inv
<1> QED BY <1>1, Safety, PTL

-----------------------------------------------------------------------------
(* CFemasCommunicator: types.                                              *)

FemasIds   == Orders \cup Earlier \cup {None}
Asks       == {"trade", "position", "instrument"}
FemasKinds == Asks \cup {"connected", "login", "none", "invalid", "add",
                       "delete", "query"}

FemasMessages == [kind : FemasKinds, order : FemasIds, ref : Nat, ok : BOOLEAN]

FemasCalls == [at : {"idle", "map", "count", "send"}, kind : FemasKinds,
               order : FemasIds, ref : Nat, seen : Nat]

FemasTypes ==
  /\ MaxOrderLocalID \in Nat
  /\ DOMAIN m_ordermap \subseteq Nat
  /\ mIConnet \in BOOLEAN
  /\ m_InitQueryNum \in Nat
  /\ m_startfinish \in BOOLEAN
  /\ start \in Asks \cup {"connect", "query", "ready", "failed"}
  /\ turn \in Nat \ {0}
  /\ wait \in {"none", "clear", "flag"}
  /\ call \in [Threads -> FemasCalls]
  /\ link \in BOOLEAN /\ session \in BOOLEAN
  /\ outgoing \in Seq(FemasMessages) /\ answers \in Seq(FemasMessages)
  /\ accepted \subseteq [order : FemasIds, ref : Nat]
  /\ largest \in Nat
  /\ astray \in BOOLEAN /\ early \in BOOLEAN /\ calm \in BOOLEAN

-----------------------------------------------------------------------------
(* Who is in the middle of a request.                                      *)

\* The order of the query that Start waits for.
Current == IF start = "instrument" THEN None ELSE InitOrders[turn]

Turns ==
  /\ start \in {"query", "trade", "position"} => turn <= Len(InitOrders) + 1
  /\ wait # "none" => start \in Asks \cup {"failed"}
  /\ wait # "none" /\ start \in {"trade", "position"} => turn <= Len(InitOrders)
  /\ wait # "none" /\ start = "instrument" => turn = 1

MainBusy ==
  ~Idle("main") =>
    \/ /\ start = "query" /\ call["main"].kind = "query"
       /\ turn > 1 /\ call["main"].order = InitOrders[turn - 1]
    \/ /\ start \in Asks /\ call["main"].kind = start
       /\ wait = "clear" /\ call["main"].order = Current

\* A strategy that waits for OnExchangeReady is not there before.
StrategyBusy ==
  ~Idle("strategy") =>
    /\ call["strategy"].kind \in {"add", "invalid", "delete", "query"}
    /\ call["strategy"].order \in Orders
    /\ early \/ start = "ready"

Busy == Turns /\ MainBusy /\ StrategyBusy

-----------------------------------------------------------------------------
(* What Start asks for.                                                    *)

NoAsks(s) == \A n \in DOMAIN s : s[n].kind \notin Asks

OnlyAsk(s, kind, o) ==
  \A n \in DOMAIN s : s[n].kind \in Asks =>
    /\ s[n].kind = kind /\ s[n].order = o
    /\ \A m \in DOMAIN s : s[m].kind \in Asks => m = n

\* There is at most one of these requests, with its answer, on its way; it is
\* the one that Start waits for.
OneAsked ==
  start # "failed" =>
    /\ NoAsks(outgoing) \/ NoAsks(answers)
    /\ OnlyAsk(outgoing, start, Current) /\ OnlyAsk(answers, start, Current)
    /\ wait = "none" \/ ~Idle("main") => NoAsks(outgoing) /\ NoAsks(answers)
    /\ wait = "flag" /\ m_startfinish =>
         /\ <<start, Current>> \in answered
         /\ NoAsks(outgoing) /\ NoAsks(answers)

\* The queries among these messages, in sequence: g has their numbers in
\* InitOrders, which are above low and not above high.
InSequence(s, g, low, high) ==
  /\ Len(g) = Len(s)
  /\ \A n \in DOMAIN s : s[n].kind = "query" =>
       low < g[n] /\ g[n] <= high /\ s[n].order = InitOrders[g[n]]
  /\ \A m, n \in DOMAIN s :
       m < n /\ s[m].kind = "query" /\ s[n].kind = "query" => g[m] < g[n]

\* As many queries have left.
QueriesSent == IF Idle("main") THEN turn - 1 ELSE turn - 2

\* Only if none of the first k queries was lost, k answers were counted.
AnswersCounted(k) ==
  /\ Len(InitOrders) - m_InitQueryNum <= k
  /\ Len(InitOrders) - m_InitQueryNum = k =>
       \A n \in 1 .. k : <<"query", InitOrders[n]>> \in answered

\* The one queries were asked before the other ones.
Before(s, g, u, h) ==
  \A m \in DOMAIN s, n \in DOMAIN u :
    s[m].kind = "query" /\ u[n].kind = "query" => g[m] < h[n]

Line(k, g, h) ==
  /\ AnswersCounted(k)
  /\ InSequence(answers, g, k, QueriesSent)
  /\ InSequence(outgoing, h, k, QueriesSent)
  /\ Before(answers, g, outgoing, h)

OldNumbers == 0 .. Len(InitOrders)

NoQuery(s) == \A n \in DOMAIN s : s[n].kind # "query"

Queries ==
  /\ ~early /\ start = "connect" => NoQuery(outgoing) /\ NoQuery(answers)
  /\ ~early /\ start = "query" =>
       \E k \in 0 .. QueriesSent : \E g, h \in Seq(OldNumbers) : Line(k, g, h)

\* What Start has been told when it is there.
AllAnswered(kind) == \A o \in Earlier : <<kind, o>> \in answered

Verified ==
  ~early =>
    /\ start \in Asks \cup {"ready"} => AllAnswered("query")
    /\ start = "trade" =>
         \A n \in 1 .. turn - 1 : <<"trade", InitOrders[n]>> \in answered
    /\ start \in {"position", "instrument", "ready"} => AllAnswered("trade")
    /\ start = "position" =>
         \A n \in 1 .. turn - 1 : <<"position", InitOrders[n]>> \in answered
    /\ start \in {"instrument", "ready"} => AllAnswered("position")
    /\ start = "instrument" /\ turn > 1 => <<"instrument", None>> \in answered
    /\ start = "ready" => <<"instrument", None>> \in answered

StartInv == OneAsked /\ Queries /\ Verified

-----------------------------------------------------------------------------
(* Numbers and ids.                                                        *)

Mapped(o, ref) == ref \in DOMAIN m_ordermap /\ m_ordermap[ref] = o

\* The number leads to the order, or to none of the strategies.
Right(o, ref) ==
  IF o \in Orders THEN Mapped(o, ref) ELSE ref <= Len(InitOrders)

\* A number that is given out is not in the map yet.
NextNumber ==
  /\ (\A t \in Threads : Idle(t)) =>
       \A n \in DOMAIN m_ordermap : n < MaxOrderLocalID
  /\ \A t \in Threads : ~Idle(t) =>
       /\ call[t].ref = MaxOrderLocalID
       /\ call[t].at = "send" => call[t].seen = MaxOrderLocalID
       /\ call[t].at = "map" =>
            /\ call[t].kind \in {"add", "invalid", "delete", "query"}
            /\ \A n \in DOMAIN m_ordermap : n < MaxOrderLocalID
       /\ call[t].at \in {"count", "send"} =>
            /\ call[t].kind # "invalid"
            /\ \A n \in DOMAIN m_ordermap : n <= MaxOrderLocalID
            /\ call[t].kind \in {"add", "delete", "query"} =>
                 Mapped(call[t].order, MaxOrderLocalID)

\* The numbers of the orders that are to be verified are not given out again.
AboveOld ==
  /\ \A n \in DOMAIN m_ordermap : m_ordermap[n] \in Orders => n > Len(InitOrders)
  /\ mIConnet \/ start \notin {"connect", "failed"} =>
       MaxOrderLocalID > Len(InitOrders)
  /\ largest >= Len(InitOrders)
  /\ \A n \in DOMAIN answers :
       answers[n].kind = "login" => answers[n].ref >= Len(InitOrders)

RightMessages ==
  /\ \A n \in DOMAIN outgoing : outgoing[n].kind \in {"add", "delete"} =>
       outgoing[n].order \in Orders /\ Mapped(outgoing[n].order, outgoing[n].ref)
  /\ \A a \in accepted : Right(a.order, a.ref)
  /\ \A n \in DOMAIN answers : answers[n].kind \in {"add", "delete"} =>
       answers[n].order \in Orders /\ Mapped(answers[n].order, answers[n].ref)
  /\ \A n \in DOMAIN answers :
       answers[n].kind \in {"query", "trade"} /\ answers[n].ok =>
         Right(answers[n].order, answers[n].ref)

NumbersInv ==
  ~early /\ calm => NextNumber /\ AboveOld /\ RightMessages /\ ~astray

FemasInv == FemasTypes /\ Busy /\ StartInv /\ NumbersInv

-----------------------------------------------------------------------------
(* Sequences.                                                              *)

\* One more at the end, one less at the front.
LEMMA AppendElements ==
  ASSUME NEW S, NEW s \in Seq(S), NEW e \in S
  PROVE  /\ Append(s, e) \in Seq(S)
         /\ Len(Append(s, e)) = Len(s) + 1
         /\ Len(s) \in Nat
         /\ DOMAIN s = 1 .. Len(s)
         /\ DOMAIN Append(s, e) = 1 .. Len(s) + 1
         /\ \A n \in 1 .. Len(s) : Append(s, e)[n] = s[n]
         /\ Append(s, e)[Len(s) + 1] = e
OBVIOUS

LEMMA TailElements ==
  ASSUME NEW S, NEW s \in Seq(S), s # <<>>
  PROVE  /\ Tail(s) \in Seq(S)
         /\ Len(s) \in Nat \ {0} /\ Head(s) \in S /\ Head(s) = s[1]
         /\ Len(Tail(s)) = Len(s) - 1
         /\ DOMAIN s = 1 .. Len(s)
         /\ DOMAIN Tail(s) = 1 .. Len(s) - 1
         /\ \A n \in 1 .. Len(s) - 1 : Tail(s)[n] = s[n + 1]
OBVIOUS

LEMMA OneElement ==
  ASSUME NEW S, NEW e \in S
  PROVE  /\ <<e>> \in Seq(S) /\ Len(<<e>>) = 1 /\ DOMAIN <<e>> = {1}
         /\ <<e>>[1] = e
OBVIOUS

\* What holds of all elements holds of those that are left, and of one more.
LEMMA TailAll ==
  ASSUME NEW S, NEW s \in Seq(S), s # <<>>
  PROVE  \A n \in DOMAIN Tail(s) : \E m \in DOMAIN s : m = n + 1 /\ Tail(s)[n] = s[m]
<1>1. /\ Len(s) \in Nat \ {0} /\ DOMAIN s = 1 .. Len(s)
      /\ DOMAIN Tail(s) = 1 .. Len(s) - 1
      /\ \A n \in 1 .. Len(s) - 1 : Tail(s)[n] = s[n + 1]
  BY TailElements
<1> QED
  BY <1>1

LEMMA AppendAll ==
  ASSUME NEW S, NEW s \in Seq(S), NEW e \in S
  PROVE  \A n \in DOMAIN Append(s, e) :
           \/ n \in DOMAIN s /\ Append(s, e)[n] = s[n]
           \/ n = Len(s) + 1 /\ n \notin DOMAIN s /\ Append(s, e)[n] = e
<1>1. /\ DOMAIN s = 1 .. Len(s) /\ Len(s) \in Nat
      /\ DOMAIN Append(s, e) = 1 .. Len(s) + 1
      /\ \A n \in 1 .. Len(s) : Append(s, e)[n] = s[n]
      /\ Append(s, e)[Len(s) + 1] = e
  BY AppendElements
<1> QED
  BY <1>1

-----------------------------------------------------------------------------
(* The steps.                                                              *)

LEMMA OldOrders ==
  /\ InitOrders \in Seq(Earlier) /\ Len(InitOrders) \in Nat
  /\ DOMAIN InitOrders = 1 .. Len(InitOrders)
  /\ \A n \in 1 .. Len(InitOrders) :
       InitOrders[n] \in Earlier /\ InitOrders[n] \notin Orders
  /\ \A o \in Earlier : \E n \in 1 .. Len(InitOrders) : o = InitOrders[n]
<1>1. InitOrders \in Seq(Earlier) /\ Earlier \cap Orders = {}
  BY FemasAssumption
<1>2. Len(InitOrders) \in Nat /\ DOMAIN InitOrders = 1 .. Len(InitOrders)
  BY <1>1
<1>3. ASSUME NEW n \in 1 .. Len(InitOrders)
      PROVE  InitOrders[n] \in Earlier /\ InitOrders[n] \notin Orders
  <2>1. InitOrders[n] \in Earlier
    BY <1>2, Zenon DEF Earlier
  <2> QED
    BY <2>1, <1>1, Zenon
<1>4. \A o \in Earlier : \E n \in 1 .. Len(InitOrders) : o = InitOrders[n]
  BY <1>2, Zenon DEF Earlier
<1>5. \A n \in 1 .. Len(InitOrders) :
        InitOrders[n] \in Earlier /\ InitOrders[n] \notin Orders
  BY <1>3, Zenon
<1>6. InitOrders \in Seq(Earlier)
  BY <1>1
<1> QED
  BY <1>2, <1>4, <1>5, <1>6, Zenon

\* What a call looks like after each of its steps; the other one stays.
LEMMA BeginCall ==
  ASSUME NEW t \in Threads, NEW kind, NEW o, call \in [Threads -> FemasCalls],
         Begin(t, kind, o)
  PROVE  /\ Idle(t)
         /\ call'[t] = [at |-> IF kind \in Asks THEN "count" ELSE "map",
                        kind |-> kind, order |-> o, ref |-> MaxOrderLocalID,
                        seen |-> 0]
         /\ call'[t].kind = kind /\ call'[t].order = o
         /\ call'[t].ref = MaxOrderLocalID
         /\ kind \in Asks => call'[t].at = "count"
         /\ kind \notin Asks => call'[t].at = "map"
         /\ call' = [call EXCEPT ![t] = call'[t]]
         /\ \A u \in Threads \ {t} : call'[u] = call[u]
BY DEF Begin, Asks

LEMMA BeginMain ==
  ASSUME NEW kind, NEW o, call \in [Threads -> FemasCalls], Begin("main", kind, o)
  PROVE  /\ Idle("main")
         /\ call'["main"].kind = kind /\ call'["main"].order = o
         /\ call'["main"].ref = MaxOrderLocalID
         /\ kind \in Asks => call'["main"].at = "count"
         /\ kind \notin Asks => call'["main"].at = "map"
         /\ call'["strategy"] = call["strategy"]
<1>1. "main" \in Threads /\ "strategy" \in Threads \ {"main"}
  BY DEF Threads
<1> QED
  BY <1>1 DEF Begin, Asks

LEMMA BeginTypes ==
  ASSUME NEW t \in Threads, NEW kind \in Asks \cup {"invalid", "add", "delete", "query"},
         NEW o \in FemasIds, call \in [Threads -> FemasCalls], MaxOrderLocalID \in Nat,
         Begin(t, kind, o)
  PROVE  call' \in [Threads -> FemasCalls]
<1> DEFINE at == IF kind \in Asks THEN "count" ELSE "map"
<1>1. /\ call'[t] = [at |-> at, kind |-> kind, order |-> o, ref |-> MaxOrderLocalID,
                     seen |-> 0]
      /\ call' = [call EXCEPT ![t] = call'[t]]
  BY BeginCall
<1>2. at \in {"idle", "map", "count", "send"}
  OBVIOUS
<1> HIDE DEF at
<1>3. call'[t] \in FemasCalls
  BY <1>1, <1>2 DEF FemasCalls, FemasKinds
<1> QED
  BY <1>1, <1>3

LEMMA StepCall ==
  ASSUME NEW t \in Threads, NEW at \in {"idle", "map", "count", "send"},
         NEW n \in Nat, call \in [Threads -> FemasCalls],
         \/ call' = [call EXCEPT ![t].at = at]
         \/ call' = [call EXCEPT ![t].at = at, ![t].seen = n]
         \/ call' = [call EXCEPT ![t] = NoCall] /\ at = "idle"
  PROVE  /\ call' \in [Threads -> FemasCalls]
         /\ call'[t].at = at
         /\ at # "idle" => /\ call'[t].kind = call[t].kind
                           /\ call'[t].order = call[t].order
                           /\ call'[t].ref = call[t].ref
         /\ \A u \in Threads \ {t} : call'[u] = call[u]
<1>1. call[t] \in FemasCalls
  OBVIOUS
<1>2. NoCall \in FemasCalls
  BY DEF NoCall, FemasCalls, FemasIds, FemasKinds
<1>3. CASE call' = [call EXCEPT ![t].at = at]
  <2>1. [call[t] EXCEPT !.at = at] \in FemasCalls
    BY <1>1 DEF FemasCalls
  <2> QED
    BY <1>3, <2>1, <1>1 DEF FemasCalls
<1>4. CASE call' = [call EXCEPT ![t].at = at, ![t].seen = n]
  <2> DEFINE c == [call[t] EXCEPT !.at = at, !.seen = n]
  <2>1. /\ c \in FemasCalls /\ c.at = at /\ c.kind = call[t].kind
        /\ c.order = call[t].order /\ c.ref = call[t].ref
    BY <1>1 DEF FemasCalls
  <2>2. call'[t] = c /\ call' = [call EXCEPT ![t] = c]
    BY <1>4, <1>1 DEF FemasCalls
  <2> HIDE DEF c
  <2> QED
    BY <2>1, <2>2
<1>5. CASE call' = [call EXCEPT ![t] = NoCall] /\ at = "idle"
  BY <1>5, <1>2 DEF NoCall
<1> QED
  BY <1>3, <1>4, <1>5

\* A call goes on for the same order, or is over.
LEMMA RequestCall ==
  ASSUME NEW t \in Threads, FemasTypes, Request(t)
  PROVE  /\ ~Idle(t)
         /\ ~Idle(t)' => /\ call'[t].kind = call[t].kind
                         /\ call'[t].order = call[t].order
                         /\ call'[t].ref = call[t].ref
         /\ \A u \in Threads \ {t} : call'[u] = call[u]
         /\ UNCHANGED <<starting, answered, early, addedOrders>>
<1>0. call \in [Threads -> FemasCalls] /\ MaxOrderLocalID \in Nat
  BY DEF FemasTypes
<1>1. CASE Map(t)
  <2>1. call' = [call EXCEPT ![t].at = "count"] /\ call[t].at = "map"
    BY <1>1 DEF Map
  <2> QED
    BY <1>0, <2>1, <1>1, StepCall DEF Map, Idle, history
<1>2. CASE Invalid(t)
  <2>1. call' = [call EXCEPT ![t] = NoCall] /\ call[t].at = "map"
    BY <1>2 DEF Invalid
  <2> QED
    BY <1>0, <2>1, <1>2, StepCall DEF Invalid, Idle
<1>3. CASE Count(t)
  <2>1. call' = [call EXCEPT ![t].at = "send", ![t].seen = MaxOrderLocalID]
        /\ call[t].at = "count"
    BY <1>3 DEF Count
  <2> QED
    BY <1>0, <2>1, <1>3, StepCall DEF Count, Idle, history
<1>4. CASE SendRequest(t)
  <2>1. call' = [call EXCEPT ![t] = NoCall] /\ call[t].at = "send"
    BY <1>4 DEF SendRequest
  <2> QED
    BY <1>0, <2>1, <1>4, StepCall DEF SendRequest, Idle, history
<1> QED
  BY <1>1, <1>2, <1>3, <1>4 DEF Request

\* The map only grows.
LEMMA MapGrows ==
  ASSUME NEW o, AddOrderId(o)
  PROVE  /\ DOMAIN m_ordermap' = DOMAIN m_ordermap \cup {MaxOrderLocalID}
         /\ \A n \in DOMAIN m_ordermap : m_ordermap'[n] = m_ordermap[n]
         /\ MaxOrderLocalID \notin DOMAIN m_ordermap =>
              m_ordermap'[MaxOrderLocalID] = o
BY DEF AddOrderId, With

\* What the exchange makes of a request.
ServeAnswer(r) ==
  \/ /\ answers' = answers /\ r.kind \in Asks \cup {"query"}
     /\ UNCHANGED <<session, accepted, largest>>
  \/ \E o \in FemasIds, ref \in Nat, ok \in BOOLEAN :
       /\ answers' = Append(answers, Message(r.kind, o, ref, ok))
       /\ r.kind # "login" => o = r.order
       /\ r.kind = "login" => ref = largest
       /\ r.kind \in {"add", "delete"} => ref = r.ref
       /\ r.kind \in {"query", "trade", "position"} /\ ok =>
            [order |-> r.order, ref |-> ref] \in accepted
       /\ session' \in BOOLEAN
       /\ \/ UNCHANGED <<accepted, largest>>
          \/ /\ r.kind = "add" /\ r.ref > largest
             /\ accepted' = accepted \cup {[order |-> r.order, ref |-> r.ref]}
             /\ largest' = r.ref

LEMMA ServeAnswers ==
  ASSUME FemasTypes, ServeRequest
  PROVE  /\ outgoing # <<>> /\ outgoing' = Tail(outgoing) /\ Head(outgoing) \in FemasMessages
         /\ ServeAnswer(Head(outgoing))
         /\ UNCHANGED <<manager, starting, call, link, history, bounds>>
<1>1. outgoing # <<>> /\ outgoing' = Tail(outgoing)
  BY DEF ServeRequest
<1>2. Head(outgoing) \in FemasMessages
  BY <1>1, TailElements DEF FemasTypes
<1> DEFINE r == Head(outgoing)
<1>3. r.kind \in FemasKinds /\ r.order \in FemasIds /\ r.ref \in Nat
  BY <1>2 DEF FemasMessages
<1>4. None \in FemasIds /\ session \in BOOLEAN /\ largest \in Nat
  BY DEF FemasIds, FemasTypes
<1>5. CASE /\ r.kind = "login"
           /\ \E ok \in BOOLEAN :
                session' = ok /\ Reply("login", None, largest, ok)
           /\ UNCHANGED <<accepted, largest>>
  <2>1. PICK ok \in BOOLEAN :
          session' = ok /\ answers' = Append(answers, Message("login", None, largest, ok))
    BY <1>5 DEF Reply
  <2>2. ServeAnswer(r)
    BY <1>5, <2>1, <1>4 DEF ServeAnswer
  <2> QED
    BY <2>2, <1>1, <1>2 DEF ServeRequest
<1>6. CASE /\ r.kind = "add"
           /\ session /\ r.ref > largest
           /\ accepted' = accepted \cup {[order |-> r.order, ref |-> r.ref]}
           /\ largest' = r.ref
           /\ Reply("add", r.order, r.ref, TRUE)
           /\ UNCHANGED session
  <2>1. ServeAnswer(r)
    BY <1>6, <1>3, <1>4 DEF ServeAnswer, Reply
  <2> QED
    BY <2>1, <1>1, <1>2 DEF ServeRequest
<1>7. CASE \E ok \in BOOLEAN :
             /\ r.kind \in {"add", "delete"}
             /\ Reply(r.kind, r.order, r.ref, ok)
             /\ UNCHANGED <<session, accepted, largest>>
  <2>1. ServeAnswer(r)
    BY <1>7, <1>3, <1>4 DEF ServeAnswer, Reply
  <2> QED
    BY <2>1, <1>1, <1>2 DEF ServeRequest
<1>8. CASE /\ r.kind \in {"query", "trade", "position", "instrument"}
           /\ \E ref \in Nat, ok \in BOOLEAN :
                /\ Reply(r.kind, r.order, ref, ok)
                /\ r.kind # "instrument" /\ ok =>
                     [order |-> r.order, ref |-> ref] \in accepted
           /\ UNCHANGED <<session, accepted, largest>>
  <2>1. ServeAnswer(r)
    BY <1>8, <1>3, <1>4 DEF ServeAnswer, Reply
  <2> QED
    BY <2>1, <1>1, <1>2 DEF ServeRequest
<1>9. CASE /\ r.kind \in {"query", "trade", "position", "instrument"}
           /\ UNCHANGED <<session, answers, accepted, largest>>
  <2>1. ServeAnswer(r)
    BY <1>9 DEF ServeAnswer, Asks
  <2> QED
    BY <2>1, <1>1, <1>2 DEF ServeRequest
<1>10. ASSUME NEW ref \in Number(r.order)
       PROVE  ref \in Nat /\ [order |-> r.order, ref |-> ref] \in accepted
  <2>1. PICK a \in accepted : a.order = r.order /\ ref = a.ref
    BY DEF Number
  <2>2. a \in [order : FemasIds, ref : Nat]
    BY DEF FemasTypes
  <2>3. a = [order |-> r.order, ref |-> ref]
    BY <2>1, <2>2
  <2> QED
    BY <2>1, <2>2, <2>3
<1>11. \/ <1>5!1 \/ <1>6!1 \/ <1>7!1 \/ <1>8!1 \/ <1>9!1
  BY <1>10, Zenon DEF ServeRequest
<1> QED
  BY <1>5, <1>6, <1>7, <1>8, <1>9, <1>11

LEMMA OfFemasMessages ==
  ASSUME NEW kind \in FemasKinds, NEW o \in FemasIds, NEW ref \in Nat, NEW ok \in BOOLEAN
  PROVE  /\ Message(kind, o, ref, ok) \in FemasMessages
         /\ Message(kind, o, ref, ok).kind = kind
         /\ Message(kind, o, ref, ok).order = o
         /\ Message(kind, o, ref, ok).ref = ref
         /\ Message(kind, o, ref, ok).ok = ok
BY DEF Message, FemasMessages

LEMMA OwnMessages ==
  /\ Message("login", None, 0, TRUE) \in FemasMessages
  /\ Message("login", None, 0, TRUE).kind = "login"
  /\ Message("connected", None, 0, TRUE) \in FemasMessages
  /\ Message("connected", None, 0, TRUE).kind = "connected"
BY DEF Message, FemasMessages, FemasKinds, FemasIds

LEMMA SentMessage ==
  ASSUME NEW c \in FemasCalls
  PROVE  /\ Message(c.kind, c.order, c.ref, TRUE) \in FemasMessages
         /\ Message(c.kind, c.order, c.ref, TRUE).kind = c.kind
         /\ Message(c.kind, c.order, c.ref, TRUE).order = c.order
         /\ Message(c.kind, c.order, c.ref, TRUE).ref = c.ref
BY DEF FemasCalls, Message, FemasMessages

\* The requests of Start and of the strategies are read into a call.
LEMMA OldInIds ==
  ASSUME NEW n \in Nat \ {0}, n <= Len(InitOrders)
  PROVE  n \in 1 .. Len(InitOrders) /\ InitOrders[n] \in FemasIds /\ InitOrders[n] \in Earlier
<1>1. n \in 1 .. Len(InitOrders)
  BY OldOrders
<1> QED
  BY <1>1, OldOrders DEF FemasIds

LEMMA InitTypes == FemasInit => FemasTypes
<1> SUFFICES ASSUME FemasInit PROVE FemasTypes
  OBVIOUS
<1>1. call \in [Threads -> FemasCalls]
  <2>1. NoCall \in FemasCalls
    BY DEF NoCall, FemasCalls, FemasIds, FemasKinds
  <2> QED
    BY <2>1 DEF FemasInit
<1>2. accepted \subseteq [order : FemasIds, ref : Nat]
  <2>1. ASSUME NEW n \in DOMAIN InitOrders
        PROVE  [order |-> InitOrders[n], ref |-> n] \in [order : FemasIds, ref : Nat]
    <3>1. n \in 1 .. Len(InitOrders) /\ n \in Nat \ {0} /\ n <= Len(InitOrders)
      BY OldOrders
    <3>2. InitOrders[n] \in FemasIds
      BY <3>1, OldInIds
    <3> QED
      BY <3>1, <3>2
  <2> QED
    BY <2>1 DEF FemasInit
<1>3. outgoing = <<>> /\ answers = <<>> /\ <<>> \in Seq(FemasMessages)
  BY DEF FemasInit
<1>4. largest \in Nat
  BY OldOrders DEF FemasInit
<1>5. DOMAIN m_ordermap \subseteq Nat
  BY DEF FemasInit
<1>6. outgoing \in Seq(FemasMessages) /\ answers \in Seq(FemasMessages)
  BY <1>3
<1>7. /\ mIConnet \in BOOLEAN /\ m_startfinish \in BOOLEAN
      /\ start \in Asks \cup {"connect", "query", "ready", "failed"}
      /\ wait \in {"none", "clear", "flag"}
  BY Zenon DEF FemasInit
<1>9. MaxOrderLocalID \in Nat /\ m_InitQueryNum \in Nat /\ turn \in Nat \ {0}
  <2>1. MaxOrderLocalID = 0 /\ m_InitQueryNum = 0 /\ turn = 1
    BY Zenon DEF FemasInit
  <2> QED
    BY <2>1
<1>8. /\ link \in BOOLEAN /\ session \in BOOLEAN
      /\ astray \in BOOLEAN /\ early \in BOOLEAN /\ calm \in BOOLEAN
  BY DEF FemasInit
<1> QED
  BY <1>1, <1>2, <1>4, <1>5, <1>6, <1>7, <1>8, <1>9 DEF FemasTypes

LEMMA StartTypes == FemasTypes /\ Start => FemasTypes'
<1> SUFFICES ASSUME FemasTypes, Start PROVE FemasTypes'
  OBVIOUS
<1>1. CASE StartConnected
  BY <1>1, OldOrders DEF StartConnected, Goto, FemasTypes, exchange, history
<1>2. CASE StartQuery
  <2>1. turn' \in Nat \ {0} /\ InitOrders[turn] \in FemasIds /\ Begin("main", "query", InitOrders[turn])
    BY <1>2, OldInIds DEF StartQuery, FemasTypes
  <2>2. call' \in [Threads -> FemasCalls]
    BY <2>1, BeginTypes DEF Threads, FemasTypes
  <2> QED
    BY <1>2, <2>1, <2>2 DEF StartQuery, FemasTypes, manager, exchange, history
<1>3. CASE StartQueried
  BY <1>3 DEF StartQueried, Goto, FemasTypes, Asks, manager, exchange, history
<1>4. CASE StartAsk
  <2>1. call' \in [Threads -> FemasCalls]
    <3>1. CASE /\ start \in {"trade", "position"}
               /\ turn <= Len(InitOrders)
               /\ Begin("main", start, InitOrders[turn])
      <4>1. InitOrders[turn] \in FemasIds /\ start \in Asks
        BY <3>1, OldInIds DEF FemasTypes, Asks
      <4> QED
        BY <3>1, <4>1, BeginTypes DEF Threads, FemasTypes
    <3>2. CASE start = "instrument" /\ turn = 1 /\ Begin("main", start, None)
      BY <3>2, BeginTypes DEF Threads, FemasTypes, FemasIds, Asks
    <3> QED
      BY <1>4, <3>1, <3>2 DEF StartAsk
  <2> QED
    BY <1>4, <2>1 DEF StartAsk, FemasTypes, manager, exchange, history
<1>5. CASE StartClear
  BY <1>5 DEF StartClear, FemasTypes, exchange, history
<1>7. CASE StartAnswered
  <2>1. turn' \in Nat \ {0} /\ wait' \in {"none", "clear", "flag"}
    BY <1>7 DEF StartAnswered, FemasTypes
  <2> QED
    BY <1>7, <2>1 DEF StartAnswered, FemasTypes, manager, exchange, history
<1>6. CASE StartNext \/ StartTimeout
  BY <1>6 DEF StartNext, StartTimeout, Goto, FemasTypes, Asks, manager, exchange, history
<1> QED
  BY <1>1, <1>2, <1>3, <1>4, <1>5, <1>6, <1>7 DEF Start

LEMMA RequestTypes ==
  ASSUME NEW t \in Threads, FemasTypes, Request(t)
  PROVE  FemasTypes'
<1>1. call[t] \in FemasCalls
  BY DEF FemasTypes
<1>2. ASSUME NEW o, AddOrderId(o)
      PROVE  DOMAIN m_ordermap' \subseteq Nat
  BY <1>2, MapGrows DEF FemasTypes
<1>3. CASE Map(t)
  <2>1. call' \in [Threads -> FemasCalls]
    BY <1>3, StepCall DEF Map, FemasTypes
  <2> QED
    BY <1>2, <1>3, <2>1 DEF Map, FemasTypes, starting, exchange, history
<1>4. CASE Invalid(t)
  <2>1. call' \in [Threads -> FemasCalls]
    BY <1>4, StepCall DEF Invalid, FemasTypes
  <2> QED
    BY <1>2, <1>4, <2>1 DEF Invalid, FemasTypes, starting, exchange
<1>5. CASE Count(t)
  <2>1. call' \in [Threads -> FemasCalls]
    BY <1>5, StepCall DEF Count, FemasTypes
  <2> QED
    BY <1>5, <2>1 DEF Count, FemasTypes, manager, starting, exchange, history
<1>6. CASE SendRequest(t)
  <2>1. call' \in [Threads -> FemasCalls]
    BY <1>6, StepCall DEF SendRequest, FemasTypes
  <2>2. outgoing' = outgoing \/ outgoing' = Append(outgoing, Message(call[t].kind, call[t].order, call[t].ref, TRUE))
    BY <1>6 DEF SendRequest
  <2>3. Message(call[t].kind, call[t].order, call[t].ref, TRUE) \in FemasMessages
    BY <1>1, OfFemasMessages DEF FemasCalls
  <2>4. outgoing' \in Seq(FemasMessages)
    <3>1. outgoing \in Seq(FemasMessages)
      BY DEF FemasTypes
    <3>2. Append(outgoing, Message(call[t].kind, call[t].order, call[t].ref, TRUE)) \in Seq(FemasMessages)
      BY <3>1, <2>3, AppendElements, ZenonT(40)
    <3> QED
      BY <2>2, <3>1, <3>2
  <2>5. MaxOrderLocalID' \in Nat
    BY <1>1, <1>6 DEF SendRequest, FemasCalls
  <2>6. UNCHANGED <<m_ordermap, mIConnet, m_InitQueryNum, m_startfinish, start, turn, wait,
                    link, session, answers, accepted, largest, astray, early, calm>>
    BY <1>6 DEF SendRequest, starting, history
  <2> QED
    BY <2>1, <2>4, <2>5, <2>6 DEF FemasTypes
<1> QED
  BY <1>3, <1>4, <1>5, <1>6 DEF Request

LEMMA ExchangeTypes ==
  FemasTypes /\ (Callback \/ OnRtn \/ Connect \/ LoseLink \/ ServeRequest) => FemasTypes'
<1> SUFFICES ASSUME FemasTypes, Callback \/ OnRtn \/ Connect \/ LoseLink \/ ServeRequest
             PROVE  FemasTypes'
  OBVIOUS
<1>0. /\ outgoing \in Seq(FemasMessages) /\ answers \in Seq(FemasMessages) /\ <<>> \in Seq(FemasMessages)
      /\ MaxOrderLocalID \in Nat /\ m_InitQueryNum \in Nat /\ m_startfinish \in BOOLEAN
      /\ mIConnet \in BOOLEAN /\ astray \in BOOLEAN /\ calm \in BOOLEAN
      /\ DOMAIN m_ordermap \subseteq Nat
  BY DEF FemasTypes
<1>1. ASSUME NEW o, NEW ref, Tell(o, ref)
      PROVE  astray' \in BOOLEAN
  BY <1>1 DEF Tell
<1>2. CASE Callback
  <2> DEFINE a == Head(answers)
  <2>1. answers # <<>> /\ answers' = Tail(answers)
    BY <1>2 DEF Callback
  <2>2. answers' \in Seq(FemasMessages) /\ a \in FemasMessages
    BY <1>0, <2>1, TailElements
  <2>3. a.ref \in Nat /\ a.ok \in BOOLEAN
    BY <2>2 DEF FemasMessages
  <2>4. UNCHANGED <<starting, call, link, session, accepted, largest, early>>
    BY <1>2 DEF Callback
  <2> HIDE DEF a
  <2>5. /\ MaxOrderLocalID' \in Nat /\ DOMAIN m_ordermap' \subseteq Nat
        /\ mIConnet' \in BOOLEAN /\ m_InitQueryNum' \in Nat
        /\ m_startfinish' \in BOOLEAN
        /\ astray' \in BOOLEAN /\ calm' \in BOOLEAN
        /\ outgoing' \in Seq(FemasMessages)
    <3>1. CASE OnFrontConnected(a)
      <4>1. Message("login", None, 0, TRUE) \in FemasMessages
        BY OfFemasMessages DEF FemasKinds, FemasIds
      <4>2. outgoing' \in Seq(FemasMessages)
        BY <1>0, <3>1, <4>1, AppendElements, Zenon DEF OnFrontConnected
      <4> QED
        BY <1>0, <3>1, <4>2 DEF OnFrontConnected, manager
    <3>2. CASE OnRspUserLogin(a)
      BY <1>0, <2>3, <3>2 DEF OnRspUserLogin
    <3>3. CASE OnRspOrder(a)
      BY <1>0, <1>1, <3>3 DEF OnRspOrder, manager
    <3>4. CASE OnRspQryOrder(a)
      BY <1>0, <1>1, <3>4 DEF OnRspQryOrder
    <3>5. CASE OnRspQry(a)
      BY <1>0, <1>1, <3>5 DEF OnRspQry
    <3> QED
      BY <1>2, <3>1, <3>2, <3>3, <3>4, <3>5, Zenon DEF Callback, a
  <2> QED
    BY <2>2, <2>4, <2>5 DEF FemasTypes, starting
<1>3. CASE OnRtn
  BY <1>0, <1>1, <1>3 DEF OnRtn, FemasTypes, manager, starting, exchange
<1>4. CASE Connect
  <2>1. <<Message("connected", None, 0, TRUE)>> \in Seq(FemasMessages)
    <3>1. Message("connected", None, 0, TRUE) \in FemasMessages
      BY OfFemasMessages DEF FemasKinds, FemasIds
    <3> QED
      BY <3>1, OneElement
  <2> QED
    BY <1>4, <2>1 DEF Connect, FemasTypes, manager, starting, history
<1>5. CASE LoseLink
  BY <1>0, <1>5 DEF LoseLink, FemasTypes, manager, starting, history
<1>6. CASE ServeRequest
  <2>1. /\ outgoing # <<>> /\ outgoing' = Tail(outgoing) /\ Head(outgoing) \in FemasMessages
        /\ ServeAnswer(Head(outgoing))
        /\ UNCHANGED <<manager, starting, call, link, history, bounds>>
    BY <1>6, ServeAnswers
  <2> DEFINE r == Head(outgoing)
  <2>2. r.kind \in FemasKinds /\ r.order \in FemasIds /\ r.ref \in Nat
    BY <2>1 DEF FemasMessages
  <2> HIDE DEF r
  <2>3. outgoing' \in Seq(FemasMessages)
    BY <1>0, <2>1, TailElements
  <2>4. /\ answers' \in Seq(FemasMessages) /\ session' \in BOOLEAN
        /\ accepted' \subseteq [order : FemasIds, ref : Nat] /\ largest' \in Nat
    <3>1. CASE answers' = answers /\ UNCHANGED <<session, accepted, largest>>
      BY <3>1 DEF FemasTypes
    <3>2. CASE ~(answers' = answers /\ UNCHANGED <<session, accepted, largest>>)
      <4>1. PICK o \in FemasIds, ref \in Nat, ok \in BOOLEAN :
              /\ answers' = Append(answers, Message(r.kind, o, ref, ok))
              /\ session' \in BOOLEAN
              /\ \/ UNCHANGED <<accepted, largest>>
                 \/ /\ accepted' = accepted \cup {[order |-> r.order, ref |-> r.ref]}
                    /\ largest' = r.ref
        BY <2>1, <3>2, Zenon DEF ServeAnswer, r
      <4>2. answers' \in Seq(FemasMessages)
        BY <1>0, <2>2, <4>1, OfFemasMessages, AppendElements, Zenon
      <4> QED
        BY <2>2, <4>1, <4>2 DEF FemasTypes
    <3> QED
      BY <3>1, <3>2
  <2> QED
    BY <2>1, <2>3, <2>4 DEF FemasTypes, manager, starting, history
<1> QED
  BY <1>2, <1>3, <1>4, <1>5, <1>6

LEMMA NextTypes == FemasTypes /\ [FemasNext]_femasVars => FemasTypes'
<1> SUFFICES ASSUME FemasTypes, [FemasNext]_femasVars PROVE FemasTypes'
  OBVIOUS
<1>1. CASE Strategy
  <2>1. PICK o \in Orders, kind \in {"add", "invalid", "delete", "query"} :
          AddOrder(o, kind) \/ DeleteOrQuery(o, kind)
    BY <1>1 DEF Strategy
  <2>2. call' \in [Threads -> FemasCalls]
    <3>1. Begin("strategy", kind, o)
      BY <2>1 DEF AddOrder, DeleteOrQuery
    <3> QED
      BY <3>1, BeginTypes DEF Threads, FemasTypes, FemasIds
  <2> QED
    BY <2>1, <2>2 DEF AddOrder, DeleteOrQuery, FemasTypes, manager, starting, exchange
<1>2. CASE UNCHANGED femasVars
  BY <1>2 DEF FemasTypes, femasVars, manager, starting, exchange, history
<1> QED
  BY <1>1, <1>2, StartTypes, RequestTypes, ExchangeTypes DEF FemasNext

-----------------------------------------------------------------------------
(* Who is in the middle of a request.                                      *)

LEMMA InitBusy == FemasInit => Busy
BY OldOrders DEF FemasInit, Busy, Turns, MainBusy, StrategyBusy, Idle, Threads, NoCall

\* Start begins a request ...
LEMMA BeginBusy ==
  ASSUME FemasTypes, Busy, StartQuery \/ StartAsk, start # "failed"
  PROVE  /\ Busy' /\ ~Idle("main")' /\ Idle("main")
         /\ call'["main"].ref = MaxOrderLocalID
         /\ call'["strategy"] = call["strategy"]
         /\ \/ start = "query" /\ call'["main"].at = "map" /\ call'["main"].kind = "query"
            \/ start \in Asks /\ call'["main"].at = "count" /\ call'["main"].kind = start
<1>1. call \in [Threads -> FemasCalls] /\ "main" \in Threads /\ "strategy" \in Threads \ {"main"}
  BY DEF FemasTypes, Threads
<1>2. turn \in Nat \ {0} /\ Len(InitOrders) \in Nat
  BY OldOrders DEF FemasTypes
<1>3. CASE StartQuery
  <2>1. Begin("main", "query", InitOrders[turn])
    BY <1>3 DEF StartQuery
  <2>2. /\ Idle("main")
        /\ call'["main"].at = "map" /\ call'["main"].kind = "query"
        /\ call'["main"].order = InitOrders[turn]
        /\ call'["main"].ref = MaxOrderLocalID
        /\ call'["strategy"] = call["strategy"]
    <3>1. "query" \notin Asks
      BY DEF Asks
    <3> QED
      BY <1>1, <2>1, <3>1, BeginMain
  <2>3. /\ turn' = turn + 1 /\ turn <= Len(InitOrders) /\ start = "query"
        /\ UNCHANGED <<start, wait, early>>
    BY <1>3 DEF StartQuery, history
  <2>4. Turns'
    BY <1>2, <2>3 DEF Busy, Turns, Asks
  <2>5. MainBusy'
    <3>1. turn' - 1 = turn /\ turn' > 1
      BY <1>2, <2>3
    <3> QED
      BY <2>2, <2>3, <3>1 DEF MainBusy
  <2>6. StrategyBusy'
    BY <2>2, <2>3 DEF Busy, StrategyBusy, Idle
  <2> QED
    BY <2>2, <2>3, <2>4, <2>5, <2>6 DEF Busy, Idle
<1>4. CASE StartAsk
  <2>1. /\ start \in Asks /\ Begin("main", start, Current)
        /\ start \in {"trade", "position"} => turn <= Len(InitOrders)
        /\ start = "instrument" => turn = 1
    BY <1>4 DEF StartAsk, Asks, Current
  <2>2. /\ Idle("main")
        /\ call'["main"].at = "count" /\ call'["main"].kind = start
        /\ call'["main"].order = Current
        /\ call'["main"].ref = MaxOrderLocalID
        /\ call'["strategy"] = call["strategy"]
    BY <1>1, <2>1, BeginMain
  <2>3. wait' = "clear" /\ UNCHANGED <<start, turn, early>>
    BY <1>4 DEF StartAsk, history
  <2>4. Turns'
    BY <2>1, <2>3 DEF Busy, Turns
  <2>5. MainBusy'
    BY <2>1, <2>2, <2>3 DEF MainBusy, Current
  <2>6. StrategyBusy'
    BY <2>2, <2>3 DEF Busy, StrategyBusy, Idle
  <2> QED
    BY <2>1, <2>2, <2>3, <2>4, <2>5, <2>6 DEF Busy, Idle
<1> QED
  BY <1>3, <1>4

\* ... and goes on when it is over.
LEMMA StartOnBusy ==
  ASSUME FemasTypes, Busy, start # "failed",
         \/ StartConnected \/ StartQueried \/ StartClear \/ StartAnswered
         \/ StartNext \/ StartTimeout
  PROVE  /\ Busy' /\ UNCHANGED <<call, early>> /\ Idle("main")
         /\ start = "ready" => start' = "ready"
<1>1. turn \in Nat \ {0} /\ Len(InitOrders) \in Nat
  BY OldOrders DEF FemasTypes
<1>2. CASE StartConnected
  BY <1>1, <1>2 DEF StartConnected, Goto, Busy, Turns, MainBusy, StrategyBusy, Idle,
     Asks, history
<1>3. CASE StartQueried
  BY <1>1, <1>3 DEF StartQueried, Goto, Busy, Turns, MainBusy, StrategyBusy, Idle,
     Asks, history
<1>4. CASE StartClear
  BY <1>1, <1>4 DEF StartClear, Busy, Turns, MainBusy, StrategyBusy, Idle, history
<1>5. CASE StartAnswered
  <2>1. /\ wait = "flag" /\ wait' = "none" /\ turn' = turn + 1
        /\ UNCHANGED <<start, call, early>>
    BY <1>5 DEF StartAnswered, history
  <2>2. start \in Asks
    BY <2>1 DEF Busy, Turns
  <2> QED
    BY <1>1, <2>1, <2>2 DEF Busy, Turns, MainBusy, StrategyBusy, Idle, Asks
<1>6. CASE StartNext
  BY <1>1, <1>6 DEF StartNext, Goto, Busy, Turns, MainBusy, StrategyBusy, Idle, Asks,
     history
<1>7. CASE StartTimeout
  <2>1. /\ Idle("main") /\ start' = "failed" /\ UNCHANGED <<turn, wait, call, early>>
        /\ start # "ready"
    BY <1>7 DEF StartTimeout, history, Busy, Turns, Asks
  <2> QED
    BY <2>1 DEF Busy, Turns, MainBusy, StrategyBusy, Idle
<1> QED
  BY <1>2, <1>3, <1>4, <1>5, <1>6, <1>7

LEMMA NextBusy ==
  ASSUME FemasTypes, Busy, [FemasNext]_femasVars
  PROVE  Busy'
<1>0. call \in [Threads -> FemasCalls] /\ Threads = {"main", "strategy"}
  BY DEF FemasTypes, Threads
<1>1. ASSUME Start, start # "failed" PROVE Busy'
  BY <1>1, BeginBusy, StartOnBusy, Zenon DEF Start
<1>2. ASSUME NEW t \in Threads, Request(t)
      PROVE  Busy'
  <2>1. /\ ~Idle(t)' => /\ call'[t].kind = call[t].kind
                        /\ call'[t].order = call[t].order
        /\ \A u \in Threads \ {t} : call'[u] = call[u]
        /\ UNCHANGED <<start, turn, wait, early>> /\ ~Idle(t)
    BY <1>2, RequestCall DEF starting
  <2>2. Turns'
    BY <2>1 DEF Busy, Turns
  <2>3. MainBusy'
    BY <1>0, <2>1 DEF Busy, MainBusy, Idle, Current
  <2>4. StrategyBusy'
    BY <1>0, <2>1 DEF Busy, StrategyBusy, Idle
  <2> QED
    BY <2>2, <2>3, <2>4 DEF Busy
<1>3. CASE Strategy
  <2>1. PICK o \in Orders, kind \in {"add", "invalid", "delete", "query"} :
          AddOrder(o, kind) \/ DeleteOrQuery(o, kind)
    BY <1>3 DEF Strategy
  <2>2. /\ Begin("strategy", kind, o) /\ UNCHANGED starting
        /\ early' = (early \/ start # "ready")
    BY <2>1 DEF AddOrder, DeleteOrQuery
  <2>3. /\ call'["strategy"].kind = kind /\ call'["strategy"].order = o
        /\ call'["main"] = call["main"]
    <3>1. "strategy" \in Threads /\ "main" \in Threads \ {"strategy"}
      BY <1>0
    <3> QED
      BY <1>0, <3>1, <2>2, BeginCall, Zenon
  <2> QED
    BY <2>2, <2>3 DEF Busy, Turns, MainBusy, StrategyBusy, Idle, Current, starting
<1>4. CASE UNCHANGED <<starting, call, early>>
  BY <1>4 DEF Busy, Turns, MainBusy, StrategyBusy, Idle, Current, starting
<1> QED
  BY <1>1, <1>2, <1>3, <1>4
     DEF FemasNext, Callback, OnRtn, Connect, LoseLink, ServeRequest, femasVars, history

-----------------------------------------------------------------------------
(* There is only the request that Start waits for.                         *)

LEMMA TailAsks ==
  ASSUME NEW s \in Seq(FemasMessages), s # <<>>, NEW kind, NEW o
  PROVE  /\ NoAsks(s) => NoAsks(Tail(s)) /\ Head(s).kind \notin Asks
         /\ OnlyAsk(s, kind, o) => OnlyAsk(Tail(s), kind, o)
         /\ OnlyAsk(s, kind, o) /\ Head(s).kind \in Asks =>
              /\ Head(s).kind = kind /\ Head(s).order = o
              /\ NoAsks(Tail(s))
<1>1. /\ Len(s) \in Nat \ {0} /\ Head(s) = s[1] /\ DOMAIN s = 1 .. Len(s)
      /\ DOMAIN Tail(s) = 1 .. Len(s) - 1
      /\ \A n \in 1 .. Len(s) - 1 : Tail(s)[n] = s[n + 1]
  BY TailElements
<1>2. 1 \in DOMAIN s
  BY <1>1
<1>3. ASSUME NEW n \in DOMAIN Tail(s)
      PROVE  n + 1 \in DOMAIN s /\ n + 1 # 1 /\ Tail(s)[n] = s[n + 1] /\ n \in Nat
  BY <1>1
<1>4. NoAsks(s) => NoAsks(Tail(s)) /\ Head(s).kind \notin Asks
  BY <1>1, <1>2, <1>3 DEF NoAsks
<1>5. ASSUME OnlyAsk(s, kind, o)
      PROVE  OnlyAsk(Tail(s), kind, o)
  <2> SUFFICES ASSUME NEW n \in DOMAIN Tail(s), Tail(s)[n].kind \in Asks
               PROVE  /\ Tail(s)[n].kind = kind /\ Tail(s)[n].order = o
                      /\ \A m \in DOMAIN Tail(s) : Tail(s)[m].kind \in Asks => m = n
    BY DEF OnlyAsk
  <2>1. s[n + 1].kind = kind /\ s[n + 1].order = o
    BY <1>3, <1>5 DEF OnlyAsk
  <2>2. ASSUME NEW m \in DOMAIN Tail(s), Tail(s)[m].kind \in Asks
        PROVE  m = n
    <3>1. m + 1 = n + 1
      BY <1>3, <1>5, <2>2 DEF OnlyAsk
    <3> QED
      BY <3>1, <1>3
  <2> QED
    BY <2>1, <2>2, <1>3
<1>6. ASSUME OnlyAsk(s, kind, o), Head(s).kind \in Asks
      PROVE  Head(s).kind = kind /\ Head(s).order = o /\ NoAsks(Tail(s))
  BY <1>1, <1>2, <1>3, <1>6 DEF OnlyAsk, NoAsks
<1> QED
  BY <1>4, <1>5, <1>6

LEMMA AppendAsks ==
  ASSUME NEW s \in Seq(FemasMessages), NEW e \in FemasMessages, NEW kind, NEW o
  PROVE  /\ NoAsks(s) /\ e.kind \notin Asks => NoAsks(Append(s, e))
         /\ OnlyAsk(s, kind, o) /\ e.kind \notin Asks =>
              OnlyAsk(Append(s, e), kind, o)
         /\ NoAsks(s) /\ e.kind = kind /\ e.order = o =>
              OnlyAsk(Append(s, e), kind, o)
<1>1. \A n \in DOMAIN Append(s, e) :
        \/ n \in DOMAIN s /\ Append(s, e)[n] = s[n]
        \/ n = Len(s) + 1 /\ n \notin DOMAIN s /\ Append(s, e)[n] = e
  BY AppendAll
<1> QED
  BY <1>1, Zenon DEF NoAsks, OnlyAsk

LEMMA NoneAsked ==
  ASSUME NEW s, NoAsks(s), NEW kind, NEW o
  PROVE  OnlyAsk(s, kind, o)
BY DEF NoAsks, OnlyAsk

\* The steps of Start and of the threads leave the messages alone, but for a
\* request that is sent.
LEMMA StartOneAsked ==
  ASSUME FemasTypes, Busy, OneAsked, start # "failed", Start
  PROVE  OneAsked'
<1>1. UNCHANGED <<outgoing, answers, answered>>
  BY DEF Start, StartConnected, StartQuery, StartQueried, StartAsk, StartClear,
         StartAnswered, StartNext, StartTimeout, exchange, history
<1>2. (NoAsks(outgoing) <=> NoAsks(outgoing)') /\ (NoAsks(answers) <=> NoAsks(answers)')
  BY <1>1 DEF NoAsks
<1>3. CASE wait = "none" /\ (start = start' => wait' # "flag")
  <2>1. NoAsks(outgoing)' /\ NoAsks(answers)'
    BY <1>2, <1>3 DEF OneAsked
  <2>2. wait' # "flag"
    BY <1>3 DEF Start, StartConnected, StartQuery, StartQueried, StartAsk, StartClear,
         StartAnswered, StartNext, StartTimeout
  <2> QED
    BY <2>1, <2>2, NoneAsked, Zenon DEF OneAsked, NoAsks, OnlyAsk
<1>4. CASE StartClear
  <2>1. UNCHANGED <<start, turn, call>> /\ wait' = "flag" /\ ~m_startfinish'
        /\ wait = "clear"
    BY <1>4 DEF StartClear
  <2>2. Current' = Current /\ Idle("main")' = Idle("main")
    BY <2>1 DEF Current, Idle
  <2>3. OnlyAsk(outgoing, start, Current)' /\ OnlyAsk(answers, start, Current)'
    BY <1>1, <2>1, <2>2 DEF OneAsked, OnlyAsk
  <2> QED
    BY <1>2, <2>1, <2>2, <2>3 DEF OneAsked
<1>5. CASE StartAnswered
  <2>1. NoAsks(outgoing)' /\ NoAsks(answers)' /\ wait' = "none"
    BY <1>2, <1>5 DEF OneAsked, StartAnswered
  <2> QED
    BY <2>1 DEF OneAsked, NoAsks, OnlyAsk
<1>6. CASE StartTimeout
  BY <1>6 DEF StartTimeout, OneAsked
<1>7. ASSUME StartConnected \/ StartQuery \/ StartQueried \/ StartAsk \/ StartNext
      PROVE  wait = "none" /\ wait' # "flag"
  BY <1>7 DEF StartConnected, StartQuery, StartQueried, StartAsk, StartNext, Goto,
     Busy, Turns, Asks
<1> QED
  BY <1>3, <1>4, <1>5, <1>6, <1>7 DEF Start

LEMMA RequestOneAsked ==
  ASSUME NEW t \in Threads, FemasTypes, Busy, OneAsked, start # "failed", Request(t)
  PROVE  OneAsked'
<1>1. /\ UNCHANGED <<start, turn, wait, answered>> /\ ~Idle(t)
      /\ \A u \in Threads \ {t} : call'[u] = call[u]
  BY RequestCall DEF starting
<1>2. UNCHANGED <<answers, m_startfinish>> /\ Current' = Current
  <2>1. UNCHANGED <<answers, m_startfinish>>
    <3>1. Map(t) => UNCHANGED <<answers, m_startfinish>>
      BY DEF Map, exchange
    <3>2. Invalid(t) => UNCHANGED <<answers, m_startfinish>>
      BY DEF Invalid, exchange
    <3>3. Count(t) => UNCHANGED <<answers, m_startfinish>>
      BY DEF Count, manager, exchange
    <3>4. SendRequest(t) => UNCHANGED <<answers, m_startfinish>>
      BY DEF SendRequest
    <3> QED
      BY <3>1, <3>2, <3>3, <3>4 DEF Request
  <2> QED
    BY <1>1, <2>1 DEF Current
<1>3. /\ NoAsks(answers)' <=> NoAsks(answers)
      /\ OnlyAsk(answers, start, Current)' <=> OnlyAsk(answers, start, Current)
  BY <1>1, <1>2 DEF NoAsks, OnlyAsk
<1>4. Threads = {"main", "strategy"}
  BY DEF Threads
<1>5. t = "strategy" => Idle("main")' = Idle("main")
  BY <1>1, <1>4 DEF Idle
<1>6. t = "main" => NoAsks(outgoing) /\ NoAsks(answers)
  BY <1>1 DEF OneAsked
<1>7. CASE outgoing' = outgoing
  <2>1. /\ NoAsks(outgoing)' <=> NoAsks(outgoing)
        /\ OnlyAsk(outgoing, start, Current)' <=> OnlyAsk(outgoing, start, Current)
    BY <1>1, <1>2, <1>7 DEF NoAsks, OnlyAsk
  <2> QED
    BY <1>1, <1>2, <1>3, <1>4, <1>5, <1>6, <2>1 DEF OneAsked
<1>8. CASE /\ outgoing' = Append(outgoing, Message(call[t].kind, call[t].order, call[t].ref, TRUE))
           /\ call' = [call EXCEPT ![t] = NoCall]
  <2> DEFINE e == Message(call[t].kind, call[t].order, call[t].ref, TRUE)
  <2>1. outgoing \in Seq(FemasMessages) /\ e \in FemasMessages /\ e.kind = call[t].kind /\ e.order = call[t].order
    BY SentMessage DEF FemasTypes
  <2>2. outgoing' = Append(outgoing, e)
    BY <1>8
  <2> HIDE DEF e
  <2>3. CASE e.kind \notin Asks
    <3>1. NoAsks(outgoing) => NoAsks(outgoing)'
      BY <2>1, <2>2, <2>3, AppendAsks DEF NoAsks
    <3>2. OnlyAsk(outgoing, start, Current) => OnlyAsk(outgoing', start, Current)
      BY <2>1, <2>2, <2>3, AppendAsks
    <3>3. OnlyAsk(outgoing', start, Current) => OnlyAsk(outgoing, start, Current)'
      BY <1>1, <1>2 DEF OnlyAsk
    <3> QED
      BY <1>1, <1>2, <1>3, <1>4, <1>5, <1>6, <3>1, <3>2, <3>3 DEF OneAsked
  <2>4. CASE e.kind \in Asks
    <3>1. t = "main" /\ e.kind = start /\ e.order = Current /\ wait = "clear"
      BY <1>1, <1>4, <2>1, <2>4 DEF Busy, MainBusy, StrategyBusy, Asks
    <3>2. NoAsks(outgoing) /\ NoAsks(answers)
      BY <1>6, <3>1
    <3>3. OnlyAsk(outgoing', start, Current)
      BY <2>1, <2>2, <3>1, <3>2, AppendAsks
    <3>4. OnlyAsk(outgoing, start, Current)'
      BY <1>1, <1>2, <3>3 DEF OnlyAsk
    <3>5. Idle("main")'
      BY <1>8, <3>1 DEF Idle, NoCall, FemasTypes
    <3> QED
      BY <1>1, <1>2, <1>3, <3>1, <3>2, <3>4, <3>5 DEF OneAsked
  <2> QED
    BY <2>3, <2>4
<1> QED
  BY <1>7, <1>8 DEF Request, Map, Invalid, Count, SendRequest, exchange

\* A callback takes the answer; only a login request is sent by one.
LEMMA CallbackOneAsked ==
  ASSUME FemasTypes, OneAsked, start # "failed", Callback
  PROVE  OneAsked'
<1> DEFINE a == Head(answers)
<1>1. /\ answers # <<>> /\ answers' = Tail(answers)
      /\ UNCHANGED <<start, turn, wait, call>>
      /\ \/ OnFrontConnected(a) \/ OnRspUserLogin(a) \/ OnRspOrder(a)
         \/ OnRspQryOrder(a) \/ OnRspQry(a)
  BY DEF Callback, starting
<1>2. answers \in Seq(FemasMessages) /\ outgoing \in Seq(FemasMessages) /\ a \in FemasMessages
  BY <1>1, TailElements DEF FemasTypes
<1>3. Current' = Current /\ Idle("main")' = Idle("main")
  BY <1>1 DEF Current, Idle
<1>4. /\ NoAsks(answers) => NoAsks(answers') /\ a.kind \notin Asks
      /\ OnlyAsk(answers, start, Current) => OnlyAsk(answers', start, Current)
      /\ OnlyAsk(answers, start, Current) /\ a.kind \in Asks =>
           a.kind = start /\ a.order = Current /\ NoAsks(answers')
  BY <1>1, <1>2, TailAsks, Zenon
<1> HIDE DEF a
<1>5. /\ NoAsks(outgoing) => NoAsks(outgoing')
      /\ OnlyAsk(outgoing, start, Current) => OnlyAsk(outgoing', start, Current)
  <2>1. CASE OnFrontConnected(a)
    <3>1. Message("login", None, 0, TRUE) \in FemasMessages /\ Message("login", None, 0, TRUE).kind \notin Asks
      BY OwnMessages DEF Asks
    <3> QED
      BY <1>2, <2>1, <3>1, AppendAsks, Zenon DEF OnFrontConnected
  <2>2. CASE outgoing' = outgoing
    BY <2>2
  <2> QED
    BY <1>1, <2>1, <2>2 DEF OnRspUserLogin, OnRspOrder, OnRspQryOrder, OnRspQry
<1>6. /\ NoAsks(outgoing)' <=> NoAsks(outgoing')
      /\ NoAsks(answers)' <=> NoAsks(answers')
      /\ OnlyAsk(outgoing, start, Current)' <=> OnlyAsk(outgoing', start, Current)
      /\ OnlyAsk(answers, start, Current)' <=> OnlyAsk(answers', start, Current)
  BY <1>1, <1>3 DEF NoAsks, OnlyAsk
<1>7. /\ answered \subseteq answered'
      /\ \/ m_startfinish' = m_startfinish
         \/ a.kind \in Asks /\ <<a.kind, a.order>> \in answered'
  BY <1>1 DEF OnFrontConnected, OnRspUserLogin, OnRspOrder, OnRspQryOrder, OnRspQry,
     manager, Asks
<1>8. /\ NoAsks(outgoing') \/ NoAsks(answers')
      /\ OnlyAsk(outgoing', start, Current) /\ OnlyAsk(answers', start, Current)
      /\ wait = "none" \/ ~Idle("main") => NoAsks(outgoing') /\ NoAsks(answers')
  BY <1>4, <1>5 DEF OneAsked
<1>9. ASSUME wait = "flag", m_startfinish'
      PROVE  <<start, Current>> \in answered' /\ NoAsks(outgoing') /\ NoAsks(answers')
  <2>1. CASE m_startfinish
    BY <1>4, <1>5, <1>7, <1>9, <2>1 DEF OneAsked
  <2>2. CASE a.kind \in Asks /\ <<a.kind, a.order>> \in answered'
    <3>1. ~NoAsks(answers) /\ NoAsks(outgoing)
      BY <1>4, <2>2 DEF OneAsked
    <3> QED
      BY <1>4, <1>5, <2>2, <3>1 DEF OneAsked
  <2> QED
    BY <1>7, <1>9, <2>1, <2>2
<1> QED
  BY <1>1, <1>3, <1>6, <1>8, <1>9, Zenon DEF OneAsked

\* An answer takes the place of its request.
LEMMA ServeOneAsked ==
  ASSUME FemasTypes, OneAsked, start # "failed", ServeRequest
  PROVE  OneAsked'
<1> DEFINE r == Head(outgoing)
<1>1. /\ outgoing # <<>> /\ outgoing' = Tail(outgoing) /\ r \in FemasMessages /\ ServeAnswer(r)
      /\ UNCHANGED <<start, turn, wait, call, answered, m_startfinish>>
  BY ServeAnswers DEF starting, manager, history
<1>2. answers \in Seq(FemasMessages) /\ outgoing \in Seq(FemasMessages)
  BY DEF FemasTypes
<1>3. Current' = Current /\ Idle("main")' = Idle("main")
  BY <1>1 DEF Current, Idle
<1>4. /\ NoAsks(outgoing) => NoAsks(outgoing') /\ r.kind \notin Asks
      /\ OnlyAsk(outgoing, start, Current) => OnlyAsk(outgoing', start, Current)
      /\ OnlyAsk(outgoing, start, Current) /\ r.kind \in Asks =>
           r.kind = start /\ r.order = Current /\ NoAsks(outgoing')
  BY <1>1, <1>2, TailAsks, Zenon
<1> HIDE DEF r
<1>5. /\ NoAsks(answers) /\ r.kind \notin Asks => NoAsks(answers')
      /\ OnlyAsk(answers, start, Current) /\ r.kind \notin Asks =>
           OnlyAsk(answers', start, Current)
      /\ NoAsks(answers) /\ r.kind = start /\ r.order = Current =>
           OnlyAsk(answers', start, Current)
  <2>1. CASE answers' = answers
    BY <2>1, NoneAsked
  <2>2. CASE answers' # answers
    <3>1. PICK o \in FemasIds, ref \in Nat, ok \in BOOLEAN :
            /\ answers' = Append(answers, Message(r.kind, o, ref, ok))
            /\ r.kind # "login" => o = r.order
      BY <1>1, <2>2, Zenon DEF ServeAnswer
    <3> DEFINE e == Message(r.kind, o, ref, ok)
    <3>2. e \in FemasMessages /\ e.kind = r.kind /\ e.order = o
      BY <1>1, OfFemasMessages DEF FemasMessages
    <3>3. start = "login" => FALSE
      BY DEF FemasTypes, Asks
    <3> HIDE DEF e
    <3>4. answers' = Append(answers, e)
      BY <3>1 DEF e
    <3> QED
      BY <1>2, <3>1, <3>2, <3>3, <3>4, AppendAsks, Zenon
  <2> QED
    BY <2>1, <2>2
<1>6. /\ NoAsks(outgoing)' <=> NoAsks(outgoing')
      /\ NoAsks(answers)' <=> NoAsks(answers')
      /\ OnlyAsk(outgoing, start, Current)' <=> OnlyAsk(outgoing', start, Current)
      /\ OnlyAsk(answers, start, Current)' <=> OnlyAsk(answers', start, Current)
  BY <1>1, <1>3 DEF NoAsks, OnlyAsk
<1>7. /\ NoAsks(outgoing') \/ NoAsks(answers')
      /\ OnlyAsk(outgoing', start, Current) /\ OnlyAsk(answers', start, Current)
      /\ wait = "none" \/ ~Idle("main") => NoAsks(outgoing') /\ NoAsks(answers')
      /\ wait = "flag" /\ m_startfinish =>
           /\ <<start, Current>> \in answered
           /\ NoAsks(outgoing') /\ NoAsks(answers')
  BY <1>4, <1>5 DEF OneAsked
<1> QED
  BY <1>1, <1>3, <1>6, <1>7, Zenon DEF OneAsked

LEMMA NextOneAsked ==
  ASSUME FemasTypes, Busy, OneAsked, [FemasNext]_femasVars
  PROVE  OneAsked'
<1>1. CASE UNCHANGED <<start, turn, wait, m_startfinish, outgoing, answers, answered>>
           /\ call'["main"] = call["main"]
  BY <1>1 DEF OneAsked, NoAsks, OnlyAsk, Current, Idle
<1>2. CASE OnRtn
  BY <1>1, <1>2 DEF OnRtn, manager, starting, exchange
<1>3. CASE Strategy
  <2>1. PICK o \in Orders, kind \in {"add", "invalid", "delete", "query"} :
          AddOrder(o, kind) \/ DeleteOrQuery(o, kind)
    BY <1>3 DEF Strategy
  <2>2. /\ Begin("strategy", kind, o)
        /\ UNCHANGED <<start, turn, wait, m_startfinish, outgoing, answers, answered>>
    BY <2>1 DEF AddOrder, DeleteOrQuery, manager, starting, exchange
  <2>3. call'["main"] = call["main"]
    BY <2>2 DEF Begin, FemasTypes, Threads
  <2> QED
    BY <1>1, <2>2, <2>3
<1>4. ASSUME Connect, start # "failed"
      PROVE  OneAsked'
  <2> DEFINE m == Message("connected", None, 0, TRUE)
  <2>1. /\ answers' = <<m>>
        /\ UNCHANGED <<start, turn, wait, m_startfinish, outgoing, answered, call>>
    BY <1>4 DEF Connect, manager, starting, history
  <2>2. NoAsks(<<m>>)
    <3>1. m \in FemasMessages /\ m.kind = "connected"
      BY OwnMessages
    <3> HIDE DEF m
    <3>2. DOMAIN <<m>> = {1} /\ <<m>>[1] = m
      BY <3>1, OneElement
    <3> QED
      BY <3>1, <3>2 DEF NoAsks, Asks
  <2>3. NoAsks(answers)' /\ (NoAsks(outgoing) => NoAsks(outgoing)')
    BY <2>1, <2>2 DEF NoAsks
  <2>4. OnlyAsk(outgoing, start, Current)' /\ OnlyAsk(answers, start, Current)'
    <3>1. OnlyAsk(outgoing, start, Current) /\ Current' = Current
      BY <1>4, <2>1 DEF OneAsked, Current
    <3>2. OnlyAsk(outgoing, start, Current)'
      BY <2>1, <3>1 DEF OnlyAsk
    <3> QED
      BY <2>3, <3>2 DEF NoAsks, OnlyAsk
  <2> QED
    BY <1>4, <2>1, <2>3, <2>4 DEF OneAsked, Current, Idle
<1>5. ASSUME LoseLink, start # "failed"
      PROVE  OneAsked'
  <2>1. /\ answers' = <<>> /\ outgoing' = <<>>
        /\ UNCHANGED <<start, turn, wait, m_startfinish, answered, call>>
    BY <1>5 DEF LoseLink, manager, starting, history
  <2>2. NoAsks(answers)' /\ NoAsks(outgoing)'
    BY <2>1 DEF NoAsks
  <2>3. OnlyAsk(outgoing, start, Current)' /\ OnlyAsk(answers, start, Current)'
    BY <2>2 DEF NoAsks, OnlyAsk
  <2> QED
    BY <1>5, <2>1, <2>2, <2>3 DEF OneAsked, Current
<1>6. CASE UNCHANGED femasVars
  BY <1>1, <1>6 DEF femasVars, manager, starting, exchange, history
<1> QED
  BY <1>2, <1>3, <1>4, <1>5, <1>6, StartOneAsked, RequestOneAsked, CallbackOneAsked,
     ServeOneAsked DEF FemasNext

-----------------------------------------------------------------------------
(* The queries and their answers stay in sequence.                         *)

LEMMA SequenceAppend ==
  ASSUME NEW s \in Seq(FemasMessages), NEW e \in FemasMessages,
         NEW g \in Seq(OldNumbers), NEW x \in OldNumbers, NEW low \in Nat, NEW high \in Int,
         InSequence(s, g, low, high),
         e.kind = "query" =>
           /\ low < x /\ x <= high /\ e.order = InitOrders[x]
           /\ \A m \in DOMAIN s : s[m].kind = "query" => g[m] < x
  PROVE  /\ Append(g, x) \in Seq(OldNumbers)
         /\ InSequence(Append(s, e), Append(g, x), low, high)
<1>0. \A n \in DOMAIN Append(s, e) : n \in DOMAIN s \/ n = Len(s) + 1
  BY AppendAll
<1>1. /\ Len(Append(s, e)) = Len(s) + 1 /\ Len(s) \in Nat /\ DOMAIN s = 1 .. Len(s)
      /\ DOMAIN Append(s, e) = 1 .. Len(s) + 1
      /\ \A n \in 1 .. Len(s) : Append(s, e)[n] = s[n]
      /\ Append(s, e)[Len(s) + 1] = e
  BY AppendElements
<1>2. /\ Append(g, x) \in Seq(OldNumbers) /\ Len(Append(g, x)) = Len(g) + 1
      /\ \A n \in 1 .. Len(g) : Append(g, x)[n] = g[n]
      /\ Append(g, x)[Len(g) + 1] = x
  BY AppendElements
<1>3. Len(g) = Len(s)
  BY DEF InSequence
<1>4. ASSUME NEW n \in DOMAIN Append(s, e), Append(s, e)[n].kind = "query"
      PROVE  /\ low < Append(g, x)[n] /\ Append(g, x)[n] <= high
             /\ Append(s, e)[n].order = InitOrders[Append(g, x)[n]]
  <2>1. CASE n \in DOMAIN s
    <3>1. Append(s, e)[n] = s[n] /\ Append(g, x)[n] = g[n]
      BY <1>1, <1>2, <1>3, <2>1
    <3> QED
      BY <1>4, <2>1, <3>1 DEF InSequence
  <2>2. CASE n = Len(s) + 1
    <3>1. Append(s, e)[n] = e /\ Append(g, x)[n] = x
      BY <1>1, <1>2, <1>3, <2>2
    <3> QED
      BY <1>4, <3>1
  <2> QED
    BY <1>0, <2>1, <2>2, Zenon
<1>5. ASSUME NEW m \in DOMAIN Append(s, e), NEW n \in DOMAIN Append(s, e), m < n,
             Append(s, e)[m].kind = "query", Append(s, e)[n].kind = "query"
      PROVE  Append(g, x)[m] < Append(g, x)[n]
  <2>0. /\ m \in DOMAIN s
        /\ Append(s, e)[m] = s[m] /\ Append(g, x)[m] = g[m]
    BY <1>1, <1>2, <1>3, <1>5
  <2>1. CASE n \in DOMAIN s
    <3>1. Append(s, e)[n] = s[n] /\ Append(g, x)[n] = g[n]
      BY <1>1, <1>2, <1>3, <2>1
    <3> QED
      BY <1>5, <2>0, <2>1, <3>1 DEF InSequence
  <2>2. CASE n = Len(s) + 1
    <3>1. Append(s, e)[n] = e /\ Append(g, x)[n] = x
      BY <1>1, <1>2, <1>3, <2>2
    <3> QED
      BY <1>5, <2>0, <3>1
  <2> QED
    BY <1>0, <2>1, <2>2, Zenon
<1>6. Len(Append(g, x)) = Len(Append(s, e))
  BY <1>1, <1>2, <1>3
<1> QED
  BY <1>2, <1>4, <1>5, <1>6 DEF InSequence

LEMMA SequenceTail ==
  ASSUME NEW s \in Seq(FemasMessages), s # <<>>, NEW g \in Seq(OldNumbers),
         NEW low, NEW high, InSequence(s, g, low, high)
  PROVE  /\ g # <<>> /\ Tail(g) \in Seq(OldNumbers) /\ g[1] \in OldNumbers
         /\ InSequence(Tail(s), Tail(g), low, high)
         /\ Head(s).kind = "query" =>
              /\ low < g[1] /\ g[1] <= high /\ Head(s).order = InitOrders[g[1]]
              /\ InSequence(Tail(s), Tail(g), g[1], high)
<1>1. /\ Len(s) \in Nat \ {0} /\ Head(s) = s[1] /\ DOMAIN s = 1 .. Len(s)
      /\ Len(Tail(s)) = Len(s) - 1
      /\ DOMAIN Tail(s) = 1 .. Len(s) - 1
      /\ \A n \in 1 .. Len(s) - 1 : Tail(s)[n] = s[n + 1]
  BY TailElements
<1>2. Len(g) = Len(s)
  BY DEF InSequence
<1>3. g # <<>>
  BY <1>1, <1>2
<1>4. /\ Tail(g) \in Seq(OldNumbers) /\ Head(g) \in OldNumbers /\ Head(g) = g[1]
      /\ Len(Tail(g)) = Len(g) - 1
      /\ \A n \in 1 .. Len(g) - 1 : Tail(g)[n] = g[n + 1]
  BY <1>3, TailElements
<1>5. ASSUME NEW n \in DOMAIN Tail(s)
      PROVE  /\ n \in Nat /\ n + 1 \in DOMAIN s /\ 1 < n + 1
             /\ Tail(s)[n] = s[n + 1] /\ Tail(g)[n] = g[n + 1]
  BY <1>1, <1>2, <1>4
<1>6. Len(Tail(g)) = Len(Tail(s)) /\ 1 \in DOMAIN s
  BY <1>1, <1>2, <1>4
<1>7. ASSUME NEW m \in DOMAIN Tail(s), NEW n \in DOMAIN Tail(s), m < n,
             Tail(s)[m].kind = "query", Tail(s)[n].kind = "query"
      PROVE  Tail(g)[m] < Tail(g)[n]
  <2>1. m + 1 < n + 1
    BY <1>5, <1>7
  <2>2. g[m + 1] < g[n + 1]
    BY <1>5, <1>7, <2>1 DEF InSequence
  <2> QED
    BY <1>5, <2>2
<1>8. ASSUME NEW n \in DOMAIN Tail(s), Tail(s)[n].kind = "query"
      PROVE  /\ low < Tail(g)[n] /\ Tail(g)[n] <= high
             /\ Tail(s)[n].order = InitOrders[Tail(g)[n]]
             /\ Head(s).kind = "query" => g[1] < Tail(g)[n]
  <2>1. /\ low < g[n + 1] /\ g[n + 1] <= high
        /\ s[n + 1].order = InitOrders[g[n + 1]]
        /\ s[1].kind = "query" => g[1] < g[n + 1]
    BY <1>5, <1>6, <1>8 DEF InSequence
  <2> QED
    BY <1>1, <1>5, <2>1
<1>9. InSequence(Tail(s), Tail(g), low, high)
  BY <1>6, <1>7, <1>8 DEF InSequence
<1>10. Head(s).kind = "query" =>
         /\ low < g[1] /\ g[1] <= high /\ Head(s).order = InitOrders[g[1]]
         /\ InSequence(Tail(s), Tail(g), g[1], high)
  BY <1>1, <1>6, <1>7, <1>8 DEF InSequence
<1> QED
  BY <1>3, <1>4, <1>9, <1>10

\* A message leaves one of the lines, or comes to the end of one.
LEMMA BeforeTail ==
  ASSUME NEW s \in Seq(FemasMessages), NEW u \in Seq(FemasMessages),
         NEW g \in Seq(OldNumbers), NEW h \in Seq(OldNumbers),
         Len(g) = Len(s), Len(h) = Len(u), Before(s, g, u, h)
  PROVE  /\ s # <<>> => Before(Tail(s), Tail(g), u, h)
         /\ u # <<>> => Before(s, g, Tail(u), Tail(h))
<1>1. ASSUME NEW S, NEW v \in Seq(S), NEW f \in Seq(OldNumbers), Len(f) = Len(v), v # <<>>,
             NEW n \in DOMAIN Tail(v)
      PROVE  n + 1 \in DOMAIN v /\ Tail(v)[n] = v[n + 1] /\ Tail(f)[n] = f[n + 1]
  <2>1. /\ Len(v) \in Nat \ {0} /\ DOMAIN v = 1 .. Len(v)
        /\ DOMAIN Tail(v) = 1 .. Len(v) - 1
        /\ \A i \in 1 .. Len(v) - 1 : Tail(v)[i] = v[i + 1]
    BY <1>1, TailElements
  <2>2. f # <<>>
    BY <1>1, <2>1
  <2>3. \A i \in 1 .. Len(f) - 1 : Tail(f)[i] = f[i + 1]
    BY <2>2, TailElements
  <2> QED
    BY <1>1, <2>1, <2>3
<1>2. ASSUME s # <<>>, NEW m \in DOMAIN Tail(s), NEW n \in DOMAIN u,
             Tail(s)[m].kind = "query", u[n].kind = "query"
      PROVE  Tail(g)[m] < h[n]
  BY <1>1, <1>2 DEF Before
<1>3. ASSUME u # <<>>, NEW m \in DOMAIN s, NEW n \in DOMAIN Tail(u),
             s[m].kind = "query", Tail(u)[n].kind = "query"
      PROVE  g[m] < Tail(h)[n]
  BY <1>1, <1>3 DEF Before
<1> QED
  BY <1>2, <1>3 DEF Before

LEMMA BeforeAppend ==
  ASSUME NEW s \in Seq(FemasMessages), NEW u \in Seq(FemasMessages), NEW e \in FemasMessages,
         NEW g \in Seq(OldNumbers), NEW h \in Seq(OldNumbers), NEW x \in OldNumbers,
         Len(g) = Len(s), Len(h) = Len(u), Before(s, g, u, h)
  PROVE  /\ (e.kind = "query" =>
               \A m \in DOMAIN s : s[m].kind = "query" => g[m] < x) =>
              Before(s, g, Append(u, e), Append(h, x))
         /\ (e.kind = "query" =>
               \A n \in DOMAIN u : u[n].kind = "query" => x < h[n]) =>
              Before(Append(s, e), Append(g, x), u, h)
<1>1. ASSUME NEW v \in Seq(FemasMessages), NEW f \in Seq(OldNumbers), Len(f) = Len(v),
             NEW n \in DOMAIN Append(v, e)
      PROVE  \/ n \in DOMAIN v /\ Append(v, e)[n] = v[n] /\ Append(f, x)[n] = f[n]
             \/ Append(v, e)[n] = e /\ Append(f, x)[n] = x
  <2>1. /\ Len(v) \in Nat /\ DOMAIN v = 1 .. Len(v)
        /\ DOMAIN Append(v, e) = 1 .. Len(v) + 1
        /\ \A i \in 1 .. Len(v) : Append(v, e)[i] = v[i]
        /\ Append(v, e)[Len(v) + 1] = e
    BY AppendElements
  <2>2. /\ \A i \in 1 .. Len(f) : Append(f, x)[i] = f[i]
        /\ Append(f, x)[Len(f) + 1] = x
    BY AppendElements
  <2> QED
    BY <1>1, <2>1, <2>2
<1>2. ASSUME e.kind = "query" =>
               \A m \in DOMAIN s : s[m].kind = "query" => g[m] < x,
             NEW m \in DOMAIN s, NEW n \in DOMAIN Append(u, e),
             s[m].kind = "query", Append(u, e)[n].kind = "query"
      PROVE  g[m] < Append(h, x)[n]
  <2>1. \/ n \in DOMAIN u /\ Append(u, e)[n] = u[n] /\ Append(h, x)[n] = h[n]
        \/ Append(u, e)[n] = e /\ Append(h, x)[n] = x
    BY <1>1
  <2> QED
    BY <1>2, <2>1 DEF Before
<1>3. ASSUME e.kind = "query" =>
               \A n \in DOMAIN u : u[n].kind = "query" => x < h[n],
             NEW m \in DOMAIN Append(s, e), NEW n \in DOMAIN u,
             Append(s, e)[m].kind = "query", u[n].kind = "query"
      PROVE  Append(g, x)[m] < h[n]
  <2>1. \/ m \in DOMAIN s /\ Append(s, e)[m] = s[m] /\ Append(g, x)[m] = g[m]
        \/ Append(s, e)[m] = e /\ Append(g, x)[m] = x
    BY <1>1
  <2> QED
    BY <1>3, <2>1 DEF Before
<1> QED
  BY <1>2, <1>3 DEF Before

-----------------------------------------------------------------------------
(* All queries are answered when none is missing.                          *)

\* Nothing is said of Start's queries once a strategy did not wait.
Asking == ~early /\ start = "query"

LEMMA QueriesSentRange ==
  ASSUME FemasTypes, Busy, start = "query"
  PROVE  QueriesSent \in Nat /\ QueriesSent <= Len(InitOrders) /\ QueriesSent \in OldNumbers
<1>1. turn \in Nat \ {0} /\ Len(InitOrders) \in Nat /\ turn <= Len(InitOrders) + 1
  BY OldOrders DEF FemasTypes, Busy, Turns
<1>2. ~Idle("main") => turn > 1
  BY DEF Busy, MainBusy, Asks
<1> QED
  BY <1>1, <1>2 DEF QueriesSent, OldNumbers

\* As much was counted, and more may have been asked.
LEMMA SameCounted ==
  ASSUME NEW k, AnswersCounted(k), UNCHANGED m_InitQueryNum, answered \subseteq answered'
  PROVE  AnswersCounted(k)'
BY DEF AnswersCounted

LEMMA WiderSequence ==
  ASSUME NEW s \in Seq(FemasMessages), NEW g \in Seq(OldNumbers), NEW low, NEW high \in Int,
         NEW more \in Int, high <= more, InSequence(s, g, low, high)
  PROVE  InSequence(s, g, low, more)
<1>1. DOMAIN s = 1 .. Len(s) /\ Len(g) = Len(s) /\ DOMAIN g = 1 .. Len(g)
      /\ Len(s) \in Nat
  BY DEF InSequence
<1>2. ASSUME NEW n \in DOMAIN s
      PROVE  g[n] \in Int
  BY <1>1, OldOrders DEF OldNumbers
<1> QED
  BY <1>2 DEF InSequence

\* The queries of Start's thread are sent one after the other.
LEMMA SendQueries ==
  ASSUME FemasTypes, Busy, Asking, Asking', Queries, SendRequest("main")
  PROVE  Queries'
<1> DEFINE e == Message(call["main"].kind, call["main"].order, call["main"].ref, TRUE)
<1>1. /\ call \in [Threads -> FemasCalls] /\ "main" \in Threads
      /\ turn \in Nat /\ outgoing \in Seq(FemasMessages) /\ answers \in Seq(FemasMessages)
  BY DEF FemasTypes, Threads
<1>2. /\ ~Idle("main") /\ Idle("main")'
      /\ UNCHANGED <<turn, m_InitQueryNum, answers, answered>>
      /\ outgoing' = outgoing \/ outgoing' = Append(outgoing, e)
  BY <1>1 DEF SendRequest, Idle, NoCall, starting, history
<1>3. /\ e \in FemasMessages /\ e.kind = "query" /\ e.order = InitOrders[turn - 1]
  <2>1. call["main"].kind = "query" /\ call["main"].order = InitOrders[turn - 1]
    BY <1>2 DEF Asking, Busy, MainBusy, Asks
  <2> QED
    BY <1>1, <2>1, SentMessage
<1> HIDE DEF e
<1>4. /\ QueriesSent \in Nat /\ QueriesSent' = QueriesSent + 1 /\ QueriesSent' = turn - 1
      /\ QueriesSent' \in OldNumbers
  <2>1. QueriesSent = turn - 2 /\ QueriesSent' = turn - 1
    BY <1>2 DEF QueriesSent
  <2>2. QueriesSent \in Nat
    BY QueriesSentRange DEF Asking
  <2>3. turn <= Len(InitOrders) + 1 /\ Len(InitOrders) \in Nat
    BY OldOrders DEF Asking, Busy, Turns
  <2> QED
    BY <1>1, <2>1, <2>2, <2>3 DEF OldNumbers
<1>5. PICK k \in 0 .. QueriesSent : \E g, h \in Seq(OldNumbers) : Line(k, g, h)
  BY DEF Queries, Asking
<1>6. PICK g \in Seq(OldNumbers), h \in Seq(OldNumbers) : Line(k, g, h)
  BY <1>5
<1>7. k \in Nat /\ k <= QueriesSent /\ k \in 0 .. QueriesSent'
  BY <1>4, <1>5
<1>8. InSequence(answers, g, k, QueriesSent') /\ InSequence(outgoing, h, k, QueriesSent')
  BY <1>1, <1>4, <1>6, WiderSequence DEF Line
<1>9. AnswersCounted(k)'
  BY <1>2, <1>6, SameCounted DEF Line
<1>10. \E i \in Seq(OldNumbers) : InSequence(outgoing', i, k, QueriesSent') /\ Before(answers, g, outgoing', i)
  <2>1. CASE outgoing' = outgoing
    BY <1>6, <1>8, <2>1 DEF Line
  <2>2. CASE outgoing' = Append(outgoing, e)
    <3> DEFINE x == turn - 1
    <3>1. x \in OldNumbers /\ k < x /\ x <= QueriesSent'
      BY <1>4, <1>7
    <3>2. ASSUME NEW s \in Seq(FemasMessages), NEW f \in Seq(OldNumbers),
                 InSequence(s, f, k, QueriesSent)
          PROVE  Len(f) = Len(s) /\ \A m \in DOMAIN s : s[m].kind = "query" => f[m] < x
      <4>1. \A m \in DOMAIN s : f[m] \in Nat
        <5>1. DOMAIN s = 1 .. Len(s) /\ Len(f) = Len(s) /\ DOMAIN f = 1 .. Len(f)
          BY <3>2 DEF InSequence
        <5> QED
          BY <5>1, OldOrders DEF OldNumbers
      <4> QED
        BY <1>1, <1>4, <3>2, <4>1 DEF InSequence
    <3> HIDE DEF x
    <3>3. /\ \A m \in DOMAIN outgoing : outgoing[m].kind = "query" => h[m] < x
          /\ \A m \in DOMAIN answers : answers[m].kind = "query" => g[m] < x
          /\ Len(g) = Len(answers) /\ Len(h) = Len(outgoing)
      BY <1>1, <1>6, <3>2 DEF Line
    <3>4. e.order = InitOrders[x]
      BY <1>3 DEF x
    <3>5. Append(h, x) \in Seq(OldNumbers) /\ InSequence(outgoing', Append(h, x), k, QueriesSent')
      <4>1. QueriesSent' \in Int
        BY <1>4
      <4>2. /\ Append(h, x) \in Seq(OldNumbers)
            /\ InSequence(Append(outgoing, e), Append(h, x), k, QueriesSent')
        BY <1>1, <1>3, <1>7, <1>8, <3>1, <3>3, <3>4, <4>1, SequenceAppend, Zenon
      <4> QED
        BY <2>2, <4>2, Zenon
    <3>6. Before(answers, g, outgoing', Append(h, x))
      BY <1>1, <1>3, <1>6, <2>2, <3>1, <3>3, BeforeAppend DEF Line
    <3> QED
      BY <3>5, <3>6
  <2> QED
    BY <1>2, <2>1, <2>2
<1>11. \E i \in Seq(OldNumbers) : Line(k, g, i)'
  BY <1>2, <1>8, <1>9, <1>10, ZenonT(40) DEF Line, InSequence, Before
<1> QED
  BY <1>7, <1>11 DEF Queries, Asking

\* A query goes from the end of the requests to that of the answers.
LEMMA ServeQueries ==
  ASSUME FemasTypes, Busy, Asking, Asking', Queries, ServeRequest
  PROVE  Queries'
<1> DEFINE r == Head(outgoing)
<1>1. /\ outgoing # <<>> /\ outgoing' = Tail(outgoing) /\ r \in FemasMessages /\ ServeAnswer(r)
      /\ UNCHANGED <<turn, call, m_InitQueryNum, answered>>
  BY ServeAnswers DEF starting, manager, history
<1>2. /\ outgoing \in Seq(FemasMessages) /\ answers \in Seq(FemasMessages)
      /\ outgoing' \in Seq(FemasMessages) /\ answers' \in Seq(FemasMessages)
  BY NextTypes DEF FemasTypes, Asking, FemasNext
<1>3. QueriesSent' = QueriesSent /\ QueriesSent \in Nat
  BY <1>1, QueriesSentRange DEF QueriesSent, Idle, Asking
<1>4. PICK k \in 0 .. QueriesSent : \E g, h \in Seq(OldNumbers) : Line(k, g, h)
  BY DEF Queries, Asking
<1>5. PICK g \in Seq(OldNumbers), h \in Seq(OldNumbers) : Line(k, g, h)
  BY <1>4
<1>6. k \in Nat /\ QueriesSent \in Int /\ QueriesSent \in Nat
  BY <1>3, <1>4
<1>7. /\ InSequence(answers, g, k, QueriesSent) /\ InSequence(outgoing, h, k, QueriesSent)
      /\ Before(answers, g, outgoing, h) /\ AnswersCounted(k)'
      /\ Len(g) = Len(answers) /\ Len(h) = Len(outgoing)
  BY <1>1, <1>5, SameCounted DEF Line, InSequence
<1>8. /\ h # <<>> /\ Tail(h) \in Seq(OldNumbers) /\ h[1] \in OldNumbers
      /\ InSequence(outgoing', Tail(h), k, QueriesSent)
      /\ r.kind = "query" =>
           /\ k < h[1] /\ h[1] <= QueriesSent /\ r.order = InitOrders[h[1]]
           /\ InSequence(outgoing', Tail(h), h[1], QueriesSent)
  BY <1>1, <1>2, <1>7, SequenceTail, Zenon
<1>9. Before(answers, g, outgoing', Tail(h))
  BY <1>1, <1>2, <1>7, BeforeTail, Zenon
<1>10. outgoing[1] = r /\ 1 \in DOMAIN outgoing
  BY <1>1, <1>2, TailElements
<1> HIDE DEF r
<1>11. \E i \in Seq(OldNumbers) : /\ InSequence(answers', i, k, QueriesSent)
                              /\ Before(answers', i, outgoing', Tail(h))
  <2>1. CASE answers' = answers
    BY <1>5, <1>7, <1>9, <2>1
  <2>2. CASE answers' # answers
    <3>1. PICK o \in FemasIds, ref \in Nat, ok \in BOOLEAN :
            /\ answers' = Append(answers, Message(r.kind, o, ref, ok))
            /\ r.kind # "login" => o = r.order
      BY <1>1, <2>2, Zenon DEF ServeAnswer
    <3> DEFINE e == Message(r.kind, o, ref, ok)
               x == h[1]
    <3>2. e \in FemasMessages /\ e.kind = r.kind /\ e.order = o
      BY <1>1, OfFemasMessages DEF FemasMessages
    <3>3. answers' = Append(answers, e)
      BY <3>1
    <3> HIDE DEF e
    <3>4. r.kind = "query" =>
            /\ \A m \in DOMAIN answers : answers[m].kind = "query" => g[m] < x
            /\ \A n \in DOMAIN outgoing' : outgoing'[n].kind = "query" => x < Tail(h)[n]
      BY <1>7, <1>8, <1>10 DEF Before, InSequence
    <3>5. x \in OldNumbers /\ (r.kind = "query" => k < x /\ x <= QueriesSent /\ r.order = InitOrders[x])
      BY <1>8
    <3>6. Len(Tail(h)) = Len(outgoing')
      BY <1>8 DEF InSequence
    <3> HIDE DEF x
    <3>7. e.kind = "query" => r.kind = "query" /\ e.order = r.order
      BY <3>1, <3>2
    <3>8. /\ Append(g, x) \in Seq(OldNumbers)
          /\ InSequence(Append(answers, e), Append(g, x), k, QueriesSent)
      BY <1>2, <1>5, <1>6, <1>7, <3>2, <3>4, <3>5, <3>7, SequenceAppend, Zenon
    <3>9. Before(Append(answers, e), Append(g, x), outgoing', Tail(h))
      BY <1>2, <1>5, <1>7, <1>8, <1>9, <3>2, <3>4, <3>5, <3>6, <3>7, BeforeAppend, Zenon
    <3> QED
      BY <3>3, <3>8, <3>9
  <2> QED
    BY <2>1, <2>2
<1>12. \E i \in Seq(OldNumbers) : Line(k, i, Tail(h))'
  BY <1>3, <1>7, <1>8, <1>11, Zenon DEF Line, InSequence, Before
<1> QED
  BY <1>3, <1>4, <1>8, <1>12 DEF Queries, Asking

\* As many answers are counted as have come, or fewer; as many only if none of
\* the queries up to the one that is answered was lost.
LEMMA AnswerCounted ==
  ASSUME FemasTypes, NEW k \in Nat, NEW x \in OldNumbers, k < x, AnswersCounted(k),
         m_InitQueryNum' = IF m_InitQueryNum > 0 THEN m_InitQueryNum - 1 ELSE 0,
         answered' = answered \cup {<<"query", InitOrders[x]>>}
  PROVE  AnswersCounted(x)'
<1>1. /\ m_InitQueryNum \in Nat /\ Len(InitOrders) \in Nat
      /\ x \in Nat /\ x <= Len(InitOrders)
  BY OldOrders DEF FemasTypes, OldNumbers
<1>2. /\ Len(InitOrders) - m_InitQueryNum <= k
      /\ Len(InitOrders) - m_InitQueryNum = k =>
           \A n \in 1 .. k : <<"query", InitOrders[n]>> \in answered
  BY DEF AnswersCounted
<1>3. m_InitQueryNum' = m_InitQueryNum - 1 /\ m_InitQueryNum' \in Nat
  BY <1>1, <1>2
<1>4. Len(InitOrders) - m_InitQueryNum' <= x
  BY <1>1, <1>2, <1>3
<1>5. ASSUME Len(InitOrders) - m_InitQueryNum' = x, NEW n \in 1 .. x
      PROVE  <<"query", InitOrders[n]>> \in answered'
  <2>1. x = k + 1 /\ Len(InitOrders) - m_InitQueryNum = k
    BY <1>1, <1>2, <1>3, <1>5
  <2>2. n = x \/ n \in 1 .. k
    BY <1>1, <2>1
  <2> QED
    BY <1>2, <2>1, <2>2
<1> QED
  BY <1>4, <1>5 DEF AnswersCounted

LEMMA CallbackQueries ==
  ASSUME FemasTypes, Busy, Asking, Asking', Queries, Callback
  PROVE  Queries'
<1> DEFINE a == Head(answers)
           m == Message("login", None, 0, TRUE)
<1>1. /\ answers # <<>> /\ answers' = Tail(answers)
      /\ UNCHANGED <<turn, call>>
      /\ \/ OnFrontConnected(a) \/ OnRspUserLogin(a) \/ OnRspOrder(a)
         \/ OnRspQryOrder(a) \/ OnRspQry(a)
  BY DEF Callback, starting
<1>2. /\ outgoing \in Seq(FemasMessages) /\ answers \in Seq(FemasMessages)
      /\ outgoing' \in Seq(FemasMessages) /\ answers' \in Seq(FemasMessages)
  BY NextTypes DEF FemasTypes, Asking, FemasNext
<1>3. QueriesSent' = QueriesSent /\ QueriesSent \in Nat /\ QueriesSent \in Int
  BY <1>1, QueriesSentRange DEF QueriesSent, Idle, Asking
<1>4. PICK k \in 0 .. QueriesSent : \E g, h \in Seq(OldNumbers) : Line(k, g, h)
  BY DEF Queries, Asking
<1>5. PICK g \in Seq(OldNumbers), h \in Seq(OldNumbers) : Line(k, g, h)
  BY <1>4
<1>6. k \in Nat
  BY <1>3, <1>4
<1>7. /\ InSequence(answers, g, k, QueriesSent) /\ InSequence(outgoing, h, k, QueriesSent)
      /\ Before(answers, g, outgoing, h) /\ AnswersCounted(k)
      /\ Len(g) = Len(answers) /\ Len(h) = Len(outgoing)
  BY <1>5 DEF Line, InSequence
<1>8. /\ g # <<>> /\ Tail(g) \in Seq(OldNumbers) /\ g[1] \in OldNumbers
      /\ InSequence(answers', Tail(g), k, QueriesSent)
      /\ a.kind = "query" =>
           /\ k < g[1] /\ g[1] <= QueriesSent /\ a.order = InitOrders[g[1]]
           /\ InSequence(answers', Tail(g), g[1], QueriesSent)
  BY <1>1, <1>2, <1>7, SequenceTail, Zenon
<1>9. Before(answers', Tail(g), outgoing, h)
  BY <1>1, <1>2, <1>7, BeforeTail, Zenon
<1>10. answers[1] = a /\ 1 \in DOMAIN answers
  BY <1>1, <1>2, TailElements
<1> HIDE DEF a
<1>11. CASE OnRspQryOrder(a) /\ a.ok
  <2> DEFINE x == g[1]
  <2>1. /\ a.kind = "query" /\ outgoing' = outgoing
        /\ m_InitQueryNum' = IF m_InitQueryNum > 0 THEN m_InitQueryNum - 1 ELSE 0
        /\ answered' = answered \cup {<<"query", a.order>>}
    BY <1>11 DEF OnRspQryOrder
  <2>2. /\ x \in OldNumbers /\ k < x /\ x <= QueriesSent /\ a.order = InitOrders[x]
        /\ InSequence(answers', Tail(g), x, QueriesSent)
    BY <1>8, <2>1
  <2>3. \A n \in DOMAIN outgoing : outgoing[n].kind = "query" => x < h[n]
    BY <1>7, <1>10, <2>1 DEF Before
  <2> HIDE DEF x
  <2>4. AnswersCounted(x)'
    BY <1>6, <1>7, <2>1, <2>2, AnswerCounted
  <2>5. InSequence(outgoing', h, x, QueriesSent) /\ Before(answers', Tail(g), outgoing', h)
    BY <1>7, <1>9, <2>1, <2>3 DEF InSequence
  <2>6. Line(x, Tail(g), h)'
    BY <1>3, <2>2, <2>4, <2>5, Zenon DEF Line, InSequence, Before
  <2>7. x \in 0 .. QueriesSent'
    BY <1>3, <2>2, OldOrders DEF OldNumbers
  <2> QED
    BY <1>5, <1>8, <2>6, <2>7 DEF Queries, Asking
<1>12. CASE ~(OnRspQryOrder(a) /\ a.ok)
  <2>1. UNCHANGED m_InitQueryNum /\ answered \subseteq answered'
    BY <1>1, <1>12 DEF OnFrontConnected, OnRspUserLogin, OnRspOrder, OnRspQryOrder,
       OnRspQry, manager
  <2>2. AnswersCounted(k)'
    BY <1>7, <2>1, SameCounted
  <2>3. outgoing' = outgoing \/ outgoing' = Append(outgoing, m)
    BY <1>1 DEF OnFrontConnected, OnRspUserLogin, OnRspOrder, OnRspQryOrder, OnRspQry
  <2>4. \E i \in Seq(OldNumbers) : /\ InSequence(outgoing', i, k, QueriesSent)
                                   /\ Before(answers', Tail(g), outgoing', i)
    <3>1. CASE outgoing' = outgoing
      BY <1>5, <1>7, <1>9, <3>1
    <3>2. CASE outgoing' = Append(outgoing, m)
      <4>1. m \in FemasMessages /\ m.kind # "query"
        BY OwnMessages
      <4>2. 0 \in OldNumbers
        BY OldOrders DEF OldNumbers
      <4>3. Len(Tail(g)) = Len(answers')
        BY <1>8 DEF InSequence
      <4> HIDE DEF m
      <4>4. /\ Append(h, 0) \in Seq(OldNumbers)
            /\ InSequence(Append(outgoing, m), Append(h, 0), k, QueriesSent)
        BY <1>2, <1>3, <1>5, <1>6, <1>7, <4>1, <4>2, SequenceAppend, Zenon
      <4>5. Before(answers', Tail(g), Append(outgoing, m), Append(h, 0))
        BY <1>2, <1>5, <1>7, <1>8, <1>9, <4>1, <4>2, <4>3, BeforeAppend, Zenon
      <4> QED
        BY <3>2, <4>4, <4>5
    <3> QED
      BY <2>3, <3>1, <3>2
  <2>5. \E i \in Seq(OldNumbers) : Line(k, Tail(g), i)'
    BY <1>3, <1>8, <2>2, <2>4, Zenon DEF Line, InSequence, Before
  <2> QED
    BY <1>3, <1>4, <1>8, <2>5 DEF Queries, Asking
<1> QED
  BY <1>11, <1>12

\* Where there are no queries, any numbers do.
LEMMA NoQueries ==
  ASSUME NEW s \in Seq(FemasMessages), NoQuery(s), NEW low, NEW high
  PROVE  \E g \in Seq(OldNumbers) :
           InSequence(s, g, low, high) /\ \A u, h : Before(s, g, u, h) /\ Before(u, h, s, g)
<1> DEFINE g == [n \in 1 .. Len(s) |-> 0]
<1>1. 0 \in OldNumbers /\ Len(s) \in Nat /\ DOMAIN s = 1 .. Len(s)
  BY OldOrders DEF OldNumbers
<1>2. g \in Seq(OldNumbers) /\ Len(g) = Len(s)
  BY <1>1
<1> HIDE DEF g
<1> QED
  BY <1>2 DEF InSequence, Before, NoQuery

LEMMA NoQueryMoves ==
  ASSUME NEW s \in Seq(FemasMessages), NoQuery(s)
  PROVE  /\ s # <<>> => NoQuery(Tail(s)) /\ Head(s).kind # "query"
         /\ \A e \in FemasMessages : e.kind # "query" => NoQuery(Append(s, e))
<1>1. ASSUME s # <<>>
      PROVE  NoQuery(Tail(s)) /\ Head(s).kind # "query"
  <2>1. \A n \in DOMAIN Tail(s) : \E m \in DOMAIN s : Tail(s)[n] = s[m]
    BY <1>1, TailAll
  <2>2. Head(s) = s[1] /\ 1 \in DOMAIN s
    BY <1>1, TailElements
  <2> QED
    BY <2>1, <2>2 DEF NoQuery
<1>2. ASSUME NEW e \in FemasMessages, e.kind # "query"
      PROVE  NoQuery(Append(s, e))
  <2>1. \A n \in DOMAIN Append(s, e) :
          (n \in DOMAIN s /\ Append(s, e)[n] = s[n]) \/ Append(s, e)[n] = e
    BY AppendAll
  <2> QED
    BY <1>2, <2>1 DEF NoQuery
<1> QED
  BY <1>1, <1>2

\* Only Start goes on, and a strategy that did not wait is not forgotten.
LEMMA NextStart ==
  ASSUME FemasTypes, FemasNext
  PROVE  /\ early => early'
         /\ (Start /\ UNCHANGED history) \/ (~Start /\ UNCHANGED starting)
         /\ Start => /\ start' = "connect" => start = "connect"
                     /\ start' = "query" =>
                          start = "query" \/ (start = "connect" /\ StartConnected)
<1>1. CASE Start
  <2>1. UNCHANGED history
    BY <1>1 DEF Start, StartConnected, StartQuery, StartQueried, StartAsk, StartClear,
       StartAnswered, StartNext, StartTimeout
  <2>2. ASSUME ~StartConnected
        PROVE  \/ start' = start
               \/ start' \in {"trade", "position", "instrument", "ready", "failed"}
    BY <1>1, <2>2 DEF Start, StartQuery, StartQueried, StartAsk, StartClear,
       StartAnswered, StartNext, StartTimeout, Goto
  <2>3. StartConnected => start = "connect" /\ start' = "query"
    BY DEF StartConnected, Goto
  <2>4. early' = early
    BY <2>1 DEF history
  <2>5. /\ start' = "connect" => start = "connect"
        /\ start' = "query" => start = "query" \/ (start = "connect" /\ StartConnected)
    BY <2>2, <2>3
  <2> QED
    BY <1>1, <2>1, <2>4, <2>5, Zenon
<1>2. CASE ~Start
  <2>1. ASSUME NEW t \in Threads, Request(t)
        PROVE  UNCHANGED starting /\ early' = early
    BY <2>1, RequestCall DEF starting
  <2>2. Strategy => UNCHANGED starting /\ (early => early')
    BY DEF Strategy, AddOrder, DeleteOrQuery
  <2>3. Callback \/ OnRtn \/ Connect \/ LoseLink \/ ServeRequest =>
          UNCHANGED starting /\ early' = early
    BY DEF Callback, OnRtn, Connect, LoseLink, ServeRequest, history
  <2> QED
    BY <1>2, <2>1, <2>2, <2>3 DEF FemasNext
<1> QED
  BY <1>1, <1>2

\* Before Start asks, nobody does.
LEMMA ConnectQueries ==
  ASSUME FemasTypes, Busy, Queries, ~early', start' = "connect", FemasNext
  PROVE  NoQuery(outgoing') /\ NoQuery(answers')
<1>1. ~early /\ start = "connect"
  BY NextStart DEF starting
<1>2. /\ outgoing \in Seq(FemasMessages) /\ answers \in Seq(FemasMessages)
      /\ NoQuery(outgoing) /\ NoQuery(answers)
  BY <1>1 DEF FemasTypes, Queries
<1>3. \A t \in Threads : Idle(t)
  <2>1. Idle("main")
    BY <1>1 DEF Busy, MainBusy, Asks
  <2>2. Idle("strategy")
    BY <1>1 DEF Busy, StrategyBusy
  <2> QED
    BY <2>1, <2>2 DEF Threads
<1>4. \A t \in Threads : ~Request(t)
  BY <1>3 DEF Request, Map, Invalid, Count, SendRequest, Idle
<1>5. CASE Callback
  <2>1. answers # <<>> /\ answers' = Tail(answers)
    BY <1>5 DEF Callback
  <2>2. outgoing' = outgoing \/ outgoing' = Append(outgoing, Message("login", None, 0, TRUE))
    BY <1>5 DEF Callback, OnFrontConnected, OnRspUserLogin, OnRspOrder, OnRspQryOrder,
       OnRspQry
  <2>3. NoQuery(Append(outgoing, Message("login", None, 0, TRUE)))
    BY <1>2, NoQueryMoves, OwnMessages
  <2> QED
    BY <1>2, <2>1, <2>2, <2>3, NoQueryMoves
<1>6. CASE ServeRequest
  <2>1. /\ outgoing # <<>> /\ outgoing' = Tail(outgoing) /\ Head(outgoing) \in FemasMessages
        /\ ServeAnswer(Head(outgoing))
    BY <1>6, ServeAnswers
  <2>2. NoQuery(outgoing') /\ Head(outgoing).kind # "query"
    BY <1>2, <2>1, NoQueryMoves
  <2>3. ASSUME NEW o \in FemasIds, NEW ref \in Nat, NEW ok \in BOOLEAN
        PROVE  NoQuery(Append(answers, Message(Head(outgoing).kind, o, ref, ok)))
    <3>1. /\ Message(Head(outgoing).kind, o, ref, ok) \in FemasMessages
          /\ Message(Head(outgoing).kind, o, ref, ok).kind # "query"
      BY <2>1, <2>2, OfFemasMessages DEF FemasMessages
    <3> QED
      BY <1>2, <3>1, NoQueryMoves
  <2> QED
    BY <1>2, <2>1, <2>2, <2>3, Zenon DEF ServeAnswer
<1>7. CASE Connect
  <2>1. /\ DOMAIN <<Message("connected", None, 0, TRUE)>> = {1}
        /\ <<Message("connected", None, 0, TRUE)>>[1] = Message("connected", None, 0, TRUE)
    BY OwnMessages, OneElement
  <2>2. NoQuery(<<Message("connected", None, 0, TRUE)>>)
    BY <2>1, OwnMessages DEF NoQuery
  <2> QED
    BY <1>2, <1>7, <2>2 DEF Connect
<1>8. CASE LoseLink
  BY <1>8 DEF LoseLink, NoQuery
<1>9. CASE UNCHANGED <<outgoing, answers>>
  BY <1>2, <1>9
<1>10. Start \/ Strategy \/ OnRtn => UNCHANGED <<outgoing, answers>>
  BY DEF Start, StartConnected, StartQuery, StartQueried, StartAsk, StartClear,
         StartAnswered, StartNext, StartTimeout, Strategy, AddOrder, DeleteOrQuery, OnRtn, exchange
<1> QED
  BY <1>4, <1>5, <1>6, <1>7, <1>8, <1>9, <1>10 DEF FemasNext

\* While nothing is sent or answered the lines are the same.
LEMMA SameLines ==
  ASSUME Asking, Asking', Queries, UNCHANGED <<outgoing, answers, m_InitQueryNum>>,
         answered \subseteq answered', QueriesSent' = QueriesSent
  PROVE  Queries'
<1>1. PICK k \in 0 .. QueriesSent : \E g, h \in Seq(OldNumbers) : Line(k, g, h)
  BY DEF Queries, Asking
<1>2. PICK g \in Seq(OldNumbers), h \in Seq(OldNumbers) : Line(k, g, h)
  BY <1>1
<1>3. AnswersCounted(k)'
  BY <1>2, SameCounted DEF Line
<1>4. Line(k, g, h)'
  BY <1>2, <1>3 DEF Line, InSequence, Before
<1> QED
  BY <1>1, <1>2, <1>4 DEF Queries, Asking

\* Where no queries are under way, nothing is out of sequence.
LEMMA EmptyLines ==
  ASSUME NEW k \in Nat, AnswersCounted(k)', k <= QueriesSent', QueriesSent' \in Int, Asking',
         outgoing' \in Seq(FemasMessages), answers' \in Seq(FemasMessages), NoQuery(outgoing'), NoQuery(answers')
  PROVE  Queries'
<1>1. PICK g \in Seq(OldNumbers) : InSequence(answers', g, k, QueriesSent')
  BY NoQueries
<1>2. PICK h \in Seq(OldNumbers) : /\ InSequence(outgoing', h, k, QueriesSent')
                                   /\ Before(answers', g, outgoing', h)
  BY NoQueries
<1>3. Line(k, g, h)'
  BY <1>1, <1>2, Zenon DEF Line, InSequence, Before
<1>4. k \in 0 .. QueriesSent'
  OBVIOUS
<1> QED
  BY <1>3, <1>4 DEF Queries, Asking

LEMMA ConnectedQueries ==
  ASSUME FemasTypes, Asking, Asking', Queries, Connect
  PROVE  Queries'
<1> DEFINE m == Message("connected", None, 0, TRUE)
<1>1. /\ answers' = <<m>>
      /\ UNCHANGED <<turn, call, outgoing, m_InitQueryNum, answered>>
  BY DEF Connect, manager, starting, history
<1>2. answers' \in Seq(FemasMessages) /\ NoQuery(answers')
  <2>1. m \in FemasMessages /\ m.kind = "connected"
    BY OwnMessages
  <2> HIDE DEF m
  <2>2. <<m>> \in Seq(FemasMessages) /\ DOMAIN <<m>> = {1} /\ <<m>>[1] = m
    BY <2>1, OneElement
  <2> QED
    BY <1>1, <2>1, <2>2 DEF NoQuery
<1>3. PICK k \in 0 .. QueriesSent : \E g, h \in Seq(OldNumbers) : Line(k, g, h)
  BY DEF Queries, Asking
<1>4. PICK g \in Seq(OldNumbers), h \in Seq(OldNumbers) : Line(k, g, h)
  BY <1>3
<1>5. PICK i \in Seq(OldNumbers) : /\ InSequence(answers', i, k, QueriesSent)
                                   /\ Before(answers', i, outgoing, h)
  BY <1>2, NoQueries
<1>6. QueriesSent' = QueriesSent
  BY <1>1 DEF QueriesSent, Idle
<1>7. AnswersCounted(k)'
  BY <1>1, <1>4, SameCounted DEF Line
<1>8. Line(k, i, h)'
  BY <1>1, <1>4, <1>5, <1>6, <1>7 DEF Line, InSequence, Before
<1> QED
  BY <1>3, <1>6, <1>8 DEF Queries, Asking

LEMMA NextQueries ==
  ASSUME FemasTypes, Busy, Queries, [FemasNext]_femasVars
  PROVE  Queries'
<1>1. CASE UNCHANGED femasVars
  BY <1>1 DEF Queries, NoQuery, Line, InSequence, Before, AnswersCounted, QueriesSent, Idle, femasVars,
     manager, starting, exchange, history
<1>2. ASSUME FemasNext, ~early', start' = "connect"
      PROVE  Queries'
  <2>1. NoQuery(outgoing)' /\ NoQuery(answers)'
    BY <1>2, ConnectQueries DEF NoQuery
  <2> QED
    BY <1>2, <2>1 DEF Queries
<1>3. ASSUME FemasNext, Asking'
      PROVE  Queries'
  <2>1. ~early /\ start \in {"connect", "query"} /\ (start = "connect" => StartConnected)
    BY <1>3, NextStart DEF Asking, starting
  <2>2. Idle("strategy")
    BY <2>1 DEF Busy, StrategyBusy
  <2>3. FemasTypes' /\ Busy'
    BY NextTypes, NextBusy
  <2>4. outgoing' \in Seq(FemasMessages) /\ answers' \in Seq(FemasMessages)
    BY <2>3 DEF FemasTypes
  <2>5. QueriesSent' \in Nat
    <3>1. turn' \in Nat \ {0}
      BY <2>3 DEF FemasTypes
    <3>2. start' = "query" /\ start' \notin Asks
      BY <1>3 DEF Asking, Asks
    <3>3. ~Idle("main")' => turn' > 1
      BY <2>3, <3>2, Zenon DEF Busy, MainBusy
    <3>4. /\ Idle("main")' => QueriesSent' = turn' - 1
          /\ ~Idle("main")' => QueriesSent' = turn' - 2
      BY DEF QueriesSent, Idle
    <3>5. turn' - 1 \in Nat /\ (turn' > 1 => turn' - 2 \in Nat)
      <4>1. \A n \in Nat \ {0} : n - 1 \in Nat /\ (n > 1 => n - 2 \in Nat)
        OBVIOUS
      <4> QED
        BY <3>1, <4>1, Zenon
    <3> QED
      BY <3>3, <3>4, <3>5, Zenon
  <2>6. CASE StartConnected
    <3>1. /\ turn' = 1 /\ UNCHANGED <<call, outgoing, answers>>
          /\ m_InitQueryNum' = Len(InitOrders)
      BY <2>6 DEF StartConnected, Goto, exchange
    <3>2. start = "connect"
      BY <2>6 DEF StartConnected, Goto
    <3>3. NoQuery(outgoing') /\ NoQuery(answers')
      BY <2>1, <3>1, <3>2 DEF Queries
    <3>4. AnswersCounted(0)'
      BY <3>1, OldOrders DEF AnswersCounted
    <3> QED
      BY <1>3, <2>4, <2>5, <3>3, <3>4, EmptyLines
  <2>7. CASE start = "query"
    <3>0. Asking
      BY <2>1, <2>7 DEF Asking
    <3>1. CASE Start
      <4>1. StartQuery
        BY <1>3, <2>7, <3>1 DEF Asking, Start, StartConnected, StartQueried, StartAsk,
           StartClear, StartAnswered, StartNext, StartTimeout, Goto, Busy, Turns, Asks
      <4>2. ~Idle("main")' /\ Idle("main")
        BY <2>7, <4>1, BeginBusy
      <4>3. turn' = turn + 1 /\ UNCHANGED <<outgoing, answers, m_InitQueryNum, answered>>
        BY <4>1 DEF StartQuery, manager, exchange, history
      <4>4. QueriesSent' = QueriesSent
        BY <4>2, <4>3 DEF QueriesSent, FemasTypes
      <4> QED
        BY <1>3, <3>0, <4>3, <4>4, SameLines
    <3>2. ASSUME NEW t \in Threads, Request(t)
          PROVE  Queries'
      <4>1. t = "main" /\ ~Idle("main")
        BY <2>2, <3>2, RequestCall DEF Threads
      <4>2. call[t].kind # "invalid"
        BY <2>7, <4>1 DEF Busy, MainBusy, Asks
      <4>3. CASE SendRequest(t)
        BY <1>3, <3>0, <4>1, <4>3, SendQueries
      <4>4. CASE Map(t) \/ Count(t)
        <5>1. ~Idle("main")'
          <6>1. call \in [Threads -> FemasCalls] /\ MaxOrderLocalID \in Nat
            BY DEF FemasTypes
          <6>2. call'[t].at = "count" \/ call'[t].at = "send"
            BY <3>2, <4>4, <6>1, StepCall DEF Map, Count
          <6> QED
            BY <4>1, <6>2 DEF Idle
        <5>2. UNCHANGED <<turn, outgoing, answers, m_InitQueryNum, answered>>
          BY <4>4 DEF Map, Count, manager, starting, exchange, history
        <5>3. QueriesSent' = QueriesSent
          BY <4>1, <5>1, <5>2 DEF QueriesSent
        <5> QED
          BY <1>3, <3>0, <5>2, <5>3, SameLines
      <4> QED
        BY <3>2, <4>2, <4>3, <4>4 DEF Request, Invalid
    <3>3. CASE Strategy
      BY <1>3, <2>7, <3>3 DEF Strategy, AddOrder, DeleteOrQuery, Asking
    <3>4. CASE OnRtn
      <4>1. UNCHANGED <<turn, call, outgoing, answers, m_InitQueryNum, answered>>
        BY <3>4 DEF OnRtn, manager, starting, exchange
      <4> QED
        BY <1>3, <3>0, <4>1, SameLines DEF QueriesSent, Idle
    <3>5. CASE LoseLink
      <4>1. /\ UNCHANGED <<turn, call, m_InitQueryNum, answered>>
            /\ outgoing' = <<>> /\ answers' = <<>>
        BY <3>5 DEF LoseLink, manager, starting, history
      <4>2. PICK k \in 0 .. QueriesSent : \E g, h \in Seq(OldNumbers) : Line(k, g, h)
        BY <3>0 DEF Queries, Asking
      <4>3. AnswersCounted(k)' /\ QueriesSent' = QueriesSent
        BY <4>1, <4>2, SameCounted DEF Line, QueriesSent, Idle
      <4>4. k \in Nat /\ k <= QueriesSent' /\ QueriesSent' \in Int
        BY <2>5, <4>2, <4>3
      <4>5. NoQuery(outgoing') /\ NoQuery(answers')
        BY <4>1 DEF NoQuery
      <4> QED
        BY <1>3, <2>4, <4>3, <4>4, <4>5, EmptyLines
    <3> QED
      BY <1>3, <3>0, <3>1, <3>2, <3>3, <3>4, <3>5, CallbackQueries, ServeQueries,
         ConnectedQueries DEF FemasNext
  <2> QED
    BY <2>1, <2>6, <2>7
<1> QED
  BY <1>1, <1>2, <1>3 DEF Queries, Asking

-----------------------------------------------------------------------------
(* What Start has been told.                                               *)

\* All queries are answered when their number has come down to 0.
LEMMA QueriesAnswered ==
  ASSUME FemasTypes, Busy, Queries, Asking, Idle("main"),
         turn > Len(InitOrders), m_InitQueryNum = 0
  PROVE  AllAnswered("query")
<1>1. PICK k \in 0 .. QueriesSent : \E g, h \in Seq(OldNumbers) : Line(k, g, h)
  BY DEF Queries, Asking
<1>2. AnswersCounted(k)
  BY <1>1 DEF Line
<1>3. Len(InitOrders) \in Nat /\ QueriesSent <= Len(InitOrders) /\ QueriesSent \in Nat
  BY QueriesSentRange, OldOrders DEF Asking
<1>4. Len(InitOrders) - m_InitQueryNum = Len(InitOrders)
  BY <1>3
<1>5. k = Len(InitOrders)
  <2>1. Len(InitOrders) <= k
    BY <1>2, <1>4, Zenon DEF AnswersCounted
  <2>2. k <= QueriesSent /\ k \in Int
    BY <1>1, <1>3
  <2> QED
    BY <1>3, <2>1, <2>2
<1>6. \A n \in 1 .. Len(InitOrders) : <<"query", InitOrders[n]>> \in answered
  BY <1>2, <1>4, <1>5 DEF AnswersCounted
<1> QED
  BY <1>6, OldOrders DEF AllAnswered

LEMMA AnsweredGrows ==
  ASSUME FemasTypes, [FemasNext]_femasVars
  PROVE  answered \subseteq answered'
<1>1. Start \/ Strategy \/ OnRtn \/ Connect \/ LoseLink \/ UNCHANGED femasVars =>
        answered' = answered
  BY DEF Start, StartConnected, StartQuery, StartQueried, StartAsk, StartClear,
         StartAnswered, StartNext, StartTimeout, Strategy, AddOrder, DeleteOrQuery, OnRtn, Connect,
         LoseLink, femasVars, history
<1>2. \A t \in Threads : Request(t) => answered' = answered
  BY RequestCall
<1>3. Callback => answered \subseteq answered'
  BY DEF Callback, OnFrontConnected, OnRspUserLogin, OnRspOrder, OnRspQryOrder, OnRspQry
<1>4. ServeRequest => answered' = answered
  BY DEF ServeRequest, history
<1> QED
  BY <1>1, <1>2, <1>3, <1>4 DEF FemasNext

LEMMA NextVerified ==
  ASSUME FemasTypes, Busy, OneAsked, Queries, Verified, [FemasNext]_femasVars
  PROVE  Verified'
<1>1. answered \subseteq answered'
  BY AnsweredGrows
<1>2. \A kind : AllAnswered(kind) => AllAnswered(kind)'
  BY <1>1 DEF AllAnswered
<1>3. ASSUME UNCHANGED <<start, turn>>, early => early'
      PROVE  Verified'
  <2> SUFFICES ASSUME ~early' PROVE Verified'
    BY DEF Verified
  <2>1. ~early
    BY <1>3
  <2>2. /\ start = "trade" =>
             \A n \in 1 .. turn - 1 : <<"trade", InitOrders[n]>> \in answered'
        /\ start = "position" =>
             \A n \in 1 .. turn - 1 : <<"position", InitOrders[n]>> \in answered'
    BY <1>1, <2>1 DEF Verified
  <2>3. /\ start \in Asks \cup {"ready"} => AllAnswered("query")'
        /\ start \in {"position", "instrument", "ready"} => AllAnswered("trade")'
        /\ start \in {"instrument", "ready"} => AllAnswered("position")'
    BY <1>2, <2>1 DEF Verified
  <2>4. /\ start = "instrument" /\ turn > 1 => <<"instrument", None>> \in answered'
        /\ start = "ready" => <<"instrument", None>> \in answered'
    BY <1>1, <2>1 DEF Verified
  <2> QED
    BY <1>3, <2>2, <2>3, <2>4 DEF Verified
<1>4. CASE FemasNext /\ Start
  <2> SUFFICES ASSUME ~early' PROVE Verified'
    BY DEF Verified
  <2>1. ~early /\ answered' = answered /\ start # "failed"
    BY <1>4 DEF FemasNext, Start, StartConnected, StartQuery, StartQueried, StartAsk,
       StartClear, StartAnswered, StartNext, StartTimeout, history
  <2>2. turn \in Nat \ {0} /\ Len(InitOrders) \in Nat
    BY OldOrders DEF FemasTypes
  <2>3. CASE StartConnected \/ StartTimeout
    <3>1. start' \in {"query", "failed"}
      BY <2>3 DEF StartConnected, StartTimeout, Goto
    <3> QED
      BY <3>1 DEF Verified, Asks
  <2>4. CASE StartQuery
    <3>1. start' = "query"
      BY <2>4 DEF StartQuery
    <3> QED
      BY <3>1 DEF Verified, Asks
  <2>5. CASE StartQueried
    <3>1. AllAnswered("query")
      BY <2>1, <2>5, QueriesAnswered DEF StartQueried, Goto, Asking
    <3>2. start' = "trade" /\ turn' = 1
      BY <2>5 DEF StartQueried, Goto
    <3> QED
      BY <1>2, <3>1, <3>2 DEF Verified
  <2>6. CASE StartAsk \/ StartClear
    BY <1>3, <2>1, <2>6 DEF StartAsk, StartClear
  <2>7. CASE StartAnswered
    <3>1. /\ wait = "flag" /\ m_startfinish /\ turn' = turn + 1 /\ start' = start
      BY <2>7 DEF StartAnswered
    <3>2. start \in Asks /\ (start = "instrument" => turn = 1)
      BY <2>1, <3>1 DEF Busy, Turns
    <3>3. <<start, Current>> \in answered'
      BY <2>1, <3>1 DEF OneAsked
    <3>4. \A n \in 1 .. turn' - 1 : n \in 1 .. turn - 1 \/ n = turn
      BY <2>2, <3>1
    <3>5. CASE start = "trade"
      <4>1. /\ AllAnswered("query")'
            /\ \A n \in 1 .. turn' - 1 : <<"trade", InitOrders[n]>> \in answered'
        BY <1>1, <1>2, <2>1, <3>3, <3>4, <3>5 DEF Verified, Current, Asks
      <4> QED
        BY <3>1, <3>5, <4>1 DEF Verified
    <3>6. CASE start = "position"
      <4>1. /\ AllAnswered("query")' /\ AllAnswered("trade")'
            /\ \A n \in 1 .. turn' - 1 : <<"position", InitOrders[n]>> \in answered'
        BY <1>1, <1>2, <2>1, <3>3, <3>4, <3>6 DEF Verified, Current, Asks
      <4> QED
        BY <3>1, <3>6, <4>1 DEF Verified
    <3>7. CASE start = "instrument"
      <4>1. /\ AllAnswered("query")' /\ AllAnswered("trade")' /\ AllAnswered("position")'
            /\ <<"instrument", None>> \in answered'
        BY <1>1, <1>2, <2>1, <3>3, <3>7 DEF Verified, Current, Asks
      <4> QED
        BY <3>1, <3>7, <4>1 DEF Verified
    <3> QED
      BY <3>2, <3>5, <3>6, <3>7 DEF Asks
  <2>8. CASE StartNext
    <3>1. ASSUME turn > Len(InitOrders), NEW kind,
                 \A n \in 1 .. turn - 1 : <<kind, InitOrders[n]>> \in answered
          PROVE  AllAnswered(kind)
      <4>1. \A n \in 1 .. Len(InitOrders) : n \in 1 .. turn - 1
        BY <2>2, <3>1
      <4> QED
        BY <3>1, <4>1, OldOrders DEF AllAnswered
    <3>2. CASE Goto("trade", "position") /\ turn > Len(InitOrders)
      <4>1. start = "trade" /\ start' = "position" /\ turn' = 1
        BY <3>2 DEF Goto
      <4>2. AllAnswered("query")' /\ AllAnswered("trade")'
        BY <1>2, <2>1, <3>1, <3>2, <4>1 DEF Verified, Asks
      <4> QED
        BY <4>1, <4>2 DEF Verified
    <3>3. CASE Goto("position", "instrument") /\ turn > Len(InitOrders)
      <4>1. start = "position" /\ start' = "instrument" /\ turn' = 1
        BY <3>3 DEF Goto
      <4>2. AllAnswered("query")' /\ AllAnswered("trade")' /\ AllAnswered("position")'
        BY <1>2, <2>1, <3>1, <3>3, <4>1 DEF Verified, Asks
      <4> QED
        BY <4>1, <4>2 DEF Verified
    <3>4. CASE Goto("instrument", "ready") /\ turn > 1
      <4>1. start = "instrument" /\ start' = "ready" /\ turn' = 1
        BY <3>4 DEF Goto
      <4>2. /\ AllAnswered("query")' /\ AllAnswered("trade")' /\ AllAnswered("position")'
            /\ <<"instrument", None>> \in answered'
        BY <1>1, <1>2, <2>1, <3>4, <4>1 DEF Verified, Asks
      <4> QED
        BY <4>1, <4>2 DEF Verified
    <3> QED
      BY <2>8, <3>2, <3>3, <3>4 DEF StartNext
  <2> QED
    BY <1>4, <2>3, <2>4, <2>5, <2>6, <2>7, <2>8 DEF Start
<1>5. CASE FemasNext /\ ~Start
  BY <1>3, <1>5, NextStart DEF starting
<1>6. CASE UNCHANGED femasVars
  BY <1>3, <1>6 DEF femasVars, starting, history
<1> QED
  BY <1>4, <1>5, <1>6

-----------------------------------------------------------------------------
(* Numbers lead to the orders they were given to.                          *)

Claimed == ~early /\ calm

Grows ==
  /\ DOMAIN m_ordermap \subseteq DOMAIN m_ordermap'
  /\ \A n \in DOMAIN m_ordermap : m_ordermap'[n] = m_ordermap[n]

LEMMA StillRight ==
  ASSUME Grows, NEW o, NEW ref
  PROVE  /\ Mapped(o, ref) => Mapped(o, ref)'
         /\ Right(o, ref) => Right(o, ref)'
BY DEF Grows, Mapped, Right

\* While the messages and the orders at the exchange are the same.
LEMMA SameMessages ==
  ASSUME Grows, RightMessages, UNCHANGED <<outgoing, answers, accepted>>
  PROVE  RightMessages'
BY StillRight DEF RightMessages

LEMMA SameAbove ==
  ASSUME AboveOld, UNCHANGED <<MaxOrderLocalID, m_ordermap, mIConnet, largest, answers>>,
         \/ start' = start
         \/ start' = "failed"
         \/ start \notin {"connect", "failed"}
         \/ mIConnet
  PROVE  AboveOld'
BY DEF AboveOld

LEMMA OneBusy ==
  ASSUME Busy, ~early, NEW t \in Threads, ~Idle(t), NEW u \in Threads \ {t}
  PROVE  Idle(u)
<1>1. Idle("main") \/ Idle("strategy")
  BY DEF Busy, MainBusy, StrategyBusy, Asks
<1> QED
  BY <1>1 DEF Threads

\* A request begins with the next number, when no other one has it.
LEMMA BeginNumber ==
  ASSUME FemasTypes, Busy, ~early, NextNumber, NEW t \in Threads,
         Idle(t), \A u \in Threads \ {t} : Idle(u) /\ call'[u] = call[u],
         UNCHANGED <<MaxOrderLocalID, m_ordermap>>,
         call'[t].ref = MaxOrderLocalID,
         \/ /\ call'[t].at = "map"
            /\ call'[t].kind \in {"add", "invalid", "delete", "query"}
         \/ call'[t].at = "count" /\ call'[t].kind \in Asks
  PROVE  NextNumber'
<1>1. \A n \in DOMAIN m_ordermap : n < MaxOrderLocalID
  BY DEF NextNumber
<1>2. \A n \in DOMAIN m_ordermap : n <= MaxOrderLocalID
  BY <1>1 DEF FemasTypes
<1>3. ~Idle(t)' /\ \A u \in Threads \ {t} : Idle(u)'
  BY DEF Idle
<1> QED
  BY <1>1, <1>2, <1>3 DEF NextNumber, Asks

LEMMA StartNumbers ==
  ASSUME FemasTypes, Busy, NumbersInv, start # "failed", Start, Claimed'
  PROVE  NumbersInv'
<1>1. UNCHANGED <<MaxOrderLocalID, m_ordermap, mIConnet, outgoing, answers, accepted,
                  largest, history>>
  BY DEF Start, StartConnected, StartQuery, StartQueried, StartAsk, StartClear,
         StartAnswered, StartNext, StartTimeout, manager, exchange
<1>2. ~early /\ calm /\ NextNumber /\ AboveOld /\ RightMessages /\ ~astray
  BY <1>1 DEF NumbersInv, Claimed, history
<1>3. Grows
  BY <1>1 DEF Grows
<1>4. RightMessages'
  BY <1>1, <1>2, <1>3, SameMessages
<1>5. AboveOld'
  <2>1. \/ start' = start \/ start' = "failed" \/ mIConnet
        \/ start \notin {"connect", "failed"}
    BY DEF Start, StartConnected, StartQuery, StartQueried, StartAsk, StartClear,
           StartAnswered, StartNext, StartTimeout, Goto
  <2> QED
    BY <1>1, <1>2, <2>1, SameAbove
<1>6. NextNumber'
  <2>1. CASE StartQuery \/ StartAsk
    <3>1. /\ Idle("main") /\ call'["main"].ref = MaxOrderLocalID
          /\ call'["strategy"] = call["strategy"]
          /\ \/ call'["main"].at = "map" /\ call'["main"].kind = "query"
             \/ call'["main"].at = "count" /\ call'["main"].kind \in Asks
          /\ start # "ready"
      BY <2>1, BeginBusy DEF Asks
    <3>2. Idle("strategy")
      BY <1>2, <3>1 DEF Busy, StrategyBusy
    <3>3. \A u \in Threads \ {"main"} : Idle(u) /\ call'[u] = call[u]
      BY <3>1, <3>2 DEF Threads
    <3>4. "main" \in Threads
      BY DEF Threads
    <3> QED
      BY <1>1, <1>2, <3>1, <3>3, <3>4, BeginNumber
  <2>2. CASE ~(StartQuery \/ StartAsk)
    <3>1. call' = call
      BY <2>2, StartOnBusy DEF Start
    <3> QED
      BY <1>1, <1>2, <3>1 DEF NextNumber, Idle, Mapped
  <2> QED
    BY <2>1, <2>2
<1> QED
  BY <1>1, <1>2, <1>4, <1>5, <1>6 DEF NumbersInv, history

LEMMA StrategyNumbers ==
  ASSUME FemasTypes, Busy, NumbersInv, Strategy, Claimed'
  PROVE  NumbersInv'
<1>1. PICK o \in Orders, kind \in {"add", "invalid", "delete", "query"} :
        AddOrder(o, kind) \/ DeleteOrQuery(o, kind)
  BY DEF Strategy
<1>2. /\ Begin("strategy", kind, o)
      /\ UNCHANGED <<manager, starting, exchange, astray, calm>>
      /\ early' = (early \/ start # "ready")
  BY <1>1 DEF AddOrder, DeleteOrQuery
<1>3. ~early /\ calm /\ start = "ready"
  BY <1>2 DEF Claimed
<1>4. NextNumber /\ AboveOld /\ RightMessages /\ ~astray
  BY <1>3 DEF NumbersInv
<1>5. NextNumber'
  <2>1. call \in [Threads -> FemasCalls] /\ "strategy" \in Threads /\ kind \notin Asks
        /\ "main" \in Threads \ {"strategy"}
    BY DEF FemasTypes, Threads, Asks
  <2>2. /\ call'["strategy"].at = "map" /\ call'["strategy"].kind = kind
        /\ call'["strategy"].ref = MaxOrderLocalID /\ Idle("strategy")
        /\ call'["main"] = call["main"]
    BY <1>2, <2>1 DEF Begin, Asks, Idle
  <2>3. \A u \in Threads \ {"strategy"} : Idle(u) /\ call'[u] = call[u]
    BY <1>3, <2>2 DEF Threads, Busy, MainBusy, Asks
  <2> QED
    BY <1>2, <1>3, <1>4, <2>1, <2>2, <2>3, BeginNumber DEF manager
<1>6. AboveOld' /\ RightMessages'
  BY <1>2, <1>4, SameMessages, SameAbove DEF Grows, manager, exchange, starting
<1> QED
  BY <1>2, <1>4, <1>5, <1>6 DEF NumbersInv

LEMMA RequestNumbers ==
  ASSUME NEW t \in Threads, FemasTypes, Busy, NumbersInv, start # "failed",
         Request(t), Claimed'
  PROVE  NumbersInv'
<1>1. /\ ~Idle(t)
      /\ ~Idle(t)' => /\ call'[t].kind = call[t].kind
                      /\ call'[t].order = call[t].order
                      /\ call'[t].ref = call[t].ref
      /\ \A u \in Threads \ {t} : call'[u] = call[u]
      /\ UNCHANGED <<start, turn, wait, early>>
  BY RequestCall DEF starting
<1>2. ~early
  BY <1>1 DEF Claimed
<1>3. ~Invalid(t) /\ calm /\ UNCHANGED astray
  BY DEF Claimed, Invalid, Request, Map, Count, SendRequest, history
<1>4. NextNumber /\ AboveOld /\ RightMessages /\ ~astray
  BY <1>2, <1>3 DEF NumbersInv
<1>5. \A u \in Threads \ {t} : Idle(u) /\ Idle(u)'
  <2>1. \A u \in Threads \ {t} : Idle(u)
    BY <1>1, <1>2, OneBusy
  <2> QED
    BY <1>1, <2>1 DEF Idle
<1>6. /\ call \in [Threads -> FemasCalls] /\ MaxOrderLocalID \in Nat
      /\ \A n \in DOMAIN m_ordermap : n \in Nat
  BY DEF FemasTypes
<1>7. /\ call[t].ref = MaxOrderLocalID
      /\ call[t].at = "send" => call[t].seen = MaxOrderLocalID
      /\ call[t].at = "map" =>
           /\ call[t].kind \in {"add", "invalid", "delete", "query"}
           /\ \A n \in DOMAIN m_ordermap : n < MaxOrderLocalID
      /\ call[t].at \in {"count", "send"} =>
           /\ call[t].kind # "invalid"
           /\ \A n \in DOMAIN m_ordermap : n <= MaxOrderLocalID
           /\ call[t].kind \in {"add", "delete", "query"} =>
                Mapped(call[t].order, MaxOrderLocalID)
  BY <1>1, <1>4 DEF NextNumber
<1>8. CASE Map(t)
  <2>1. /\ call[t].at = "map" /\ call[t].kind # "invalid" /\ AddOrderId(call[t].order)
        /\ call' = [call EXCEPT ![t].at = "count"]
        /\ UNCHANGED <<MaxOrderLocalID, mIConnet, starting, exchange, history>>
    BY <1>8 DEF Map
  <2>2. call'[t].at = "count"
    BY <1>6, <2>1, StepCall
  <2>3. MaxOrderLocalID \notin DOMAIN m_ordermap
    BY <1>6, <1>7, <2>1
  <2>4. /\ Grows
        /\ DOMAIN m_ordermap' = DOMAIN m_ordermap \cup {MaxOrderLocalID}
        /\ m_ordermap'[MaxOrderLocalID] = call[t].order
    BY <2>1, <2>3, MapGrows DEF Grows
  <2>5. NextNumber'
    <3>1. \A n \in DOMAIN m_ordermap' : n <= MaxOrderLocalID'
      BY <1>6, <1>7, <2>1, <2>4
    <3>2. Mapped(call[t].order, MaxOrderLocalID)'
      BY <1>1, <2>1, <2>2, <2>4 DEF Mapped, Idle
    <3>3. ~Idle(t)'
      BY <2>2 DEF Idle
    <3>4. call'[t].ref = MaxOrderLocalID' /\ call'[t].kind # "invalid"
      BY <1>1, <1>7, <2>1, <3>3
    <3> QED
      BY <1>5, <2>2, <3>1, <3>2, <3>3, <3>4 DEF NextNumber
  <2>6. AboveOld'
    <3>1. call[t].order \in Orders => MaxOrderLocalID > Len(InitOrders)
      <4>1. t = "main" => call[t].order \notin Orders
        <5>1. ASSUME t = "main"
              PROVE  /\ start = "query" /\ turn - 1 \in 1 .. Len(InitOrders)
                     /\ call[t].order = InitOrders[turn - 1]
          <6>1. start = "query" /\ turn > 1 /\ call[t].order = InitOrders[turn - 1]
            BY <1>1, <1>7, <2>1, <5>1 DEF Busy, MainBusy, Asks
          <6>2. turn \in Nat /\ turn <= Len(InitOrders) + 1 /\ Len(InitOrders) \in Nat
            BY <6>1, OldOrders DEF Busy, Turns, FemasTypes
          <6> QED
            BY <6>1, <6>2
        <5> QED
          BY <5>1, OldOrders
      <4>2. t # "main" => start = "ready"
        BY <1>1, <1>2 DEF Busy, StrategyBusy, Threads
      <4> QED
        BY <1>4, <4>1, <4>2 DEF AboveOld
    <3> QED
      BY <1>1, <1>4, <2>1, <2>4, <3>1 DEF AboveOld, Grows, exchange
  <2>7. RightMessages'
    BY <1>4, <2>1, <2>4, SameMessages DEF exchange
  <2> QED
    BY <1>3, <1>4, <2>5, <2>6, <2>7 DEF NumbersInv
<1>9. CASE Count(t)
  <2>1. /\ call[t].at = "count"
        /\ call' = [call EXCEPT ![t].at = "send", ![t].seen = MaxOrderLocalID]
        /\ UNCHANGED <<manager, starting, exchange, history>>
    BY <1>9 DEF Count
  <2>2. call'[t].at = "send" /\ ~Idle(t)'
    BY <1>6, <2>1, StepCall DEF Idle
  <2>3. call'[t].seen = MaxOrderLocalID
    BY <1>6, <2>1 DEF FemasCalls
  <2>4. NextNumber'
    <3>1. /\ \A n \in DOMAIN m_ordermap' : n <= MaxOrderLocalID'
          /\ call[t].kind \in {"add", "delete", "query"} =>
               Mapped(call[t].order, MaxOrderLocalID)'
      BY <1>1, <1>7, <2>1, <2>2 DEF manager, Mapped
    <3>2. /\ call'[t].ref = MaxOrderLocalID' /\ call'[t].seen = MaxOrderLocalID'
          /\ call'[t].kind = call[t].kind /\ call[t].kind # "invalid"
          /\ call'[t].order = call[t].order
      BY <1>1, <1>7, <2>1, <2>2, <2>3 DEF manager
    <3> QED
      BY <1>5, <2>2, <3>1, <3>2 DEF NextNumber, Mapped
  <2>5. AboveOld' /\ RightMessages'
    BY <1>1, <1>4, <2>1, SameMessages, SameAbove DEF Grows, manager, exchange
  <2> QED
    BY <1>3, <1>4, <2>4, <2>5 DEF NumbersInv
<1>10. CASE SendRequest(t)
  <2> DEFINE e == Message(call[t].kind, call[t].order, call[t].ref, TRUE)
  <2>1. /\ call[t].at = "send" /\ MaxOrderLocalID' = call[t].seen + 1
        /\ call' = [call EXCEPT ![t] = NoCall]
        /\ outgoing' = outgoing \/ outgoing' = Append(outgoing, e)
        /\ UNCHANGED <<m_ordermap, mIConnet, answers, accepted, largest>>
    BY <1>10 DEF SendRequest
  <2>2. MaxOrderLocalID' = MaxOrderLocalID + 1
    BY <1>7, <2>1
  <2>3. Idle(t)'
    BY <1>6, <2>1, StepCall DEF Idle
  <2>4. NextNumber'
    <3>1. \A n \in DOMAIN m_ordermap' : n < MaxOrderLocalID'
      BY <1>6, <1>7, <2>1, <2>2
    <3>2. \A u \in Threads : Idle(u)'
      BY <1>5, <2>3
    <3> QED
      BY <3>1, <3>2 DEF NextNumber
  <2>5. AboveOld'
    BY <1>1, <1>4, <1>6, <2>1, <2>2, OldOrders DEF AboveOld
  <2>6. /\ e \in FemasMessages /\ e.kind = call[t].kind /\ e.order = call[t].order
        /\ e.ref = MaxOrderLocalID
    <3>1. call[t] \in FemasCalls
      BY <1>6
    <3> QED
      BY <1>7, <3>1, SentMessage
  <2>7. e.kind \in {"add", "delete"} => e.order \in Orders /\ Mapped(e.order, e.ref)
    <3>1. e.kind \in {"add", "delete"} => t = "strategy"
      BY <1>1, <2>6 DEF Busy, MainBusy, Threads, Asks
    <3>2. t = "strategy" => call[t].order \in Orders
      BY <1>1 DEF Busy, StrategyBusy
    <3> QED
      BY <1>7, <2>1, <2>6, <3>1, <3>2
  <2> HIDE DEF e
  <2>8. RightMessages'
    <3>1. Grows
      BY <2>1 DEF Grows
    <3>2. ASSUME NEW n \in DOMAIN outgoing', outgoing'[n].kind \in {"add", "delete"}
          PROVE  outgoing'[n].order \in Orders /\ Mapped(outgoing'[n].order, outgoing'[n].ref)
      <4>1. outgoing \in Seq(FemasMessages)
        BY DEF FemasTypes
      <4>2. \/ n \in DOMAIN outgoing /\ outgoing'[n] = outgoing[n]
            \/ outgoing'[n] = e
        BY <2>1, <2>6, <3>2, <4>1, AppendAll
      <4> QED
        BY <1>4, <2>7, <3>2, <4>2 DEF RightMessages
    <3> QED
      BY <1>4, <2>1, <3>1, <3>2, StillRight DEF RightMessages
  <2> QED
    BY <1>3, <1>4, <2>4, <2>5, <2>8 DEF NumbersInv
<1> QED
  BY <1>3, <1>8, <1>9, <1>10 DEF Request

\* What is told is told under the right id.
LEMMA RightTold ==
  ASSUME NEW o, NEW ref, AboveOld, Tell(o, ref), ~astray,
         \/ o \in Orders /\ Mapped(o, ref)
         \/ Right(o, ref)
  PROVE  astray' = FALSE
<1>1. CASE o \in Orders
  <2>1. GetOrderId(ref) = o
    BY <1>1 DEF Right, Mapped, GetOrderId
  <2> QED
    BY <1>1, <2>1 DEF Tell
<1>2. CASE o \notin Orders
  <2>1. ref <= Len(InitOrders)
    BY <1>2 DEF Right
  <2>2. ref \in DOMAIN m_ordermap => m_ordermap[ref] \notin Orders
    <3>1. ASSUME ref \in DOMAIN m_ordermap, ref > Len(InitOrders)
          PROVE  FALSE
      <4>1. ref \in Int /\ Len(InitOrders) \in Int
        BY <3>1, OldOrders
      <4> QED
        BY <2>1, <3>1, <4>1
    <3> QED
      BY <3>1 DEF AboveOld
  <2>3. GetOrderId(ref) \notin Orders
    BY <2>2, FemasAssumption DEF GetOrderId
  <2> QED
    BY <1>2, <2>3 DEF Tell
<1> QED
  BY <1>1, <1>2

LEMMA CallbackNumbers ==
  ASSUME FemasTypes, NumbersInv, Callback, Claimed'
  PROVE  NumbersInv'
<1> DEFINE a == Head(answers)
           m == Message("login", None, 0, TRUE)
<1>1. /\ answers # <<>> /\ answers' = Tail(answers)
      /\ UNCHANGED <<starting, call, accepted, largest, early>>
      /\ \/ OnFrontConnected(a) \/ OnRspUserLogin(a) \/ OnRspOrder(a)
         \/ OnRspQryOrder(a) \/ OnRspQry(a)
  BY DEF Callback
<1>2. outgoing \in Seq(FemasMessages) /\ answers \in Seq(FemasMessages) /\ a \in FemasMessages
  BY <1>1, TailElements DEF FemasTypes
<1>3. a = answers[1] /\ 1 \in DOMAIN answers
  BY <1>1, <1>2, TailElements
<1>4. \A n \in DOMAIN answers' : \E k \in DOMAIN answers : answers'[n] = answers[k]
  BY <1>1, <1>2, TailAll
<1> HIDE DEF a
<1>5. ~early /\ calm
  BY <1>1 DEF Claimed, OnFrontConnected, OnRspUserLogin, OnRspOrder, OnRspQryOrder, OnRspQry
<1>6. NextNumber /\ AboveOld /\ RightMessages /\ ~astray
  BY <1>5 DEF NumbersInv
<1>7. m_ordermap' = m_ordermap /\ Grows
  BY <1>1 DEF OnFrontConnected, OnRspUserLogin, OnRspOrder, OnRspQryOrder, OnRspQry,
     manager, Grows
<1>8. RightMessages'
  <2>1. ASSUME NEW n \in DOMAIN outgoing', outgoing'[n].kind \in {"add", "delete"}
        PROVE  outgoing'[n].order \in Orders /\ Mapped(outgoing'[n].order, outgoing'[n].ref)
    <3>1. outgoing' = outgoing \/ outgoing' = Append(outgoing, m)
      BY <1>1 DEF OnFrontConnected, OnRspUserLogin, OnRspOrder, OnRspQryOrder, OnRspQry
    <3>2. m \in FemasMessages /\ m.kind = "login"
      BY OwnMessages
    <3> HIDE DEF m
    <3>3. n \in DOMAIN outgoing /\ outgoing'[n] = outgoing[n]
      <4>1. CASE outgoing' = Append(outgoing, m)
        <5>1. \/ n \in DOMAIN outgoing /\ outgoing'[n] = outgoing[n]
              \/ outgoing'[n] = m
          BY <1>2, <3>2, <4>1, AppendAll
        <5> QED
          BY <2>1, <3>2, <5>1
      <4> QED
        BY <3>1, <4>1
    <3> QED
      BY <1>6, <2>1, <3>3 DEF RightMessages
  <2>2. /\ \A n \in DOMAIN answers' : answers'[n].kind \in {"add", "delete"} =>
             answers'[n].order \in Orders /\ Mapped(answers'[n].order, answers'[n].ref)
        /\ \A n \in DOMAIN answers' :
             answers'[n].kind \in {"query", "trade"} /\ answers'[n].ok =>
               Right(answers'[n].order, answers'[n].ref)
    BY <1>4, <1>6 DEF RightMessages
  <2>3. \A x \in accepted' : Right(x.order, x.ref)
    BY <1>1, <1>6 DEF RightMessages
  <2> QED
    BY <1>7, <2>1, <2>2, <2>3 DEF RightMessages, Right, Mapped
<1>9. \A n \in DOMAIN answers' : answers'[n].kind = "login" => answers'[n].ref >= Len(InitOrders)
  BY <1>4, <1>6 DEF AboveOld
<1>10. CASE OnRspUserLogin(a)
  <2>1. /\ a.kind = "login" /\ mIConnet' = a.ok /\ UNCHANGED astray
        /\ MaxOrderLocalID' = IF a.ok THEN a.ref + 1 ELSE MaxOrderLocalID
        /\ a.ok => /\ DOMAIN m_ordermap \subseteq 0 .. a.ref
                   /\ \A t \in Threads : Idle(t)
    BY <1>10 DEF OnRspUserLogin, Claimed
  <2>2. a.ref \in Nat /\ a.ok \in BOOLEAN /\ a.ref >= Len(InitOrders)
    BY <1>2, <1>3, <1>6, <2>1 DEF FemasMessages, AboveOld
  <2>3. CASE a.ok
    <3>1. /\ \A n \in DOMAIN m_ordermap' : n < MaxOrderLocalID'
          /\ MaxOrderLocalID' > Len(InitOrders)
      BY <1>7, <2>1, <2>2, <2>3, OldOrders
    <3>2. \A t \in Threads : Idle(t)'
      BY <1>1, <2>1, <2>3 DEF Idle
    <3>3. NextNumber'
      BY <3>1, <3>2 DEF NextNumber
    <3>4. AboveOld'
      BY <1>1, <1>6, <1>7, <1>9, <3>1 DEF AboveOld
    <3> QED
      BY <1>6, <1>8, <2>1, <3>3, <3>4 DEF NumbersInv
  <2>4. CASE ~a.ok
    <3>1. MaxOrderLocalID' = MaxOrderLocalID /\ ~mIConnet' /\ UNCHANGED <<start, call>>
      BY <1>1, <2>1, <2>2, <2>4 DEF starting
    <3>2. NextNumber'
      BY <1>6, <1>7, <3>1 DEF NextNumber, Idle, Mapped
    <3>3. AboveOld'
      BY <1>1, <1>6, <1>7, <1>9, <3>1 DEF AboveOld
    <3> QED
      BY <1>6, <1>8, <2>1, <3>2, <3>3 DEF NumbersInv
  <2> QED
    BY <2>3, <2>4
<1>11. CASE ~OnRspUserLogin(a)
  <2>1. UNCHANGED <<MaxOrderLocalID, mIConnet, start, call>>
    BY <1>1, <1>11 DEF OnFrontConnected, OnRspOrder, OnRspQryOrder, OnRspQry, manager,
       starting
  <2>2. NextNumber'
    BY <1>6, <1>7, <2>1 DEF NextNumber, Idle, Mapped
  <2>3. AboveOld'
    BY <1>1, <1>6, <1>7, <1>9, <2>1 DEF AboveOld
  <2>4. ~astray'
    <3>1. CASE astray' = astray
      BY <1>6, <3>1
    <3>2. CASE OnRspOrder(a)
      BY <1>3, <1>6, <3>2, RightTold DEF OnRspOrder, RightMessages
    <3>3. CASE (OnRspQryOrder(a) \/ (OnRspQry(a) /\ a.kind = "trade")) /\ a.ok
      <4>1. Right(a.order, a.ref)
        BY <1>3, <1>6, <3>3 DEF OnRspQryOrder, RightMessages
      <4>2. Tell(a.order, a.ref)
        BY <3>3 DEF OnRspQryOrder, OnRspQry
      <4> QED
        BY <1>6, <4>1, <4>2, RightTold
    <3> QED
      BY <1>1, <1>11, <3>1, <3>2, <3>3 DEF OnFrontConnected, OnRspQryOrder, OnRspQry
  <2> QED
    BY <1>6, <1>8, <2>2, <2>3, <2>4 DEF NumbersInv
<1> QED
  BY <1>10, <1>11

LEMMA ServeNumbers ==
  ASSUME FemasTypes, NumbersInv, ServeRequest, Claimed'
  PROVE  NumbersInv'
<1> DEFINE r == Head(outgoing)
<1>1. /\ outgoing # <<>> /\ outgoing' = Tail(outgoing) /\ r \in FemasMessages /\ ServeAnswer(r)
      /\ UNCHANGED <<MaxOrderLocalID, m_ordermap, mIConnet, start, call, astray,
                     early, calm>>
  BY ServeAnswers DEF starting, manager, history
<1>2. ~early /\ calm /\ NextNumber /\ AboveOld /\ RightMessages /\ ~astray
  BY <1>1 DEF NumbersInv, Claimed
<1>3. outgoing \in Seq(FemasMessages) /\ answers \in Seq(FemasMessages) /\ largest \in Nat
  BY DEF FemasTypes
<1>4. r = outgoing[1] /\ 1 \in DOMAIN outgoing /\ r.ref \in Nat
  BY <1>1, <1>3, TailElements DEF FemasMessages
<1>5. \A n \in DOMAIN outgoing' : \E k \in DOMAIN outgoing : outgoing'[n] = outgoing[k]
  BY <1>1, <1>3, TailAll
<1> HIDE DEF r
<1>6. /\ largest' >= Len(InitOrders)
      /\ \A a \in accepted' : Right(a.order, a.ref)
  <2>1. CASE UNCHANGED <<accepted, largest>>
    BY <1>2, <2>1 DEF AboveOld, RightMessages
  <2>2. CASE /\ r.kind = "add" /\ r.ref > largest
             /\ accepted' = accepted \cup {[order |-> r.order, ref |-> r.ref]}
             /\ largest' = r.ref
    <3>1. r.order \in Orders /\ Mapped(r.order, r.ref)
      BY <1>2, <1>4, <2>2 DEF RightMessages
    <3>2. Right(r.order, r.ref)
      BY <3>1 DEF Right
    <3>3. largest' >= Len(InitOrders)
      BY <1>2, <1>3, <1>4, <2>2, OldOrders DEF AboveOld
    <3> QED
      BY <1>2, <2>2, <3>2, <3>3 DEF RightMessages
  <2> QED
    BY <1>1, <2>1, <2>2, Zenon DEF ServeAnswer
<1>7. \A n \in DOMAIN answers' :
        /\ answers'[n].kind = "login" => answers'[n].ref >= Len(InitOrders)
        /\ answers'[n].kind \in {"add", "delete"} =>
             answers'[n].order \in Orders /\ Mapped(answers'[n].order, answers'[n].ref)
        /\ answers'[n].kind \in {"query", "trade"} /\ answers'[n].ok =>
             Right(answers'[n].order, answers'[n].ref)
  <2>1. CASE answers' = answers
    BY <1>2, <2>1 DEF AboveOld, RightMessages
  <2>2. CASE answers' # answers
    <3>1. PICK o \in FemasIds, ref \in Nat, ok \in BOOLEAN :
            /\ answers' = Append(answers, Message(r.kind, o, ref, ok))
            /\ r.kind # "login" => o = r.order
            /\ r.kind = "login" => ref = largest
            /\ r.kind \in {"add", "delete"} => ref = r.ref
            /\ r.kind \in {"query", "trade", "position"} /\ ok =>
                 [order |-> r.order, ref |-> ref] \in accepted
      BY <1>1, <2>2, Zenon DEF ServeAnswer
    <3> DEFINE e == Message(r.kind, o, ref, ok)
    <3>2. /\ e \in FemasMessages /\ e.kind = r.kind /\ e.order = o /\ e.ref = ref
          /\ e.ok = ok
      BY <1>1, OfFemasMessages DEF FemasMessages
    <3>3. answers' = Append(answers, e)
      BY <3>1
    <3> HIDE DEF e
    <3>4. e.kind = "login" => e.ref >= Len(InitOrders)
      BY <1>2, <3>1, <3>2 DEF AboveOld
    <3>5. e.kind \in {"add", "delete"} => e.order \in Orders /\ Mapped(e.order, e.ref)
      BY <1>2, <1>4, <3>1, <3>2 DEF RightMessages
    <3>6. e.kind \in {"query", "trade"} /\ e.ok => Right(e.order, e.ref)
      BY <1>2, <3>1, <3>2 DEF RightMessages
    <3>7. \A n \in DOMAIN answers' :
            (n \in DOMAIN answers /\ answers'[n] = answers[n]) \/ answers'[n] = e
      BY <1>3, <3>2, <3>3, AppendAll
    <3> QED
      BY <1>2, <3>4, <3>5, <3>6, <3>7 DEF AboveOld, RightMessages
  <2> QED
    BY <2>1, <2>2
<1>8. \A n \in DOMAIN outgoing' : outgoing'[n].kind \in {"add", "delete"} =>
        outgoing'[n].order \in Orders /\ Mapped(outgoing'[n].order, outgoing'[n].ref)
  BY <1>2, <1>5 DEF RightMessages
<1>9. RightMessages'
  BY <1>1, <1>6, <1>7, <1>8 DEF RightMessages, Right, Mapped
<1>10. AboveOld'
  BY <1>1, <1>2, <1>6, <1>7 DEF AboveOld
<1>11. NextNumber'
  BY <1>1, <1>2 DEF NextNumber, Idle, Mapped
<1> QED
  BY <1>1, <1>2, <1>9, <1>10, <1>11 DEF NumbersInv

LEMMA LinkNumbers ==
  ASSUME FemasTypes, NumbersInv, OnRtn \/ Connect \/ LoseLink \/ UNCHANGED femasVars, Claimed'
  PROVE  NumbersInv'
<1>1. /\ UNCHANGED <<MaxOrderLocalID, m_ordermap, mIConnet, start, call, early, calm,
                     accepted, largest>>
  BY DEF OnRtn, Connect, LoseLink, femasVars, manager, starting, exchange, history
<1>2. ~early /\ calm /\ NextNumber /\ AboveOld /\ RightMessages /\ ~astray
  BY <1>1 DEF NumbersInv, Claimed
<1>3. NextNumber' /\ Grows
  BY <1>1, <1>2 DEF NextNumber, Idle, Mapped, Grows
<1>4. CASE UNCHANGED <<outgoing, answers>>
  <2>1. AboveOld' /\ RightMessages'
    BY <1>1, <1>2, <1>3, <1>4, SameAbove, SameMessages
  <2>2. ~astray'
    <3>1. CASE OnRtn
      <4>1. PICK a \in accepted : Tell(a.order, a.ref)
        BY <3>1 DEF OnRtn
      <4>2. Right(a.order, a.ref)
        BY <1>2 DEF RightMessages
      <4> QED
        BY <1>2, <4>1, <4>2, RightTold
    <3>2. CASE astray' = astray
      BY <1>2, <3>2
    <3> QED
      BY <3>1, <3>2 DEF Connect, LoseLink, femasVars, history
  <2> QED
    BY <1>3, <2>1, <2>2 DEF NumbersInv
<1>5. CASE Connect
  <2> DEFINE m == Message("connected", None, 0, TRUE)
  <2>1. answers' = <<m>> /\ outgoing' = outgoing /\ astray' = astray
    BY <1>5 DEF Connect, history
  <2>2. \A n \in DOMAIN answers' : answers'[n].kind = "connected"
    <3>1. m \in FemasMessages /\ m.kind = "connected"
      BY OwnMessages
    <3> HIDE DEF m
    <3>2. DOMAIN <<m>> = {1} /\ <<m>>[1] = m
      BY <3>1, OneElement
    <3> QED
      BY <2>1, <3>1, <3>2
  <2> QED
    BY <1>1, <1>2, <1>3, <2>1, <2>2 DEF NumbersInv, AboveOld, RightMessages, Mapped, Right
<1>6. CASE LoseLink
  <2>1. answers' = <<>> /\ outgoing' = <<>> /\ astray' = astray
    BY <1>6 DEF LoseLink, history
  <2> QED
    BY <1>1, <1>2, <1>3, <2>1 DEF NumbersInv, AboveOld, RightMessages, Mapped, Right
<1> QED
  BY <1>4, <1>5, <1>6 DEF OnRtn, femasVars, exchange

LEMMA NextNumbers ==
  ASSUME FemasTypes, Busy, NumbersInv, [FemasNext]_femasVars
  PROVE  NumbersInv'
<1>1. CASE ~Claimed'
  BY <1>1 DEF NumbersInv, Claimed
<1>2. CASE Claimed'
  BY <1>2, StartNumbers, StrategyNumbers, RequestNumbers, CallbackNumbers, ServeNumbers,
     LinkNumbers DEF FemasNext
<1> QED
  BY <1>1, <1>2

-----------------------------------------------------------------------------
(* The theorems.                                                           *)

LEMMA InitStart == FemasInit => StartInv
<1> SUFFICES ASSUME FemasInit PROVE StartInv
  OBVIOUS
<1>1. start = "connect" /\ outgoing = <<>> /\ answers = <<>> /\ wait = "none"
  BY Zenon DEF FemasInit
<1>2. NoAsks(outgoing) /\ NoAsks(answers) /\ NoQuery(outgoing) /\ NoQuery(answers)
  BY <1>1 DEF NoAsks, NoQuery
<1> QED
  BY <1>1, <1>2, NoneAsked DEF StartInv, OneAsked, Queries, Verified, Asks

LEMMA InitNumbers == FemasInit => NumbersInv
<1> SUFFICES ASSUME FemasInit PROVE NumbersInv
  OBVIOUS
<1>1. /\ DOMAIN m_ordermap = {} /\ ~mIConnet /\ start = "connect" /\ ~astray
      /\ outgoing = <<>> /\ answers = <<>> /\ largest = Len(InitOrders)
  BY DEF FemasInit
<1>2. \A t \in Threads : Idle(t)
  BY DEF FemasInit, Idle, NoCall
<1>3. \A a \in accepted : Right(a.order, a.ref)
  <2>1. ASSUME NEW n \in DOMAIN InitOrders
        PROVE  Right(InitOrders[n], n)
    <3>1. n \in 1 .. Len(InitOrders) /\ n <= Len(InitOrders)
      BY OldOrders
    <3> QED
      BY <3>1, OldOrders DEF Right
  <2> QED
    BY <2>1 DEF FemasInit
<1> QED
  BY <1>1, <1>2, <1>3, OldOrders DEF NumbersInv, NextNumber, AboveOld, RightMessages

\* CFemasCommunicator and CUstpFtdcTraderManger at every step: one request at a
\* time in Start, its queries answered in sequence, and the numbers.
THEOREM FemasInvariant == FemasSpec => []FemasInv
<1>1. FemasInit => FemasInv
  BY InitTypes, InitBusy, InitStart, InitNumbers DEF FemasInv
<1>2. FemasInv /\ [FemasNext]_femasVars => FemasInv'
  BY NextTypes, NextBusy, NextOneAsked, NextQueries, NextVerified, NextNumbers
     DEF FemasInv, StartInv
<1> QED
  BY <1>1, <1>2, PTL DEF FemasSpec

\* AnswersReach: AddOrderId notes a number under the id of its order before
\* the request with it leaves, and as long as calm is true no number is given
\* out twice, so GetOrderId finds the order whatever comes back when.
THEOREM AnswersFindOrders == FemasSpec => []AnswersReach
<1>1. FemasInv => AnswersReach
  BY DEF FemasInv, NumbersInv, AnswersReach
<1> QED
  BY <1>1, FemasInvariant, PTL

\* StartVerifies: CFemasCommunicator::Start tells of OnExchangeReady only after
\* an answer to every query.  None is matched with its query: the trades and
\* positions are asked for one at a time, and of the orders as many answers are
\* counted as there were queries, which come back in sequence.
THEOREM ReadyIsVerified == FemasSpec => []StartVerifies
<1>1. FemasInv => StartVerifies
  BY DEF FemasInv, StartInv, Verified, AllAnswered, StartVerifies, Asks
<1> QED
  BY <1>1, FemasInvariant, PTL

=============================================================================
