------------------------ MODULE ReplaySimulaterProof ------------------------
(***************************************************************************)
(* Theorems about ReplaySimulater: the pump (reader, replayer, m_messages) *)
(* and the order matcher that it drives.  The two halves of the inductive  *)
(* invariant IInv speak of different variables; ReplayOne alone moves both *)
(* at once.                                                                *)
(***************************************************************************)
EXTENDS ReplaySimulater, ContainerProof

\* The records pushed into m_messages so far.
Pushed == Len(replayed) + Len(messages)

\* The cursor of the reader (last_message) is the stamp of the record pushed
\* last, wherever the replayer has got to; what is pushed, and the page that is
\* about to be, are consecutive records; the end is declared only when all are
\* pushed, and the replayer leaves by itself only after that with an empty
\* queue.
PumpInv ==
  /\ PumpTypeOK
  /\ Pushed + Len(page) <= Len(Stamps)
  /\ last = IF Pushed = 0 THEN 0 ELSE Stamps[Pushed]
  /\ \A i \in DOMAIN replayed : replayed[i] = i
  /\ \A i \in DOMAIN messages : messages[i] = Len(replayed) + i
  /\ \A i \in DOMAIN page : page[i] = Pushed + i
  /\ reader = "push" <=> page # <<>>
  /\ fetchEnd => Pushed = Len(Stamps)
  /\ replayer = "done" /\ ~stopped => fetchEnd /\ messages = <<>>

\* Exchange order ids are given out upwards, so a new one is not in use.
MatcherInv ==
  /\ MatcherTypeOK
  /\ EveryOrderOnce
  /\ \A id \in Known : Exchange(id) \in 1 .. lastId
  /\ ToldIsTrue
  /\ NoneLeftBehind

IInv == PumpInv /\ MatcherInv

-----------------------------------------------------------------------------
\* What Query returns: the records that follow those pushed, at most a page,
\* and none only when none are left.
LEMMA FetchedNext ==
  ASSUME PumpInv
  PROVE  \E n \in 0 .. Len(Stamps) - Pushed :
           /\ Fetched = [i \in 1 .. n |-> Pushed + i]
           /\ n = 0 => Pushed = Len(Stamps)
<1> DEFINE N == Len(Stamps)
           k == Pushed
           old == {i \in Records : Stamps[i] <= last}
           later == [i \in 1 .. N - k |-> k + i]
<1>1. /\ N \in Nat /\ k \in 0 .. N /\ Records = 1 .. N
      /\ \A i \in Records : Stamps[i] \in Nat \ {0}
  BY ReplayAssumption DEF PumpInv, PumpTypeOK, Pushed, Records
<1>2. old = 1 .. k
  <2>1. CASE k = 0
    BY <1>1, <2>1 DEF PumpInv
  <2>2. CASE k # 0
    <3>1. last = Stamps[k] /\ k \in Records
      BY <1>1, <2>2 DEF PumpInv
    <3>2. \A i \in Records : Stamps[i] <= Stamps[k] <=> i <= k
      BY <1>1, <3>1, ReplayAssumption DEF Records
    <3> QED BY <1>1, <3>1, <3>2
  <2> QED BY <2>1, <2>2
<1>3. Remaining([i \in Records |-> i], old) = later
  <2> HIDE DEF old, k, N
  <2> QED BY <1>1, <1>2, RemainingTail
<1> DEFINE n == IF Len(later) < PageSize THEN Len(later) ELSE PageSize
<1>4. Fetched = SubSeq(later, 1, n)
  BY <1>3 DEF Fetched
<1>5. later \in Seq(Nat) /\ Len(later) = N - k
  BY <1>1
<1>6. n \in 0 .. N - k /\ (n = 0 => k = N)
  <2> HIDE DEF later, k, N
  <2> QED BY <1>1, <1>5, ReplayAssumption
<1>7. \A i \in 1 .. N - k : later[i] = k + i
  OBVIOUS
<1>8. SubSeq(later, 1, n) = [i \in 1 .. n |-> k + i]
  <2> HIDE DEF later, n, k, N
  <2> QED BY <1>5, <1>6, <1>7
<1> HIDE DEF n, later, old
<1> QED BY <1>4, <1>6, <1>8

\* Both threads start with nothing read.
LEMMA PumpInit == Init => PumpInv
<1> SUFFICES ASSUME Init PROVE PumpInv
  OBVIOUS
<1>1. PumpTypeOK
  <2>1. <<>> \in Seq(Records)
    OBVIOUS
  <2> QED BY <2>1 DEF Init, PumpTypeOK, ReaderSteps, ReplayerSteps
<1>2. Pushed = 0 /\ Len(page) = 0 /\ Len(Stamps) \in Nat
  BY ReplayAssumption DEF Init, Pushed
<1>3. DOMAIN replayed = {} /\ DOMAIN messages = {} /\ DOMAIN page = {}
  BY DEF Init
<1> QED BY <1>1, <1>2, <1>3 DEF Init, PumpInv

\* Query reads on from the record pushed last.
LEMMA PumpQuery ==
  ASSUME PumpInv, ReadQuery
  PROVE  PumpInv'
<1>1. PICK n \in 0 .. Len(Stamps) - Pushed :
        /\ Fetched = [i \in 1 .. n |-> Pushed + i]
        /\ n = 0 => Pushed = Len(Stamps)
  BY FetchedNext
<1>2. /\ Pushed \in Nat /\ Len(Stamps) \in Nat /\ Records = 1 .. Len(Stamps)
      /\ page = <<>>
  BY ReplayAssumption DEF PumpInv, PumpTypeOK, Pushed, Records, ReadQuery
<1>3. page' = [i \in 1 .. n |-> Pushed + i]
  BY <1>1 DEF ReadQuery
<1>4. /\ page' \in Seq(Records) /\ Len(page') = n /\ DOMAIN page' = 1 .. n
      /\ page' = <<>> <=> n = 0
  BY <1>2, <1>3
<1>5. UNCHANGED <<replayer, last, messages, stopped, replayed>>
  BY DEF ReadQuery
<1>6. Pushed' = Pushed
  BY <1>5 DEF Pushed
<1>7. PumpTypeOK'
  BY <1>4, <1>5 DEF PumpInv, PumpTypeOK, ReadQuery, ReaderSteps
<1>8. (Pushed + Len(page) <= Len(Stamps))'
  BY <1>2, <1>4, <1>6
<1>9. (\A i \in DOMAIN page : page[i] = Pushed + i)'
  BY <1>3, <1>6
<1>10. (reader = "push" <=> page # <<>>)'
  BY DEF ReadQuery
<1>11. fetchEnd' => Pushed' = Len(Stamps)
  BY <1>1, <1>4, <1>6 DEF ReadQuery, PumpInv
<1>12. (replayer = "done" /\ ~stopped => fetchEnd /\ messages = <<>>)'
  <2>1. fetchEnd => fetchEnd'
    BY DEF ReadQuery
  <2> QED BY <1>5, <2>1 DEF PumpInv
<1> QED BY <1>5, <1>6, <1>7, <1>8, <1>9, <1>10, <1>11, <1>12 DEF PumpInv

\* A page is put behind the records that wait.
LEMMA PumpPush ==
  ASSUME PumpInv, ReadPush
  PROVE  PumpInv'
<1>1. /\ messages \in Seq(Records) /\ page \in Seq(Records)
      /\ replayed \in Seq(Records)
      /\ messages' = messages \o page /\ page' = <<>>
      /\ page # <<>>
      /\ Len(Stamps) \in Nat /\ Records = 1 .. Len(Stamps)
      /\ UNCHANGED <<fetchEnd, stopped, replayed>>
  BY ReplayAssumption DEF PumpInv, PumpTypeOK, ReadPush, Records
<1>2. /\ messages' \in Seq(Records)
      /\ Len(messages') = Len(messages) + Len(page)
      /\ Len(messages') # 0 /\ Len(page') = 0
      /\ \A i \in 1 .. Len(messages) : messages'[i] = messages[i]
      /\ \A i \in 1 .. Len(page) : messages'[Len(messages) + i] = page[i]
  BY <1>1
<1>3. Pushed' = Pushed + Len(page) /\ Pushed \in Nat
  BY <1>1, <1>2 DEF Pushed
<1>4. \A i \in DOMAIN messages' : messages'[i] = Len(replayed) + i
  <2>1. \A i \in 1 .. Len(messages) : messages'[i] = Len(replayed) + i
    BY <1>1, <1>2 DEF PumpInv
  <2>2. ASSUME NEW i \in 1 .. Len(messages'), i > Len(messages)
        PROVE  messages'[i] = Len(replayed) + i
    <3>1. i - Len(messages) \in 1 .. Len(page)
      BY <1>1, <1>2, <2>2
    <3>2. messages'[i] = page[i - Len(messages)]
      BY <1>1, <1>2, <3>1
    <3>3. page[i - Len(messages)] = Pushed + (i - Len(messages))
      BY <1>1, <3>1 DEF PumpInv
    <3> QED BY <1>1, <3>2, <3>3 DEF Pushed
  <2>3. /\ DOMAIN messages' = 1 .. Len(messages')
        /\ Len(messages) \in Nat /\ Len(messages') \in Nat
    BY <1>1, <1>2
  <2> QED
    <3> TAKE i \in DOMAIN messages'
    <3> QED BY <2>1, <2>2, <2>3
<1>5. /\ Pushed' <= Len(Stamps) /\ Pushed' # 0
      /\ messages'[Len(messages')] = Pushed'
  <2>1. Pushed' <= Len(Stamps) /\ Pushed' # 0
    BY <1>1, <1>2, <1>3 DEF PumpInv, Pushed
  <2>2. Len(messages') \in DOMAIN messages'
    BY <1>2
  <2>3. messages'[Len(messages')] = Len(replayed) + Len(messages')
    BY <1>4, <2>2
  <2> QED BY <1>1, <2>1, <2>3 DEF Pushed
<1>6. last' = Stamps[Pushed']
  BY <1>5 DEF ReadPush
<1>7. ~fetchEnd
  BY <1>1, <1>3, <1>5 DEF PumpInv
<1>8. replayer = "done" => stopped
  BY <1>7 DEF PumpInv
<1>9. PumpTypeOK'
  <2>1. Pushed' \in Records
    BY <1>1, <1>3, <1>5
  <2> QED BY <1>1, <1>2, <1>6, <2>1
        DEF PumpInv, PumpTypeOK, ReadPush, ReaderSteps, ReplayerSteps, Woken
<1>10. (replayer = "done" /\ ~stopped => fetchEnd /\ messages = <<>>)'
  BY <1>1, <1>8 DEF ReadPush, Woken
<1>11. (reader = "push" <=> page # <<>>)'
  BY DEF ReadPush
<1>12. (Pushed + Len(page))' <= Len(Stamps)
  BY <1>2, <1>3, <1>5
<1> QED BY <1>1, <1>4, <1>5, <1>6, <1>7, <1>9, <1>10, <1>11, <1>12
      DEF PumpInv

\* The replayer takes the first record that waits.
LEMMA PumpOne ==
  ASSUME PumpInv, ReplayOne
  PROVE  PumpInv'
<1>1. /\ messages \in Seq(Records) /\ replayed \in Seq(Records)
      /\ messages # <<>> /\ messages' = Tail(messages)
      /\ replayed' = Append(replayed, Head(messages))
      /\ UNCHANGED <<page, last, fetchEnd, stopped>>
      /\ replayer' = "test"
      /\ page \in Seq(Records)
  BY DEF PumpInv, PumpTypeOK, ReplayOne
<1>2. /\ messages' \in Seq(Records) /\ replayed' \in Seq(Records)
      /\ Len(messages') = Len(messages) - 1
      /\ Len(replayed') = Len(replayed) + 1
      /\ \A i \in DOMAIN messages' : i + 1 \in DOMAIN messages
                                     /\ messages'[i] = messages[i + 1]
      /\ \A i \in DOMAIN replayed : replayed'[i] = replayed[i]
      /\ DOMAIN replayed' = DOMAIN replayed \cup {Len(replayed) + 1}
      /\ replayed'[Len(replayed) + 1] = messages[1]
      /\ 1 \in DOMAIN messages
  BY <1>1
<1>3. Pushed' = Pushed
  BY <1>1, <1>2 DEF Pushed
<1>4. PumpTypeOK'
  BY <1>1, <1>2 DEF PumpInv, PumpTypeOK, ReplayOne, Woken, ReaderSteps,
    ReplayerSteps
<1>5. \A i \in DOMAIN replayed' : replayed'[i] = i
  BY <1>1, <1>2 DEF PumpInv
<1>6. \A i \in DOMAIN messages' : messages'[i] = Len(replayed') + i
  BY <1>1, <1>2 DEF PumpInv
<1>7. (reader = "push" <=> page # <<>>)'
  BY <1>1 DEF PumpInv, ReplayOne, Woken
<1> QED BY <1>1, <1>3, <1>4, <1>5, <1>6, <1>7 DEF PumpInv

\* Every step of every thread keeps the half about the pump.
LEMMA PumpStep ==
  ASSUME PumpInv, [Next]_vars
  PROVE  PumpInv'
<1>1. CASE Stop
  BY <1>1 DEF Stop, PumpInv, PumpTypeOK, Pushed
<1>2. CASE ReadTest
  BY <1>2 DEF ReadTest, PumpInv, PumpTypeOK, Pushed, ReaderSteps
<1>3. CASE ReadQuery
  BY <1>3, PumpQuery
<1>4. CASE ReadPush
  BY <1>4, PumpPush
<1>5. CASE ReadLeave
  BY <1>5 DEF ReadLeave, PumpInv, PumpTypeOK, Pushed, ReaderSteps,
    ReplayerSteps, Woken
<1>6. CASE ReplayTest
  BY <1>6 DEF ReplayTest, PumpInv, PumpTypeOK, Pushed, ReplayerSteps
<1>7. CASE ReplayOne
  BY <1>7, PumpOne
<1>8. CASE ReplayEmpty
  BY <1>8 DEF ReplayEmpty, PumpInv, PumpTypeOK, Pushed, ReplayerSteps
<1>9. CASE ReplayWait
  BY <1>9 DEF ReplayWait, PumpInv, PumpTypeOK, Pushed, ReplayerSteps
<1>10. CASE Spurious
  BY <1>10 DEF Spurious, PumpInv, PumpTypeOK, Pushed, ReaderSteps,
    ReplayerSteps
<1>11. CASE Strategy
  BY <1>11 DEF Strategy, pumpVars, PumpInv, PumpTypeOK, Pushed
<1>12. CASE UNCHANGED vars
  BY <1>12 DEF vars, pumpVars, PumpInv, PumpTypeOK, Pushed
<1> QED BY <1>1, <1>2, <1>3, <1>4, <1>5, <1>6, <1>7, <1>8, <1>9, <1>10,
      <1>11, <1>12 DEF Next, Reader, Replayer

-----------------------------------------------------------------------------
\* Places in the queue are natural numbers.
LEMMA PlaceNat ==
  ASSUME NEW o \in Orders, NEW l2 \in L2s
  PROVE  Place(o, l2) \in Nat
<1>1. l2.size[o.side] \in Nat /\ TradeRate \in Nat
  <2>1. o.side \in Sides /\ l2.size \in [Sides -> Sizes]
    BY DEF Orders, L2s
  <2>2. Sizes \subseteq Nat /\ TradeRate \in Nat
    BY MatcherAssumption
  <2> QED BY <2>1, <2>2
<1>2. \A a, b \in Nat : a * b \in Nat
  OBVIOUS
<1>3. \A a \in Nat : a \div 100 \in Nat
  OBVIOUS
<1> QED BY <1>1, <1>2, <1>3 DEF Place

\* A fill has a price of the market's or the order's, never worse than that
\* of a limit order.
LEMMA FillPriceFair ==
  ASSUME NEW o \in Orders, NEW l2 \in L2s
  PROVE  /\ FillPrice(o, l2) \in Prices
         /\ o.market \/ ~Better(o.side, FillPrice(o, l2), o.price)
<1>1. /\ o.price \in Prices /\ o.side \in Sides /\ Other(o.side) \in Sides
      /\ l2.best[Other(o.side)] \in Prices \cup {NoPrice}
      /\ Prices \subseteq Nat /\ NoPrice \notin Prices
  BY MatcherAssumption DEF Orders, L2s, Sides, Other, NoPrice
<1>2. CASE Is_price_matching(o, l2)
  BY <1>1, <1>2 DEF FillPrice, Is_price_matching
<1>3. CASE ~Is_price_matching(o, l2)
  <2>1. FillPrice(o, l2) = o.price
    BY <1>3 DEF FillPrice
  <2>2. ~Better(o.side, o.price, o.price)
    <3>1. \A p \in Int : ~(p > p) /\ ~(p < p)
      OBVIOUS
    <3>2. o.price \in Int
      <4>1. o.price \in Prices
        BY DEF Orders
      <4>2. Prices \subseteq Int
        BY MatcherAssumption
      <4> QED BY <4>1, <4>2
    <3> QED BY <3>1, <3>2 DEF Better
  <2> QED BY <1>1, <2>1, <2>2
<1> QED BY <1>2, <1>3

\* An L2 moves an order in the queue and changes nothing else of it.
LEMMA PassedEntry ==
  ASSUME NEW e \in Entries, NEW l2 \in L2s
  PROVE  /\ Passed(e, l2) \in Entries
         /\ Passed(e, l2).order = e.order
         /\ Passed(e, l2).exchange = e.exchange
<1>1. Place(e.order, l2) \in Nat
  BY PlaceNat DEF Entries
<1>2. /\ e.turnover \in Nat
      /\ l2.volume[e.order.side] \in Nat
      /\ e.order.side \in Sides
  BY MatcherAssumption DEF Entries, L2s, Orders
<1>3. e.turnover + l2.volume[e.order.side] \in Nat
  BY <1>2
<1> QED BY <1>1, <1>3 DEF Passed, Entries

\* The entry of a new or changed working order.
LEMMA WorkingEntry ==
  ASSUME MatcherTypeOK, NEW o \in Orders, NEW x \in Nat
  PROVE  /\ Order_working(o, x) \in Entries
         /\ Order_working(o, x).order = o
         /\ Order_working(o, x).exchange = x
<1>1. Calculate_order_position(o) \in Nat \cup {NoPlace}
  <2>1. o.contract \in DOMAIN states => states[o.contract] \in L2s
    BY DEF MatcherTypeOK
  <2> QED BY <2>1, PlaceNat DEF Calculate_order_position
<1> QED BY <1>1 DEF Order_working, Entries

\* The matcher starts without orders and without a market.
LEMMA MatcherInitial == Init => MatcherInv
<1> SUFFICES ASSUME Init PROVE MatcherInv
  OBVIOUS
<1>1. DOMAIN Empty = {} /\ Empty = [x \in {} |-> 0]
  BY DEF Empty
<1>2. /\ DOMAIN working = {} /\ DOMAIN filled = {} /\ DOMAIN canceled = {}
      /\ DOMAIN states = {} /\ Known = {} /\ ids = <<>> /\ DOMAIN ids = {}
      /\ changed = {} /\ lastId = 0
      /\ told = [id \in Ids |-> "none"]
  BY <1>1 DEF Init, MatcherInit, Known
<1>3. MatcherTypeOK
  <2>1. /\ working \in [DOMAIN working -> Entries]
        /\ canceled \in [DOMAIN canceled -> Nat]
        /\ states \in [DOMAIN states -> L2s]
    BY <1>1 DEF Init, MatcherInit
  <2>2. ids \in Seq(Ids) /\ told \in [Ids -> Statuses]
    BY <1>2 DEF Statuses
  <2> QED BY <1>2, <2>1, <2>2 DEF MatcherTypeOK
<1>4. EveryOrderOnce
  BY <1>2 DEF EveryOrderOnce, OneOf
<1>5. ToldIsTrue /\ NoneLeftBehind
  BY <1>2 DEF ToldIsTrue, NoneLeftBehind
<1> QED BY <1>2, <1>3, <1>4, <1>5 DEF MatcherInv

-----------------------------------------------------------------------------
\* A refused request, or an order asked for: only what is told changes.
LEMMA MatcherTold ==
  ASSUME MatcherInv, NEW id \in Ids, NEW s \in Statuses \ {"none"},
         told' = [told EXCEPT ![id] = s],
         id \in DOMAIN working => s \in {"working", "invalid"},
         s = "working" => id \in DOMAIN working,
         s = "filled" => id \in DOMAIN filled,
         s = "cancelled" => id \in DOMAIN canceled,
         UNCHANGED <<working, ids, filled, canceled, states, lastId, changed>>
  PROVE  MatcherInv'
<1>1. MatcherTypeOK'
  BY DEF MatcherInv, MatcherTypeOK, Known
<1>2. EveryOrderOnce'
  BY DEF MatcherInv, EveryOrderOnce, OneOf, Known, Exchange
<1>3. (\A i \in Known : Exchange(i) \in 1 .. lastId)'
  BY DEF MatcherInv, Known, Exchange
<1>4. ToldIsTrue'
  BY DEF MatcherInv, MatcherTypeOK, ToldIsTrue, Known
<1>5. NoneLeftBehind'
  BY DEF MatcherInv, NoneLeftBehind
<1> QED BY <1>1, <1>2, <1>3, <1>4, <1>5 DEF MatcherInv

\* Order_reject.
LEMMA MatcherReject ==
  ASSUME MatcherInv, NEW id \in Ids, id \notin DOMAIN working, Reject(id)
  PROVE  MatcherInv'
BY MatcherTold DEF Reject, Statuses

\* Reject_order of StrategyCommunicator, whatever has become of the order.
LEMMA MatcherInvalid ==
  ASSUME MatcherInv, NEW id \in Ids, Reject_order(id)
  PROVE  MatcherInv'
BY MatcherTold DEF Reject_order, Statuses

\* Order_status.
LEMMA MatcherQuery ==
  ASSUME MatcherInv, NEW id \in Ids, Query(id)
  PROVE  MatcherInv'
<1>1. CASE id \notin Known
  BY <1>1, MatcherReject DEF Query, Known
<1>2. CASE id \in Known
  <2> DEFINE s == IF id \in DOMAIN filled THEN "filled"
                  ELSE IF id \in DOMAIN canceled THEN "cancelled"
                  ELSE "working"
  <2>1. /\ s \in Statuses \ {"none"}
        /\ s = "working" <=> id \in DOMAIN working
        /\ s = "filled" => id \in DOMAIN filled
        /\ s = "cancelled" => id \in DOMAIN canceled
    BY <1>2 DEF Statuses, Known, MatcherInv, EveryOrderOnce
  <2>2. /\ told' = [told EXCEPT ![id] = s]
        /\ UNCHANGED <<working, ids, filled, canceled, states, lastId,
                       changed>>
    BY <1>2 DEF Query
  <2> HIDE DEF s
  <2> QED BY <2>1, <2>2, MatcherTold
<1> QED BY <1>1, <1>2

\* A new order takes the next exchange order id, filled or working.
LEMMA MatcherAdd ==
  ASSUME MatcherInv, NEW id \in Ids, NEW o \in Orders, Add(id, o)
  PROVE  MatcherInv'
<1>1. /\ id \notin Known /\ lastId \in Nat /\ lastId' = lastId + 1
      /\ UNCHANGED <<canceled, states, changed>>
      /\ ids \in Seq(Ids) /\ told \in [Ids -> Statuses]
      /\ MatcherTypeOK
  BY DEF Add, MatcherInv, MatcherTypeOK
<1>2. /\ \A i \in Known : Exchange(i) \in 1 .. lastId
      /\ \A i, j \in Known : i # j => Exchange(i) # Exchange(j)
  BY DEF MatcherInv, EveryOrderOnce
<1>3. ASSUME Known' = Known \cup {id}, Exchange(id)' = lastId',
             \A i \in Known : Exchange(i)' = Exchange(i)
      PROVE  /\ (\A i \in Known : Exchange(i) \in 1 .. lastId)'
             /\ (\A i, j \in Known : i # j => Exchange(i) # Exchange(j))'
  <2>1. \A i \in Known' : Exchange(i)' \in 1 .. lastId'
    BY <1>1, <1>2, <1>3
  <2>2. \A i \in Known : Exchange(i)' # lastId'
    BY <1>1, <1>2, <1>3
  <2> QED BY <1>1, <1>2, <1>3, <2>1, <2>2
<1>4. CASE Has_matching(o)
  <2> DEFINE l2 == states[o.contract]
             fill == Order_filled(o, lastId', l2)
  <2>1. l2 \in L2s
    BY <1>1, <1>4 DEF Has_matching, MatcherTypeOK
  <2>2. /\ filled' = With(filled, id, fill)
        /\ told' = [told EXCEPT ![id] = "filled"]
        /\ UNCHANGED <<working, ids>>
    BY <1>4 DEF Add
  <2>3. /\ fill.order = o /\ fill.exchange = lastId' /\ fill.price \in Prices
        /\ o.market \/ ~Better(o.side, fill.price, o.price)
    BY <2>1, FillPriceFair DEF Order_filled
  <2> HIDE DEF l2, fill
  <2>4. /\ DOMAIN filled' = DOMAIN filled \cup {id}
        /\ filled'[id] = fill
        /\ \A i \in DOMAIN filled : filled'[i] = filled[i]
    BY <1>1, <2>2 DEF With, Known
  <2>5. Known' = Known \cup {id}
    BY <1>1, <2>2, <2>4 DEF Known
  <2>6. Exchange(id)' = lastId' /\ \A i \in Known : Exchange(i)' = Exchange(i)
    BY <1>1, <2>2, <2>3, <2>4 DEF Known, Exchange
  <2>7. MatcherTypeOK'
    <3>1. \A i \in DOMAIN filled' :
            /\ filled'[i].order \in Orders
            /\ filled'[i].exchange \in Nat
            /\ filled'[i].price \in Prices
            /\ \/ filled'[i].order.market
               \/ ~Better(filled'[i].order.side, filled'[i].price,
                          filled'[i].order.price)
      BY <1>1, <2>3, <2>4 DEF MatcherTypeOK
    <3>2. told' \in [Ids -> Statuses]
      BY <1>1, <2>2 DEF Statuses
    <3> QED BY <1>1, <2>2, <2>5, <3>1, <3>2 DEF MatcherTypeOK
  <2>8. EveryOrderOnce'
    BY <1>1, <1>3, <2>2, <2>4, <2>5, <2>6
       DEF MatcherInv, EveryOrderOnce, OneOf, Known
  <2>9. ToldIsTrue'
    BY <1>1, <2>2, <2>4 DEF MatcherInv, ToldIsTrue, Known
  <2>10. NoneLeftBehind'
    BY <1>1, <2>2 DEF MatcherInv, NoneLeftBehind
  <2> QED BY <1>3, <2>5, <2>6, <2>7, <2>8, <2>9, <2>10 DEF MatcherInv
<1>5. CASE ~Has_matching(o)
  <2> DEFINE e == Order_working(o, lastId')
  <2>1. e \in Entries /\ e.order = o /\ e.exchange = lastId'
    BY <1>1, WorkingEntry
  <2>2. /\ working' = With(working, id, e)
        /\ ids' = Append(ids, id)
        /\ told' = [told EXCEPT ![id] = "working"]
        /\ UNCHANGED filled
    BY <1>5 DEF Add
  <2> HIDE DEF e
  <2>3. /\ DOMAIN working' = DOMAIN working \cup {id}
        /\ working'[id] = e
        /\ \A i \in DOMAIN working : working'[i] = working[i]
        /\ working' = [i \in DOMAIN working' |-> working'[i]]
    BY <1>1, <2>2 DEF With, Known
  <2>4. /\ ids' \in Seq(Ids)
        /\ DOMAIN ids' = DOMAIN ids \cup {Len(ids) + 1}
        /\ \A i \in DOMAIN ids : ids'[i] = ids[i]
        /\ ids'[Len(ids) + 1] = id
    BY <1>1, <2>2
  <2>5. Known' = Known \cup {id}
    BY <1>1, <2>2, <2>3 DEF Known
  <2>6. Exchange(id)' = lastId' /\ \A i \in Known : Exchange(i)' = Exchange(i)
    BY <1>1, <2>1, <2>2, <2>3 DEF Known, Exchange
  <2>7. MatcherTypeOK'
    <3>1. working' \in [DOMAIN working' -> Entries]
      <4>1. \A i \in DOMAIN working' : working'[i] \in Entries
        BY <1>1, <2>1, <2>3 DEF MatcherTypeOK
      <4> QED BY <2>3, <4>1
    <3>2. told' \in [Ids -> Statuses]
      BY <1>1, <2>2 DEF Statuses
    <3>3. changed' \subseteq DOMAIN working'
      BY <1>1, <2>3 DEF MatcherTypeOK
    <3> QED BY <1>1, <2>2, <2>4, <2>5, <3>1, <3>2, <3>3 DEF MatcherTypeOK
  <2>8. EveryOrderOnce'
    <3>1. /\ {ids[i] : i \in DOMAIN ids} = DOMAIN working
          /\ OneOf(ids)
      BY DEF MatcherInv, EveryOrderOnce
    <3>2. {ids'[i] : i \in DOMAIN ids'} = DOMAIN working'
      BY <2>3, <2>4, <3>1
    <3>3. OneOf(ids')
      BY <1>1, <2>4, <3>1 DEF OneOf, Known
    <3> QED BY <1>1, <1>3, <2>2, <2>3, <2>5, <2>6, <3>2, <3>3
            DEF MatcherInv, EveryOrderOnce, Known
  <2>9. ToldIsTrue'
    BY <1>1, <2>2, <2>3 DEF MatcherInv, ToldIsTrue, Known
  <2>10. NoneLeftBehind'
    BY <1>1, <1>5, <2>1, <2>3 DEF MatcherInv, NoneLeftBehind, Has_matching
  <2> QED BY <1>3, <2>5, <2>6, <2>7, <2>8, <2>9, <2>10 DEF MatcherInv
<1> QED BY <1>4, <1>5

\* A changed order keeps its id and its place in the list.
LEMMA MatcherChange ==
  ASSUME MatcherInv, NEW id \in Ids, NEW o \in Orders, Change(id, o)
  PROVE  MatcherInv'
<1>1. CASE id \notin DOMAIN working
  BY <1>1, MatcherReject DEF Change
<1>2. CASE id \in DOMAIN working
  <2> DEFINE e == Order_working(o, working[id].exchange)
  <2>1. e \in Entries /\ e.order = o /\ e.exchange = working[id].exchange
    <3>1. working[id].exchange \in Nat
      BY <1>2 DEF MatcherInv, MatcherTypeOK, Entries
    <3> QED BY <3>1, WorkingEntry DEF MatcherInv
  <2>2. /\ working' = [working EXCEPT ![id] = e]
        /\ told' = [told EXCEPT ![id] = "working"]
        /\ changed' = changed \cup {id}
        /\ UNCHANGED <<ids, filled, canceled, states, lastId>>
    BY <1>2 DEF Change
  <2> HIDE DEF e
  <2>3. /\ working' \in [DOMAIN working -> Entries]
        /\ DOMAIN working' = DOMAIN working
        /\ working'[id].exchange = working[id].exchange
        /\ \A i \in DOMAIN working \ {id} : working'[i] = working[i]
    BY <1>2, <2>1, <2>2 DEF MatcherInv, MatcherTypeOK
  <2>4. Known' = Known /\ \A i \in Known : Exchange(i)' = Exchange(i)
    BY <2>2, <2>3 DEF Known, Exchange
  <2>5. MatcherTypeOK'
    <3>1. told' \in [Ids -> Statuses]
      BY <2>2 DEF MatcherInv, MatcherTypeOK, Statuses
    <3> QED BY <1>2, <2>2, <2>3, <2>4, <3>1 DEF MatcherInv, MatcherTypeOK
  <2>6. EveryOrderOnce'
    BY <2>2, <2>3, <2>4 DEF MatcherInv, EveryOrderOnce, OneOf
  <2>7. (\A i \in Known : Exchange(i) \in 1 .. lastId)'
    BY <2>2, <2>4 DEF MatcherInv
  <2>8. ToldIsTrue'
    BY <1>2, <2>2, <2>3
       DEF MatcherInv, MatcherTypeOK, ToldIsTrue, EveryOrderOnce, Known
  <2>9. NoneLeftBehind'
    BY <2>2, <2>3 DEF MatcherInv, NoneLeftBehind
  <2> QED BY <2>5, <2>6, <2>7, <2>8, <2>9 DEF MatcherInv
<1> QED BY <1>1, <1>2

\* Some working orders leave m_working_order_ids: what is left is right.
LEMMA IdsLeft ==
  ASSUME MatcherInv, NEW gone \in SUBSET DOMAIN working
  PROVE  LET left == Remaining(ids, gone)
         IN  /\ left \in Seq(Ids)
             /\ OneOf(left)
             /\ {left[i] : i \in DOMAIN left} = DOMAIN working \ gone
<1>1. /\ ids \in Seq(Ids)
      /\ \A i, j \in DOMAIN ids : i # j => ids[i] # ids[j]
      /\ {ids[i] : i \in DOMAIN ids} = DOMAIN working
  BY DEF MatcherInv, MatcherTypeOK, EveryOrderOnce, OneOf
<1> QED BY <1>1, RemainingFacts DEF OneOf

\* A deleted order leaves map and list together.
LEMMA MatcherDelete ==
  ASSUME MatcherInv, NEW id \in Ids, Delete(id)
  PROVE  MatcherInv'
<1>1. CASE id \notin DOMAIN working
  BY <1>1, MatcherReject DEF Delete
<1>2. CASE id \in DOMAIN working
  <2>1. /\ told' = [told EXCEPT ![id] = "cancelled"]
        /\ canceled' = With(canceled, id, working[id].exchange)
        /\ ids' = Remaining(ids, {id})
        /\ working' = Without(working, {id})
        /\ changed' = changed \ {id}
        /\ UNCHANGED <<filled, states, lastId>>
    BY <1>2 DEF Delete
  <2>2. MatcherTypeOK /\ EveryOrderOnce /\ working[id].exchange \in Nat
    BY <1>2 DEF MatcherInv, MatcherTypeOK, Entries
  <2>3. id \notin DOMAIN filled /\ id \notin DOMAIN canceled
    BY <1>2, <2>2 DEF EveryOrderOnce
  <2>4. /\ DOMAIN working' = DOMAIN working \ {id}
        /\ \A i \in DOMAIN working' : working'[i] = working[i]
        /\ working' \in [DOMAIN working' -> Entries]
    BY <2>1, <2>2 DEF Without, MatcherTypeOK
  <2>5. /\ DOMAIN canceled' = DOMAIN canceled \cup {id}
        /\ canceled'[id] = working[id].exchange
        /\ \A i \in DOMAIN canceled : canceled'[i] = canceled[i]
        /\ canceled' \in [DOMAIN canceled' -> Nat]
    <3>1. canceled' = [i \in DOMAIN canceled \cup {id} |->
                         IF i = id THEN working[id].exchange
                                   ELSE canceled[i]]
      BY <2>1 DEF With
    <3> QED BY <2>2, <2>3, <3>1 DEF MatcherTypeOK
  <2>6. /\ ids' \in Seq(Ids)
        /\ OneOf(ids')
        /\ {ids'[i] : i \in DOMAIN ids'} = DOMAIN working'
    <3>1. {id} \in SUBSET DOMAIN working
      BY <1>2
    <3>2. DOMAIN working' = DOMAIN working \ {id}
      BY <2>4
    <3>3. ids' = Remaining(ids, {id})
      BY <2>1
    <3> QED BY <3>1, <3>2, <3>3, IdsLeft
  <2>7. Known' = Known
    BY <1>2, <2>1, <2>4, <2>5 DEF Known
  <2>8. \A i \in Known : Exchange(i)' = Exchange(i)
    BY <1>2, <2>1, <2>3, <2>4, <2>5 DEF Known, Exchange
  <2>9. MatcherTypeOK'
    <3>1. told' \in [Ids -> Statuses]
      BY <2>1, <2>2 DEF MatcherTypeOK, Statuses
    <3>2. changed' \subseteq DOMAIN working'
      BY <2>1, <2>2, <2>4 DEF MatcherTypeOK
    <3> QED BY <2>1, <2>2, <2>4, <2>5, <2>6, <2>7, <3>1, <3>2
            DEF MatcherTypeOK
  <2>10. EveryOrderOnce'
    <3>1. \A i, j \in Known' : i # j => Exchange(i)' # Exchange(j)'
      BY <2>2, <2>7, <2>8 DEF EveryOrderOnce
    <3>2. /\ DOMAIN working' \cap DOMAIN filled' = {}
          /\ DOMAIN working' \cap DOMAIN canceled' = {}
          /\ DOMAIN filled' \cap DOMAIN canceled' = {}
      BY <2>1, <2>2, <2>3, <2>4, <2>5 DEF EveryOrderOnce
    <3> QED BY <2>6, <3>1, <3>2 DEF EveryOrderOnce
  <2>11. (\A i \in Known : Exchange(i) \in 1 .. lastId)'
    BY <2>1, <2>7, <2>8 DEF MatcherInv
  <2>12. ToldIsTrue'
    BY <2>1, <2>2, <2>4, <2>5
       DEF MatcherInv, MatcherTypeOK, ToldIsTrue, Known
  <2>13. NoneLeftBehind'
    BY <2>1, <2>4 DEF MatcherInv, NoneLeftBehind
  <2> QED BY <2>9, <2>10, <2>11, <2>12, <2>13 DEF MatcherInv
<1> QED BY <1>1, <1>2

\* On_state_changed: the orders that the market fills leave both, and those it
\* leaves behind are not to be filled at the new best prices.
LEMMA MatcherMarket ==
  ASSUME MatcherInv, NEW c \in Contracts, NEW l2 \in L2s,
         On_state_changed(c, l2)
  PROVE  MatcherInv'
<1> DEFINE mine == {id \in DOMAIN working : working[id].order.contract = c}
           done == {id \in mine : Has_rematching(working[id], l2)}
<1>1. /\ states' = With(states, c, l2)
      /\ filled' = [id \in DOMAIN filled \cup done |->
           IF id \in done
             THEN Order_filled(working[id].order, working[id].exchange, l2)
             ELSE filled[id]]
      /\ ids' = Remaining(ids, done)
      /\ working' = [id \in DOMAIN working \ done |->
           IF id \in mine THEN Passed(working[id], l2) ELSE working[id]]
      /\ told' = [id \in Ids |-> IF id \in done THEN "filled" ELSE told[id]]
      /\ changed' = changed \ mine
      /\ UNCHANGED <<canceled, lastId>>
  BY DEF On_state_changed
<1>2. /\ MatcherTypeOK /\ EveryOrderOnce
      /\ \A id \in DOMAIN working : working[id] \in Entries
      /\ mine \subseteq DOMAIN working /\ done \subseteq mine
      /\ DOMAIN working \subseteq Ids
  BY DEF MatcherInv, MatcherTypeOK, Known
<1>3. \A id \in mine : working[id].order.contract = c
  OBVIOUS
<1>4. \A id \in mine \ done : ~Has_rematching(working[id], l2)
  OBVIOUS
<1>5. \A id \in DOMAIN working \ mine : working[id].order.contract # c
  OBVIOUS
<1> HIDE DEF mine, done
<1>6. /\ DOMAIN working' = DOMAIN working \ done
      /\ \A id \in DOMAIN working' :
           /\ working'[id] \in Entries
           /\ working'[id].order = working[id].order
           /\ working'[id].exchange = working[id].exchange
      /\ working' \in [DOMAIN working' -> Entries]
  <2>1. \A id \in DOMAIN working \ done :
          working'[id] = IF id \in mine THEN Passed(working[id], l2)
                                        ELSE working[id]
    BY <1>1
  <2>2. DOMAIN working' = DOMAIN working \ done
    BY <1>1
  <2>3. \A id \in DOMAIN working' :
          /\ working'[id] \in Entries
          /\ working'[id].order = working[id].order
          /\ working'[id].exchange = working[id].exchange
    BY <1>2, <2>1, <2>2, PassedEntry
  <2>4. working' = [id \in DOMAIN working' |-> working'[id]]
    BY <1>1
  <2> QED BY <2>2, <2>3, <2>4
<1>7. /\ DOMAIN filled' = DOMAIN filled \cup done
      /\ \A id \in done : /\ filled'[id].order = working[id].order
                          /\ filled'[id].exchange = working[id].exchange
                          /\ filled'[id].price =
                               FillPrice(working[id].order, l2)
      /\ \A id \in DOMAIN filled : filled'[id] = filled[id]
  <2>1. \A id \in DOMAIN filled : id \notin done
    BY <1>2 DEF EveryOrderOnce
  <2> QED BY <1>1, <2>1 DEF Order_filled
<1>8. /\ DOMAIN states' = DOMAIN states \cup {c}
      /\ states'[c] = l2
      /\ \A d \in DOMAIN states \ {c} : states'[d] = states[d]
      /\ states' \in [DOMAIN states' -> L2s]
  <2>1. states' = [x \in DOMAIN states \cup {c} |->
                     IF x = c THEN l2 ELSE states[x]]
    BY <1>1 DEF With
  <2> QED BY <1>2, <2>1 DEF MatcherTypeOK
<1>9. /\ ids' \in Seq(Ids)
      /\ OneOf(ids')
      /\ {ids'[i] : i \in DOMAIN ids'} = DOMAIN working'
  BY <1>1, <1>2, <1>6, IdsLeft
<1>10. Known' = Known
  BY <1>1, <1>2, <1>6, <1>7 DEF Known
<1>11. \A id \in Known : Exchange(id)' = Exchange(id)
  <2>1. \A id \in done : id \in DOMAIN working
    BY <1>2
  <2> QED BY <1>1, <1>2, <1>6, <1>7, <2>1 DEF Known, Exchange
<1>12. MatcherTypeOK'
  <2>1. told' \in [Ids -> Statuses]
    BY <1>1, <1>2 DEF MatcherTypeOK, Statuses
  <2>2. changed' \subseteq DOMAIN working'
    BY <1>1, <1>2, <1>6 DEF MatcherTypeOK
  <2>3. \A id \in DOMAIN filled' :
          /\ filled'[id].order \in Orders
          /\ filled'[id].exchange \in Nat
          /\ filled'[id].price \in Prices
          /\ \/ filled'[id].order.market
             \/ ~Better(filled'[id].order.side, filled'[id].price,
                        filled'[id].order.price)
    <3>1. ASSUME NEW id \in done
          PROVE  /\ filled'[id].order \in Orders
                 /\ filled'[id].exchange \in Nat
                 /\ filled'[id].price \in Prices
                 /\ \/ filled'[id].order.market
                    \/ ~Better(filled'[id].order.side, filled'[id].price,
                               filled'[id].order.price)
      <4>1. working[id].order \in Orders /\ working[id].exchange \in Nat
        BY <1>2 DEF Entries
      <4> QED BY <1>7, <4>1, FillPriceFair
    <3>2. \A id \in DOMAIN filled :
          /\ filled'[id].order \in Orders
          /\ filled'[id].exchange \in Nat
          /\ filled'[id].price \in Prices
          /\ \/ filled'[id].order.market
             \/ ~Better(filled'[id].order.side, filled'[id].price,
                        filled'[id].order.price)
      BY <1>2, <1>7 DEF MatcherTypeOK
    <3> QED BY <1>7, <3>1, <3>2
  <2>4. DOMAIN states' \subseteq Contracts
    BY <1>2, <1>8 DEF MatcherTypeOK
  <2> QED BY <1>1, <1>2, <1>6, <1>8, <1>9, <1>10, <2>1, <2>2, <2>3, <2>4
          DEF MatcherTypeOK
<1>13. EveryOrderOnce'
  <2>1. \A i, j \in Known' : i # j => Exchange(i)' # Exchange(j)'
    BY <1>2, <1>10, <1>11 DEF EveryOrderOnce
  <2>2. /\ DOMAIN working' \cap DOMAIN filled' = {}
        /\ DOMAIN working' \cap DOMAIN canceled' = {}
        /\ DOMAIN filled' \cap DOMAIN canceled' = {}
    BY <1>1, <1>2, <1>6, <1>7 DEF EveryOrderOnce
  <2> QED BY <1>9, <2>1, <2>2 DEF EveryOrderOnce
<1>14. (\A id \in Known : Exchange(id) \in 1 .. lastId)'
  BY <1>1, <1>10, <1>11 DEF MatcherInv
<1>15. ToldIsTrue'
  <2>1. \A id \in Ids : told'[id] = IF id \in done THEN "filled"
                                    ELSE told[id]
    BY <1>1
  <2> QED BY <1>1, <1>2, <1>6, <1>7, <2>1
          DEF MatcherInv, ToldIsTrue, Known
<1>16. NoneLeftBehind'
  <2> SUFFICES ASSUME NEW id \in DOMAIN working', id \notin changed',
                      working'[id].order.contract \in DOMAIN states'
               PROVE  ~Is_price_matching(working'[id].order,
                         states'[working'[id].order.contract])
    BY DEF NoneLeftBehind
  <2>1. working'[id].order = working[id].order /\ id \in DOMAIN working
    BY <1>6
  <2>2. CASE id \in mine
    <3>1. id \notin done
      BY <1>6
    <3> QED BY <1>3, <1>4, <1>8, <2>1, <2>2, <3>1 DEF Has_rematching
  <2>3. CASE id \notin mine
    <3>1. id \notin changed /\ working[id].order.contract # c
      BY <1>1, <1>5, <2>1, <2>3
    <3> QED BY <1>8, <2>1, <3>1 DEF MatcherInv, NoneLeftBehind
  <2> QED BY <2>2, <2>3
<1> QED BY <1>12, <1>13, <1>14, <1>15, <1>16 DEF MatcherInv

-----------------------------------------------------------------------------
\* The replayer and the strategy are the only ones to move orders.
LEMMA MatcherStep ==
  ASSUME MatcherInv, [Next]_vars
  PROVE  MatcherInv'
<1>1. CASE ReplayOne
  <2>1. PICK b \in Book : On_state_changed(b[1], b[2])
    BY <1>1 DEF ReplayOne
  <2>2. b[1] \in Contracts /\ b[2] \in L2s
    BY ReplayAssumption
  <2> QED BY <2>1, <2>2, MatcherMarket
<1>2. CASE Strategy
  <2>1. Wanted \subseteq Orders
    BY ReplayAssumption
  <2>2. CASE \E id \in Ids, o \in Wanted : Add(id, o)
    BY <2>1, <2>2, MatcherAdd
  <2>3. ASSUME NEW id \in Ids,
               \/ \E o \in Wanted : Change(id, o)
               \/ Delete(id) \/ Query(id) \/ Reject_order(id)
        PROVE  MatcherInv'
    BY <2>1, <2>3, MatcherChange, MatcherDelete, MatcherQuery, MatcherInvalid
  <2> QED BY <1>2, <2>2, <2>3 DEF Strategy
<1>3. CASE UNCHANGED matcherVars
  <2>1. UNCHANGED <<working, ids, filled, canceled, states, lastId, told,
                    changed>>
    BY <1>3 DEF matcherVars
  <2>2. MatcherTypeOK' /\ ToldIsTrue' /\ NoneLeftBehind'
    BY <2>1 DEF MatcherInv, MatcherTypeOK, ToldIsTrue, NoneLeftBehind, Known
  <2>3. EveryOrderOnce' /\ (\A id \in Known : Exchange(id) \in 1 .. lastId)'
    BY <2>1 DEF MatcherInv, EveryOrderOnce, OneOf, Known, Exchange
  <2> QED BY <2>2, <2>3 DEF MatcherInv
<1>4. [Next]_vars => ReplayOne \/ Strategy \/ UNCHANGED matcherVars
  BY DEF Next, Reader, Replayer, ReadTest, ReadQuery, ReadPush, ReadLeave,
    ReplayTest, ReplayEmpty, ReplayWait, Spurious, Stop, vars
<1> QED BY <1>1, <1>2, <1>3, <1>4

\* The inductive invariant: the cursor, the queue and the page fit together,
\* and so do maps, list, exchange ids, market and answers.
THEOREM Invariant == Spec => []IInv
<1>1. Init => IInv
  BY PumpInit, MatcherInitial DEF IInv
<1>2. IInv /\ [Next]_vars => IInv'
  BY PumpStep, MatcherStep DEF IInv
<1> QED BY <1>1, <1>2, PTL DEF Spec

\* Every variable of pump and matcher keeps its type, and no limit order is
\* ever filled at a price worse than its own, for any market and any rate.
THEOREM TypeCorrect == Spec => []TypeOK
<1>1. IInv => TypeOK
  BY DEF IInv, PumpInv, MatcherInv, TypeOK
<1> QED BY <1>1, Invariant, PTL

\* For every number of records, size of page and interleaving of reader,
\* replayer, Stop and spurious wake-ups, the records are replayed in the order
\* of the database, none left out and none twice.
THEOREM InOrder == Spec => []ReplaysInOrder
<1>1. IInv => ReplaysInOrder
  <2> SUFFICES ASSUME PumpInv PROVE ReplaysInOrder
    BY DEF IInv
  <2>1. /\ replayed \in Seq(Records) /\ messages \in Seq(Records)
        /\ page \in Seq(Records)
    BY DEF PumpInv, PumpTypeOK
  <2> DEFINE front == replayed \o messages
             taken == front \o page
  <2>2. /\ front \in Seq(Records) /\ Len(front) = Pushed
        /\ \A i \in 1 .. Len(front) : front[i] = i
    <3>1. /\ front \in Seq(Records)
          /\ Len(front) = Len(replayed) + Len(messages)
          /\ \A i \in DOMAIN replayed : front[i] = replayed[i]
          /\ \A i \in DOMAIN messages : front[Len(replayed) + i] = messages[i]
      BY <2>1
    <3> HIDE DEF front
    <3>2. ASSUME NEW i \in 1 .. Len(front)
          PROVE  front[i] = i
      <4>1. CASE i <= Len(replayed)
        <5>1. i \in DOMAIN replayed
          BY <2>1, <3>1, <4>1
        <5> QED BY <3>1, <5>1 DEF PumpInv
      <4>2. CASE i > Len(replayed)
        <5>1. i - Len(replayed) \in DOMAIN messages
          BY <2>1, <3>1, <4>2
        <5>2. front[Len(replayed) + (i - Len(replayed))]
                = Len(replayed) + (i - Len(replayed))
          BY <3>1, <5>1 DEF PumpInv
        <5> QED BY <2>1, <5>2
      <4> QED BY <2>1, <4>1, <4>2
    <3> QED BY <3>1, <3>2 DEF Pushed
  <2> HIDE DEF front
  <2>3. /\ taken \in Seq(Records) /\ Len(taken) = Pushed + Len(page)
        /\ \A i \in DOMAIN front : taken[i] = front[i]
        /\ \A i \in DOMAIN page : taken[Pushed + i] = page[i]
    <3>1. /\ taken \in Seq(Records) /\ Len(taken) = Len(front) + Len(page)
          /\ \A i \in DOMAIN front : taken[i] = front[i]
          /\ \A i \in DOMAIN page : taken[Len(front) + i] = page[i]
      <4>1. front \in Seq(Records) /\ page \in Seq(Records)
        BY <2>1, <2>2
      <4> QED BY <4>1
    <3> HIDE DEF taken
    <3> QED BY <2>2, <3>1
  <2> HIDE DEF taken
  <2>4. ASSUME NEW i \in 1 .. Len(taken)
        PROVE  taken[i] = i
    <3>1. CASE i <= Pushed
      BY <2>2, <2>3, <3>1
    <3>2. CASE i > Pushed
      <4>1. Pushed \in Nat
        BY <2>1 DEF Pushed
      <4>2. i - Pushed \in DOMAIN page
        BY <2>1, <2>3, <3>2, <4>1
      <4>3. taken[Pushed + (i - Pushed)] = Pushed + (i - Pushed)
        BY <2>3, <4>2 DEF PumpInv
      <4> QED BY <4>1, <4>3
    <3>3. Pushed \in Nat
      BY <2>1 DEF Pushed
    <3> QED BY <3>1, <3>2, <3>3
  <2>5. DOMAIN taken = 1 .. Len(taken) /\ Len(taken) <= Len(Stamps)
    BY <2>3 DEF PumpInv
  <2> QED BY <2>4, <2>5 DEF ReplaysInOrder, taken, front
<1> QED BY <1>1, Invariant, PTL

\* A replay that nobody stopped ends only when every record was replayed.
THEOREM Complete == Spec => []EndsComplete
<1>1. IInv => EndsComplete
  <2> SUFFICES ASSUME PumpInv, replayer = "done", ~stopped
               PROVE  Len(replayed) = Len(Stamps)
    BY DEF IInv, EndsComplete
  <2>1. messages = <<>> /\ Pushed = Len(Stamps) /\ replayed \in Seq(Records)
    BY DEF PumpInv, PumpTypeOK
  <2> QED BY <2>1 DEF Pushed
<1> QED BY <1>1, Invariant, PTL

\* Every order is in one map, under an exchange id of its own, and listed in
\* m_working_order_ids just when it works.
THEOREM OrdersOnce == Spec => []EveryOrderOnce
<1>1. IInv => EveryOrderOnce
  BY DEF IInv, MatcherInv
<1> QED BY <1>1, Invariant, PTL

\* What a strategy last heard of an order is true, whatever the market did
\* between its requests.
THEOREM ToldTrue == Spec => []ToldIsTrue
<1>1. IInv => ToldIsTrue
  BY DEF IInv, MatcherInv
<1> QED BY <1>1, Invariant, PTL

\* No order works that the last market of its contract would fill, unless it
\* was changed since.
THEOREM NoneBehind == Spec => []NoneLeftBehind
<1>1. IInv => NoneLeftBehind
  BY DEF IInv, MatcherInv
<1> QED BY <1>1, Invariant, PTL
=============================================================================
