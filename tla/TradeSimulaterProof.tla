------------------------ MODULE TradeSimulaterProof ------------------------
(***************************************************************************)
(* Theorems about TradeSimulater.  The inductive invariant IInv says more  *)
(* than the properties do in the middle of Match_order: what is filled of  *)
(* the order that is being matched, what Matches has said will be left of  *)
(* it, and which orders are in the lists.  Each request leads to one of    *)
(* two states: nothing has changed (Quiet), or Match_order begins          *)
(* (Accepted); its loop fills (StepFill), and ends (Finished).             *)
(***************************************************************************)
EXTENDS TradeSimulater, ContainerProof

\* Check_order: a market order is one without a price.
ValidPrice(o) == /\ o.market <=> o.price = NoPrice
                 /\ ~o.market => o.price \in Prices

\* What a fill leaves of an order as it was accepted.
Same(o, a) == /\ o.side = a.side
              /\ o.market = a.market
              /\ o.price = a.price
              /\ o.tif = a.tif

\* The list q has every element of S once, and nothing else.
Listed(q, S) == /\ q \in Seq(Ids)
                /\ \A m, n \in DOMAIN q : m # n => q[m] # q[n]
                /\ {q[n] : n \in DOMAIN q} = S

\* The box: lists and maps hold the same orders, and the order that is being
\* matched is in none of them.
BoxInv ==
  /\ TypeOK
  /\ IsFiniteSet(DOMAIN working)
  /\ Listed(queue, DOMAIN working)
  /\ canceled \cap DOMAIN working = {}
  /\ \A id \in DOMAIN working : ValidPrice(working[id])
  /\ told \in [Ids -> [status : Statuses \cup {"pending"}, left : Nat]]
  /\ ~Idle => /\ ValidPrice(order)
              /\ matching \notin DOMAIN working
              /\ matching \notin canceled

\* What was asked for, got, and left.
QuantityInv ==
  /\ \A id \in DOMAIN working :
       /\ Same(working[id], asked[id])
       /\ working[id].quantity + got[id] = asked[id].quantity
       /\ working[id].filled = got[id]
  /\ ~Idle =>
       /\ Same(order, asked[matching])
       /\ order.quantity + got[matching] = asked[matching].quantity
       /\ order.filled = got[matching]
       /\ asked[matching].quantity > 0
  /\ \A id \in Ids \ {matching} :
       /\ Order_status(id) = "filled" => got[id] = asked[id].quantity
       /\ asked[id].tif = "FOK" => got[id] \in {0, asked[id].quantity}
  /\ \A id \in Ids : got[id] <= fills[id]

\* What Matches said will be left is what the opposite orders leave, all
\* through the loop; an order that is killed has not been filled at all.
MatchInv ==
  ~Idle =>
    IF Killed THEN got[matching] = 0
    ELSE LET all == Sum(Quantity(working), Matching(order, working))
         IN  rest = order.quantity - Smaller(order.quantity, all)

\* The answers about the orders that are not being matched are right; the one
\* about the other already says what will be left of it.
ToldInv ==
  /\ \A id \in Ids \ {matching} :
       /\ Order_status(id) = "none" => told[id].status = "none"
       /\ Order_status(id) = "working" =>
            /\ told[id].status \in {"working", "filled"}
            /\ told[id].left = working[id].quantity
       /\ Order_status(id) \in {"filled", "cancelled"} =>
            told[id] = [status |-> Order_status(id), left |-> 0]
  /\ ~Idle /\ got[matching] > 0 =>
       told[matching] = [status |-> "filled", left |-> rest]

\* The inductive invariant: the properties, and the parts above.
IInv ==
  /\ BoxInv
  /\ QuantityInv
  /\ MatchInv
  /\ ToldInv
  /\ NoneLeftToMatch
  /\ MarketIsOrders
  /\ StrategiesSeeMarket

-----------------------------------------------------------------------------
(* The market data.                                                        *)

Sizes == [Sides -> [Prices -> Nat]]

\* The limit orders that a row of the market is made of.
At(wk, side, p) == {id \in DOMAIN wk : /\ wk[id].side = side
                                       /\ ~wk[id].market
                                       /\ wk[id].price = p}

\* Of two prices one is better, unless they are the same.
LEMMA BetterOne ==
  ASSUME NEW side \in Sides, NEW p \in Prices, NEW q \in Prices
  PROVE  /\ ~Better(side, p, p)
         /\ ~(Better(side, p, q) /\ Better(side, q, p))
         /\ p = q \/ Better(side, p, q) \/ Better(side, q, p)
<1>1. \A m, n \in Nat : ~(m < m) /\ ~(m > m)
                      /\ ~(m < n /\ n < m) /\ (m > n <=> n < m)
                      /\ (m = n \/ m < n \/ n < m)
  OBVIOUS
<1>2. p \in Nat /\ q \in Nat
  BY TradeMarketAssumption
<1> QED BY <1>1, <1>2 DEF Better, Sides

\* A row counts the rows before it, of which there are finitely many.
LEMMA LevelNat ==
  ASSUME NEW szs, NEW side, NEW p
  PROVE  /\ IsFiniteSet({q \in Rows(szs, side) : Better(side, q, p)})
         /\ Level(szs, side, p) \in Nat
         /\ Level(szs, side, p) = 0 <=>
              {q \in Rows(szs, side) : Better(side, q, p)} = {}
<1> DEFINE B == {q \in Rows(szs, side) : Better(side, q, p)}
<1>1. B \subseteq Prices /\ IsFiniteSet(Prices)
  BY TradeMarketAssumption DEF Rows
<1>2. IsFiniteSet(B)
  BY <1>1, FS_Subset
<1> HIDE DEF B
<1>3. Cardinality(B) \in Nat /\ (Cardinality(B) = 0 <=> B = {})
  BY <1>2, FS_CardinalityType, FS_EmptySet
<1> QED BY <1>2, <1>3 DEF Level, B

\* A worse row does not come before a better one.
LEMMA LevelGrows ==
  ASSUME NEW szs, NEW side, NEW p \in Prices, NEW q \in Prices,
         Better(side, p, q)
  PROVE  Level(szs, side, p) <= Level(szs, side, q)
<1> DEFINE B(r) == {s \in Rows(szs, side) : Better(side, s, r)}
<1>1. B(p) \subseteq B(q)
  BY TradeMarketAssumption DEF Rows, Better
<1>2. IsFiniteSet(B(q))
  BY LevelNat
<1> HIDE DEF B
<1>3. Cardinality(B(p)) <= Cardinality(B(q))
  BY <1>1, <1>2, FS_Subset
<1> QED BY <1>3 DEF Level, B

\* The strategies are sent the market whenever they could see the difference:
\* a row beyond the depth, and what comes behind it, is not shown, and behind
\* another row it is not the best.
LEMMA SendTells ==
  ASSUME StrategiesSeeMarket, sizes \in Sizes, sizes' \in Sizes,
         NEW side \in Sides, NEW p \in Prices,
         \A s \in Sides, q \in Prices :
           s # side \/ q # p => sizes'[s][q] = sizes[s][q],
         Send(side, p)
  PROVE  StrategiesSeeMarket'
<1> DEFINE L(s, q) == Level(sizes, s, q)
           M(s, q) == Level(sizes', s, q)
           far == L(side, p)
<1>1. \A s \in Sides, q \in Prices :
        s # side \/ q # p => (q \in Rows(sizes, s) <=> q \in Rows(sizes', s))
  BY DEF Rows
<1>2. \A s \in Sides, q \in Prices :
        s # side \/ q = p \/ Better(side, q, p) => M(s, q) = L(s, q)
  <2> TAKE s \in Sides, q \in Prices
  <2> HAVE s # side \/ q = p \/ Better(side, q, p)
  <2>1. {r \in Rows(sizes, s) : Better(s, r, q)}
          = {r \in Rows(sizes', s) : Better(s, r, q)}
    <3>1. \A r \in Prices : Better(s, r, q) => s # side \/ r # p
      BY BetterOne
    <3>2. Rows(sizes, s) \subseteq Prices /\ Rows(sizes', s) \subseteq Prices
      BY DEF Rows
    <3> QED BY <1>1, <3>1, <3>2
  <2> QED BY <2>1 DEF Level
<1>3. \A q \in Prices : q = p \/ Better(side, q, p) \/ Better(side, p, q)
  BY BetterOne
<1>4. \A q \in Prices : Better(side, p, q) =>
        far <= L(side, q) /\ far <= M(side, q)
  <2>1. M(side, p) = far
    BY <1>2
  <2> QED BY <2>1, LevelGrows
<1>5. \A s \in Sides, q \in Prices : L(s, q) \in Nat /\ M(s, q) \in Nat
  BY LevelNat
<1>6. l2Told' = L2(sizes')
  <2>1. CASE far < Depth
    BY <2>1 DEF Send
  <2>2. CASE ~(far < Depth)
    <3>1. ASSUME NEW s \in Sides, NEW q \in Prices
          PROVE  (IF L(s, q) < Depth THEN sizes[s][q] ELSE 0)
                   = (IF M(s, q) < Depth THEN sizes'[s][q] ELSE 0)
      <4>1. CASE s # side \/ Better(side, q, p)
        <5>1. q # p \/ s # side
          BY <4>1, TradeMarketAssumption DEF Better
        <5> HIDE DEF L, M
        <5> QED BY <1>2, <4>1, <5>1
      <4>2. CASE s = side /\ ~Better(side, q, p)
        <5>1. far <= L(s, q) /\ far <= M(s, q)
          <6>1. q = p => L(s, q) = far /\ M(s, q) = far
            BY <1>2, <4>2
          <6>2. q # p => Better(side, p, q)
            BY <1>3, <4>2
          <6> HIDE DEF L, M
          <6> QED BY <1>4, <1>5, <4>2, <6>1, <6>2
        <5>2. /\ far \in Nat /\ Depth \in Nat
              /\ L(s, q) \in Nat /\ M(s, q) \in Nat
          BY <1>5, TradeMarketAssumption
        <5> HIDE DEF L, M
        <5> QED BY <2>2, <5>1, <5>2
      <4> QED BY <4>1, <4>2
    <3>2. L2(sizes) = [s \in Sides |-> [q \in Prices |->
                        IF L(s, q) < Depth THEN sizes[s][q] ELSE 0]]
      BY DEF L2
    <3>3. L2(sizes') = [s \in Sides |-> [q \in Prices |->
                         IF M(s, q) < Depth THEN sizes'[s][q] ELSE 0]]
      BY DEF L2
    <3>4. L2(sizes') = L2(sizes)
      <4> HIDE DEF L, M
      <4> QED BY <3>1, <3>2, <3>3
    <3>5. l2Told' = l2Told
      BY <2>2 DEF Send
    <3> QED BY <3>4, <3>5 DEF StrategiesSeeMarket
  <2> QED BY <2>1, <2>2
<1>7. BothEmpty(sizes') \/ topTold' = BBO(sizes')
  <2>1. CASE far = 0
    BY <2>1 DEF Send
  <2>2. CASE far # 0
    <3>1. topTold' = topTold
      BY <2>2 DEF Send
    <3>2. PICK b \in Rows(sizes, side) : Better(side, b, p)
      BY <2>2, LevelNat
    <3>3. b \in Rows(sizes', side) /\ b # p
      BY <1>1, <3>2, TradeMarketAssumption DEF Better, Rows
    <3>4. ~BothEmpty(sizes) /\ ~BothEmpty(sizes')
      BY <3>2, <3>3 DEF BothEmpty
    <3>5. \A s \in Sides : Rows(sizes, s) = {} <=> Rows(sizes', s) = {}
      <4>1. \A s \in Sides : s # side => Rows(sizes, s) = Rows(sizes', s)
        BY <1>1 DEF Rows
      <4> QED BY <3>2, <3>3, <4>1
    <3>6. \A s \in Sides : First(sizes, s) = First(sizes', s)
      <4> TAKE s \in Sides
      <4>1. ASSUME NEW q \in Prices
            PROVE  q \in Rows(sizes, s) /\ L(s, q) = 0
                     <=> q \in Rows(sizes', s) /\ M(s, q) = 0
        <5>1. CASE s # side \/ Better(side, q, p)
          <6>1. s # side \/ q # p
            BY <5>1, TradeMarketAssumption DEF Better
          <6> HIDE DEF L, M
          <6> QED BY <1>1, <1>2, <5>1, <6>1
        <5>2. CASE s = side /\ ~Better(side, q, p)
          <6>1. q = p => L(s, q) = far /\ M(s, q) = far
            BY <1>2, <5>2
          <6>2. q # p => Better(side, p, q)
            BY <1>3, <5>2
          <6>3. far \in Nat /\ L(s, q) \in Nat /\ M(s, q) \in Nat
            BY <1>5
          <6> HIDE DEF L, M
          <6>4. L(s, q) # 0 /\ M(s, q) # 0
            BY <1>4, <2>2, <5>2, <6>1, <6>2, <6>3
          <6> QED BY <6>4
        <5> QED BY <5>1, <5>2
      <4>2. Rows(sizes, s) \subseteq Prices /\ Rows(sizes', s) \subseteq Prices
        BY DEF Rows
      <4> QED BY <4>1, <4>2 DEF First
    <3>7. BBO(sizes') = BBO(sizes)
      <4>1. \A s \in Sides :
              (IF Rows(sizes, s) = {} THEN NoPrice
               ELSE AnyOf(First(sizes, s)))
                = (IF Rows(sizes', s) = {} THEN NoPrice
                   ELSE AnyOf(First(sizes', s)))
        BY <3>5, <3>6
      <4> QED BY <4>1 DEF BBO
    <3> QED BY <3>1, <3>4, <3>7 DEF StrategiesSeeMarket
  <2> QED BY <2>1, <2>2
<1> QED BY <1>6, <1>7 DEF StrategiesSeeMarket

\* When one order comes, goes, or is filled in part, and the market moves by
\* as much, the market is that of the orders again.
LEMMA MarketMoves ==
  ASSUME sizes \in Sizes, MarketIsOrders, StrategiesSeeMarket,
         IsFiniteSet(DOMAIN working), IsFiniteSet(DOMAIN working'),
         \A id \in DOMAIN working : working[id].quantity \in Nat,
         \A id \in DOMAIN working' : working'[id].quantity \in Nat,
         NEW x, DOMAIN working' \ {x} = DOMAIN working \ {x},
         \A id \in DOMAIN working \ {x} : working'[id] = working[id],
         NEW o, o.side \in Sides, o.market \in BOOLEAN, ValidPrice(o),
         x \in DOMAIN working =>
           /\ working[x].side = o.side /\ working[x].market = o.market
           /\ working[x].price = o.price,
         x \in DOMAIN working' =>
           /\ working'[x].side = o.side /\ working'[x].market = o.market
           /\ working'[x].price = o.price,
         NEW n \in Int,
         (IF x \in DOMAIN working' THEN working'[x].quantity ELSE 0)
           = (IF x \in DOMAIN working THEN working[x].quantity ELSE 0) + n,
         Change_market(o, n)
  PROVE  sizes' \in Sizes /\ MarketIsOrders' /\ StrategiesSeeMarket'
<1> DEFINE f == Quantity(working)
           g == Quantity(working')
           S(s, p) == At(working, s, p)
           R(s, p) == At(working', s, p)
           row(s, p) == ~o.market /\ s = o.side /\ p = o.price
<1>1. ASSUME NEW s \in Sides, NEW p \in Prices
      PROVE  /\ Sum(g, R(s, p)) \in Nat
             /\ Sum(g, R(s, p)) = IF row(s, p) THEN sizes[s][p] + n
                                               ELSE sizes[s][p]
  <2>1. /\ IsFiniteSet(S(s, p)) /\ IsFiniteSet(R(s, p))
        /\ S(s, p) \subseteq DOMAIN working
        /\ R(s, p) \subseteq DOMAIN working'
    <3>1. S(s, p) \subseteq DOMAIN working /\ R(s, p) \subseteq DOMAIN working'
      BY DEF At
    <3> HIDE DEF S, R
    <3> QED BY <3>1, FS_Subset
  <2>2. /\ \A y \in DOMAIN working : f[y] = working[y].quantity
        /\ \A y \in DOMAIN working' : g[y] = working'[y].quantity
    BY DEF Quantity
  <2>3. S(s, p) \ {x} = R(s, p) \ {x}
    BY DEF At
  <2>4. /\ x \in S(s, p) <=> x \in DOMAIN working /\ row(s, p)
        /\ x \in R(s, p) <=> x \in DOMAIN working' /\ row(s, p)
    BY DEF At
  <2>5. sizes[s][p] = Sum(f, S(s, p))
    BY DEF MarketIsOrders, At
  <2>6. sizes[s][p] \in Nat
    BY DEF Sizes
  <2> HIDE DEF f, g, S, R, row
  <2>7. /\ \A y \in S(s, p) : f[y] \in Nat
        /\ \A y \in R(s, p) : g[y] \in Nat
        /\ \A y \in S(s, p) \ {x} : g[y] = f[y]
    <3>1. \A y \in S(s, p) \ {x} : y \in R(s, p)
      BY <2>3
    <3> QED BY <2>1, <2>2, <3>1
  <2>8. Sum(g, R(s, p)) + (IF x \in S(s, p) THEN f[x] ELSE 0)
          = Sum(f, S(s, p)) + (IF x \in R(s, p) THEN g[x] ELSE 0)
    BY <2>1, <2>3, <2>7, SumMove
  <2>9. Sum(g, R(s, p)) \in Nat
    BY <2>1, <2>7, SumNat
  <2>10. CASE row(s, p)
    <3>1. /\ (IF x \in S(s, p) THEN f[x] ELSE 0)
               = IF x \in DOMAIN working THEN working[x].quantity ELSE 0
          /\ (IF x \in R(s, p) THEN g[x] ELSE 0)
               = IF x \in DOMAIN working' THEN working'[x].quantity ELSE 0
      BY <2>2, <2>4, <2>10
    <3>2. (IF x \in DOMAIN working THEN working[x].quantity ELSE 0) \in Nat
      OBVIOUS
    <3> QED BY <2>5, <2>6, <2>8, <2>9, <2>10, <3>1, <3>2
  <2>11. CASE ~row(s, p)
    BY <2>4, <2>5, <2>6, <2>8, <2>9, <2>11
  <2> QED BY <2>9, <2>10, <2>11
<1>2. CASE o.market
  <2>1. UNCHANGED <<sizes, l2Told, topTold>>
    BY <1>2 DEF Change_market, tradeMarketVars
  <2>2. MarketIsOrders'
    BY <1>1, <1>2, <2>1 DEF MarketIsOrders, At
  <2> QED BY <2>1, <2>2 DEF StrategiesSeeMarket
<1>3. CASE ~o.market
  <2>1. /\ sizes' = [sizes EXCEPT ![o.side][o.price] = @ + n]
        /\ Send(o.side, o.price)
        /\ o.price \in Prices
    BY <1>3 DEF Change_market, ValidPrice
  <2>2. \A s \in Sides, p \in Prices :
          sizes'[s][p] = IF row(s, p) THEN sizes[s][p] + n ELSE sizes[s][p]
    BY <1>3, <2>1 DEF Sizes
  <2>3. \A s \in Sides, p \in Prices :
          sizes'[s][p] = Sum(g, R(s, p)) /\ sizes'[s][p] \in Nat
    <3> HIDE DEF g, R, row
    <3> QED BY <1>1, <2>2
  <2>4. sizes' \in Sizes
    <3>1. sizes' = [s \in Sides |-> [p \in Prices |-> sizes'[s][p]]]
      BY <2>1 DEF Sizes
    <3>2. \A s \in Sides, p \in Prices : sizes'[s][p] \in Nat
      BY <2>3
    <3> QED BY <3>1, <3>2 DEF Sizes
  <2>5. MarketIsOrders'
    BY <2>3 DEF MarketIsOrders, At
  <2>6. StrategiesSeeMarket'
    <3>1. \A s \in Sides, p \in Prices :
            s # o.side \/ p # o.price => sizes'[s][p] = sizes[s][p]
      BY <2>2
    <3> QED BY <2>1, <2>4, <3>1, SendTells
  <2> QED BY <2>4, <2>5, <2>6
<1> QED BY <1>2, <1>3

-----------------------------------------------------------------------------
(* The lists of the box.                                                   *)

\* A listed id has one place.
LEMMA PlaceOne ==
  ASSUME NEW q, NEW S, Listed(q, S), NEW id \in S
  PROVE  /\ PlaceIn(q, id) \in DOMAIN q
         /\ q[PlaceIn(q, id)] = id
         /\ \A n \in DOMAIN q : q[n] = id => n = PlaceIn(q, id)
<1>1. \E n \in DOMAIN q : q[n] = id
  BY DEF Listed
<1>2. PlaceIn(q, id) \in DOMAIN q /\ q[PlaceIn(q, id)] = id
  BY <1>1 DEF PlaceIn
<1> QED BY <1>2 DEF Listed

\* An order that leaves the list leaves the others in their order.
LEMMA ListedRemove ==
  ASSUME NEW q, NEW S, Listed(q, S), NEW x
  PROVE  LET left == Remaining(q, {x})
         IN  /\ Listed(left, S \ {x})
             /\ \A v, w \in S \ {x} : PlaceIn(q, v) < PlaceIn(q, w)
                                        => PlaceIn(left, v) < PlaceIn(left, w)
<1> DEFINE left == Remaining(q, {x})
<1>1. /\ left \in Seq(Ids)
      /\ {left[i] : i \in DOMAIN left} = S \ {x}
      /\ \A i, j \in DOMAIN left : i # j => left[i] # left[j]
      /\ \A i, j \in DOMAIN left : i < j =>
           \E k, l \in DOMAIN q : k < l /\ q[k] = left[i] /\ q[l] = left[j]
  <2>1. /\ q \in Seq(Ids)
        /\ \A i, j \in DOMAIN q : i # j => q[i] # q[j]
        /\ {q[i] : i \in DOMAIN q} = S
    BY DEF Listed
  <2> DEFINE gone == {x}
  <2>2. left = Remaining(q, gone)
    OBVIOUS
  <2> HIDE DEF gone, left
  <2>3. /\ left \in Seq(Ids)
        /\ {left[i] : i \in DOMAIN left} = {q[i] : i \in DOMAIN q} \ gone
        /\ \A i, j \in DOMAIN left : i # j => left[i] # left[j]
        /\ \A i, j \in DOMAIN left : i < j =>
             \E k, l \in DOMAIN q : k < l /\ q[k] = left[i] /\ q[l] = left[j]
    BY <2>1, <2>2, RemainingFacts
  <2> QED BY <2>1, <2>3 DEF gone
<1> HIDE DEF left
<1>2. Listed(left, S \ {x})
  BY <1>1 DEF Listed
<1>3. ASSUME NEW v \in S \ {x}, NEW w \in S \ {x},
             PlaceIn(q, v) < PlaceIn(q, w)
      PROVE  PlaceIn(left, v) < PlaceIn(left, w)
  <2> DEFINE i == PlaceIn(left, v)
             j == PlaceIn(left, w)
  <2>1. /\ i \in DOMAIN left /\ left[i] = v
        /\ j \in DOMAIN left /\ left[j] = w
    BY <1>2, PlaceOne
  <2>2. PlaceIn(q, v) \in Nat /\ PlaceIn(q, w) \in Nat
    <3>1. DOMAIN q \subseteq Nat
      BY DEF Listed
    <3> QED BY <3>1, PlaceOne
  <2>3. i \in Nat /\ j \in Nat
    <3>1. DOMAIN left \subseteq Nat
      BY <1>1
    <3> QED BY <2>1, <3>1
  <2> HIDE DEF i, j
  <2>4. i # j
    BY <1>3, <2>1, <2>2
  <2>5. ~(j < i)
    <3> SUFFICES ASSUME j < i PROVE FALSE
      OBVIOUS
    <3>1. PICK k, l \in DOMAIN q : k < l /\ q[k] = w /\ q[l] = v
      BY <1>1, <2>1
    <3>2. k = PlaceIn(q, w) /\ l = PlaceIn(q, v)
      BY <3>1, PlaceOne
    <3> QED BY <1>3, <2>2, <3>1, <3>2
  <2>6. i < j
    BY <2>3, <2>4, <2>5
  <2> QED BY <2>6 DEF i, j
<1> QED BY <1>2, <1>3 DEF left

\* An order that comes is put behind all others.
LEMMA ListedAppend ==
  ASSUME NEW q, NEW S, Listed(q, S), NEW x \in Ids, x \notin S
  PROVE  LET more == Append(q, x)
         IN  /\ Listed(more, S \cup {x})
             /\ \A v \in S : /\ PlaceIn(more, v) = PlaceIn(q, v)
                             /\ PlaceIn(more, v) < PlaceIn(more, x)
<1> DEFINE more == Append(q, x)
<1>1. /\ q \in Seq(Ids)
      /\ \A m, n \in DOMAIN q : m # n => q[m] # q[n]
      /\ {q[n] : n \in DOMAIN q} = S
  BY DEF Listed
<1>2. /\ more \in Seq(Ids)
      /\ DOMAIN more = DOMAIN q \cup {Len(q) + 1}
      /\ \A n \in DOMAIN q : more[n] = q[n]
      /\ more[Len(q) + 1] = x
      /\ \A n \in DOMAIN q : n < Len(q) + 1
  <2>1. q \in Seq(Ids)
    BY <1>1
  <2> QED BY <2>1
<1> HIDE DEF more
<1>3. Listed(more, S \cup {x})
  <2>1. {more[n] : n \in DOMAIN more} = S \cup {x}
    BY <1>1, <1>2
  <2>2. \A m, n \in DOMAIN more : m # n => more[m] # more[n]
    BY <1>1, <1>2
  <2> QED BY <1>2, <2>1, <2>2 DEF Listed
<1>4. ASSUME NEW v \in S
      PROVE  PlaceIn(more, v) = PlaceIn(q, v)
             /\ PlaceIn(more, v) < PlaceIn(more, x)
  <2>1. PlaceIn(q, v) \in DOMAIN q /\ q[PlaceIn(q, v)] = v
    BY PlaceOne
  <2>2. PlaceIn(more, v) = PlaceIn(q, v)
    <3>1. PlaceIn(q, v) \in DOMAIN more /\ more[PlaceIn(q, v)] = v
      BY <1>2, <2>1
    <3> QED BY <1>3, <3>1, PlaceOne
  <2>3. PlaceIn(more, x) = Len(q) + 1
    <3>1. Len(q) + 1 \in DOMAIN more /\ more[Len(q) + 1] = x
      BY <1>2
    <3> QED BY <1>3, <3>1, PlaceOne
  <2> QED BY <1>2, <2>1, <2>2, <2>3
<1> QED BY <1>3, <1>4 DEF more

\* Taking an order out of the lists, or giving it less, makes no match.
LEMMA NoneLeftSame ==
  ASSUME NoneLeftToMatch,
         \A id \in DOMAIN working' :
           /\ id \in DOMAIN working
           /\ working'[id].side = working[id].side
           /\ working'[id].market = working[id].market
           /\ working'[id].price = working[id].price
  PROVE  NoneLeftToMatch'
BY DEF NoneLeftToMatch

-----------------------------------------------------------------------------
(* The requests.                                                           *)

\* What is left of TypeOK about orders that wait.
LEMMA WorkingType ==
  ASSUME BoxInv, NEW id \in DOMAIN working
  PROVE  /\ working[id].side \in Sides /\ working[id].market \in BOOLEAN
         /\ working[id].price \in Nat /\ working[id].quantity \in Nat
         /\ working[id].quantity > 0 /\ working[id].filled \in Nat
         /\ working[id].tif = "GFD" /\ id \in Ids
         /\ ValidPrice(working[id])
BY DEF BoxInv, TypeOK, Orders

\* A rejected request, or none at all.
LEMMA Quiet ==
  ASSUME IInv,
         UNCHANGED <<tradeMarketVars, working, queue, canceled, fills,
                     matching, order, rest, told, asked, got>>,
         trade' \in {trade, NoTrade}, requests' \in 0 .. MaxRequests
  PROVE  IInv'
<1>1. UNCHANGED <<sizes, l2Told, topTold>>
  BY DEF tradeMarketVars
<1>2. trade'.price \in Prices \cup {NoPrice} /\ trade'.ids \subseteq Ids
  BY DEF IInv, BoxInv, TypeOK, NoTrade
<1>3. TypeOK'
  BY <1>1, <1>2 DEF IInv, BoxInv, TypeOK
<1>4. BoxInv'
  BY <1>3 DEF IInv, BoxInv, Idle
<1>5. QuantityInv' /\ MatchInv' /\ ToldInv'
  BY DEF IInv, QuantityInv, MatchInv, ToldInv, Idle, Killed, Order_status
<1>6. NoneLeftToMatch'
  BY DEF IInv, NoneLeftToMatch
<1>7. MarketIsOrders' /\ StrategiesSeeMarket'
  BY <1>1 DEF IInv, MarketIsOrders, StrategiesSeeMarket
<1> QED BY <1>4, <1>5, <1>6, <1>7 DEF IInv

\* Query: only the answer is new, and it is what the box has.
LEMMA StepQuery ==
  ASSUME IInv, NEW id \in Ids, Query(id)
  PROVE  IInv'
<1>1. /\ Idle /\ trade' = NoTrade /\ requests' \in 0 .. MaxRequests
      /\ UNCHANGED <<tradeMarketVars, working, queue, canceled, fills,
                     matching, order, rest, asked, got>>
  BY TradeAssumption DEF Query, Request, IInv, BoxInv, TypeOK
<1>2. UNCHANGED <<sizes, l2Told, topTold>>
  BY <1>1 DEF tradeMarketVars
<1> DEFINE s == Order_status(id)
           left == IF s = "working" THEN working[id].quantity ELSE 0
           tell == IF s = "none" THEN told[id]
                   ELSE [status |-> s, left |-> left]
<1>3. told' = [told EXCEPT ![id] = tell]
  BY DEF Query
<1>4. /\ s \in Statuses /\ left \in Nat
      /\ s = "working" => id \in DOMAIN working
  <2>1. s \in Statuses /\ (s = "working" => id \in DOMAIN working)
    BY DEF Order_status, Statuses
  <2> QED BY <2>1, WorkingType DEF IInv
<1>5. told \in [Ids -> [status : Statuses \cup {"pending"}, left : Nat]]
  BY DEF IInv, BoxInv
<1>6. told' \in [Ids -> [status : Statuses \cup {"pending"}, left : Nat]]
  <2>1. tell \in [status : Statuses \cup {"pending"}, left : Nat]
    BY <1>4, <1>5
  <2> HIDE DEF tell
  <2> QED BY <1>3, <1>5, <2>1
<1>7. /\ told'[id] = tell
      /\ \A i \in Ids \ {id} : told'[i] = told[i]
  <2> HIDE DEF tell
  <2> QED BY <1>3, <1>5
<1>8. trade'.price \in Prices \cup {NoPrice} /\ trade'.ids \subseteq Ids
  BY <1>1 DEF NoTrade
<1>9. TypeOK'
  <2>1. \A i \in Ids : /\ told'[i].status \in Statuses \cup {"pending"}
                       /\ told'[i].left \in Nat
    BY <1>6
  <2> QED BY <1>1, <1>2, <1>8, <2>1 DEF IInv, BoxInv, TypeOK
<1>10. BoxInv'
  BY <1>1, <1>6, <1>9 DEF IInv, BoxInv, Idle
<1>11. QuantityInv' /\ MatchInv'
  BY <1>1 DEF IInv, QuantityInv, MatchInv, Idle, Killed, Order_status
<1>12. ToldInv'
  <2>1. \A i \in Ids : Order_status(i)' = Order_status(i)
    BY <1>1 DEF Order_status
  <2>2. matching \notin Ids
    BY <1>1, TradeAssumption DEF Idle
  <2>3. /\ Order_status(id) = "none" => told'[id].status = "none"
        /\ Order_status(id) = "working" =>
             /\ told'[id].status \in {"working", "filled"}
             /\ told'[id].left = working[id].quantity
        /\ Order_status(id) \in {"filled", "cancelled"} =>
             told'[id] = [status |-> Order_status(id), left |-> 0]
    BY <1>7, <2>2 DEF IInv, ToldInv
  <2> HIDE DEF s, left, tell
  <2>4. \A i \in Ids : /\ Order_status(i)' = "none" => told'[i].status = "none"
                       /\ Order_status(i)' = "working" =>
                            /\ told'[i].status \in {"working", "filled"}
                            /\ told'[i].left = working'[i].quantity
                       /\ Order_status(i)' \in {"filled", "cancelled"} =>
                            told'[i] = [status |-> Order_status(i)',
                                        left |-> 0]
    BY <1>1, <1>7, <2>1, <2>2, <2>3 DEF IInv, ToldInv
  <2> QED BY <1>1, <2>4 DEF ToldInv, Idle
<1>13. NoneLeftToMatch'
  BY <1>1 DEF IInv, NoneLeftToMatch
<1>14. MarketIsOrders' /\ StrategiesSeeMarket'
  BY <1>1, <1>2 DEF IInv, MarketIsOrders, StrategiesSeeMarket
<1> QED BY <1>10, <1>11, <1>12, <1>13, <1>14 DEF IInv

\* TradeOrderBox::Delete_order takes the order out of maps, lists and market.
LEMMA Deleted ==
  ASSUME IInv, NEW id \in DOMAIN working, Delete_order(id)
  PROVE  /\ DOMAIN working' = DOMAIN working \ {id}
         /\ \A i \in DOMAIN working' : working'[i] = working[i]
         /\ IsFiniteSet(DOMAIN working')
         /\ Listed(queue', DOMAIN working')
         /\ sizes' \in Sizes /\ MarketIsOrders' /\ StrategiesSeeMarket'
         /\ NoneLeftToMatch'
         /\ told'[id] = [status |-> "cancelled", left |-> 0]
         /\ \A i \in Ids \ {id} : told'[i] = told[i]
         /\ told' \in [Ids -> [status : Statuses \cup {"pending"}, left : Nat]]
<1>1. /\ working' = Without(working, id)
      /\ queue' = Remaining(queue, {id})
      /\ told' = [told EXCEPT ![id] = [status |-> "cancelled", left |-> 0]]
      /\ Change_market(working[id], -working[id].quantity)
  BY DEF Delete_order, Change_market_on_order_deleted
<1>2. /\ DOMAIN working' = DOMAIN working \ {id}
      /\ \A i \in DOMAIN working' : working'[i] = working[i]
  BY <1>1 DEF Without
<1>3. /\ IsFiniteSet(DOMAIN working) /\ Listed(queue, DOMAIN working)
      /\ told \in [Ids -> [status : Statuses \cup {"pending"}, left : Nat]]
      /\ id \in Ids /\ sizes \in Sizes
      /\ NoneLeftToMatch /\ MarketIsOrders /\ StrategiesSeeMarket
  BY DEF IInv, BoxInv, TypeOK, Sizes
<1>4. IsFiniteSet(DOMAIN working')
  BY <1>2, <1>3, FS_Subset
<1>5. Listed(queue', DOMAIN working')
  <2>1. Listed(Remaining(queue, {id}), DOMAIN working \ {id})
    BY <1>3, ListedRemove
  <2> QED BY <1>1, <1>2, <2>1
<1>6. sizes' \in Sizes /\ MarketIsOrders' /\ StrategiesSeeMarket'
  <2> DEFINE o == working[id]
             n == -o.quantity
  <2>1. /\ \A i \in DOMAIN working : working[i].quantity \in Nat
        /\ \A i \in DOMAIN working' : working'[i].quantity \in Nat
    BY <1>2, WorkingType DEF IInv
  <2>2. /\ o.side \in Sides /\ o.market \in BOOLEAN /\ ValidPrice(o)
        /\ n \in Int /\ o.quantity \in Nat
    BY WorkingType DEF IInv
  <2>3. /\ DOMAIN working' \ {id} = DOMAIN working \ {id}
        /\ \A i \in DOMAIN working \ {id} : working'[i] = working[i]
        /\ id \notin DOMAIN working'
    BY <1>2
  <2>4. (IF id \in DOMAIN working' THEN working'[id].quantity ELSE 0)
          = (IF id \in DOMAIN working THEN working[id].quantity ELSE 0) + n
    BY <2>2, <2>3
  <2>5. /\ id \in DOMAIN working => /\ working[id].side = o.side
                                    /\ working[id].market = o.market
                                    /\ working[id].price = o.price
        /\ Change_market(o, n)
    BY <1>1
  <2> HIDE DEF o, n
  <2> QED BY <1>3, <1>4, <2>1, <2>2, <2>3, <2>4, <2>5, MarketMoves
<1>7. NoneLeftToMatch'
  BY <1>2, <1>3, NoneLeftSame
<1>8. /\ told'[id] = [status |-> "cancelled", left |-> 0]
      /\ \A i \in Ids \ {id} : told'[i] = told[i]
      /\ told' \in [Ids -> [status : Statuses \cup {"pending"}, left : Nat]]
  BY <1>1, <1>3 DEF Statuses
<1> QED BY <1>2, <1>4, <1>5, <1>6, <1>7, <1>8

\* The start of Match_order: what Matches says of the orders there are.
LEMMA MatchStarts ==
  ASSUME IInv, NEW id \in Ids, NEW o \in Wanted, Check_order(o),
         IsFiniteSet(DOMAIN working'),
         \A i \in DOMAIN working' : working'[i].quantity \in Nat,
         Match_order(id, o, Matches(o, working'))
  PROVE  /\ matching' = id /\ order' = o /\ o \in Orders /\ ~Idle'
         /\ rest' \in Nat
         /\ o.quantity > 0 /\ o.filled = 0 /\ ValidPrice(o)
         /\ asked' \in [Ids -> Orders] /\ got' \in [Ids -> Nat]
         /\ asked'[id] = o /\ got'[id] = 0
         /\ \A i \in Ids \ {id} : asked'[i] = asked[i] /\ got'[i] = got[i]
         /\ MatchInv'
<1>1. /\ matching' = id /\ order' = o
      /\ rest' = Matches(o, working')
      /\ asked' = [asked EXCEPT ![id] = o]
      /\ got' = [got EXCEPT ![id] = 0]
      /\ asked \in [Ids -> Orders] /\ got \in [Ids -> Nat]
  BY DEF Match_order, IInv, BoxInv, TypeOK
<1>2. o \in Orders /\ o.quantity > 0 /\ o.filled = 0
  BY TradeAssumption DEF Check_order, Orders
<1>3. ValidPrice(o)
  <2>1. o.price # 0 => o.price \in Prices
    <3>1. o.price # 0 =>
            /\ o.price \in MinPrice .. MaxPrice /\ o.price \notin Inexact
            /\ (o.price - MinPrice) % Tick = 0
      BY DEF Check_order
    <3> QED BY <3>1, TradeAssumption
  <2> QED BY <2>1 DEF ValidPrice, Check_order, NoPrice
<1>4. /\ asked' \in [Ids -> Orders] /\ got' \in [Ids -> Nat]
      /\ asked'[id] = o /\ got'[id] = 0
      /\ \A i \in Ids \ {id} : asked'[i] = asked[i] /\ got'[i] = got[i]
  BY <1>1, <1>2
<1> DEFINE all == Sum(Quantity(working'), Matching(o, working'))
           less == o.quantity - Smaller(o.quantity, all)
<1>5. all \in Nat
  <2> DEFINE S == Matching(o, working')
             f == Quantity(working')
  <2>1. S \subseteq DOMAIN working' /\ IsFiniteSet(S)
    <3>1. S \subseteq DOMAIN working'
      BY DEF Matching
    <3> HIDE DEF S
    <3> QED BY <3>1, FS_Subset
  <2>2. \A i \in S : f[i] \in Nat
    BY <2>1 DEF Quantity
  <2> HIDE DEF S, f
  <2>3. Sum(f, S) \in Nat
    BY <2>1, <2>2, SumNat
  <2> QED BY <2>3 DEF S, f
<1>6. rest' = IF less > 0 /\ o.tif = "FOK" THEN o.quantity ELSE less
  BY <1>1 DEF Matches
<1>7. o.quantity \in Nat
  BY <1>2 DEF Orders
<1>8. MatchInv'
  <2>1. Killed' <=> o.tif = "FOK" /\ rest' > 0
    BY <1>1 DEF Killed
  <2>2. ~Killed' => rest' = less
    <3> HIDE DEF less
    <3> QED BY <1>2, <1>6, <2>1
  <2> QED BY <1>1, <1>4, <2>2 DEF MatchInv
<1>9. rest' \in Nat
  <2> HIDE DEF all
  <2> QED BY <1>5, <1>6, <1>7 DEF Smaller
<1>10. ~Idle'
  BY <1>1, TradeAssumption DEF Idle
<1> QED BY <1>1, <1>2, <1>3, <1>4, <1>8, <1>9, <1>10

\* Delete: the order leaves the box and is known as cancelled.
LEMMA StepDelete ==
  ASSUME IInv, NEW id \in Ids, Delete(id)
  PROVE  IInv'
<1>1. /\ Idle /\ trade' = NoTrade /\ requests' \in 0 .. MaxRequests
  BY TradeAssumption DEF Delete, Request, IInv, BoxInv, TypeOK
<1>2. CASE Order_status(id) # "working"
  BY <1>1, <1>2, Quiet DEF Delete, Reject
<1>3. CASE Order_status(id) = "working"
  <2>1. /\ Delete_order(id) /\ canceled' = canceled \cup {id}
        /\ UNCHANGED <<fills, matching, order, rest, asked, got>>
    BY <1>3 DEF Delete
  <2>2. id \in DOMAIN working
    BY <1>3 DEF Order_status
  <2>3. /\ DOMAIN working' = DOMAIN working \ {id}
        /\ \A i \in DOMAIN working' : working'[i] = working[i]
        /\ IsFiniteSet(DOMAIN working')
        /\ Listed(queue', DOMAIN working')
        /\ sizes' \in Sizes /\ MarketIsOrders' /\ StrategiesSeeMarket'
        /\ NoneLeftToMatch'
        /\ told'[id] = [status |-> "cancelled", left |-> 0]
        /\ \A i \in Ids \ {id} : told'[i] = told[i]
        /\ told' \in [Ids -> [status : Statuses \cup {"pending"}, left : Nat]]
    BY <2>1, <2>2, Deleted
  <2>4. TypeOK'
    <3>1. \A n \in DOMAIN queue' : queue'[n] \in DOMAIN working'
      BY <2>3 DEF Listed
    <3>2. trade'.price \in Prices \cup {NoPrice} /\ trade'.ids \subseteq Ids
      BY <1>1 DEF NoTrade
    <3>3. \A i \in Ids : /\ told'[i].status \in Statuses \cup {"pending"}
                         /\ told'[i].left \in Nat
      BY <2>3
    <3> QED BY <1>1, <2>1, <2>3, <3>1, <3>2, <3>3
            DEF IInv, BoxInv, TypeOK, Sizes
  <2>5. BoxInv'
    <3>1. canceled' \cap DOMAIN working' = {}
      BY <2>1, <2>3 DEF IInv, BoxInv
    <3> QED BY <1>1, <2>1, <2>3, <2>4, <3>1 DEF IInv, BoxInv, Idle
  <2>6. /\ Order_status(id)' = "cancelled"
        /\ \A i \in Ids \ {id} : Order_status(i)' = Order_status(i)
    BY <2>1, <2>3 DEF Order_status
  <2>7. matching \notin Ids /\ matching' \notin Ids /\ Idle'
    BY <1>1, <2>1, TradeAssumption DEF Idle
  <2>8. QuantityInv'
    BY <2>1, <2>3, <2>6, <2>7 DEF IInv, QuantityInv
  <2>9. MatchInv'
    BY <2>7 DEF MatchInv
  <2>10. ToldInv'
    <3>1. \A i \in Ids \ {id} :
            /\ Order_status(i)' = "none" => told'[i].status = "none"
            /\ Order_status(i)' = "working" =>
                 /\ told'[i].status \in {"working", "filled"}
                 /\ told'[i].left = working'[i].quantity
            /\ Order_status(i)' \in {"filled", "cancelled"} =>
                 told'[i] = [status |-> Order_status(i)', left |-> 0]
      <4> TAKE i \in Ids \ {id}
      <4>1. Order_status(i) = "working" => working'[i] = working[i]
        BY <2>3 DEF Order_status
      <4> QED BY <2>3, <2>6, <2>7, <4>1 DEF IInv, ToldInv
    <3> QED BY <2>3, <2>6, <2>7, <3>1 DEF ToldInv
  <2> QED BY <2>3, <2>5, <2>8, <2>9, <2>10 DEF IInv
<1> QED BY <1>2, <1>3

\* An order that is accepted: what the box, the market and the answers are
\* when it is about to be matched.
LEMMA Accepted ==
  ASSUME IInv, Idle, NEW id \in Ids, NEW o \in Wanted, Check_order(o),
         id \notin canceled, id \notin DOMAIN working',
         DOMAIN working' \subseteq DOMAIN working,
         DOMAIN working \subseteq DOMAIN working' \cup {id},
         \A i \in DOMAIN working' : working'[i] = working[i],
         Listed(queue', DOMAIN working'),
         sizes' \in Sizes, MarketIsOrders', StrategiesSeeMarket',
         NoneLeftToMatch',
         \A i \in Ids \ {id} : told'[i] = told[i],
         told' \in [Ids -> [status : Statuses \cup {"pending"}, left : Nat]],
         UNCHANGED <<canceled, fills>>,
         trade' = NoTrade, requests' \in 0 .. MaxRequests,
         Match_order(id, o, Matches(o, working'))
  PROVE  IInv'
<1>1. IsFiniteSet(DOMAIN working')
  BY FS_Subset DEF IInv, BoxInv
<1>2. \A i \in DOMAIN working' : working'[i].quantity \in Nat
  BY WorkingType DEF IInv
<1>3. /\ matching' = id /\ order' = o /\ o \in Orders /\ ~Idle'
      /\ rest' \in Nat
      /\ o.quantity > 0 /\ o.filled = 0 /\ ValidPrice(o)
      /\ asked' \in [Ids -> Orders] /\ got' \in [Ids -> Nat]
      /\ asked'[id] = o /\ got'[id] = 0
      /\ \A i \in Ids \ {id} : asked'[i] = asked[i] /\ got'[i] = got[i]
      /\ MatchInv'
  BY <1>1, <1>2, MatchStarts
<1>4. TypeOK'
  <2>1. \A n \in DOMAIN queue' : queue'[n] \in DOMAIN working'
    BY DEF Listed
  <2>2. trade'.price \in Prices \cup {NoPrice} /\ trade'.ids \subseteq Ids
    BY DEF NoTrade
  <2>3. \A i \in Ids : /\ told'[i].status \in Statuses \cup {"pending"}
                       /\ told'[i].left \in Nat
    OBVIOUS
  <2> QED BY <1>3, <2>1, <2>2, <2>3 DEF IInv, BoxInv, TypeOK, Sizes
<1>5. BoxInv'
  BY <1>1, <1>3, <1>4 DEF IInv, BoxInv
<1>6. \A i \in Ids \ {id} : Order_status(i)' = Order_status(i)
  BY DEF Order_status
<1>7. matching \notin Ids
  BY TradeAssumption DEF Idle
<1>8. DOMAIN working' \subseteq Ids \ {id}
  BY DEF IInv, BoxInv, TypeOK
<1>9. QuantityInv'
  <2>1. \A i \in DOMAIN working' :
          /\ Same(working[i], asked[i])' /\ working'[i].filled = got'[i]
          /\ working'[i].quantity + got'[i] = asked'[i].quantity
    BY <1>3, <1>8 DEF IInv, QuantityInv, Same
  <2>2. /\ Same(order', asked'[id]) /\ order'.filled = got'[id]
        /\ order'.quantity + got'[id] = asked'[id].quantity
    BY <1>3 DEF Same, Orders
  <2>3. got'[id] <= fills'[id]
    BY <1>3 DEF IInv, BoxInv, TypeOK
  <2> QED BY <1>3, <1>6, <1>7, <2>1, <2>2, <2>3 DEF IInv, QuantityInv
<1>10. ToldInv'
  <2>1. \A i \in Ids \ {id} :
          /\ Order_status(i)' = "none" => told'[i].status = "none"
          /\ Order_status(i)' = "working" =>
               /\ told'[i].status \in {"working", "filled"}
               /\ told'[i].left = working'[i].quantity
          /\ Order_status(i)' \in {"filled", "cancelled"} =>
               told'[i] = [status |-> Order_status(i)', left |-> 0]
    <3> TAKE i \in Ids \ {id}
    <3>1. Order_status(i) = "working" => working'[i] = working[i]
      <4>1. Order_status(i) = "working" => i \in DOMAIN working /\ i # id
        BY DEF Order_status
      <4> QED BY <4>1
    <3>2. told'[i] = told[i] /\ Order_status(i)' = Order_status(i)
      BY <1>6
    <3>3. i \in Ids \ {matching}
      BY <1>7
    <3>4. /\ Order_status(i) = "none" => told[i].status = "none"
          /\ Order_status(i) = "working" =>
               /\ told[i].status \in {"working", "filled"}
               /\ told[i].left = working[i].quantity
          /\ Order_status(i) \in {"filled", "cancelled"} =>
               told[i] = [status |-> Order_status(i), left |-> 0]
      BY <3>3 DEF IInv, ToldInv
    <3> QED BY <3>1, <3>2, <3>4
  <2> QED BY <1>3, <2>1 DEF ToldInv
<1> QED BY <1>3, <1>5, <1>9, <1>10 DEF IInv

\* Add: an id that was never used, or a rejection.
LEMMA StepAdd ==
  ASSUME IInv, NEW id \in Ids, NEW o \in Wanted, Add(id, o)
  PROVE  IInv'
<1>1. /\ Idle /\ trade' = NoTrade /\ requests' \in 0 .. MaxRequests
  BY TradeAssumption DEF Add, Request, IInv, BoxInv, TypeOK
<1>2. CASE ~(Check_order(o) /\ Order_status(id) = "none")
  BY <1>1, <1>2, Quiet DEF Add, Reject
<1>3. CASE Check_order(o) /\ Order_status(id) = "none"
  <2>1. /\ told' = [told EXCEPT ![id] =
             [status |-> "pending", left |-> o.quantity]]
        /\ Match_order(id, o, Matches(o, working))
        /\ UNCHANGED <<tradeMarketVars, working, queue, canceled, fills>>
    BY <1>3 DEF Add
  <2>2. id \notin canceled /\ id \notin DOMAIN working'
    BY <1>3, <2>1 DEF Order_status
  <2>3. o.quantity \in Nat
    BY TradeAssumption
  <2>4. /\ \A i \in Ids \ {id} : told'[i] = told[i]
        /\ told' \in [Ids -> [status : Statuses \cup {"pending"}, left : Nat]]
    BY <2>1, <2>3 DEF IInv, BoxInv
  <2>5. UNCHANGED <<sizes, l2Told, topTold>>
    BY <2>1 DEF tradeMarketVars
  <2>6. /\ sizes' \in Sizes /\ MarketIsOrders' /\ StrategiesSeeMarket'
        /\ NoneLeftToMatch' /\ Listed(queue', DOMAIN working')
    BY <2>1, <2>5 DEF IInv, BoxInv, TypeOK, Sizes, MarketIsOrders,
      StrategiesSeeMarket, NoneLeftToMatch
  <2>7. Match_order(id, o, Matches(o, working'))
    BY <2>1
  <2> QED BY <1>1, <1>3, <2>1, <2>2, <2>4, <2>6, <2>7, Accepted
<1> QED BY <1>2, <1>3

\* Change: the old order goes, and the new one is matched under its id.
LEMMA StepChange ==
  ASSUME IInv, NEW id \in Ids, NEW o \in Wanted, Change(id, o)
  PROVE  IInv'
<1>1. /\ Idle /\ trade' = NoTrade /\ requests' \in 0 .. MaxRequests
  BY TradeAssumption DEF Change, Request, IInv, BoxInv, TypeOK
<1>2. CASE ~(Check_order(o) /\ Order_status(id) = "working")
  BY <1>1, <1>2, Quiet DEF Change, Reject
<1>3. CASE Check_order(o) /\ Order_status(id) = "working"
  <2>1. /\ Delete_order(id)
        /\ Match_order(id, o, Matches(o, Without(working, id)))
        /\ UNCHANGED <<canceled, fills>>
    BY <1>3 DEF Change
  <2>2. id \in DOMAIN working /\ id \notin canceled
    BY <1>3 DEF Order_status
  <2>3. /\ DOMAIN working' = DOMAIN working \ {id}
        /\ \A i \in DOMAIN working' : working'[i] = working[i]
        /\ Listed(queue', DOMAIN working')
        /\ sizes' \in Sizes /\ MarketIsOrders' /\ StrategiesSeeMarket'
        /\ NoneLeftToMatch'
        /\ \A i \in Ids \ {id} : told'[i] = told[i]
        /\ told' \in [Ids -> [status : Statuses \cup {"pending"}, left : Nat]]
    BY <2>1, <2>2, Deleted
  <2>4. Match_order(id, o, Matches(o, working'))
    BY <2>1 DEF Delete_order
  <2> QED BY <1>1, <1>3, <2>1, <2>2, <2>3, <2>4, Accepted
<1> QED BY <1>2, <1>3

-----------------------------------------------------------------------------
(* The loop of Match_order.                                                *)

\* An order of which n more are filled.
LEMMA Less ==
  ASSUME NEW o \in Orders, NEW n \in Nat, o.quantity - n \in Nat,
         NEW p, p = [o EXCEPT !.quantity = @ - n, !.filled = @ + n]
  PROVE  /\ p \in Orders /\ Same(p, o)
         /\ p.quantity = o.quantity - n /\ p.filled = o.filled + n
<1> DEFINE q == o.quantity - n
           f == o.filled + n
<1>1. o.filled \in Nat
  BY DEF Orders
<1>2. q \in Nat /\ f \in Nat
  BY <1>1
<1>3. p = [o EXCEPT !.quantity = q, !.filled = f]
  OBVIOUS
<1> HIDE DEF q, f
<1>4. p \in Orders /\ p.quantity = q /\ p.filled = f
  BY <1>2, <1>3 DEF Orders
<1>5. Same(p, o)
  BY <1>3 DEF Orders, Same
<1> QED BY <1>4, <1>5 DEF q, f

\* A quantity that two orders have more of.
LEMMA BothMore ==
  ASSUME NEW f \in [Ids -> Nat], NEW v \in Ids, NEW w \in Ids, v # w,
         NEW n \in Nat, NEW g, g = [f EXCEPT ![v] = @ + n, ![w] = @ + n]
  PROVE  /\ g \in [Ids -> Nat]
         /\ \A i \in {v, w} : g[i] = f[i] + n
         /\ \A i \in Ids \ {v, w} : g[i] = f[i]
<1> DEFINE a == f[v] + n
           b == f[w] + n
<1>1. a \in Nat /\ b \in Nat
  OBVIOUS
<1>2. g = [f EXCEPT ![v] = a, ![w] = b]
  OBVIOUS
<1> HIDE DEF a, b
<1>3. /\ g \in [Ids -> Nat] /\ g[v] = a /\ g[w] = b
      /\ \A i \in Ids \ {v, w} : g[i] = f[i]
  BY <1>1, <1>2
<1> QED BY <1>3 DEF a, b

\* Fill_working_order: the order leaves the box, or stays with less.
LEMMA Filled ==
  ASSUME IInv, NEW w \in DOMAIN working, NEW n \in Nat, n > 0,
         n <= working[w].quantity, Fill_working_order(w, n)
  PROVE  /\ DOMAIN working' \subseteq DOMAIN working
         /\ DOMAIN working' \ {w} = DOMAIN working \ {w}
         /\ \A i \in DOMAIN working \ {w} : working'[i] = working[i]
         /\ w \notin DOMAIN working' => n = working[w].quantity
         /\ w \in DOMAIN working' =>
              /\ Same(working'[w], working[w])
              /\ working'[w].quantity = working[w].quantity - n
              /\ working'[w].filled = working[w].filled + n
              /\ working'[w].quantity > 0
              /\ working'[w] \in Orders
         /\ IsFiniteSet(DOMAIN working')
         /\ Listed(queue', DOMAIN working')
         /\ \A u, v \in DOMAIN working' :
              PlaceIn(queue, u) < PlaceIn(queue, v)
                => PlaceIn(queue', u) < PlaceIn(queue', v)
<1>1. /\ IsFiniteSet(DOMAIN working) /\ Listed(queue, DOMAIN working)
      /\ working[w] \in Orders /\ working[w].quantity \in Nat
      /\ working[w].filled \in Nat
  BY WorkingType DEF IInv, BoxInv, TypeOK
<1>2. CASE n = working[w].quantity
  <2>1. working' = Without(working, w) /\ queue' = Remaining(queue, {w})
    BY <1>2 DEF Fill_working_order
  <2>2. /\ DOMAIN working' = DOMAIN working \ {w}
        /\ \A i \in DOMAIN working \ {w} : working'[i] = working[i]
    BY <2>1 DEF Without
  <2>3. IsFiniteSet(DOMAIN working')
    BY <1>1, <2>2, FS_Subset
  <2>4. /\ Listed(queue', DOMAIN working')
        /\ \A u, v \in DOMAIN working' :
              PlaceIn(queue, u) < PlaceIn(queue, v)
                => PlaceIn(queue', u) < PlaceIn(queue', v)
    <3> DEFINE left == Remaining(queue, {w})
               S == DOMAIN working \ {w}
    <3>1. /\ Listed(left, S)
          /\ \A u, v \in S : PlaceIn(queue, u) < PlaceIn(queue, v)
                               => PlaceIn(left, u) < PlaceIn(left, v)
      BY <1>1, ListedRemove
    <3>2. queue' = left /\ DOMAIN working' = S
      BY <2>1, <2>2
    <3> HIDE DEF left, S
    <3> QED BY <3>1, <3>2
  <2> QED BY <1>2, <2>2, <2>3, <2>4
<1>3. CASE n # working[w].quantity
  <2>1. /\ working' = [working EXCEPT ![w].quantity = @ - n,
                                      ![w].filled = @ + n]
        /\ queue' = queue
    BY <1>3 DEF Fill_working_order
  <2>2. /\ DOMAIN working' = DOMAIN working
        /\ \A i \in DOMAIN working \ {w} : working'[i] = working[i]
        /\ working'[w] = [working[w] EXCEPT !.quantity = @ - n,
                                            !.filled = @ + n]
    BY <2>1
  <2>3. working[w].quantity - n \in Nat /\ working[w].quantity - n > 0
    BY <1>1, <1>3
  <2>4. /\ Same(working'[w], working[w])
        /\ working'[w].quantity = working[w].quantity - n
        /\ working'[w].filled = working[w].filled + n
        /\ working'[w] \in Orders
    <3> DEFINE old == working[w]
               new == working'[w]
    <3>1. /\ old \in Orders /\ old.quantity - n \in Nat
          /\ new = [old EXCEPT !.quantity = @ - n, !.filled = @ + n]
      BY <1>1, <2>2, <2>3
    <3> HIDE DEF old, new
    <3>2. /\ Same(new, old) /\ new \in Orders
          /\ new.quantity = old.quantity - n
          /\ new.filled = old.filled + n
      BY <3>1, Less
    <3> QED BY <3>2 DEF old, new
  <2> QED BY <1>1, <2>1, <2>2, <2>3, <2>4
<1> QED BY <1>2, <1>3

\* What a fill changes.
LEMMA FillFacts ==
  ASSUME IInv, ~Idle, More, NEW w \in Matching(order, working), Fill(w)
  PROVE  \E n \in Nat :
           /\ n > 0 /\ n <= order.quantity /\ n <= working[w].quantity
           /\ Fill_working_order(w, n)
           /\ order' \in Orders /\ Same(order', order)
           /\ order'.quantity = order.quantity - n
           /\ order'.filled = order.filled + n
           /\ w \in DOMAIN working /\ w \in Ids /\ matching \in Ids
           /\ w # matching
           /\ fills' \in [Ids -> Nat] /\ got' \in [Ids -> Nat]
           /\ \A i \in {matching, w} : /\ fills'[i] = fills[i] + n
                                       /\ got'[i] = got[i] + n
           /\ \A i \in Ids \ {matching, w} : /\ fills'[i] = fills[i]
                                             /\ got'[i] = got[i]
                                             /\ told'[i] = told[i]
           /\ told'[matching] = [status |-> "filled", left |-> rest]
           /\ told'[w] = [status |-> "filled",
                          left |-> working[w].quantity - n]
           /\ told' \in [Ids -> [status : Statuses \cup {"pending"},
                                 left : Nat]]
           /\ trade' = [price |-> MatchPrice(order, working[w]),
                        quantity |-> n, ids |-> {matching, w}]
           /\ Change_market(working[w], -n)
<1>1. /\ w \in DOMAIN working /\ w \in Ids
      /\ matching \in Ids /\ w # matching
      /\ order \in Orders /\ order.quantity \in Nat /\ order.quantity > 0
      /\ order.filled \in Nat
      /\ working[w].quantity \in Nat /\ working[w].quantity > 0
      /\ fills \in [Ids -> Nat] /\ got \in [Ids -> Nat] /\ rest \in Nat
      /\ told \in [Ids -> [status : Statuses \cup {"pending"}, left : Nat]]
  <2>1. w \in DOMAIN working
    BY DEF Matching
  <2>2. /\ working[w].quantity \in Nat /\ working[w].quantity > 0
        /\ w \in Ids
    BY <2>1, WorkingType DEF IInv
  <2>3. order \in Orders /\ order.quantity > 0
    BY DEF IInv, BoxInv, TypeOK, More
  <2>4. order.quantity \in Nat /\ order.filled \in Nat
    BY <2>3 DEF Orders
  <2>5. matching \in Ids /\ w # matching
    BY <2>1 DEF IInv, BoxInv, TypeOK, Idle
  <2> QED BY <2>1, <2>2, <2>3, <2>4, <2>5 DEF IInv, BoxInv, TypeOK
<1> DEFINE n == Smaller(order.quantity, working[w].quantity)
<1>2. /\ n \in Nat /\ n > 0
      /\ n <= order.quantity /\ n <= working[w].quantity
  BY <1>1 DEF Smaller
<1>3. /\ Fill_working_order(w, n)
      /\ order' = [order EXCEPT !.quantity = @ - n, !.filled = @ + n]
      /\ fills' = [fills EXCEPT ![matching] = @ + n, ![w] = @ + n]
      /\ got' = [got EXCEPT ![matching] = @ + n, ![w] = @ + n]
      /\ told' = [told EXCEPT
           ![matching] = [status |-> "filled", left |-> rest],
           ![w] = [status |-> "filled", left |-> working[w].quantity - n]]
      /\ trade' = [price |-> MatchPrice(order, working[w]), quantity |-> n,
                   ids |-> {matching, w}]
      /\ Change_market(working[w], -n)
  BY DEF Fill, Change_market_on_order_filled
<1> HIDE DEF n
<1>4. /\ order' \in Orders /\ Same(order', order)
      /\ order'.quantity = order.quantity - n
      /\ order'.filled = order.filled + n
  <2>1. order.quantity - n \in Nat /\ order.filled + n \in Nat
    BY <1>1, <1>2
  <2> QED BY <1>1, <1>2, <1>3, <2>1, Less
<1>5. /\ fills' \in [Ids -> Nat] /\ got' \in [Ids -> Nat]
      /\ \A i \in {matching, w} : /\ fills'[i] = fills[i] + n
                                  /\ got'[i] = got[i] + n
      /\ \A i \in Ids \ {matching, w} : /\ fills'[i] = fills[i]
                                        /\ got'[i] = got[i]
  <2>1. /\ n \in Nat /\ matching \in Ids /\ w \in Ids /\ matching # w
    BY <1>1, <1>2
  <2>2. /\ fills' \in [Ids -> Nat]
        /\ \A i \in {matching, w} : fills'[i] = fills[i] + n
        /\ \A i \in Ids \ {matching, w} : fills'[i] = fills[i]
    <3>1. /\ fills \in [Ids -> Nat]
          /\ fills' = [fills EXCEPT ![matching] = @ + n, ![w] = @ + n]
      BY <1>1, <1>3
    <3> QED BY <2>1, <3>1, BothMore
  <2>3. /\ got' \in [Ids -> Nat]
        /\ \A i \in {matching, w} : got'[i] = got[i] + n
        /\ \A i \in Ids \ {matching, w} : got'[i] = got[i]
    <3>1. /\ got \in [Ids -> Nat]
          /\ got' = [got EXCEPT ![matching] = @ + n, ![w] = @ + n]
      BY <1>1, <1>3
    <3> QED BY <2>1, <3>1, BothMore
  <2> QED BY <2>2, <2>3
<1>6. /\ \A i \in Ids \ {matching, w} : told'[i] = told[i]
      /\ told'[matching] = [status |-> "filled", left |-> rest]
      /\ told'[w] = [status |-> "filled", left |-> working[w].quantity - n]
      /\ told' \in [Ids -> [status : Statuses \cup {"pending"}, left : Nat]]
  <2> DEFINE Answers == [status : Statuses \cup {"pending"}, left : Nat]
             a == [status |-> "filled", left |-> rest]
             b == [status |-> "filled", left |-> working[w].quantity - n]
  <2>1. working[w].quantity - n \in Nat
    BY <1>1, <1>2
  <2>2. a \in Answers /\ b \in Answers
    BY <1>1, <2>1 DEF Statuses
  <2>3. told \in [Ids -> Answers]
    BY <1>1
  <2>4. told' = [told EXCEPT ![matching] = a, ![w] = b]
    BY <1>3
  <2> HIDE DEF Answers, a, b
  <2>5. /\ \A i \in Ids \ {matching, w} : told'[i] = told[i]
        /\ told'[matching] = a
        /\ told'[w] = b
        /\ told' \in [Ids -> Answers]
    BY <1>1, <2>2, <2>3, <2>4
  <2> QED BY <2>5 DEF Answers, a, b
<1> QED BY <1>1, <1>2, <1>3, <1>4, <1>5, <1>6

\* One iteration of Match_order: what is still to come of the order, and what
\* the opposite orders have for it, both go down by what is filled.
LEMMA StepFill ==
  ASSUME IInv, FillNext
  PROVE  IInv'
<1>1. /\ ~Idle /\ More
      /\ UNCHANGED <<canceled, matching, rest, asked, requests>>
  BY DEF FillNext
<1>2. PICK w \in Matching(order, working) : Fill(w)
  BY DEF FillNext
<1>3. PICK n \in Nat :
        /\ n > 0 /\ n <= order.quantity /\ n <= working[w].quantity
        /\ Fill_working_order(w, n)
        /\ order' \in Orders /\ Same(order', order)
        /\ order'.quantity = order.quantity - n
        /\ order'.filled = order.filled + n
        /\ w \in DOMAIN working /\ w \in Ids /\ matching \in Ids
        /\ w # matching
        /\ fills' \in [Ids -> Nat] /\ got' \in [Ids -> Nat]
        /\ \A i \in {matching, w} : /\ fills'[i] = fills[i] + n
                                    /\ got'[i] = got[i] + n
        /\ \A i \in Ids \ {matching, w} : /\ fills'[i] = fills[i]
                                          /\ got'[i] = got[i]
                                          /\ told'[i] = told[i]
        /\ told'[matching] = [status |-> "filled", left |-> rest]
        /\ told'[w] = [status |-> "filled",
                       left |-> working[w].quantity - n]
        /\ told' \in [Ids -> [status : Statuses \cup {"pending"}, left : Nat]]
        /\ trade' = [price |-> MatchPrice(order, working[w]),
                     quantity |-> n, ids |-> {matching, w}]
        /\ Change_market(working[w], -n)
  BY <1>1, <1>2, FillFacts
<1>4. /\ DOMAIN working' \subseteq DOMAIN working
      /\ DOMAIN working' \ {w} = DOMAIN working \ {w}
      /\ \A i \in DOMAIN working \ {w} : working'[i] = working[i]
      /\ w \notin DOMAIN working' => n = working[w].quantity
      /\ w \in DOMAIN working' =>
           /\ Same(working'[w], working[w])
           /\ working'[w].quantity = working[w].quantity - n
           /\ working'[w].filled = working[w].filled + n
           /\ working'[w].quantity > 0
           /\ working'[w] \in Orders
      /\ IsFiniteSet(DOMAIN working')
      /\ Listed(queue', DOMAIN working')
  BY <1>3, Filled
<1>5. /\ \A i \in DOMAIN working : working[i].quantity \in Nat
      /\ \A i \in DOMAIN working' : working'[i].quantity \in Nat
      /\ order.quantity \in Nat /\ order \in Orders /\ rest \in Nat
      /\ fills \in [Ids -> Nat] /\ got \in [Ids -> Nat]
      /\ ValidPrice(order) /\ ValidPrice(working[w])
      /\ IsFiniteSet(DOMAIN working) /\ sizes \in Sizes
  <2>1. \A i \in DOMAIN working : working[i].quantity \in Nat
    BY WorkingType DEF IInv
  <2>2. order \in Orders /\ rest \in Nat
    BY DEF IInv, BoxInv, TypeOK
  <2>3. order.quantity \in Nat
    BY <2>2 DEF Orders
  <2>4. \A i \in DOMAIN working' : working'[i].quantity \in Nat
    BY <1>4, <2>1 DEF Orders
  <2> QED BY <1>1, <1>3, <2>1, <2>2, <2>3, <2>4
          DEF IInv, BoxInv, TypeOK, Sizes
<1>6. sizes' \in Sizes /\ MarketIsOrders' /\ StrategiesSeeMarket'
  <2>1. /\ working[w].side \in Sides /\ working[w].market \in BOOLEAN
        /\ ValidPrice(working[w]) /\ -n \in Int
    BY <1>3, WorkingType DEF IInv
  <2>2. w \in DOMAIN working' =>
          /\ working'[w].side = working[w].side
          /\ working'[w].market = working[w].market
          /\ working'[w].price = working[w].price
    BY <1>4 DEF Same
  <2>3. (IF w \in DOMAIN working' THEN working'[w].quantity ELSE 0)
          = (IF w \in DOMAIN working THEN working[w].quantity ELSE 0) + (-n)
    BY <1>3, <1>4, <1>5
  <2>4. MarketIsOrders /\ StrategiesSeeMarket
    BY DEF IInv
  <2> QED BY <1>3, <1>4, <1>5, <2>1, <2>2, <2>3, <2>4, MarketMoves
<1>7. NoneLeftToMatch'
  <2>1. \A i \in DOMAIN working' :
          /\ i \in DOMAIN working
          /\ working'[i].side = working[i].side
          /\ working'[i].market = working[i].market
          /\ working'[i].price = working[i].price
    BY <1>4 DEF Same
  <2> QED BY <2>1, NoneLeftSame DEF IInv
<1>8. ~Idle'
  BY <1>1 DEF Idle
<1>9. TypeOK'
  <2>1. \A i \in DOMAIN queue' : queue'[i] \in DOMAIN working'
    BY <1>4 DEF Listed
  <2>2. trade'.price \in Prices \cup {NoPrice} /\ trade'.ids \subseteq Ids
    BY <1>3, <1>5 DEF MatchPrice, ValidPrice
  <2>3. \A i \in Ids : /\ told'[i].status \in Statuses \cup {"pending"}
                       /\ told'[i].left \in Nat
    BY <1>3
  <2>4. \A i \in DOMAIN working' :
          /\ working'[i] \in Orders
          /\ working'[i].quantity > 0
          /\ working'[i].tif = "GFD"
          /\ ~working'[i].market => working'[i].price \in Prices
    <3>1. ASSUME NEW i \in DOMAIN working'
          PROVE  /\ working'[i] \in Orders
                 /\ working'[i].quantity > 0
                 /\ working'[i].tif = working[i].tif
                 /\ working'[i].market = working[i].market
                 /\ working'[i].price = working[i].price
      <4>1. CASE i = w
        BY <1>4, <4>1 DEF Same
      <4>2. CASE i # w
        BY <1>4, <4>2 DEF IInv, BoxInv, TypeOK
      <4> QED BY <4>1, <4>2
    <3> QED BY <1>4, <3>1 DEF IInv, BoxInv, TypeOK
  <2> QED BY <1>1, <1>3, <1>4, <1>6, <2>1, <2>2, <2>3, <2>4
          DEF IInv, BoxInv, TypeOK, Sizes
<1>10. BoxInv'
  <2>1. ValidPrice(order')
    BY <1>3, <1>5 DEF ValidPrice, Same
  <2>2. \A i \in DOMAIN working' : ValidPrice(working'[i])
    <3> TAKE i \in DOMAIN working'
    <3>1. ValidPrice(working[i])
      BY <1>4 DEF IInv, BoxInv
    <3>2. /\ working'[i].market = working[i].market
          /\ working'[i].price = working[i].price
      BY <1>4 DEF Same
    <3> QED BY <3>1, <3>2 DEF ValidPrice
  <2>3. matching' \notin DOMAIN working' /\ matching' \notin canceled'
    BY <1>1, <1>4 DEF IInv, BoxInv
  <2>4. canceled' \cap DOMAIN working' = {}
    BY <1>1, <1>4 DEF IInv, BoxInv
  <2> QED BY <1>3, <1>4, <1>9, <2>1, <2>2, <2>3, <2>4 DEF BoxInv
<1>11. QuantityInv'
  <2>1. \A i \in DOMAIN working' :
          /\ Same(working'[i], asked[i]) /\ working'[i].filled = got'[i]
          /\ working'[i].quantity + got'[i] = asked[i].quantity
    <3> TAKE i \in DOMAIN working'
    <3>1. /\ Same(working[i], asked[i]) /\ working[i].filled = got[i]
          /\ working[i].quantity + got[i] = asked[i].quantity
          /\ i # matching /\ i \in Ids /\ i \in DOMAIN working
      BY <1>1, <1>4 DEF IInv, QuantityInv, BoxInv, TypeOK
    <3>2. CASE i = w
      <4>1. /\ working'[i].filled = got'[i]
            /\ working'[i].quantity = working[i].quantity - n
            /\ got'[i] = got[i] + n
        BY <1>3, <1>4, <3>1, <3>2
      <4>2. working'[i].quantity + got'[i] = working[i].quantity + got[i]
        BY <1>3, <1>5, <3>1, <4>1
      <4> QED BY <1>4, <3>1, <3>2, <4>1, <4>2 DEF Same
    <3>3. CASE i # w
      <4>1. working'[i] = working[i] /\ got'[i] = got[i]
        BY <1>3, <1>4, <3>1, <3>3
      <4> QED BY <3>1, <4>1
    <3> QED BY <3>2, <3>3
  <2>2. /\ Same(order', asked[matching])
        /\ order'.quantity + got'[matching] = asked[matching].quantity
        /\ order'.filled = got'[matching]
        /\ asked[matching].quantity > 0
    <3>1. /\ Same(order, asked[matching])
          /\ order.quantity + got[matching] = asked[matching].quantity
          /\ order.filled = got[matching]
          /\ asked[matching].quantity > 0
      BY <1>1 DEF IInv, QuantityInv
    <3>2. order'.quantity + got'[matching] = order.quantity + got[matching]
      BY <1>3, <1>5
    <3>3. got'[matching] = got[matching] + n
      BY <1>3
    <3> QED BY <1>3, <3>1, <3>2, <3>3 DEF Same
  <2>3. \A i \in Ids \ {matching} :
          /\ Order_status(i)' = "filled" => got'[i] = asked[i].quantity
          /\ asked[i].tif = "FOK" => got'[i] \in {0, asked[i].quantity}
    <3> TAKE i \in Ids \ {matching}
    <3>1. CASE i = w
      <4>1. asked[i].tif = "GFD"
        BY <1>3, <3>1, WorkingType DEF IInv, QuantityInv, Same
      <4>2. Order_status(i)' = "filled" => i \notin DOMAIN working'
        BY DEF Order_status
      <4>3. i \notin DOMAIN working' => got'[i] = asked[i].quantity
        <5>1. working[i].quantity + got[i] = asked[i].quantity
          BY <1>3, <3>1 DEF IInv, QuantityInv
        <5>2. got'[i] = got[i] + n /\ got[i] \in Nat
          BY <1>3, <1>5, <3>1
        <5> QED BY <1>3, <1>4, <3>1, <5>1, <5>2
      <4> QED BY <4>1, <4>2, <4>3
    <3>2. CASE i # w
      <4>1. Order_status(i)' = Order_status(i)
        BY <1>1, <1>3, <1>4, <3>2 DEF Order_status
      <4>2. got'[i] = got[i]
        BY <1>3, <3>2
      <4>3. /\ Order_status(i) = "filled" => got[i] = asked[i].quantity
            /\ asked[i].tif = "FOK" => got[i] \in {0, asked[i].quantity}
        BY DEF IInv, QuantityInv
      <4> QED BY <4>1, <4>2, <4>3
    <3> QED BY <3>1, <3>2
  <2>4. \A i \in Ids : got'[i] <= fills'[i]
    <3> TAKE i \in Ids
    <3>1. got[i] <= fills[i] /\ got[i] \in Nat /\ fills[i] \in Nat
      BY <1>5 DEF IInv, QuantityInv
    <3>2. CASE i \in {matching, w}
      <4>1. got'[i] = got[i] + n /\ fills'[i] = fills[i] + n
        BY <1>3, <3>2
      <4> QED BY <3>1, <4>1
    <3>3. CASE i \notin {matching, w}
      <4>1. got'[i] = got[i] /\ fills'[i] = fills[i]
        BY <1>3, <3>3
      <4> QED BY <3>1, <4>1
    <3> QED BY <3>2, <3>3
  <2> QED BY <1>1, <2>1, <2>2, <2>3, <2>4 DEF QuantityInv
<1>12. MatchInv'
  <2>1. ~Killed /\ ~Killed'
    BY <1>1, <1>3 DEF More, Killed, Same
  <2> DEFINE f == Quantity(working)
             g == Quantity(working')
             S == Matching(order, working)
             R == Matching(order', working')
             q == order.quantity
  <2>2. rest = q - Smaller(q, Sum(f, S))
    BY <1>1, <2>1 DEF IInv, MatchInv
  <2>3. /\ \A i \in DOMAIN working : f[i] = working[i].quantity
        /\ \A i \in DOMAIN working' : g[i] = working'[i].quantity
    BY DEF Quantity
  <2>4. /\ S \subseteq DOMAIN working /\ R \subseteq DOMAIN working'
        /\ S \ {w} = R \ {w} /\ w \in S
        /\ w \in R <=> w \in DOMAIN working'
    <3>1. \A i \in DOMAIN working' : Is_match(order', working'[i])
                                       <=> Is_match(order, working[i])
      <4> TAKE i \in DOMAIN working'
      <4>1. Same(working'[i], working[i]) /\ Same(order', order)
        BY <1>3, <1>4 DEF Same
      <4> QED BY <4>1 DEF Same, Is_match
    <3> QED BY <1>3, <1>4, <3>1 DEF Matching
  <2>5. IsFiniteSet(S) /\ IsFiniteSet(R)
    <3> HIDE DEF S, R
    <3> QED BY <1>4, <1>5, <2>4, FS_Subset
  <2> HIDE DEF f, g, S, R
  <2>6. /\ \A i \in S : f[i] \in Nat
        /\ \A i \in R : g[i] \in Nat
        /\ \A i \in S \ {w} : g[i] = f[i]
    <3>1. \A i \in S \ {w} : i \in DOMAIN working' /\ working'[i] = working[i]
      BY <1>4, <2>4
    <3> QED BY <1>5, <2>3, <2>4, <3>1
  <2>7. Sum(g, R) + (IF w \in S THEN f[w] ELSE 0)
          = Sum(f, S) + (IF w \in R THEN g[w] ELSE 0)
    BY <2>4, <2>5, <2>6, SumMove
  <2>8. Sum(g, R) \in Nat /\ Sum(f, S) \in Nat
    BY <2>5, <2>6, SumNat
  <2>9. (IF w \in R THEN g[w] ELSE 0) = f[w] - n /\ f[w] \in Nat
    BY <1>3, <1>4, <1>5, <2>3, <2>4
  <2>10. Sum(g, R) = Sum(f, S) - n
    BY <2>4, <2>7, <2>8, <2>9
  <2>11. rest = order'.quantity - Smaller(order'.quantity, Sum(g, R))
    <3>1. order'.quantity = q - n /\ q \in Nat
      BY <1>3, <1>5
    <3> QED BY <2>2, <2>8, <2>10, <3>1 DEF Smaller
  <2> QED BY <1>1, <2>1, <2>11 DEF MatchInv, g, R
<1>13. ToldInv'
  <2>1. \A i \in Ids \ {matching} :
          /\ Order_status(i)' = "none" => told'[i].status = "none"
          /\ Order_status(i)' = "working" =>
               /\ told'[i].status \in {"working", "filled"}
               /\ told'[i].left = working'[i].quantity
          /\ Order_status(i)' \in {"filled", "cancelled"} =>
               told'[i] = [status |-> Order_status(i)', left |-> 0]
    <3> TAKE i \in Ids \ {matching}
    <3>1. CASE i = w
      <4>1. i \notin canceled' /\ fills'[i] > 0
        <5>1. i \notin canceled
          BY <1>3, <3>1 DEF IInv, BoxInv
        <5>2. fills'[i] = fills[i] + n /\ fills[i] \in Nat
          BY <1>3, <1>5, <3>1
        <5> QED BY <1>1, <1>3, <5>1, <5>2
      <4>2. Order_status(i)' = IF i \in DOMAIN working' THEN "working"
                                                        ELSE "filled"
        BY <4>1 DEF Order_status
      <4>3. told'[i] = [status |-> "filled", left |-> working[w].quantity - n]
        BY <1>3, <3>1
      <4>4. i \notin DOMAIN working' => working[w].quantity - n = 0
        BY <1>3, <1>4, <3>1
      <4>5. i \in DOMAIN working' =>
              working'[i].quantity = working[w].quantity - n
        BY <1>4, <3>1
      <4> QED BY <4>2, <4>3, <4>4, <4>5
    <3>2. CASE i # w
      <4>1. /\ Order_status(i)' = Order_status(i)
            /\ told'[i] = told[i]
            /\ Order_status(i) = "working" => working'[i] = working[i]
        BY <1>1, <1>3, <1>4, <3>2 DEF Order_status
      <4>2. /\ Order_status(i) = "none" => told[i].status = "none"
            /\ Order_status(i) = "working" =>
                 /\ told[i].status \in {"working", "filled"}
                 /\ told[i].left = working[i].quantity
            /\ Order_status(i) \in {"filled", "cancelled"} =>
                 told[i] = [status |-> Order_status(i), left |-> 0]
        BY DEF IInv, ToldInv
      <4> QED BY <4>1, <4>2
    <3> QED BY <3>1, <3>2
  <2> QED BY <1>1, <1>3, <2>1 DEF ToldInv
<1> QED BY <1>6, <1>7, <1>10, <1>11, <1>12, <1>13 DEF IInv
-----------------------------------------------------------------------------
(* The end of Match_order.                                                 *)

\* What the opposite orders have for an order, none if there are none.
LEMMA AllNat ==
  ASSUME BoxInv
  PROVE  LET all == Sum(Quantity(working), Matching(order, working))
         IN  /\ all \in Nat
             /\ Matching(order, working) = {} => all = 0
<1> DEFINE S == Matching(order, working)
           f == Quantity(working)
<1>1. S \subseteq DOMAIN working /\ IsFiniteSet(S)
  <2>1. S \subseteq DOMAIN working
    BY DEF Matching
  <2> HIDE DEF S
  <2> QED BY <2>1, FS_Subset DEF BoxInv
<1>2. \A i \in S : f[i] \in Nat
  BY <1>1, WorkingType DEF Quantity
<1> HIDE DEF S, f
<1>3. Sum(f, S) \in Nat /\ (S = {} => Sum(f, S) = 0)
  BY <1>1, <1>2, SumNat
<1> QED BY <1>3 DEF S, f

\* Why the loop of Match_order ends: the order is filled, and what was told of
\* it with the last fill is right; or nothing is left that it matches; or it
\* is a FOK order, of which nothing is filled.
LEMMA MatchEnds ==
  ASSUME IInv, ~Idle, ~More
  PROVE  /\ order.quantity = 0 =>
              /\ got[matching] = asked[matching].quantity
              /\ fills[matching] > 0
              /\ told[matching] = [status |-> "filled", left |-> 0]
         /\ order.quantity # 0 /\ order.tif = "GFD" =>
              Matching(order, working) = {}
         /\ asked[matching].tif = "FOK" =>
              got[matching] \in {0, asked[matching].quantity}
<1> DEFINE all == Sum(Quantity(working), Matching(order, working))
<1>1. all \in Nat /\ (Matching(order, working) = {} => all = 0)
  BY AllNat DEF IInv
<1>2. /\ order.quantity \in Nat /\ rest \in Nat /\ matching \in Ids
      /\ got[matching] \in Nat /\ fills[matching] \in Nat
  <2>1. order \in Orders /\ matching \in Ids
    BY DEF IInv, BoxInv, TypeOK, Idle
  <2>2. order.quantity \in Nat
    BY <2>1 DEF Orders
  <2> QED BY <2>1, <2>2 DEF IInv, BoxInv, TypeOK
<1>3. /\ Same(order, asked[matching])
      /\ order.quantity + got[matching] = asked[matching].quantity
      /\ asked[matching].quantity > 0
      /\ got[matching] <= fills[matching]
  BY <1>2 DEF IInv, QuantityInv
<1>4. /\ Killed => got[matching] = 0
      /\ ~Killed => rest = order.quantity - Smaller(order.quantity, all)
  BY DEF IInv, MatchInv
<1> HIDE DEF all
<1>5. ASSUME order.quantity = 0
      PROVE  /\ got[matching] = asked[matching].quantity
             /\ fills[matching] > 0
             /\ told[matching] = [status |-> "filled", left |-> 0]
  <2>1. got[matching] = asked[matching].quantity /\ got[matching] > 0
    BY <1>2, <1>3, <1>5
  <2>2. rest = 0
    BY <1>1, <1>4, <1>5, <2>1 DEF Smaller
  <2>3. told[matching] = [status |-> "filled", left |-> rest]
    BY <2>1 DEF IInv, ToldInv
  <2> QED BY <1>2, <1>3, <2>1, <2>2, <2>3
<1>6. ASSUME order.quantity # 0, order.tif = "GFD"
      PROVE  Matching(order, working) = {}
  BY <1>2, <1>6 DEF More, Killed
<1>7. ASSUME asked[matching].tif = "FOK"
      PROVE  got[matching] \in {0, asked[matching].quantity}
  <2>1. order.tif = "FOK"
    BY <1>3, <1>7 DEF Same
  <2>2. CASE order.quantity = 0
    BY <1>5, <2>2
  <2>3. CASE order.quantity # 0
    <3>1. CASE Killed
      BY <1>4, <3>1
    <3>2. CASE ~Killed
      <4>1. rest = 0
        BY <1>2, <2>1, <3>2 DEF Killed
      <4>2. Matching(order, working) = {}
        BY <1>2, <2>3, <3>2 DEF More
      <4> QED BY <1>1, <1>2, <1>4, <2>3, <3>2, <4>1, <4>2 DEF Smaller
    <3> QED BY <3>1, <3>2
  <2> QED BY <2>2, <2>3
<1> QED BY <1>5, <1>6, <1>7

\* Whatever becomes of the order, the box holds the others as before, and what
\* is known of the order is true.
LEMMA Finished ==
  ASSUME IInv, ~Idle, ~More, NEW m \in Ids, m = matching,
         matching' = NoId, order' = NoOrder, rest' = 0, trade' = NoTrade,
         UNCHANGED <<fills, asked, got, requests>>,
         DOMAIN working \subseteq DOMAIN working',
         DOMAIN working' \subseteq DOMAIN working \cup {matching},
         \A i \in DOMAIN working : working'[i] = working[i],
         matching \in DOMAIN working' =>
           /\ working'[matching] = order
           /\ order.quantity # 0
           /\ order.tif = "GFD",
         Listed(queue', DOMAIN working'),
         canceled \subseteq canceled',
         canceled' \subseteq canceled \cup {matching},
         canceled' \cap DOMAIN working' = {},
         sizes' \in Sizes, MarketIsOrders', StrategiesSeeMarket',
         NoneLeftToMatch',
         \A i \in Ids \ {matching} : told'[i] = told[i],
         told' \in [Ids -> [status : Statuses \cup {"pending"}, left : Nat]],
         Order_status(m)' # "none",
         Order_status(m)' = "filled" =>
           got[matching] = asked[matching].quantity,
         Order_status(m)' = "working" =>
           told'[m] = [status |-> "working", left |-> order.quantity],
         Order_status(m)' \in {"filled", "cancelled"} =>
           told'[m] = [status |-> Order_status(m)', left |-> 0]
  PROVE  IInv'
<1>1. /\ matching \in Ids /\ matching \notin DOMAIN working
      /\ order \in Orders /\ ValidPrice(order)
  BY DEF IInv, BoxInv, TypeOK, Idle
<1>2. Idle' /\ NoId \notin Ids
  BY TradeAssumption DEF Idle
<1>3. IsFiniteSet(DOMAIN working')
  <2>1. IsFiniteSet(DOMAIN working \cup {matching})
    BY FS_AddElement DEF IInv, BoxInv
  <2> QED BY <2>1, FS_Subset
<1>4. \A i \in DOMAIN working' : i # matching => /\ i \in DOMAIN working
                                                 /\ working'[i] = working[i]
  OBVIOUS
<1>5. TypeOK'
  <2>1. \A n \in DOMAIN queue' : queue'[n] \in DOMAIN working'
    BY DEF Listed
  <2>2. trade'.price \in Prices \cup {NoPrice} /\ trade'.ids \subseteq Ids
    BY DEF NoTrade
  <2>3. \A i \in Ids : /\ told'[i].status \in Statuses \cup {"pending"}
                       /\ told'[i].left \in Nat
    OBVIOUS
  <2>4. \A i \in DOMAIN working' :
          /\ working'[i] \in Orders
          /\ working'[i].quantity > 0
          /\ working'[i].tif = "GFD"
          /\ ~working'[i].market => working'[i].price \in Prices
    <3> TAKE i \in DOMAIN working'
    <3>1. CASE i = matching
      <4>1. order.quantity \in Nat
        BY <1>1 DEF Orders
      <4> QED BY <1>1, <3>1, <4>1 DEF ValidPrice
    <3>2. CASE i # matching
      BY <1>4, <3>2 DEF IInv, BoxInv, TypeOK
    <3> QED BY <3>1, <3>2
  <2>5. order' \in Orders /\ rest' \in Nat
    BY DEF NoOrder, Orders, Sides, Tifs, NoPrice
  <2>6. DOMAIN working' \subseteq Ids /\ canceled' \subseteq Ids
    BY <1>1 DEF IInv, BoxInv, TypeOK
  <2> QED BY <2>1, <2>2, <2>3, <2>4, <2>5, <2>6
          DEF IInv, BoxInv, TypeOK, Sizes
<1>6. BoxInv'
  <2>1. \A i \in DOMAIN working' : ValidPrice(working'[i])
    BY <1>1, <1>4 DEF IInv, BoxInv
  <2> QED BY <1>2, <1>3, <1>5, <2>1 DEF BoxInv
<1>7. \A i \in Ids \ {matching} : Order_status(i)' = Order_status(i)
  BY DEF Order_status
<1>8. QuantityInv'
  <2>1. \A i \in DOMAIN working' :
          /\ Same(working'[i], asked[i])
          /\ working'[i].quantity + got[i] = asked[i].quantity
          /\ working'[i].filled = got[i]
    <3> TAKE i \in DOMAIN working'
    <3>1. CASE i = matching
      <4>1. working'[i] = order
        BY <3>1
      <4>2. /\ Same(order, asked[matching])
            /\ order.quantity + got[matching] = asked[matching].quantity
            /\ order.filled = got[matching]
        BY DEF IInv, QuantityInv
      <4> QED BY <3>1, <4>1, <4>2
    <3>2. CASE i # matching
      <4>1. working'[i] = working[i] /\ i \in DOMAIN working
        BY <1>4, <3>2
      <4>2. /\ Same(working[i], asked[i])
            /\ working[i].quantity + got[i] = asked[i].quantity
            /\ working[i].filled = got[i]
        BY <4>1 DEF IInv, QuantityInv
      <4> QED BY <4>1, <4>2
    <3> QED BY <3>1, <3>2
  <2>2. \A i \in Ids :
          /\ Order_status(i)' = "filled" => got[i] = asked[i].quantity
          /\ asked[i].tif = "FOK" => got[i] \in {0, asked[i].quantity}
    BY <1>7, MatchEnds DEF IInv, QuantityInv
  <2>3. \A i \in Ids : got[i] <= fills[i]
    BY DEF IInv, QuantityInv
  <2> QED BY <1>2, <2>1, <2>2, <2>3 DEF QuantityInv
<1>9. MatchInv'
  BY <1>2 DEF MatchInv
<1>10. ToldInv'
  <2>1. \A i \in Ids :
          /\ Order_status(i)' = "none" => told'[i].status = "none"
          /\ Order_status(i)' = "working" =>
               /\ told'[i].status \in {"working", "filled"}
               /\ told'[i].left = working'[i].quantity
          /\ Order_status(i)' \in {"filled", "cancelled"} =>
               told'[i] = [status |-> Order_status(i)', left |-> 0]
    <3> TAKE i \in Ids
    <3>1. CASE i = matching
      <4>1. Order_status(i)' = "working" => working'[i] = order
        BY <3>1 DEF Order_status
      <4>2. Order_status(i)' = "working" =>
              /\ told'[i].status \in {"working", "filled"}
              /\ told'[i].left = working'[i].quantity
        <5>1. Order_status(i)' = "working" =>
                told'[i] = [status |-> "working", left |-> order.quantity]
          BY <3>1
        <5> QED BY <4>1, <5>1
      <4>3. Order_status(i)' \in {"filled", "cancelled"} =>
              told'[i] = [status |-> Order_status(i)', left |-> 0]
        BY <3>1
      <4>4. Order_status(i)' # "none"
        BY <3>1
      <4> QED BY <4>2, <4>3, <4>4
    <3>2. CASE i # matching
      <4>1. Order_status(i) = "working" => working'[i] = working[i]
        BY DEF Order_status
      <4>2. told'[i] = told[i] /\ Order_status(i)' = Order_status(i)
        BY <1>7, <3>2
      <4>3. /\ Order_status(i) = "none" => told[i].status = "none"
            /\ Order_status(i) = "working" =>
                 /\ told[i].status \in {"working", "filled"}
                 /\ told[i].left = working[i].quantity
            /\ Order_status(i) \in {"filled", "cancelled"} =>
                 told[i] = [status |-> Order_status(i), left |-> 0]
        BY <3>2 DEF IInv, ToldInv
      <4> QED BY <4>1, <4>2, <4>3
    <3> QED BY <3>1, <3>2
  <2> QED BY <1>2, <2>1 DEF ToldInv
<1> QED BY <1>6, <1>8, <1>9, <1>10 DEF IInv

\* FinishMatch: the order is filled, waits with what is left of it behind the
\* others at its price, or is cancelled.
LEMMA StepFinish ==
  ASSUME IInv, FinishMatch
  PROVE  IInv'
<1>1. /\ ~Idle /\ ~More
      /\ matching' = NoId /\ order' = NoOrder /\ rest' = 0 /\ trade' = NoTrade
      /\ UNCHANGED <<fills, asked, got, requests>>
  BY DEF FinishMatch
<1>2. PICK m \in Ids : m = matching
  BY <1>1 DEF IInv, BoxInv, TypeOK, Idle
<1>3. /\ m \notin DOMAIN working /\ m \notin canceled
      /\ order \in Orders /\ ValidPrice(order) /\ order.quantity \in Nat
      /\ fills[m] \in Nat /\ canceled \cap DOMAIN working = {}
      /\ IsFiniteSet(DOMAIN working) /\ Listed(queue, DOMAIN working)
      /\ told \in [Ids -> [status : Statuses \cup {"pending"}, left : Nat]]
      /\ sizes \in Sizes /\ MarketIsOrders /\ StrategiesSeeMarket
      /\ NoneLeftToMatch
  <2>1. order \in Orders
    BY DEF IInv, BoxInv, TypeOK
  <2>2. order.quantity \in Nat
    BY <2>1 DEF Orders
  <2> QED BY <1>1, <1>2, <2>1, <2>2 DEF IInv, BoxInv, TypeOK, Sizes
<1>4. /\ order.quantity = 0 =>
           /\ got[m] = asked[m].quantity
           /\ fills[m] > 0
           /\ told[m] = [status |-> "filled", left |-> 0]
      /\ order.quantity # 0 /\ order.tif = "GFD" =>
           Matching(order, working) = {}
  BY <1>1, <1>2, MatchEnds
<1>5. CASE order.quantity = 0
  <2>1. UNCHANGED <<sizes, l2Told, topTold, working, queue, canceled, told>>
    BY <1>5 DEF FinishMatch, tradeMarketVars
  <2>2. Order_status(m)' = "filled"
    BY <1>1, <1>3, <1>4, <1>5, <2>1 DEF Order_status
  <2>3. /\ sizes' \in Sizes /\ MarketIsOrders' /\ StrategiesSeeMarket'
        /\ NoneLeftToMatch'
    BY <1>3, <2>1 DEF MarketIsOrders, StrategiesSeeMarket, NoneLeftToMatch
  <2> QED BY <1>1, <1>2, <1>3, <1>4, <1>5, <2>1, <2>2, <2>3, Finished
<1>6. CASE order.quantity # 0 /\ order.tif = "GFD"
  <2>1. /\ working' = With(working, m, order)
        /\ queue' = Append(queue, m)
        /\ told' = [told EXCEPT ![m] =
                      [status |-> "working", left |-> order.quantity]]
        /\ Change_market(order, order.quantity)
        /\ UNCHANGED canceled
    BY <1>2, <1>6 DEF FinishMatch, Add_order, Change_market_on_order_created
  <2>2. /\ DOMAIN working' = DOMAIN working \cup {m}
        /\ \A i \in DOMAIN working : working'[i] = working[i]
        /\ working'[m] = order
    BY <1>3, <2>1 DEF With
  <2>3. IsFiniteSet(DOMAIN working')
    BY <1>3, <2>2, FS_AddElement
  <2>4. Listed(queue', DOMAIN working')
    BY <1>3, <2>1, <2>2, ListedAppend
  <2>5. sizes' \in Sizes /\ MarketIsOrders' /\ StrategiesSeeMarket'
    <3> DEFINE n == order.quantity
               o == order
    <3>1. /\ \A i \in DOMAIN working : working[i].quantity \in Nat
          /\ \A i \in DOMAIN working' : working'[i].quantity \in Nat
      <4>1. \A i \in DOMAIN working : working[i].quantity \in Nat
        BY WorkingType DEF IInv
      <4> QED BY <1>3, <2>2, <4>1
    <3>2. /\ o.side \in Sides /\ o.market \in BOOLEAN /\ ValidPrice(o)
          /\ n \in Int
      BY <1>3 DEF Orders
    <3>3. /\ DOMAIN working' \ {m} = DOMAIN working \ {m}
          /\ \A i \in DOMAIN working \ {m} : working'[i] = working[i]
          /\ m \notin DOMAIN working /\ m \in DOMAIN working'
      BY <1>3, <2>2
    <3>4. (IF m \in DOMAIN working' THEN working'[m].quantity ELSE 0)
            = (IF m \in DOMAIN working THEN working[m].quantity ELSE 0) + n
      BY <1>3, <2>2, <3>3
    <3>5. /\ working'[m].side = o.side
          /\ working'[m].market = o.market
          /\ working'[m].price = o.price
          /\ Change_market(o, n)
      BY <2>1, <2>2
    <3> HIDE DEF o, n
    <3> QED BY <1>3, <2>3, <3>1, <3>2, <3>3, <3>4, <3>5, MarketMoves
  <2>6. NoneLeftToMatch'
    <3>1. \A i \in DOMAIN working : ~Is_match(order, working[i])
      BY <1>4, <1>6 DEF Matching
    <3>2. order.price \in Nat
      BY <1>3 DEF Orders
    <3>3. \A i \in DOMAIN working : working[i].price \in Nat
      BY WorkingType DEF IInv
    <3>4. ASSUME NEW v \in DOMAIN working', NEW w \in DOMAIN working',
                 working'[v].side = "buy", working'[w].side = "sell"
          PROVE  \/ working'[v].market /\ working'[w].market
                 \/ /\ ~working'[v].market /\ ~working'[w].market
                    /\ working'[v].price < working'[w].price
      <4>1. CASE v = m /\ w # m
        <5>1. /\ working'[v] = order /\ working'[w] = working[w]
              /\ w \in DOMAIN working
          BY <2>2, <4>1
        <5>2. order.side = "buy" /\ working[w].side = "sell"
          BY <3>4, <5>1
        <5>3. /\ ~Is_match(order, working[w])
              /\ order.price \in Nat /\ working[w].price \in Nat
          BY <3>1, <3>2, <3>3, <5>1
        <5> QED BY <5>1, <5>2, <5>3 DEF Is_match, Better
      <4>2. CASE v # m /\ w = m
        <5>1. /\ working'[v] = working[v] /\ working'[w] = order
              /\ v \in DOMAIN working
          BY <2>2, <4>2
        <5>2. order.side = "sell" /\ working[v].side = "buy"
          BY <3>4, <5>1
        <5>3. /\ ~Is_match(order, working[v])
              /\ order.price \in Nat /\ working[v].price \in Nat
          BY <3>1, <3>2, <3>3, <5>1
        <5> QED BY <5>1, <5>2, <5>3 DEF Is_match, Better
      <4>3. CASE v # m /\ w # m
        BY <1>3, <2>2, <3>4, <4>3 DEF NoneLeftToMatch
      <4>4. CASE v = m /\ w = m
        BY <3>4, <4>4
      <4> QED BY <4>1, <4>2, <4>3, <4>4
    <3> QED BY <3>4 DEF NoneLeftToMatch
  <2>7. Order_status(m)' = "working"
    BY <1>3, <2>1, <2>2 DEF Order_status
  <2>8. /\ told'[m] = [status |-> "working", left |-> order.quantity]
        /\ \A i \in Ids \ {m} : told'[i] = told[i]
        /\ told' \in [Ids -> [status : Statuses \cup {"pending"}, left : Nat]]
    BY <1>3, <2>1 DEF Statuses
  <2>9. canceled' \cap DOMAIN working' = {}
    BY <1>3, <2>1, <2>2
  <2> QED BY <1>1, <1>2, <1>3, <1>6, <2>1, <2>2, <2>4, <2>5, <2>6, <2>7,
          <2>8, <2>9, Finished
<1>7. CASE order.quantity # 0 /\ order.tif # "GFD"
  <2>1. /\ canceled' = canceled \cup {m}
        /\ told' = [told EXCEPT ![m] = [status |-> "cancelled", left |-> 0]]
        /\ UNCHANGED <<sizes, l2Told, topTold, working, queue>>
    BY <1>2, <1>7 DEF FinishMatch, Add_deleted_order, tradeMarketVars
  <2>2. Order_status(m)' = "cancelled"
    BY <2>1 DEF Order_status
  <2>3. /\ sizes' \in Sizes /\ MarketIsOrders' /\ StrategiesSeeMarket'
        /\ NoneLeftToMatch' /\ Listed(queue', DOMAIN working')
    BY <1>3, <2>1 DEF MarketIsOrders, StrategiesSeeMarket, NoneLeftToMatch
  <2>4. /\ told'[m] = [status |-> "cancelled", left |-> 0]
        /\ \A i \in Ids \ {m} : told'[i] = told[i]
        /\ told' \in [Ids -> [status : Statuses \cup {"pending"}, left : Nat]]
    BY <1>3, <2>1 DEF Statuses
  <2>5. canceled' \cap DOMAIN working' = {}
    BY <1>3, <2>1
  <2> QED BY <1>1, <1>2, <1>3, <2>1, <2>2, <2>3, <2>4, <2>5, Finished
<1> QED BY <1>5, <1>6, <1>7

-----------------------------------------------------------------------------
(* The theorems.                                                           *)

\* Nothing waits, and nothing was told.
LEMMA Initially ==
  ASSUME Init
  PROVE  IInv
<1>1. /\ DOMAIN working = {} /\ queue = <<>> /\ canceled = {}
      /\ matching = NoId /\ NoId \notin Ids
      /\ sizes = [side \in Sides |-> [p \in Prices |-> 0]]
      /\ l2Told = L2(sizes) /\ topTold = BBO(sizes)
  BY TradeAssumption DEF Init, TradeMarketInit
<1>2. IsFiniteSet(DOMAIN working)
  BY <1>1, FS_EmptySet
<1>3. Listed(queue, DOMAIN working)
  <2>1. <<>> \in Seq(Ids) /\ DOMAIN <<>> = {}
    OBVIOUS
  <2> QED BY <1>1, <2>1 DEF Listed
<1>4. NoOrder \in Orders
  BY DEF NoOrder, Orders, Sides, Tifs, NoPrice
<1>5. told \in [Ids -> [status : Statuses \cup {"pending"}, left : Nat]]
  BY DEF Init, Statuses
<1>6. TypeOK
  <2>1. trade.price \in Prices \cup {NoPrice} /\ trade.ids \subseteq Ids
    BY DEF Init, NoTrade
  <2>2. fills \in [Ids -> Nat] /\ got \in [Ids -> Nat]
    BY DEF Init
  <2>3. asked \in [Ids -> Orders] /\ order \in Orders
    BY <1>4 DEF Init
  <2>4. sizes \in [Sides -> [Prices -> Nat]]
    BY <1>1
  <2>5. rest \in Nat /\ requests \in 0 .. MaxRequests
    BY TradeAssumption DEF Init
  <2>6. \A id \in Ids : /\ told[id].status \in Statuses \cup {"pending"}
                        /\ told[id].left \in Nat
    BY <1>5
  <2>7. \A n \in DOMAIN queue : queue[n] \in DOMAIN working
    BY <1>1
  <2> QED BY <1>1, <2>1, <2>2, <2>3, <2>4, <2>5, <2>6, <2>7 DEF TypeOK
<1>7. BoxInv
  BY <1>1, <1>2, <1>3, <1>5, <1>6 DEF BoxInv, Idle
<1>8. \A id \in Ids : Order_status(id) = "none"
  BY <1>1 DEF Order_status, Init
<1>9. QuantityInv
  <2>1. \A id \in Ids : got[id] = 0 /\ fills[id] = 0
    BY DEF Init
  <2> QED BY <1>1, <1>8, <2>1 DEF QuantityInv, Idle
<1>10. MatchInv
  BY <1>1 DEF MatchInv, Idle
<1>11. ToldInv
  <2>1. \A id \in Ids : told[id].status = "none"
    BY DEF Init
  <2> QED BY <1>1, <1>8, <2>1 DEF ToldInv, Idle
<1>12. NoneLeftToMatch
  BY <1>1 DEF NoneLeftToMatch
<1>13. MarketIsOrders
  <2> SUFFICES ASSUME NEW side \in Sides, NEW p \in Prices
               PROVE  sizes[side][p]
                        = Sum(Quantity(working), At(working, side, p))
    BY DEF MarketIsOrders, At
  <2> DEFINE S == At(working, side, p)
             f == Quantity(working)
  <2>1. S = {}
    BY <1>1 DEF At
  <2>2. sizes[side][p] = 0
    BY <1>1
  <2> HIDE DEF S, f
  <2>3. Sum(f, S) = 0
    <3>1. IsFiniteSet(S) /\ \A x \in S : f[x] \in Nat
      BY <2>1, FS_EmptySet
    <3> QED BY <2>1, <3>1, SumNat
  <2> QED BY <2>2, <2>3 DEF S, f
<1>14. StrategiesSeeMarket
  BY <1>1 DEF StrategiesSeeMarket
<1> QED BY <1>7, <1>9, <1>10, <1>11, <1>12, <1>13, <1>14 DEF IInv

\* Every step keeps the invariant.
LEMMA Step ==
  ASSUME IInv, [Next]_vars
  PROVE  IInv'
<1>1. ASSUME NEW id \in Ids, NEW o \in Wanted, Add(id, o)
      PROVE  IInv'
  BY <1>1, StepAdd
<1>2. ASSUME NEW id \in Ids, NEW o \in Wanted, Change(id, o)
      PROVE  IInv'
  BY <1>2, StepChange
<1>3. ASSUME NEW id \in Ids, Delete(id)
      PROVE  IInv'
  BY <1>3, StepDelete
<1>4. ASSUME NEW id \in Ids, Query(id)
      PROVE  IInv'
  BY <1>4, StepQuery
<1>5. CASE FillNext
  BY <1>5, StepFill
<1>6. CASE FinishMatch
  BY <1>6, StepFinish
<1>7. CASE UNCHANGED vars
  <2>1. /\ UNCHANGED <<tradeMarketVars, working, queue, canceled, fills,
                       matching, order, rest, told, asked, got>>
        /\ trade' = trade /\ requests' = requests
    BY <1>7 DEF vars, orderVars
  <2>2. requests' \in 0 .. MaxRequests
    BY <2>1 DEF IInv, BoxInv, TypeOK
  <2> QED BY <2>1, <2>2, Quiet
<1> QED BY <1>1, <1>2, <1>3, <1>4, <1>5, <1>6, <1>7 DEF Next, Done

\* The inductive invariant.
THEOREM Invariant == Spec => []IInv
<1>1. Init => IInv
  BY Initially
<1>2. IInv /\ [Next]_vars => IInv'
  BY Step
<1> QED BY <1>1, <1>2, PTL DEF Spec

\* The state is typed; an order that waits is valid, may wait, and has
\* something left (Check_order, Add_order, Working_order_filled).
THEOREM TypeCorrect == Spec => []TypeOK
<1>1. IInv => TypeOK
  BY DEF IInv, BoxInv
<1> QED BY <1>1, Invariant, PTL

\* No two orders that wait could be matched with each other: Match_order fills
\* an order with all it can be matched with, whatever order it is and
\* whichever orders wait.
THEOREM NoneLeft == Spec => []NoneLeftToMatch
<1>1. IInv => NoneLeftToMatch
  BY DEF IInv
<1> QED BY <1>1, Invariant, PTL

\* The market data of TradeMarketState are the orders in the box, however many
\* there are at a price, after every fill, change and cancellation.
THEOREM MarketTrue == Spec => []MarketIsOrders
<1>1. IInv => MarketIsOrders
  BY DEF IInv
<1> QED BY <1>1, Invariant, PTL

\* The distance of the row that changed decides rightly what is sent: the
\* strategies have the market, for every depth and number of prices.
THEOREM MarketTold == Spec => []StrategiesSeeMarket
<1>1. IInv => StrategiesSeeMarket
  BY DEF IInv
<1> QED BY <1>1, Invariant, PTL

\* What was asked for waits or was filled, and a FOK order is filled whole or
\* not at all (Matches, Fill_working_order, FinishMatch).
THEOREM NothingLost == Spec => []QuantityKept
<1>1. IInv => QuantityKept
  <2> SUFFICES ASSUME IInv, Idle
               PROVE  /\ \A id \in DOMAIN working :
                           /\ working[id].quantity + got[id]
                                = asked[id].quantity
                           /\ working[id].filled = got[id]
                      /\ \A id \in Ids :
                           /\ Order_status(id) = "filled" =>
                                got[id] = asked[id].quantity
                           /\ asked[id].tif = "FOK" =>
                                got[id] \in {0, asked[id].quantity}
    BY DEF QuantityKept
  <2>1. matching \notin Ids
    BY TradeAssumption DEF Idle
  <2> QED BY <2>1 DEF IInv, QuantityInv
<1> QED BY <1>1, Invariant, PTL

\* What a strategy was last told of an order is what has become of it, once
\* the call has returned (Make_filled_order, Query_order).
THEOREM ToldTrue == Spec => []ToldIsTrue
<1>1. IInv => ToldIsTrue
  <2> SUFFICES ASSUME IInv, Idle, NEW id \in Ids
               PROVE  CASE Order_status(id) = "none" ->
                             told[id].status = "none"
                        [] Order_status(id) = "working" ->
                             /\ told[id].status \in {"working", "filled"}
                             /\ told[id].left = working[id].quantity
                        [] OTHER -> told[id] = [status |-> Order_status(id),
                                                left |-> 0]
    BY DEF ToldIsTrue
  <2>1. matching \notin Ids
    BY TradeAssumption DEF Idle
  <2>2. Order_status(id) \in {"none", "working", "filled", "cancelled"}
    BY DEF Order_status
  <2>3. /\ Order_status(id) = "none" => told[id].status = "none"
        /\ Order_status(id) = "working" =>
             /\ told[id].status \in {"working", "filled"}
             /\ told[id].left = working[id].quantity
        /\ Order_status(id) \in {"filled", "cancelled"} =>
             told[id] = [status |-> Order_status(id), left |-> 0]
    BY <2>1 DEF IInv, ToldInv
  <2>4. CASE Order_status(id) = "none"
    BY <2>3, <2>4
  <2>5. CASE Order_status(id) = "working"
    BY <2>3, <2>5
  <2>6. CASE Order_status(id) \in {"filled", "cancelled"}
    BY <2>3, <2>6
  <2> QED BY <2>2, <2>4, <2>5, <2>6
<1> QED BY <1>1, Invariant, PTL

-----------------------------------------------------------------------------
(* Price and time.                                                         *)

\* The places are those in the list.
LEMMA Places ==
  /\ KeepPlaces <=> \A v, w \in Stay : PlaceIn(queue, v) < PlaceIn(queue, w)
                      => PlaceIn(queue', v) < PlaceIn(queue', w)
  /\ GoBehind <=> \A v \in Stay, w \in New :
                    PlaceIn(queue', v) < PlaceIn(queue', w)
BY DEF KeepPlaces, GoBehind, Place

\* A step that brings no trade and fills nothing, with the list as it was but
\* for one order that goes.
LEMMA FairWithout ==
  ASSUME IInv, NEW id, trade' = NoTrade,
         got' \in [Ids -> Nat], \A i \in Ids : got'[i] \in {0, got[i]},
         \/ DOMAIN working' = DOMAIN working /\ queue' = queue
         \/ /\ DOMAIN working' = DOMAIN working \ {id}
            /\ queue' = Remaining(queue, {id})
  PROVE  Fair
<1>1. New = {} /\ GoBehind
  BY DEF New, GoBehind
<1>2. FairPrice
  BY DEF FairPrice
<1>3. InTurn
  <2>1. \A i \in DOMAIN working : ~(got'[i] > got[i])
    <3> TAKE i \in DOMAIN working
    <3>1. i \in Ids
      BY DEF IInv, BoxInv, TypeOK
    <3>2. got[i] \in Nat /\ got'[i] \in {0, got[i]}
      BY <3>1 DEF IInv, BoxInv, TypeOK
    <3> QED BY <3>2
  <2> QED BY <2>1 DEF InTurn
<1>4. KeepPlaces
  <2>1. CASE DOMAIN working' = DOMAIN working /\ queue' = queue
    BY <2>1, Places
  <2>2. CASE /\ DOMAIN working' = DOMAIN working \ {id}
             /\ queue' = Remaining(queue, {id})
    <3> DEFINE S == DOMAIN working
               left == Remaining(queue, {id})
    <3>1. Listed(queue, S)
      BY DEF IInv, BoxInv
    <3>2. \A v, w \in S \ {id} : PlaceIn(queue, v) < PlaceIn(queue, w)
                                   => PlaceIn(left, v) < PlaceIn(left, w)
      <4> HIDE DEF S
      <4> QED BY <3>1, ListedRemove
    <3>3. queue' = left /\ Stay \subseteq S \ {id}
      BY <2>2 DEF Stay
    <3> HIDE DEF left, S
    <3> QED BY <3>2, <3>3, Places
  <2> QED BY <2>1, <2>2
<1> QED BY <1>1, <1>2, <1>3, <1>4 DEF Fair

\* A request, whichever it is.
LEMMA FairRequest ==
  ASSUME IInv, NEW id \in Ids, NEW o,
         Add(id, o) \/ Change(id, o) \/ Delete(id) \/ Query(id)
  PROVE  Fair
<1>1. trade' = NoTrade
  BY DEF Add, Change, Delete, Query, Request
<1>2. got \in [Ids -> Nat]
  BY DEF IInv, BoxInv, TypeOK
<1>3. got' = got \/ got' = [got EXCEPT ![id] = 0]
  BY DEF Add, Change, Delete, Query, Reject, Match_order
<1>4. got' \in [Ids -> Nat] /\ \A i \in Ids : got'[i] \in {0, got[i]}
  BY <1>2, <1>3
<1>5. \/ DOMAIN working' = DOMAIN working /\ queue' = queue
      \/ /\ DOMAIN working' = DOMAIN working \ {id}
         /\ queue' = Remaining(queue, {id})
  BY DEF Add, Change, Delete, Query, Reject, Delete_order, Without
<1> QED BY <1>1, <1>4, <1>5, FairWithout

\* The order that is filled next is the best, or the first of the best, that
\* the order can be matched with.
LEMMA FairFill ==
  ASSUME IInv, FillNext
  PROVE  Fair
<1>1. ~Idle /\ More /\ UNCHANGED asked
  BY DEF FillNext
<1>2. PICK w \in Matching(order, working) :
        /\ \A v \in Matching(order, working) \ {w} : Before(w, v)
        /\ Fill(w)
  BY DEF FillNext
<1>3. PICK n \in Nat :
        /\ n > 0 /\ n <= working[w].quantity
        /\ Fill_working_order(w, n)
        /\ w \in DOMAIN working /\ w \in Ids /\ matching \in Ids
        /\ \A i \in Ids \ {matching, w} : got'[i] = got[i]
        /\ trade' = [price |-> MatchPrice(order, working[w]),
                     quantity |-> n, ids |-> {matching, w}]
  BY <1>1, <1>2, FillFacts
<1>4. /\ order.side \in Sides /\ order.market \in BOOLEAN /\ ValidPrice(order)
      /\ Is_match(order, working[w])
      /\ matching \notin DOMAIN working /\ DOMAIN working \subseteq Ids
      /\ got \in [Ids -> Nat]
      /\ Same(order, asked[matching]) /\ Same(working[w], asked[w])
  <2>1. order \in Orders
    BY DEF IInv, BoxInv, TypeOK
  <2>2. order.side \in Sides /\ order.market \in BOOLEAN
    BY <2>1 DEF Orders
  <2> QED BY <1>1, <1>2, <1>3, <2>2
          DEF IInv, BoxInv, TypeOK, QuantityInv, Matching
<1>5. KeepPlaces /\ GoBehind
  <2>1. /\ DOMAIN working' \subseteq DOMAIN working
        /\ \A u, v \in DOMAIN working' :
             PlaceIn(queue, u) < PlaceIn(queue, v)
               => PlaceIn(queue', u) < PlaceIn(queue', v)
    BY <1>3, Filled
  <2> QED BY <2>1, Places DEF Stay, New
<1>6. ASSUME NEW v \in DOMAIN working, Outranks(v, w),
             Is_match(order, working[v])
      PROVE  FALSE
  <2> DEFINE a == working[v]
             b == working[w]
  <2>1. /\ a.side = b.side
        /\ \/ a.market /\ ~b.market
           \/ ~a.market /\ ~b.market /\ Better(a.side, a.price, b.price)
           \/ a.price = b.price /\ Place(v) < Place(w)
    BY <1>6 DEF Outranks
  <2>2. /\ ValidPrice(a) /\ ValidPrice(b)
        /\ a.side \in Sides /\ b.side \in Sides
        /\ a.market \in BOOLEAN /\ b.market \in BOOLEAN
    BY <1>3, WorkingType DEF IInv
  <2>3. Place(v) \in Nat /\ Place(w) \in Nat
    <3>1. Place(v) \in DOMAIN queue /\ Place(w) \in DOMAIN queue
      BY <1>3, PlaceOne DEF IInv, BoxInv, Place, PlaceIn
    <3>2. DOMAIN queue \subseteq Nat
      <4>1. queue \in Seq(Ids)
        BY DEF IInv, BoxInv, Listed
      <4> QED BY <4>1
    <3> QED BY <3>1, <3>2
  <2>4. ~a.market => a.price \in Prices
    BY <2>2 DEF ValidPrice
  <2>5. ~b.market => b.price \in Prices
    BY <2>2 DEF ValidPrice
  <2>6. v # w
    <3>1. ~(Place(w) < Place(w))
      BY <2>3
    <3>2. ~b.market => ~Better(b.side, b.price, b.price)
      BY <2>2, <2>5, BetterOne
    <3> QED BY <2>1, <3>1, <3>2
  <2>7. Before(w, v)
    BY <1>2, <1>6, <2>6 DEF Matching
  <2>8. \/ BetterOrder(b, a)
        \/ ~BetterOrder(a, b) /\ Place(w) < Place(v)
    BY <2>7 DEF Before
  <2>9. BetterOrder(a, b) <=>
          ~b.market /\ (a.market \/ Better(a.side, a.price, b.price))
    BY DEF BetterOrder
  <2>10. BetterOrder(b, a) <=>
           ~a.market /\ (b.market \/ Better(a.side, b.price, a.price))
    BY <2>1 DEF BetterOrder
  <2> HIDE DEF a, b
  <2>11. CASE a.market /\ ~b.market
    BY <2>8, <2>9, <2>10, <2>11
  <2>12. CASE ~a.market /\ ~b.market /\ Better(a.side, a.price, b.price)
    <3>1. ~Better(a.side, b.price, a.price)
      BY <2>2, <2>4, <2>5, <2>12, BetterOne
    <3> QED BY <2>8, <2>9, <2>10, <2>12, <3>1
  <2>13. CASE a.price = b.price /\ Place(v) < Place(w)
    <3>1. ~(Place(w) < Place(v))
      BY <2>3, <2>13
    <3>2. a.market <=> b.market
      BY <2>2, <2>13 DEF ValidPrice
    <3>3. ~a.market => ~Better(a.side, a.price, a.price)
      BY <2>2, <2>4, BetterOne
    <3> QED BY <2>8, <2>10, <2>13, <3>1, <3>2, <3>3
  <2> QED BY <2>1, <2>11, <2>12, <2>13
<1>7. InTurn
  <2>1. ASSUME NEW i \in DOMAIN working, got'[i] > got[i]
        PROVE  i = w
    <3>1. i \in Ids /\ i # matching /\ got[i] \in Nat
      BY <1>4
    <3>2. i # w => got'[i] = got[i]
      BY <1>3, <3>1
    <3> QED BY <2>1, <3>1, <3>2
  <2> QED BY <1>6, <2>1 DEF InTurn
<1>8. FairPrice
  <2> DEFINE b == working[w]
  <2>1. trade'.price = IF b.market THEN order.price ELSE b.price
    BY <1>3 DEF MatchPrice
  <2>2. trade'.ids = {matching, w}
    BY <1>3
  <2>3. /\ order.side # b.side /\ ~(order.market /\ b.market)
        /\ order.market \/ b.market \/ order.price = b.price
             \/ Better(order.side, order.price, b.price)
    BY <1>4 DEF Is_match
  <2>4. /\ ~order.market => order.price \in Prices
        /\ ~b.market => b.price \in Prices
        /\ b.side \in Sides
    BY <1>3, <1>4, WorkingType DEF IInv, ValidPrice
  <2>5. asked[matching].market = order.market
        /\ asked[matching].side = order.side
        /\ asked[matching].price = order.price
    BY <1>4 DEF Same
  <2>6. asked[w].market = b.market /\ asked[w].side = b.side
        /\ asked[w].price = b.price
    BY <1>4 DEF Same
  <2> HIDE DEF b
  <2>7. trade'.price # NoPrice
    <3>1. \A p \in Prices : p # NoPrice
      BY TradeMarketAssumption DEF NoPrice
    <3> QED BY <2>1, <2>3, <2>4, <3>1
  <2>8. order.market \/ ~Better(order.side, trade'.price, order.price)
    <3>1. CASE ~order.market /\ b.market
      BY <1>4, <2>1, <2>4, <3>1, BetterOne
    <3>2. CASE ~order.market /\ ~b.market
      <4>1. trade'.price = b.price /\ b.price \in Prices
            /\ order.price \in Prices
        BY <2>1, <2>4, <3>2
      <4>2. CASE order.price = b.price
        BY <1>4, <4>1, <4>2, BetterOne
      <4>3. CASE Better(order.side, order.price, b.price)
        BY <1>4, <4>1, <4>3, BetterOne
      <4> QED BY <2>3, <3>2, <4>2, <4>3
    <3> QED BY <3>1, <3>2
  <2>9. b.market \/ ~Better(b.side, trade'.price, b.price)
    BY <2>1, <2>4, BetterOne
  <2> QED BY <2>2, <2>5, <2>6, <2>7, <2>8, <2>9 DEF FairPrice
<1> QED BY <1>5, <1>7, <1>8 DEF Fair

\* What is left of the order goes behind all others.
LEMMA FairFinish ==
  ASSUME IInv, FinishMatch
  PROVE  Fair
<1>1. trade' = NoTrade /\ got' = got /\ ~Idle
  BY DEF FinishMatch
<1>2. CASE UNCHANGED <<working, queue>>
  <2>1. got' \in [Ids -> Nat] /\ \A i \in Ids : got'[i] \in {0, got[i]}
    BY <1>1 DEF IInv, BoxInv, TypeOK
  <2> QED BY <1>1, <1>2, <2>1, FairWithout
<1>3. CASE Add_order
  <2>1. /\ matching \in Ids /\ matching \notin DOMAIN working
        /\ Listed(queue, DOMAIN working) /\ DOMAIN working \subseteq Ids
        /\ got \in [Ids -> Nat]
    BY <1>1 DEF IInv, BoxInv, TypeOK, Idle
  <2>2. /\ queue' = Append(queue, matching)
        /\ DOMAIN working' = DOMAIN working \cup {matching}
    BY <1>3 DEF Add_order, With
  <2>3. \A v \in DOMAIN working :
          /\ PlaceIn(queue', v) = PlaceIn(queue, v)
          /\ PlaceIn(queue', v) < PlaceIn(queue', matching)
    <3> DEFINE S == DOMAIN working
               more == Append(queue, matching)
    <3>1. Listed(queue, S) /\ matching \in Ids /\ matching \notin S
      BY <2>1
    <3>2. queue' = more
      BY <2>2
    <3> HIDE DEF S
    <3>3. \A v \in S : /\ PlaceIn(more, v) = PlaceIn(queue, v)
                       /\ PlaceIn(more, v) < PlaceIn(more, matching)
      BY <3>1, ListedAppend
    <3> HIDE DEF more
    <3> QED BY <3>2, <3>3 DEF S
  <2>4. Stay \subseteq DOMAIN working /\ New = {matching}
    BY <2>1, <2>2 DEF Stay, New
  <2>5. KeepPlaces /\ GoBehind
    BY <2>3, <2>4, Places
  <2>6. InTurn
    <3>1. \A i \in DOMAIN working : ~(got'[i] > got[i])
      BY <1>1, <2>1
    <3> QED BY <3>1 DEF InTurn
  <2>7. FairPrice
    BY <1>1 DEF FairPrice
  <2> QED BY <2>5, <2>6, <2>7 DEF Fair
<1> QED BY <1>2, <1>3 DEF FinishMatch, Add_deleted_order

\* Price and time: no order is passed by a worse or a later one, whatever
\* fills, changes and cancellations come, and no order trades at a price worse
\* than its own (Matches, Match_order, Add_order, Delete_order).
THEOREM TradesFair == Spec => FairTrades
<1>1. IInv /\ [Next]_vars => Fair \/ UNCHANGED vars
  <2> SUFFICES ASSUME IInv, [Next]_vars
               PROVE  Fair \/ UNCHANGED vars
    OBVIOUS
  <2>1. ASSUME NEW id \in Ids, NEW o \in Wanted,
               Add(id, o) \/ Change(id, o)
        PROVE  Fair
    BY <2>1, FairRequest
  <2>2. ASSUME NEW id \in Ids, Delete(id) \/ Query(id)
        PROVE  Fair
    BY <2>2, FairRequest
  <2> QED BY <2>1, <2>2, FairFill, FairFinish DEF Next, Done
<1> QED BY <1>1, Invariant, PTL DEF FairTrades, Spec

=============================================================================
