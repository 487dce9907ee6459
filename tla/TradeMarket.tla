---------------------------- MODULE TradeMarket ----------------------------
(***************************************************************************)
(* The market data the trade simulator makes of the orders it holds:       *)
(* TradeMarketState and TradeMarketManager (tmalpha/trade), for the one    *)
(* contract of the model.  The manager keeps one state per contract, and   *)
(* nothing else.                                                           *)
(***************************************************************************)
EXTENDS Integers, FiniteSets

CONSTANTS
  Prices,  \* valid prices of limit orders, in cents
  Depth    \* TradeMarketState::m_depth

ASSUME TradeMarketAssumption ==
  /\ Prices \subseteq Nat \ {0}
  /\ IsFiniteSet(Prices)
  /\ Depth \in Nat \ {0}

VARIABLES
  sizes,   \* m_bid and m_ask: quantity of each price, 0 when it has no row
  l2Told,  \* rows last sent to the strategies, with OnL2
  topTold  \* best prices last sent, with OnBBO, OnBid or OnOffer

tradeMarketVars == <<sizes, l2Told, topTold>>

Sides == {"buy", "sell"}
NoPrice == 0

Better(side, p, q) == IF side = "buy" THEN p > q ELSE p < q

Rows(szs, side) == {p \in Prices : szs[side][p] > 0}

\* std::distance from the best price: the rows before this one.
Level(szs, side, p) ==
  Cardinality({q \in Rows(szs, side) : Better(side, q, p)})

\* L2: the best Depth rows of both sides; the others are shown as 0.
L2(szs) ==
  [side \in Sides |->
    [p \in Prices |->
      IF Level(szs, side, p) < Depth THEN szs[side][p] ELSE 0]]

First(szs, side) == {p \in Rows(szs, side) : Level(szs, side, p) = 0}

AnyOf(S) == CHOOSE x \in S : TRUE

\* BBO: the first row of both sides.
BBO(szs) ==
  [side \in Sides |->
    IF Rows(szs, side) = {} THEN NoPrice
    ELSE AnyOf(First(szs, side))]

BothEmpty(szs) == \A side \in Sides : Rows(szs, side) = {}

TradeMarketInit ==
  /\ sizes = [side \in Sides |-> [p \in Prices |-> 0]]
  /\ l2Told = L2(sizes)
  /\ topTold = BBO(sizes)

\* Mutant: the last row that is shown is taken for a hidden one.
SendAboveDepth(side, p) ==
  LET level == Level(sizes, side, p)
  IN  /\ l2Told' = IF level + 1 < Depth THEN L2(sizes') ELSE l2Told
      /\ topTold' = IF level = 0 /\ ~BothEmpty(sizes')
                      THEN BBO(sizes') ELSE topTold

\* Change_market_on_...: what On_order_created and Delete_order return, the
\* distance of the row, decides what is sent.  It is the same before and
\* after the change: a row does not count itself.  Send_bbo sends nothing
\* when both sides are empty.
Send(side, p) ==
  LET level == Level(sizes, side, p)
  IN  /\ l2Told' = IF level < Depth THEN L2(sizes') ELSE l2Told
      /\ topTold' = IF level = 0 /\ ~BothEmpty(sizes')
                      THEN BBO(sizes') ELSE topTold

\* Market orders are not in the market data.
Change_market(o, n) ==
  IF o.market THEN UNCHANGED tradeMarketVars
  ELSE /\ sizes' = [sizes EXCEPT ![o.side][o.price] = @ + n]
       /\ Send(o.side, o.price)

Change_market_on_order_created(o) == Change_market(o, o.quantity)

Change_market_on_order_deleted(o) == Change_market(o, -o.quantity)

\* Mutant: the whole order leaves the market with its first fill.
MarketForgetsOrder(o, n) == Change_market(o, -o.quantity)

Change_market_on_order_filled(o, n) == Change_market(o, -n)

=============================================================================
