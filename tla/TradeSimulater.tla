--------------------------- MODULE TradeSimulater ---------------------------
(***************************************************************************)
(* The exchange simulator that matches the orders of the strategies with   *)
(* each other: TradeSimulater, TradeOrderBox, TradeContractAssist and      *)
(* TradeAlgorithmSimple (tmalpha/trade), for one contract.                 *)
(*                                                                         *)
(* All of it runs in the thread of the strategies.  A request is checked   *)
(* and accepted in one action; Match_order, which then goes through the    *)
(* opposite orders, takes one action for every order it fills and one for  *)
(* what is left.                                                           *)
(***************************************************************************)
EXTENDS TradeMarket, Sequences, Containers

CONSTANTS
  Ids,         \* client order ids
  NoId,
  Quantities,
  MinPrice, MaxPrice, Tick,  \* of TradeContract, in cents
  Inexact,     \* prices that TO_ORDER_PRICE and TO_REAL_PRICE do not return
  Wanted,      \* what the strategies ask for
  MaxRequests  \* requests of the strategies (bound)

Tifs == {"GFD", "FAK", "FOK"}

\* An order of the strategies; quantity is what is left of it, and filled the
\* part that the simulator has noted in it as filled.
Orders == [side : Sides, market : BOOLEAN, price : Nat, quantity : Nat,
           filled : Nat, tif : Tifs]

ASSUME TradeAssumption ==
  /\ NoId \notin Ids
  /\ Quantities \subseteq Nat \ {0}
  /\ MinPrice \in Nat /\ MaxPrice \in Nat /\ Tick \in Nat \ {0}
  /\ Wanted \subseteq [side : Sides, market : BOOLEAN, price : Nat,
                       quantity : Nat, filled : {0}, tif : Tifs]
  /\ \A o \in Wanted : o.quantity \in Quantities \cup {0}
  /\ MaxRequests \in Nat
  /\ \A p \in MinPrice .. MaxPrice :
       (p - MinPrice) % Tick = 0 /\ p \notin Inexact => p \in Prices \cup {0}

VARIABLES
  working,   \* m_working_orders
  queue,     \* the lists of m_bid and m_ask: ids, in the order they came
  canceled,  \* m_canceled_orders
  fills,     \* m_filled_orders: quantity filled of each id, in all
  matching,  \* the order that Match_order is called for, or NoId
  order,     \* ... and what is left of it
  rest,      \* what Matches says will be left of it
  told,      \* what OnOrder last said of each id, rejections apart
  trade,     \* what OnTrade says in this step, or NoTrade
  asked,     \* history: the order last accepted under an id
  got,       \* history: quantity filled since then
  requests   \* history: requests so far

orderVars == <<working, queue, canceled, fills, matching, order, rest, told,
               trade, asked, got, requests>>
vars == <<tradeMarketVars, orderVars>>

NoOrder == [side |-> "buy", market |-> TRUE, price |-> NoPrice,
            quantity |-> 0, filled |-> 0, tif |-> "GFD"]
NoTrade == [price |-> NoPrice, quantity |-> 0, ids |-> {}]

Idle == matching = NoId

Smaller(m, n) == IF m < n THEN m ELSE n
With(f, k, v) == [x \in DOMAIN f \cup {k} |-> IF x = k THEN v ELSE f[x]]
Without(f, k) == [x \in DOMAIN f \ {k} |-> f[x]]

-----------------------------------------------------------------------------
(* The checks and the matching.                                            *)

\* Check_order, of TradeContractAssist and of TradeSimulater.
Check_order(o) ==
  /\ o.price # 0 =>
       /\ o.price \notin Inexact
       /\ o.price \in MinPrice .. MaxPrice
       /\ (o.price - MinPrice) % Tick = 0
  /\ o.market <=> o.price = 0
  /\ o.quantity # 0

Statuses == {"cancelled", "working", "filled", "none"}

\* Order_status.
Order_status(id) ==
  IF id \in canceled THEN "cancelled"
  ELSE IF id \in DOMAIN working THEN "working"
  ELSE IF fills[id] > 0 THEN "filled" ELSE "none"

\* Mutant: an order at the same price is not met.
MeetsBetterPrice(o, w) ==
  /\ o.side # w.side
  /\ ~(o.market /\ w.market)
  /\ o.market \/ w.market \/ Better(o.side, o.price, w.price)

\* ComparablePrice::Is_match.
Is_match(o, w) ==
  /\ o.side # w.side
  /\ ~(o.market /\ w.market)
  /\ o.market \/ w.market \/ o.price = w.price
       \/ Better(o.side, o.price, w.price)

\* The opposite orders it could be matched with.
Matching(o, book) == {w \in DOMAIN book : Is_match(o, book[w])}

\* ComparablePrice::operator<: market orders come first, then better prices.
BetterOrder(v, w) ==
  ~w.market /\ (v.market \/ Better(v.side, v.price, w.price))

PlaceIn(q, id) == CHOOSE n \in DOMAIN q : q[n] = id

Place(id) == PlaceIn(queue, id)

\* Mutant: of the orders of a price the last one is taken.
LastComeFirst(v, w) ==
  \/ BetterOrder(working[v], working[w])
  \/ ~BetterOrder(working[w], working[v]) /\ Place(v) > Place(w)

\* The order in which Matches goes through the opposite orders.
Before(v, w) ==
  \/ BetterOrder(working[v], working[w])
  \/ ~BetterOrder(working[w], working[v]) /\ Place(v) < Place(w)

Quantity(book) == [w \in DOMAIN book |-> book[w].quantity]

\* Matches: what will be left of the order; a FOK order is filled whole or
\* not at all.
Matches(o, book) ==
  LET all == Sum(Quantity(book), Matching(o, book))
      left == o.quantity - Smaller(o.quantity, all)
  IN  IF left > 0 /\ o.tif = "FOK" THEN o.quantity ELSE left

MatchPrice(o, w) == IF w.market THEN o.price ELSE w.price

-----------------------------------------------------------------------------
Init ==
  /\ TradeMarketInit
  /\ working = [id \in {} |-> NoOrder]
  /\ queue = <<>>
  /\ canceled = {}
  /\ fills = [id \in Ids |-> 0]
  /\ matching = NoId
  /\ order = NoOrder
  /\ rest = 0
  /\ told = [id \in Ids |-> [status |-> "none", left |-> 0]]
  /\ trade = NoTrade
  /\ asked = [id \in Ids |-> NoOrder]
  /\ got = [id \in Ids |-> 0]
  /\ requests = 0

\* The strategies send a request; the call before it has returned.
Request ==
  /\ Idle
  /\ requests < MaxRequests
  /\ requests' = requests + 1
  /\ trade' = NoTrade

\* Nothing but an answer that the request is rejected.
Reject == UNCHANGED <<tradeMarketVars, working, queue, canceled, fills,
                      matching, order, rest, told, asked, got>>

\* The start of Match_order, with the orders that are there by then.
Match_order(id, o, remainder) ==
  /\ matching' = id
  /\ order' = o
  /\ rest' = remainder
  /\ asked' = [asked EXCEPT ![id] = o]
  /\ got' = [got EXCEPT ![id] = 0]

Add(id, o) ==
  /\ Request
  /\ IF Check_order(o) /\ Order_status(id) = "none"
       THEN /\ told' = [told EXCEPT ![id] =
                 [status |-> "pending", left |-> o.quantity]]
            /\ Match_order(id, o, Matches(o, working))
            /\ UNCHANGED <<tradeMarketVars, working, queue, canceled, fills>>
       ELSE Reject

\* TradeOrderBox::Delete_order: out of the lists, and of the market.
Delete_order(id) ==
  /\ working' = Without(working, id)
  /\ queue' = Remaining(queue, {id})
  /\ told' = [told EXCEPT ![id] = [status |-> "cancelled", left |-> 0]]
  /\ Change_market_on_order_deleted(working[id])

\* The old order is cancelled, and the new one matched like one that comes.
Change(id, o) ==
  /\ Request
  /\ IF Check_order(o) /\ Order_status(id) = "working"
       THEN /\ Delete_order(id)
            /\ Match_order(id, o, Matches(o, Without(working, id)))
            /\ UNCHANGED <<canceled, fills>>
       ELSE Reject

Delete(id) ==
  /\ Request
  /\ IF Order_status(id) = "working"
       THEN /\ Delete_order(id)
            /\ canceled' = canceled \cup {id}
            /\ UNCHANGED <<fills, matching, order, rest, asked, got>>
       ELSE Reject

\* Mutant: fills are looked for before the working orders.
QueryFillsFirst(id) ==
  /\ Request
  /\ told' = [told EXCEPT ![id] =
       IF Order_status(id) = "none" THEN @
       ELSE IF fills[id] > 0 THEN [status |-> "filled", left |-> 0]
       ELSE [status |-> Order_status(id),
             left |-> IF id \in DOMAIN working THEN working[id].quantity
                                               ELSE 0]]
  /\ UNCHANGED <<tradeMarketVars, working, queue, canceled, fills, matching,
                 order, rest, asked, got>>

Query(id) ==
  /\ Request
  /\ told' = [told EXCEPT ![id] =
       IF Order_status(id) = "none" THEN @
       ELSE [status |-> Order_status(id),
             left |-> IF Order_status(id) = "working"
                        THEN working[id].quantity ELSE 0]]
  /\ UNCHANGED <<tradeMarketVars, working, queue, canceled, fills, matching,
                 order, rest, asked, got>>

-----------------------------------------------------------------------------
(* Match_order: its loop, and what comes after it.                         *)

\* Mutant: what was matched for a FOK order is not cleared.
NeverKilled == FALSE

\* A FOK order that cannot be filled whole: matched_orders was cleared.
Killed == order.tif = "FOK" /\ rest > 0

More == order.quantity > 0 /\ ~Killed /\ Matching(order, working) # {}

\* Fill_working_order and Working_order_filled.
Fill_working_order(w, n) ==
  IF n = working[w].quantity
    THEN /\ working' = Without(working, w)
         /\ queue' = Remaining(queue, {w})
    ELSE /\ working' = [working EXCEPT ![w].quantity = @ - n,
                                      ![w].filled = @ + n]
         /\ UNCHANGED queue

\* One iteration: both orders are filled, told, and the trade and the market
\* sent.
Fill(w) ==
  LET n == Smaller(order.quantity, working[w].quantity)
  IN  /\ Fill_working_order(w, n)
      /\ order' = [order EXCEPT !.quantity = @ - n, !.filled = @ + n]
      /\ fills' = [fills EXCEPT ![matching] = @ + n, ![w] = @ + n]
      /\ got' = [got EXCEPT ![matching] = @ + n, ![w] = @ + n]
      /\ told' = [told EXCEPT
           ![matching] = [status |-> "filled", left |-> rest],
           ![w] = [status |-> "filled", left |-> working[w].quantity - n]]
      /\ trade' = [price |-> MatchPrice(order, working[w]), quantity |-> n,
                   ids |-> {matching, w}]
      /\ Change_market_on_order_filled(working[w], n)

\* The first of the orders that match, if any is to be filled.
FillNext ==
  /\ ~Idle
  /\ More
  /\ \E w \in Matching(order, working) :
       /\ \A v \in Matching(order, working) \ {w} : Before(w, v)
       /\ Fill(w)
  /\ UNCHANGED <<canceled, matching, rest, asked, requests>>

\* Mutant: the order rests with its first quantity.
AddOrderWhole ==
  /\ working' = With(working, matching, asked[matching])
  /\ queue' = Append(queue, matching)
  /\ told' = [told EXCEPT ![matching] =
                [status |-> "working", left |-> order.quantity]]
  /\ Change_market_on_order_created(order)
  /\ UNCHANGED canceled

\* Add_order: what is left waits at its price.
Add_order ==
  /\ working' = With(working, matching, order)
  /\ queue' = Append(queue, matching)
  /\ told' = [told EXCEPT ![matching] =
                [status |-> "working", left |-> order.quantity]]
  /\ Change_market_on_order_created(order)
  /\ UNCHANGED canceled

\* Add_deleted_order: FAK and FOK orders do not wait.
Add_deleted_order ==
  /\ canceled' = canceled \cup {matching}
  /\ told' = [told EXCEPT ![matching] = [status |-> "cancelled", left |-> 0]]
  /\ UNCHANGED <<tradeMarketVars, working, queue>>

FinishMatch ==
  /\ ~Idle
  /\ ~More
  /\ matching' = NoId
  /\ order' = NoOrder
  /\ rest' = 0
  /\ trade' = NoTrade
  /\ IF order.quantity = 0
       THEN UNCHANGED <<tradeMarketVars, working, queue, canceled, told>>
       ELSE IF order.tif = "GFD" THEN Add_order ELSE Add_deleted_order
  /\ UNCHANGED <<fills, asked, got, requests>>

Done == Idle /\ requests = MaxRequests /\ UNCHANGED vars

Next ==
  \/ \E id \in Ids, o \in Wanted : Add(id, o) \/ Change(id, o)
  \/ \E id \in Ids : Delete(id) \/ Query(id)
  \/ FillNext
  \/ FinishMatch
  \/ Done

Spec == Init /\ [][Next]_vars

-----------------------------------------------------------------------------
(* Properties.                                                             *)

\* The type of the state; in particular an order that waits is a valid one,
\* that may wait, with something left.
TypeOK ==
  /\ DOMAIN working \subseteq Ids
  /\ \A id \in DOMAIN working :
       /\ working[id] \in Orders
       /\ working[id].quantity > 0
       /\ working[id].tif = "GFD"
       /\ ~working[id].market => working[id].price \in Prices
  /\ \A n \in DOMAIN queue : queue[n] \in DOMAIN working
  /\ canceled \subseteq Ids
  /\ fills \in [Ids -> Nat] /\ got \in [Ids -> Nat]
  /\ matching \in Ids \cup {NoId}
  /\ order \in Orders
  /\ rest \in Nat
  /\ \A id \in Ids : /\ told[id].status \in Statuses \cup {"pending"}
                    /\ told[id].left \in Nat
  /\ trade.price \in Prices \cup {NoPrice} /\ trade.ids \subseteq Ids
  /\ asked \in [Ids -> Orders]
  /\ requests \in 0 .. MaxRequests
  /\ sizes \in [Sides -> [Prices -> Nat]]

\* Match_order fills an order with all it can be matched with: no two orders
\* that wait could be matched with each other, not even when a market order
\* waits for the other side, or one was changed to meet the other.
NoneLeftToMatch ==
  \A v, w \in DOMAIN working :
    working[v].side = "buy" /\ working[w].side = "sell" =>
      \/ working[v].market /\ working[w].market
      \/ /\ ~working[v].market /\ ~working[w].market
         /\ working[v].price < working[w].price

\* The quantities that TradeMarketState adds and subtracts are those of the
\* limit orders that wait, after every fill.
MarketIsOrders ==
  \A side \in Sides, p \in Prices :
    sizes[side][p] =
      Sum(Quantity(working), {id \in DOMAIN working :
                                /\ working[id].side = side
                                /\ ~working[id].market
                                /\ working[id].price = p})

\* What the strategies were last sent is the market: no change of a row that
\* is shown goes untold (On_order_created, Delete_order: the level), and the
\* best prices are right unless both sides are empty (Send_bbo).
StrategiesSeeMarket ==
  /\ l2Told = L2(sizes)
  /\ BothEmpty(sizes) \/ topTold = BBO(sizes)

\* No quantity is lost between the box, the fills and the answers: what was
\* asked for waits or was filled, whatever fills, changes and cancellations
\* came between; and a FOK order is filled whole or not at all, whatever
\* number of orders it took.
QuantityKept ==
  Idle =>
    /\ \A id \in DOMAIN working :
         /\ working[id].quantity + got[id] = asked[id].quantity
         /\ working[id].filled = got[id]
    /\ \A id \in Ids :
         /\ Order_status(id) = "filled" => got[id] = asked[id].quantity
         /\ asked[id].tif = "FOK" => got[id] \in {0, asked[id].quantity}

\* A strategy that has had the answers to its requests, and the fills, knows
\* the state of its order and what is left of it: nothing that happens to it
\* while it waits goes untold (Make_filled_order, Query_order).
ToldIsTrue ==
  Idle =>
    \A id \in Ids :
      CASE Order_status(id) = "none" -> told[id].status = "none"
        [] Order_status(id) = "working" ->
             /\ told[id].status \in {"working", "filled"}
             /\ told[id].left = working[id].quantity
        [] OTHER -> told[id] = [status |-> Order_status(id), left |-> 0]

\* Of two orders of one side, this one has the better price, or was there
\* first.
Outranks(v, w) ==
  LET a == working[v]
      b == working[w]
  IN  /\ a.side = b.side
      /\ \/ a.market /\ ~b.market
         \/ ~a.market /\ ~b.market /\ Better(a.side, a.price, b.price)
         \/ a.price = b.price /\ Place(v) < Place(w)

\* The orders that wait before and after a step, and those that come.
Stay == {id \in DOMAIN working \cap DOMAIN working' : asked'[id] = asked[id]}
New == DOMAIN working' \ DOMAIN working

\* Orders that wait keep their places, when they are filled in part too.
KeepPlaces ==
  \A v, w \in Stay : Place(v) < Place(w) => (Place(v) < Place(w))'

\* An order that comes, or is changed, goes behind those that wait.
GoBehind == \A v \in Stay, w \in New : (Place(v) < Place(w))'

\* An order is filled when no better one, or earlier one at its price, could
\* be.
InTurn ==
  \A w \in DOMAIN working :
    got'[w] > got[w] =>
      \A v \in DOMAIN working : Outranks(v, w) => ~Is_match(order, working[v])

\* No order trades at a price worse than its own; a market order that waits
\* takes the price of the one that comes.
FairPrice ==
  trade' # NoTrade =>
    /\ trade'.price # NoPrice
    /\ \A id \in trade'.ids :
         \/ asked[id].market
         \/ ~Better(asked[id].side, trade'.price, asked[id].price)

Fair == KeepPlaces /\ GoBehind /\ InTurn /\ FairPrice

\* Price and time: no order is passed by a worse or a later one, whatever
\* fills, changes and cancellations come between, and no trade is worse than
\* what an order was sent for (Matches, Match_order, Add_order).
FairTrades == [][Fair]_vars

=============================================================================
