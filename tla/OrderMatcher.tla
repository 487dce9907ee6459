---------------------------- MODULE OrderMatcher ----------------------------
(***************************************************************************)
(* Orders matched against replayed market data: ExchangeSimulater          *)
(* (tmalpha/exchange) and its near copy ReplayOrderMatcher                 *)
(* (tmalpha/replay).  Every operation holds m_mutex from start to end, so  *)
(* each is one action.  An order is filled whole or not at all: quantities *)
(* are left out, except the sizes and volumes of the market that decide    *)
(* when a resting order is reached.                                        *)
(***************************************************************************)
EXTENDS Integers, Sequences, FiniteSets, Containers

CONSTANTS Ids,        \* client order ids
          Contracts,
          Prices,     \* of orders; the market also has NoPrice
          Sizes,      \* of the best prices of the market
          Volumes,    \* traded between two L2s
          TradeRate   \* m_trade_rate, per cent

ASSUME MatcherAssumption ==
  /\ Prices \subseteq Nat
  /\ Sizes \subseteq Nat
  /\ Volumes \subseteq Nat
  /\ TradeRate \in 0..100

VARIABLES
  working,    \* m_working_orders
  ids,        \* m_working_order_ids
  filled,     \* m_filled_orders
  canceled,   \* m_canceled_orders
  states,     \* m_current_states
  lastId,     \* m_exchange_order_id
  told,       \* what OnOrder and OnFill last said of an order
  changed     \* history: working orders changed since the last L2

matcherVars ==
  <<working, ids, filled, canceled, states, lastId, told, changed>>

Sides == {"buy", "sell"}
Other(side) == IF side = "buy" THEN "sell" ELSE "buy"

NoPrice == -1  \* the side of the book is empty
NoPlace == -1  \* the position of an order that is not at the best price

Orders == [contract : Contracts, side : Sides, market : BOOLEAN,
           price : Prices]

\* The best row of each side, and what has traded there since the last L2.
L2s == [best : [Sides -> Prices \cup {NoPrice}], size : [Sides -> Sizes],
        volume : [Sides -> Volumes]]

Entries == [order : Orders, exchange : Nat, position : Nat \cup {NoPlace},
            turnover : Nat]

\* Both kinds of refusal are sent as OS_Rejected and differ in the message:
\* "rejected" comes from the exchange (Order_reject), "invalid" from the check
\* in front of it (StrategyCommunicator).
Statuses ==
  {"none", "working", "filled", "cancelled", "rejected", "invalid"}

-----------------------------------------------------------------------------
Better(side, p, q) == IF side = "buy" THEN p > q ELSE p < q

\* Is_price_matching: the order meets the best price of the other side.
Is_price_matching(o, l2) ==
  LET p == l2.best[Other(o.side)]
  IN  p # NoPrice /\ (o.market \/ ~Better(o.side, p, o.price))

Place(o, l2) == (l2.size[o.side] * TradeRate) \div 100

\* Calculate_order_position: the place in the queue of an order at the best
\* price of its own side.
Calculate_order_position(o) ==
  IF /\ o.contract \in DOMAIN states
     /\ states[o.contract].best[o.side] = o.price
    THEN Place(o, states[o.contract])
    ELSE NoPlace

\* Is_position_reached: what it answers ...
Is_position_reached(e, l2) ==
  LET best == l2.best[e.order.side]
  IN  /\ best # NoPrice
      /\ \/ Better(e.order.side, e.order.price, best)
         \/ /\ e.order.price = best
            /\ e.position # NoPlace
            /\ e.turnover + l2.volume[e.order.side] > e.position

\* ... and what it leaves in the entry.
Passed(e, l2) ==
  IF l2.best[e.order.side] # e.order.price THEN e
  ELSE IF e.position = NoPlace
    THEN [e EXCEPT !.position = Place(e.order, l2)]
    ELSE [e EXCEPT !.turnover = @ + l2.volume[e.order.side]]

Has_matching(o) ==
  o.contract \in DOMAIN states /\ Is_price_matching(o, states[o.contract])

Has_rematching(e, l2) ==
  Is_price_matching(e.order, l2) \/ Is_position_reached(e, l2)

\* The price of a fill: the other side's when it is met, else the order's.
FillPrice(o, l2) ==
  IF Is_price_matching(o, l2) THEN l2.best[Other(o.side)] ELSE o.price

Order_filled(o, exchange, l2) ==
  [order |-> o, exchange |-> exchange, price |-> FillPrice(o, l2)]

Order_working(o, exchange) ==
  [order |-> o, exchange |-> exchange,
   position |-> Calculate_order_position(o), turnover |-> 0]

With(f, k, v) == [x \in DOMAIN f \cup {k} |-> IF x = k THEN v ELSE f[x]]
Without(f, S) == [x \in DOMAIN f \ S |-> f[x]]
Empty == [x \in {} |-> 0]

-----------------------------------------------------------------------------
MatcherInit ==
  /\ working = Empty
  /\ ids = <<>>
  /\ filled = Empty
  /\ canceled = Empty
  /\ states = Empty
  /\ lastId = 0
  /\ told = [id \in Ids |-> "none"]
  /\ changed = {}

Known == DOMAIN working \cup DOMAIN filled \cup DOMAIN canceled

\* Add does not look for the id among the orders it has: strategies are to
\* give every order an id of its own.
Add(id, o) ==
  /\ id \notin Known
  /\ lastId' = lastId + 1
  /\ IF Has_matching(o)
       THEN /\ filled' =
                 With(filled, id,
                      Order_filled(o, lastId', states[o.contract]))
            /\ told' = [told EXCEPT ![id] = "filled"]
            /\ UNCHANGED <<working, ids>>
       ELSE /\ working' = With(working, id, Order_working(o, lastId'))
            /\ ids' = Append(ids, id)
            /\ told' = [told EXCEPT ![id] = "working"]
            /\ UNCHANGED filled
  /\ UNCHANGED <<canceled, states, changed>>

\* Order_reject of Change, Delete and Query.
Reject(id) ==
  /\ told' = [told EXCEPT ![id] = "rejected"]
  /\ UNCHANGED <<working, ids, filled, canceled, states, lastId, changed>>

\* The new order is not matched with the market (a TODO in the code).
Change(id, o) ==
  \/ id \notin DOMAIN working /\ Reject(id)
  \/ /\ id \in DOMAIN working
     /\ working' =
          [working EXCEPT ![id] = Order_working(o, working[id].exchange)]
     /\ told' = [told EXCEPT ![id] = "working"]
     /\ changed' = changed \cup {id}
     /\ UNCHANGED <<ids, filled, canceled, states, lastId>>

\* Mutant: the id stays in the list.
DeleteFromMap(id) ==
  \/ id \notin DOMAIN working /\ Reject(id)
  \/ /\ id \in DOMAIN working
     /\ told' = [told EXCEPT ![id] = "cancelled"]
     /\ canceled' = With(canceled, id, working[id].exchange)
     /\ working' = Without(working, {id})
     /\ changed' = changed \ {id}
     /\ UNCHANGED <<ids, filled, states, lastId>>

Delete(id) ==
  \/ id \notin DOMAIN working /\ Reject(id)
  \/ /\ id \in DOMAIN working
     /\ told' = [told EXCEPT ![id] = "cancelled"]
     /\ canceled' = With(canceled, id, working[id].exchange)
     /\ ids' = Remaining(ids, {id})
     /\ working' = Without(working, {id})
     /\ changed' = changed \ {id}
     /\ UNCHANGED <<filled, states, lastId>>

\* Mutant: a filled order is looked for last, after the working ones.
QueryWorking(id) ==
  \/ id \notin Known /\ Reject(id)
  \/ /\ id \in Known
     /\ told' = [told EXCEPT ![id] =
          IF id \in DOMAIN canceled THEN "cancelled" ELSE "working"]
     /\ UNCHANGED <<working, ids, filled, canceled, states, lastId, changed>>

\* Order_status.
Query(id) ==
  \/ id \notin Known /\ Reject(id)
  \/ /\ id \in Known
     /\ told' = [told EXCEPT ![id] =
          IF id \in DOMAIN filled THEN "filled"
          ELSE IF id \in DOMAIN canceled THEN "cancelled" ELSE "working"]
     /\ UNCHANGED <<working, ids, filled, canceled, states, lastId, changed>>

\* Mutant: the loop ends with the first order that is not filled.
StopAtFirst(c, l2) ==
  LET done == {id \in DOMAIN working :
                 /\ id = ids[1]
                 /\ working[id].order.contract = c
                 /\ Has_rematching(working[id], l2)}
  IN  /\ states' = With(states, c, l2)
      /\ filled' = [id \in DOMAIN filled \cup done |->
           IF id \in done
             THEN Order_filled(working[id].order, working[id].exchange, l2)
             ELSE filled[id]]
      /\ ids' = Remaining(ids, done)
      /\ working' = Without(working, done)
      /\ told' = [id \in Ids |-> IF id \in done THEN "filled" ELSE told[id]]
      /\ changed' = {id \in changed : working[id].order.contract # c}
      /\ UNCHANGED <<canceled, lastId>>

\* On_state_changed and Rematching: the working orders of the contract are
\* tried in the order of m_working_order_ids.  Each is tried against the L2
\* alone, so those that fill are a set.
On_state_changed(c, l2) ==
  LET mine == {id \in DOMAIN working : working[id].order.contract = c}
      done == {id \in mine : Has_rematching(working[id], l2)}
  IN  /\ states' = With(states, c, l2)
      /\ filled' = [id \in DOMAIN filled \cup done |->
           IF id \in done
             THEN Order_filled(working[id].order, working[id].exchange, l2)
             ELSE filled[id]]
      /\ ids' = Remaining(ids, done)
      /\ working' = [id \in DOMAIN working \ done |->
           IF id \in mine THEN Passed(working[id], l2) ELSE working[id]]
      /\ told' = [id \in Ids |-> IF id \in done THEN "filled" ELSE told[id]]
      /\ changed' = changed \ mine
      /\ UNCHANGED <<canceled, lastId>>

=============================================================================
