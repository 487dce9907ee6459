---------------------------- MODULE FemasGateway ----------------------------
(***************************************************************************)
(* The Femas order gateway: CFemasCommunicator, used by the main thread    *)
(* (Start) and by the thread that receives orders from the strategies, and *)
(* CUstpFtdcTraderManger, called back by the vendor's library.             *)
(*                                                                         *)
(* One number, MaxOrderLocalID, names orders, cancels and queries.  A call *)
(* reads it up to three times and counts it up, without a lock, while a    *)
(* login answer sets it: every access is a step of its own.                *)
(*                                                                         *)
(* The library and the exchange are external.  Requests and answers arrive *)
(* in order, and are lost with the connection, which the library sets up   *)
(* again.  An order is accepted in a session, with a number above those of *)
(* all orders before it, and may be reported at any time from then on; the *)
(* login answer has the largest of these numbers.  A query has one answer, *)
(* or an empty one.  What a report says of an order is left out.           *)
(***************************************************************************)
EXTENDS Integers, Sequences

CONSTANTS
  Orders,      \* client ids of the orders of the strategies
  InitOrders,  \* those of the orders that Start is to verify, in sequence
  None,        \* an id that is made of what the exchange says of an order
  MaxLosses,   \* lost connections (bound)
  MaxTraffic,  \* requests and answers under way (bound)
  MaxRequests  \* cancels and queries of the strategies (bound)

Earlier == {InitOrders[n] : n \in DOMAIN InitOrders}

ASSUME FemasAssumption ==
  /\ InitOrders \in Seq(Earlier)
  /\ Earlier \cap Orders = {}
  /\ None \notin Orders \cup Earlier
  /\ MaxLosses \in Nat /\ MaxTraffic \in Nat /\ MaxRequests \in Nat

VARIABLES
  MaxOrderLocalID,
  m_ordermap,
  mIConnet,        \* the last login was accepted
  m_InitQueryNum,
  m_startfinish,
  start,           \* what Start does
  turn,            \* ... for which order of the sequence
  wait,            \* ... with the answer to a query of SendReqQry...
  call,            \* the request that each thread is making
  link, session,   \* connected, logged in
  outgoing,        \* requests on their way to the exchange ...
  answers,         \* ... and what is on its way back, oldest first
  accepted,        \* the orders at the exchange, with their numbers
  largest,         \* the largest of the numbers
  astray,          \* history: OnOrder or OnFill was called with a wrong id
  addedOrders,     \* history: orders of the strategies so far
  answered,        \* history: what Start asked for and was told
  early,           \* history: a strategy did not wait for OnExchangeReady
  calm,            \* history: see AnswersReach
  losses, requested

manager   == <<MaxOrderLocalID, m_ordermap, mIConnet, m_InitQueryNum,
               m_startfinish>>
starting  == <<start, turn, wait>>
exchange  == <<link, session, outgoing, answers, accepted, largest>>
history   == <<astray, addedOrders, answered, early, calm>>
bounds    == <<losses, requested>>
femasVars == <<manager, starting, call, exchange, history, bounds>>

Threads == {"main", "strategy"}
NoCall  == [at |-> "idle", kind |-> "none", order |-> None, ref |-> 0,
            seen |-> 0]
Idle(t) == call[t].at = "idle"

Message(kind, o, ref, ok) ==
  [kind |-> kind, order |-> o, ref |-> ref, ok |-> ok]

With(f, k, v) == [x \in DOMAIN f \cup {k} |-> IF x = k THEN v ELSE f[x]]

FemasInit ==
  /\ MaxOrderLocalID = 0
  /\ m_ordermap = [n \in {} |-> None]
  /\ mIConnet = FALSE
  /\ m_InitQueryNum = 0
  /\ m_startfinish = FALSE
  /\ start = "connect"
  /\ turn = 1
  /\ wait = "none"
  /\ call = [t \in Threads |-> NoCall]
  /\ link = FALSE /\ session = FALSE
  /\ outgoing = <<>> /\ answers = <<>>
  /\ accepted = {[order |-> InitOrders[n], ref |-> n] :
                   n \in DOMAIN InitOrders}
  /\ largest = Len(InitOrders)
  /\ astray = FALSE
  /\ addedOrders = {}
  /\ answered = {}
  /\ early = FALSE /\ calm = TRUE
  /\ losses = 0 /\ requested = 0

-----------------------------------------------------------------------------
(* A request, in four steps.                                               *)

\* The number is read into the request; those of queries have none in them.
Begin(t, kind, o) ==
  /\ Idle(t)
  /\ call' = [call EXCEPT ![t] =
       [at |-> IF kind \in {"trade", "position", "instrument"} THEN "count"
                                                               ELSE "map",
        kind |-> kind, order |-> o, ref |-> MaxOrderLocalID, seen |-> 0]]

GetOrderId(n) == IF n \in DOMAIN m_ordermap THEN m_ordermap[n] ELSE None

\* AddOrderId never changes a number's id, but logs an error.
AddOrderId(o) ==
  m_ordermap' = IF MaxOrderLocalID \in DOMAIN m_ordermap THEN m_ordermap
                ELSE With(m_ordermap, MaxOrderLocalID, o)

\* Mutant: the number is counted up before it is noted whose it is.
MapLast(t) ==
  /\ call[t].at = "map"
  /\ call[t].kind # "invalid"
  /\ m_ordermap' = With(m_ordermap, MaxOrderLocalID + 1, call[t].order)
  /\ call' = [call EXCEPT ![t].at = "count"]
  /\ UNCHANGED <<MaxOrderLocalID, mIConnet, m_InitQueryNum, m_startfinish,
                 starting, exchange, history, bounds>>

Map(t) ==
  /\ call[t].at = "map"
  /\ call[t].kind # "invalid"
  /\ AddOrderId(call[t].order)
  /\ call' = [call EXCEPT ![t].at = "count"]
  /\ UNCHANGED <<MaxOrderLocalID, mIConnet, m_InitQueryNum, m_startfinish,
                 starting, exchange, history, bounds>>

\* An order without a price or a quantity is rejected at once, but has its
\* number by then.
Invalid(t) ==
  /\ call[t].at = "map"
  /\ call[t].kind = "invalid"
  /\ AddOrderId(call[t].order)
  /\ call' = [call EXCEPT ![t] = NoCall]
  /\ calm' = FALSE
  /\ UNCHANGED <<MaxOrderLocalID, mIConnet, m_InitQueryNum, m_startfinish,
                 starting, exchange, astray, addedOrders, answered, early,
                 bounds>>

\* MaxOrderLocalID++ reads ...
Count(t) ==
  /\ call[t].at = "count"
  /\ call' = [call EXCEPT ![t].at = "send", ![t].seen = MaxOrderLocalID]
  /\ UNCHANGED <<manager, starting, exchange, history, bounds>>

\* ... and writes; then the request leaves, if there is a connection.  What
\* the call of the library returns is not looked at.
SendRequest(t) ==
  /\ call[t].at = "send"
  /\ MaxOrderLocalID' = call[t].seen + 1
  /\ outgoing' = IF link
                   THEN Append(outgoing, Message(call[t].kind, call[t].order,
                                                 call[t].ref, TRUE))
                   ELSE outgoing
  /\ call' = [call EXCEPT ![t] = NoCall]
  /\ UNCHANGED <<m_ordermap, mIConnet, m_InitQueryNum, m_startfinish,
                 starting, link, session, answers, accepted, largest, history,
                 bounds>>

-----------------------------------------------------------------------------
(* Start, in the main thread.                                              *)

Goto(from, to) == start = from /\ start' = to /\ turn' = 1

StartConnected ==
  /\ Goto("connect", "query")
  /\ mIConnet
  /\ m_InitQueryNum' = Len(InitOrders)
  /\ UNCHANGED <<MaxOrderLocalID, m_ordermap, mIConnet, m_startfinish, wait,
                 call, exchange, history, bounds>>

StartQuery ==
  /\ start = "query"
  /\ turn <= Len(InitOrders)
  /\ Begin("main", "query", InitOrders[turn])
  /\ turn' = turn + 1
  /\ UNCHANGED <<manager, start, wait, exchange, history, bounds>>

\* m_InitQueryNum has come down to 0.
StartQueried ==
  /\ Goto("query", "trade")
  /\ turn > Len(InitOrders)
  /\ Idle("main")
  /\ m_InitQueryNum = 0
  /\ UNCHANGED <<manager, wait, call, exchange, history, bounds>>

\* SendReqQryTrade, SendReqQryInvestorPosition, SendReqQryInstrument: the
\* request ...
StartAsk ==
  /\ wait = "none"
  /\ \/ /\ start \in {"trade", "position"}
        /\ turn <= Len(InitOrders)
        /\ Begin("main", start, InitOrders[turn])
     \/ /\ start = "instrument"
        /\ turn = 1
        /\ Begin("main", start, None)
  /\ wait' = "clear"
  /\ UNCHANGED <<manager, start, turn, exchange, history, bounds>>

\* Mutant: what the query before has set is not cleared.
StartKeepFlag ==
  /\ wait = "clear"
  /\ Idle("main")
  /\ wait' = "flag"
  /\ UNCHANGED <<manager, start, turn, call, exchange, history, bounds>>

\* ... the flag, cleared when the request has left: an answer that came
\* before is forgotten ...
StartClear ==
  /\ wait = "clear"
  /\ Idle("main")
  /\ wait' = "flag"
  /\ m_startfinish' = FALSE
  /\ UNCHANGED <<MaxOrderLocalID, m_ordermap, mIConnet, m_InitQueryNum, start,
                 turn, call, exchange, history, bounds>>

\* ... and the loop that waits for it.
StartAnswered ==
  /\ wait = "flag"
  /\ m_startfinish
  /\ wait' = "none"
  /\ turn' = turn + 1
  /\ UNCHANGED <<manager, start, call, exchange, history, bounds>>

StartNext ==
  /\ wait = "none"
  /\ \/ Goto("trade", "position") /\ turn > Len(InitOrders)
     \/ Goto("position", "instrument") /\ turn > Len(InitOrders)
     \/ Goto("instrument", "ready") /\ turn > 1
  /\ UNCHANGED <<manager, wait, call, exchange, history, bounds>>

\* Every wait has a time limit; the program then ends.
StartTimeout ==
  /\ \/ start = "connect" /\ ~mIConnet
     \/ start = "query" /\ turn > Len(InitOrders) /\ m_InitQueryNum # 0
     \/ wait = "flag" /\ ~m_startfinish
  /\ Idle("main")
  /\ start' = "failed"
  /\ UNCHANGED <<manager, turn, wait, call, exchange, history, bounds>>

-----------------------------------------------------------------------------
(* The strategies.  Their thread is started before Start.                  *)

AddOrder(o, kind) ==
  /\ o \notin addedOrders
  /\ addedOrders' = addedOrders \cup {o}
  /\ Begin("strategy", kind, o)
  /\ early' = (early \/ start # "ready")
  /\ UNCHANGED <<manager, starting, exchange, astray, answered, calm, bounds>>

\* Delete and Query.  Change does nothing.
DeleteOrQuery(o, kind) ==
  /\ o \in addedOrders
  /\ requested < MaxRequests
  /\ requested' = requested + 1
  /\ Begin("strategy", kind, o)
  /\ early' = (early \/ start # "ready")
  /\ UNCHANGED <<manager, starting, exchange, astray, addedOrders, answered,
                 calm, losses>>

-----------------------------------------------------------------------------
(* The callbacks.                                                          *)

\* What is told of an order of a strategy is told under its id, and what is
\* told of another order is not told under the id of one of them.
Tell(o, ref) ==
  astray' = \/ astray
            \/ IF o \in Orders THEN GetOrderId(ref) # o
                               ELSE GetOrderId(ref) \in Orders

OnFrontConnected(a) ==
  /\ a.kind = "connected"
  /\ outgoing' = Append(outgoing, Message("login", None, 0, TRUE))
  /\ UNCHANGED <<manager, astray, answered, calm>>

OnRspUserLogin(a) ==
  /\ a.kind = "login"
  /\ mIConnet' = a.ok
  /\ MaxOrderLocalID' = IF a.ok THEN a.ref + 1 ELSE MaxOrderLocalID
  /\ calm' = (calm /\ (a.ok => /\ DOMAIN m_ordermap \subseteq 0 .. a.ref
                              /\ \A t \in Threads : Idle(t)))
  /\ UNCHANGED <<m_ordermap, m_InitQueryNum, m_startfinish, outgoing, astray,
                 answered>>

\* OnRspOrderInsert: refused or not; OnRspOrderAction, told as a cancellation
\* either way.
OnRspOrder(a) ==
  /\ a.kind \in {"add", "delete"}
  /\ Tell(a.order, a.ref)
  /\ UNCHANGED <<manager, outgoing, answered, calm>>

\* An answer without an order is not counted.
OnRspQryOrder(a) ==
  /\ a.kind = "query"
  /\ IF a.ok
       THEN /\ m_InitQueryNum' = IF m_InitQueryNum > 0
                                   THEN m_InitQueryNum - 1 ELSE 0
            /\ Tell(a.order, a.ref)
            /\ answered' = answered \cup {<<"query", a.order>>}
       ELSE UNCHANGED <<m_InitQueryNum, astray, answered>>
  /\ UNCHANGED <<MaxOrderLocalID, m_ordermap, mIConnet, m_startfinish,
                 outgoing, calm>>

\* OnRspQryTrade, OnRspQryInvestorPosition, OnRspQryInstrument: the last of
\* the answers.  An answer to the first two that is empty counts for nothing,
\* not as the last.  OnRspQryInstrument has no such return: it would set
\* m_startfinish and then read the missing row; the exchange here always has
\* the instrument.
OnRspQry(a) ==
  /\ a.kind \in {"trade", "position", "instrument"}
  /\ IF a.ok
       THEN /\ m_startfinish' = TRUE
            /\ answered' = answered \cup {<<a.kind, a.order>>}
       ELSE UNCHANGED <<m_startfinish, answered>>
  /\ IF a.ok /\ a.kind = "trade" THEN Tell(a.order, a.ref)
                                 ELSE UNCHANGED astray
  /\ UNCHANGED <<MaxOrderLocalID, m_ordermap, mIConnet, m_InitQueryNum,
                 outgoing, calm>>

Callback ==
  /\ answers # <<>>
  /\ answers' = Tail(answers)
  /\ LET a == Head(answers)
     IN  \/ OnFrontConnected(a)
         \/ OnRspUserLogin(a)
         \/ OnRspOrder(a)
         \/ OnRspQryOrder(a)
         \/ OnRspQry(a)
  /\ UNCHANGED <<starting, call, link, session, accepted, largest,
                 addedOrders, early, bounds>>

\* OnRtnOrder and OnRtnTrade.
OnRtn ==
  /\ session
  /\ \E a \in accepted : Tell(a.order, a.ref)
  /\ UNCHANGED <<manager, starting, call, exchange, addedOrders, answered,
                 early, calm, bounds>>

-----------------------------------------------------------------------------
(* The connection and the exchange.                                        *)

Connect ==
  /\ ~link
  /\ link' = TRUE
  /\ answers' = <<Message("connected", None, 0, TRUE)>>
  /\ UNCHANGED <<manager, starting, call, session, outgoing, accepted, largest,
                 history, bounds>>

\* OnFrontDisconnected does nothing.
LoseLink ==
  /\ link
  /\ losses < MaxLosses
  /\ losses' = losses + 1
  /\ link' = FALSE /\ session' = FALSE
  /\ outgoing' = <<>> /\ answers' = <<>>
  /\ UNCHANGED <<manager, starting, call, accepted, largest, history,
                 requested>>

Reply(kind, o, ref, ok) ==
  answers' = Append(answers, Message(kind, o, ref, ok))

\* The number under which the exchange knows an order.
Number(o) == {a.ref : a \in {b \in accepted : b.order = o}}

ServeRequest ==
  /\ outgoing # <<>>
  /\ outgoing' = Tail(outgoing)
  /\ LET r == Head(outgoing)
     IN  \/ /\ r.kind = "login"
            /\ \E ok \in BOOLEAN :
                 session' = ok /\ Reply("login", None, largest, ok)
            /\ UNCHANGED <<accepted, largest>>
         \/ /\ r.kind = "add"
            /\ session /\ r.ref > largest
            /\ accepted' = accepted \cup {[order |-> r.order, ref |-> r.ref]}
            /\ largest' = r.ref
            /\ Reply("add", r.order, r.ref, TRUE)
            /\ UNCHANGED session
         \/ /\ r.kind \in {"add", "delete"}
            /\ Reply(r.kind, r.order, r.ref, FALSE)
            /\ UNCHANGED <<session, accepted, largest>>
         \/ /\ r.kind = "delete"
            /\ session /\ Number(r.order) # {}
            /\ Reply("delete", r.order, r.ref, TRUE)
            /\ UNCHANGED <<session, accepted, largest>>
         \/ /\ r.kind \in {"query", "trade", "position", "instrument"}
            /\ session
            /\ \/ \E ref \in Number(r.order) :
                    Reply(r.kind, r.order, ref, TRUE)
               \/ r.kind # "instrument" /\ Reply(r.kind, r.order, 0, FALSE)
               \/ r.kind = "instrument" /\ Reply(r.kind, r.order, 0, TRUE)
            /\ UNCHANGED <<session, accepted, largest>>
         \/ /\ r.kind \in {"query", "trade", "position", "instrument"}
            /\ ~session
            /\ UNCHANGED <<session, answers, accepted, largest>>
  /\ UNCHANGED <<manager, starting, call, link, history, bounds>>

Start == \/ StartConnected \/ StartQuery \/ StartQueried \/ StartAsk
         \/ StartClear \/ StartAnswered \/ StartNext \/ StartTimeout

Request(t) == Map(t) \/ Invalid(t) \/ Count(t) \/ SendRequest(t)

Strategy ==
  \/ \E o \in Orders, kind \in {"add", "invalid"} : AddOrder(o, kind)
  \/ \E o \in Orders, kind \in {"delete", "query"} : DeleteOrQuery(o, kind)

FemasNext ==
  /\ start # "failed"
  /\ \/ Start
     \/ \E t \in Threads : Request(t)
     \/ Strategy
     \/ Callback \/ OnRtn
     \/ Connect \/ LoseLink \/ ServeRequest

FemasSpec == FemasInit /\ [][FemasNext]_femasVars

-----------------------------------------------------------------------------
(* Properties.                                                             *)

\* Constraint: nothing is claimed of what follows a call of a strategy that
\* did not wait for OnExchangeReady.
Considered == ~early /\ Len(outgoing) + Len(answers) <= MaxTraffic

\* What the strategies are told of an order is about that order (AddOrderId,
\* GetOrderId), whatever is refused, and whoever cancels or asks when - as
\* long as calm is true: until an order without a price is added, which does
\* not count its number up, or a login is answered in the middle of a request
\* or takes the number back to one that was given out already.
AnswersReach == ~early /\ calm => ~astray

\* Start tells the strategies that the exchange is ready only when every
\* query it made was answered (m_InitQueryNum, m_startfinish), although no
\* answer is matched with its query and connections are lost.
StartVerifies ==
  ~early /\ start = "ready" =>
    /\ <<"instrument", None>> \in answered
    /\ \A o \in Earlier, kind \in {"query", "trade", "position"} :
         <<kind, o>> \in answered

=============================================================================
