----------------------------- MODULE CtpGateway -----------------------------
(***************************************************************************)
(* The CTP order gateway (CtpTrader) with the threads that use it:         *)
(* CCtpCommunicator::Start in the main thread, the thread that receives    *)
(* orders from the strategies, the thread of the command queue, and the    *)
(* callbacks of the vendor's library.                                      *)
(*                                                                         *)
(* The library and the exchange are external.  As the code uses them:      *)
(*   - requests arrive in the order in which they are sent, and so do      *)
(*     their answers; what is on its way when the connection breaks is     *)
(*     lost.  The library connects again by itself;                        *)
(*   - what happens to the orders of the day is kept, and is sent from the *)
(*     start after each login (THOST_TERT_RESTART);                        *)
(*   - an order is accepted only in a session, and with a reference above  *)
(*     all before it; the login answer has the largest reference accepted; *)
(*   - an order that the exchange refuses later is reported as cancelled,  *)
(*     besides the call of OnErrRtnOrderInsert, which does nothing here.   *)
(***************************************************************************)
EXTENDS CtpTrader, Containers

CONSTANTS InitOrders,  \* the orders that Start is to verify
          Leftovers,   \* what an uninitialized reference may be
          MaxDrops,    \* bound on lost connections
          MaxTraffic,  \* bound on commands, requests and answers under way
          MaxRequests  \* bound on cancels and queries of the strategies

ASSUME GatewayAssumption ==
  /\ InitOrders \subseteq Orders
  /\ IsFiniteSet(InitOrders)
  /\ Leftovers \subseteq Nat
  /\ MaxDrops \in Nat
  /\ MaxTraffic \in Nat
  /\ MaxRequests \in Nat

VARIABLES
  start,      \* what Start does
  unqueried,  \* the orders it has still to query
  adding,     \* an order of which the strategy thread has read the reference
  up, link,   \* requests on their way to the exchange
  answers,    \* ... and answers, oldest first
  session,    \* the exchange has accepted a login
  journal,    \* what happened to the orders of the day
  read,       \* how much of it this session has sent
  largest,    \* the largest reference accepted
  fate,       \* history: what became of an order of a strategy
  refused,    \* history: orders of which a cancel was refused
  calm,       \* history: no order or cancel was ill-timed, see AnswersReach
  drops, requests

bounds   == <<drops, requests>>
exchange == <<up, link, answers, session, journal, read, largest, refused>>
threads  == <<start, unqueried, adding, fate, calm>>
vars     == <<trader, exchange, threads, bounds>>

Nobody == [order |-> None, ref |-> 0]

Answer(kind, o, ref, status, ok) ==
  [kind |-> kind, order |-> o, ref |-> ref, status |-> status, ok |-> ok]

Answers ==
  [kind : Kinds \cup {"connected"}, order : Orders \cup {None}, ref : Nat,
   status : ExchangeStatuses \cup {"None"}, ok : BOOLEAN]

Events ==
  [order : Orders \cup {None}, ref : Nat,
   status : ExchangeStatuses \cup {"Trade"}]

Event(o, ref, status) == [order |-> o, ref |-> ref, status |-> status]

TypeOK ==
  /\ TraderTypeOK
  /\ start \in {"creating", "waiting", "querying", "verifying", "ready",
                "stopped"}
  /\ unqueried \subseteq InitOrders
  /\ adding \in [order : Orders \cup {None}, ref : Nat]
  /\ up \in Seq(Commands)
  /\ link \in BOOLEAN
  /\ answers \in Seq(Answers)
  /\ session \in BOOLEAN
  /\ journal \in Seq(Events)
  /\ read \in 0 .. Len(journal)
  /\ largest \in Nat
  /\ fate \in [Orders -> {"new", "dropped", "added", "lost"}]
  /\ refused \subseteq Orders
  /\ calm \in BOOLEAN
  /\ drops \in 0 .. MaxDrops
  /\ requests \in 0 .. MaxRequests

\* An order of an earlier program of the same user is there already.
Init ==
  /\ TraderInit(Leftovers)
  /\ start = "creating"
  /\ unqueried = {}
  /\ adding = Nobody
  /\ up = <<>>
  /\ link = FALSE
  /\ answers = <<>>
  /\ session = FALSE
  /\ journal = <<Event(None, 1, "NoTradeQueueing")>>
  /\ read = 0
  /\ largest = 1
  /\ fate = [o \in Orders |-> "new"]
  /\ refused = {}
  /\ calm = TRUE
  /\ drops = 0
  /\ requests = 0

-----------------------------------------------------------------------------
(* CCtpCommunicator::Start.                                                *)

Goto(from, to) ==
  /\ start = from
  /\ start' = to

CreateTrader ==
  /\ Goto("creating", "waiting")
  /\ UNCHANGED <<trader, exchange, unqueried, adding, fate, calm, bounds>>

BecomesTradable ==
  /\ Goto("waiting", "querying")
  /\ tradable
  /\ m_InitQueryNum' = Cardinality(InitOrders)
  /\ unqueried' = InitOrders
  /\ UNCHANGED <<maxOrderRef, client_orders_index, commandQueue, tradable,
                 told, astray, exchange, adding, fate, calm, bounds>>

\* m_itimeout seconds without the session, or without an answer: main stops
\* the gateway and ends.
StartTimeout ==
  /\ \/ Goto("waiting", "stopped") /\ ~tradable
     \/ Goto("verifying", "stopped") /\ m_InitQueryNum # 0
  /\ reqUserLogout
  /\ UNCHANGED <<exchange, unqueried, adding, fate, calm, bounds>>

QueryInit(o) ==
  /\ start = "querying"
  /\ o \in unqueried
  /\ unqueried' = unqueried \ {o}
  /\ reqQryOrder(o)
  /\ UNCHANGED <<exchange, start, adding, fate, calm, bounds>>

QueriesSent ==
  /\ Goto("querying", "verifying")
  /\ unqueried = {}
  /\ UNCHANGED <<trader, exchange, unqueried, adding, fate, calm, bounds>>

\* The trades of the orders that are in the index, and all the positions.
Indexed == {o \in InitOrders : References(o) # {}}

Times(n, c) == [i \in 1 .. n |-> c]

ExchangeReady ==
  /\ Goto("verifying", "ready")
  /\ m_InitQueryNum = 0
  /\ commandQueue' = commandQueue
                       \o Times(Cardinality(Indexed), Simple("trade"))
                       \o Times(Cardinality(InitOrders), Simple("position"))
  /\ UNCHANGED <<maxOrderRef, client_orders_index, tradable, m_InitQueryNum,
                 told, astray, exchange, unqueried, adding, fate, calm,
                 bounds>>

\* The program ends, without waiting for the queue.
Stop ==
  /\ Goto("ready", "stopped")
  /\ reqUserLogout
  /\ UNCHANGED <<exchange, unqueried, adding, fate, calm, bounds>>

-----------------------------------------------------------------------------
(* The strategy thread.                                                    *)

LoginUnderWay ==
  \/ \E i \in DOMAIN commandQueue : commandQueue[i].kind = "login"
  \/ \E i \in DOMAIN up : up[i].kind = "login"
  \/ \E i \in DOMAIN answers : answers[i].kind = "login"

Idle == adding = Nobody

\* Before the trader is there, an order is passed over.
AddDropped(o) ==
  /\ start = "creating"
  /\ fate[o] = "new"
  /\ fate' = [fate EXCEPT ![o] = "dropped"]
  /\ UNCHANGED <<trader, exchange, start, unqueried, adding, calm, bounds>>

\* itoa(maxOrderRef, orderField->OrderRef, 10) ...
AddReads(o) ==
  /\ Idle
  /\ start # "creating"
  /\ fate[o] = "new"
  /\ adding' = [order |-> o, ref |-> maxOrderRef]
  /\ calm' = (calm /\ tradable /\ ~LoginUnderWay)
  /\ UNCHANGED <<trader, exchange, start, unqueried, fate, bounds>>

\* ... and the rest of reqOrderInsert.
AddQueues ==
  /\ adding # Nobody
  /\ reqOrderInsert(adding.order, adding.ref)
  /\ adding' = Nobody
  /\ fate' = [fate EXCEPT ![adding.order] = "added"]
  /\ calm' = (calm /\ ~LoginUnderWay)
  /\ UNCHANGED <<exchange, start, unqueried, bounds>>

CountRequest ==
  /\ requests < MaxRequests
  /\ requests' = requests + 1

Delete(o) ==
  /\ Idle
  /\ fate[o] = "added"
  /\ CountRequest
  /\ reqOrderAction(o)
  /\ calm' = (calm /\ ~LoginUnderWay
                   /\ \A ref \in References(o) : ref < maxOrderRef)
  /\ UNCHANGED <<exchange, start, unqueried, adding, fate, drops>>

Query(o) ==
  /\ Idle
  /\ fate[o] = "added"
  /\ CountRequest
  /\ reqQryOrder(o)
  /\ UNCHANGED <<exchange, threads, drops>>

-----------------------------------------------------------------------------
(* The thread of the command queue, and the connection.                    *)

Execute ==
  /\ executed(IF link THEN 0 ELSE 1)
  /\ up' = IF link THEN Append(up, Head(commandQueue)) ELSE up
  /\ UNCHANGED <<link, answers, session, journal, read, largest, refused,
                 threads, bounds>>

Connect ==
  /\ start # "creating"
  /\ ~link
  /\ link' = TRUE
  /\ answers' = Append(answers, Answer("connected", None, 0, "None", TRUE))
  /\ UNCHANGED <<trader, up, session, journal, read, largest, refused, threads,
                 bounds>>

\* Answers that the library has already are still handed over.
Drop(kept) ==
  /\ link
  /\ drops < MaxDrops
  /\ drops' = drops + 1
  /\ link' = FALSE
  /\ session' = FALSE
  /\ up' = <<>>
  /\ answers' = SubSeq(answers, 1, kept)
  /\ fate' = [o \in Orders |->
       IF \/ \E i \in DOMAIN up : up[i].kind = "insert" /\ up[i].order = o
          \/ \E i \in kept + 1 .. Len(answers) :
               answers[i].kind = "insert" /\ answers[i].order = o
         THEN "lost"
         ELSE fate[o]]
  /\ UNCHANGED <<trader, journal, read, largest, refused, start, unqueried,
                 adding, calm, requests>>

-----------------------------------------------------------------------------
(* The exchange.                                                           *)

\* The last of the events s that are not trades says how the order stands.
StatusIn(s, o) ==
  LET mine == {i \in DOMAIN s : s[i].order = o /\ s[i].status # "Trade"}
  IN IF mine = {} THEN "None"
     ELSE s[CHOOSE i \in mine : \A j \in mine : j <= i].status

Status(o) == StatusIn(journal, o)

Request(kind) == up # <<>> /\ Head(up).kind = kind

Done(replies) ==
  /\ up' = Tail(up)
  /\ answers' = answers \o replies
  /\ UNCHANGED <<trader, link, threads, bounds>>

Reply(c, ref, ok) == <<Answer(c.kind, c.order, ref, "None", ok)>>

AcceptLogin ==
  /\ Request("login")
  /\ Done(Reply(Head(up), largest, TRUE))
  /\ session' = TRUE
  /\ read' = 0
  /\ UNCHANGED <<journal, largest, refused>>

AcceptConfirm ==
  /\ Request("confirm")
  /\ session
  /\ Done(Reply(Head(up), 0, TRUE))
  /\ UNCHANGED <<session, journal, read, largest, refused>>

RefuseSession ==
  /\ Request("login") \/ Request("confirm")
  /\ Done(Reply(Head(up), 0, FALSE))
  /\ UNCHANGED <<session, journal, read, largest, refused>>

AcceptInsert ==
  /\ Request("insert")
  /\ session
  /\ Head(up).ref > largest
  /\ largest' = Head(up).ref
  /\ journal' = Append(journal,
                 Event(Head(up).order, Head(up).ref, "NoTradeQueueing"))
  /\ Done(<<>>)
  /\ UNCHANGED <<session, read, refused>>

RefuseInsert ==
  /\ Request("insert")
  /\ Done(Reply(Head(up), Head(up).ref, FALSE))
  /\ UNCHANGED <<session, journal, read, largest, refused>>

AcceptWithdraw ==
  /\ Request("withdraw")
  /\ session
  /\ Status(Head(up).order) = "NoTradeQueueing"
  /\ journal' = Append(journal,
                 Event(Head(up).order, Head(up).ref, "Canceled"))
  /\ Done(<<>>)
  /\ UNCHANGED <<session, read, largest, refused>>

RefuseWithdraw ==
  /\ Request("withdraw")
  /\ Done(Reply(Head(up), Head(up).ref, FALSE))
  /\ refused' = refused \cup {Head(up).order}
  /\ UNCHANGED <<session, journal, read, largest>>

\* A later event of the same order, also one that is wanted.
Overtaken(i, wanted) ==
  \E j \in DOMAIN journal : /\ j > i
                            /\ journal[j].ref = journal[i].ref
                            /\ journal[j].status \in wanted

\* Each order once, as it is now.
Rows(kind, wanted) ==
  LET last == Remaining([i \in DOMAIN journal |-> i],
                {i \in DOMAIN journal : \/ journal[i].status \notin wanted
                                        \/ Overtaken(i, wanted)})
  IN [k \in DOMAIN last |->
        LET e == journal[last[k]]
        IN Answer(kind, e.order, e.ref,
                  IF e.status = "Trade" THEN "AllTraded" ELSE e.status, TRUE)]

\* No row, no call: the one that the library makes then, without an order,
\* returns at once.
AnswerQuery ==
  /\ \/ /\ Request("order")
        /\ Done(Rows("order", ExchangeStatuses))
     \/ /\ Request("trade")
        /\ Done(Rows("trade", {"Trade"}))
     \/ /\ Request("position") \/ Request("instruments")
        /\ Done(<<>>)
  /\ UNCHANGED <<session, journal, read, largest, refused>>

\* An order and its trade.
Fill(o) ==
  /\ Status(o) = "NoTradeQueueing"
  /\ LET ref == journal[CHOOSE i \in DOMAIN journal : journal[i].order = o].ref
     IN journal' = Append(Append(journal, Event(o, ref, "AllTraded")),
                          Event(o, ref, "Trade"))
  /\ UNCHANGED <<trader, up, link, answers, session, read, largest, refused,
                 threads, bounds>>

-----------------------------------------------------------------------------
(* Callbacks of the library.                                               *)

Callback(kind) ==
  /\ answers # <<>>
  /\ Head(answers).kind = kind
  /\ answers' = Tail(answers)
  /\ UNCHANGED <<up, link, session, journal, read, largest, refused, start,
                 unqueried, adding, fate, bounds>>

CallConnected ==
  /\ Callback("connected")
  /\ OnFrontConnected
  /\ UNCHANGED calm

CallLogin ==
  /\ Callback("login")
  /\ OnRspUserLogin(Head(answers))
  /\ calm' = (calm /\ adding = Nobody)

CallConfirm ==
  /\ Callback("confirm")
  /\ OnRspSettlementInfoConfirm(Head(answers))
  /\ UNCHANGED calm

CallInsert ==
  /\ Callback("insert")
  /\ OnRspOrderInsert(Head(answers))
  /\ UNCHANGED calm

CallAction ==
  /\ Callback("withdraw")
  /\ OnRspOrderAction(Head(answers))
  /\ UNCHANGED calm

CallQuery ==
  /\ \/ Callback("order") /\ OnRspQryOrder(Head(answers))
     \/ Callback("trade") /\ OnRspQryTrade(Head(answers))
  /\ UNCHANGED calm

\* What happened to the orders of the day, once more after each login.
CallReturn ==
  /\ session
  /\ read < Len(journal)
  /\ read' = read + 1
  /\ IF journal[read + 1].status = "Trade"
       THEN OnRtnTrade(journal[read + 1])
       ELSE OnRtnOrder(journal[read + 1])
  /\ UNCHANGED <<up, link, answers, session, journal, largest, refused,
                 threads, bounds>>

-----------------------------------------------------------------------------
StartStep ==
  \/ CreateTrader
  \/ BecomesTradable
  \/ StartTimeout
  \/ \E o \in InitOrders : QueryInit(o)
  \/ QueriesSent
  \/ ExchangeReady
  \/ Stop

StrategyStep ==
  \/ \E o \in Orders : AddDropped(o) \/ AddReads(o) \/ Delete(o) \/ Query(o)
  \/ AddQueues

ExchangeStep ==
  \/ AcceptLogin
  \/ AcceptConfirm
  \/ RefuseSession
  \/ AcceptInsert
  \/ RefuseInsert
  \/ AcceptWithdraw
  \/ RefuseWithdraw
  \/ AnswerQuery
  \/ \E o \in Orders : Fill(o)

CallbackStep ==
  \/ CallConnected
  \/ CallLogin
  \/ CallConfirm
  \/ CallInsert
  \/ CallAction
  \/ CallQuery
  \/ CallReturn

Next ==
  \/ StartStep
  \/ /\ start # "stopped"
     /\ \/ StrategyStep
        \/ Execute
        \/ Connect
        \/ \E kept \in 0 .. Len(answers) : Drop(kept)
        \/ ExchangeStep
        \/ CallbackStep

Spec == Init /\ [][Next]_vars

-----------------------------------------------------------------------------
(* Properties.                                                             *)

\* Constraint: nothing is claimed of what follows an ill-timed order.
Considered ==
  /\ calm
  /\ Len(commandQueue) + Len(up) + Len(answers) <= MaxTraffic

\* What the strategies are told of an order is about that order, unless one of
\* them adds or cancels an order between a reconnection and the answer to its
\* login, which sets maxOrderRef back, or cancels one whose reference was taken
\* back with it.
AnswersReach == calm => ~astray

\* An order that was taken from a strategy is in the queue, on its way, at the
\* exchange or answered, unless a connection broke with it.
NoOrderForgotten ==
  calm => \A o \in Orders : fate[o] = "added" =>
    \/ \E i \in DOMAIN commandQueue : commandQueue[i].order = o
    \/ \E i \in DOMAIN up : up[i].order = o
    \/ \E i \in DOMAIN answers : answers[i].order = o
    \/ Status(o) # "None"
    \/ told[o] # "None"

\* An order told to be over is over, unless its cancel was refused.
ToldIsTrue ==
  calm => \A o \in Orders :
    /\ told[o] = "Rejected" => Status(o) = "None"
    /\ told[o] = "Filled" => Status(o) = "AllTraded"
    /\ told[o] = "Cancelled" => Status(o) = "Canceled" \/ o \in refused
    /\ told[o] \in {"Pending", "Working"} => Status(o) # "None"
=============================================================================
