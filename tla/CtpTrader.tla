----------------------------- MODULE CtpTrader -----------------------------
(***************************************************************************)
(* ctp/exchange/ctp_trader_spi.cc and CommandQueue.cc: the CTP order       *)
(* gateway's own state.  Requests are put into a queue, from which a       *)
(* thread of its own sends them; answers are callbacks of the vendor's     *)
(* library.  An order is known to the exchange by a reference, and to the  *)
(* strategies by an id of theirs; client_orders_index leads back from the  *)
(* reference to the id.                                                    *)
(*                                                                         *)
(* Contracts, prices and quantities are left out: an order is filled at    *)
(* once.  A message m has, besides the reference, the order that it is     *)
(* about, which the code does not see.                                     *)
(***************************************************************************)
EXTENDS Naturals, Sequences, FiniteSets

CONSTANTS Orders,   \* client_order_id of the orders of the strategies
          None      \* an order that this program did not send

ASSUME OrderAssumption == None \notin Orders

VARIABLES
  maxOrderRef, client_orders_index, commandQueue, tradable, m_InitQueryNum,
  told,    \* history: the last status of each order told to its strategy
  astray   \* history: something was told of the wrong order

trader == <<maxOrderRef, client_orders_index, commandQueue, tradable,
            m_InitQueryNum, told, astray>>

Kinds == {"login", "confirm", "instruments", "insert", "withdraw", "order",
          "trade", "position", "logout"}

\* THOST_FTDC_OST_..., and the statuses of ems.proto.
ExchangeStatuses == {"Unknown", "NoTradeQueueing", "AllTraded", "Canceled"}
Statuses == {"None", "Pending", "Working", "Filled", "Cancelled", "Rejected"}

Order(kind, o, ref) == [kind |-> kind, order |-> o, ref |-> ref]
Simple(kind)        == Order(kind, None, 0)

Commands == [kind : Kinds, order : Orders \cup {None}, ref : Nat]

TraderTypeOK ==
  /\ maxOrderRef \in Nat
  /\ DOMAIN client_orders_index \subseteq Nat
  /\ \A ref \in DOMAIN client_orders_index :
       client_orders_index[ref] \in Orders
  /\ commandQueue \in Seq(Commands)
  /\ tradable \in BOOLEAN
  /\ m_InitQueryNum \in Nat
  /\ told \in [Orders -> Statuses]
  /\ astray \in BOOLEAN

\* maxOrderRef is not initialized.
TraderInit(leftovers) ==
  /\ maxOrderRef \in leftovers
  /\ client_orders_index = [ref \in {} |-> None]
  /\ commandQueue = <<>>
  /\ tradable = FALSE
  /\ m_InitQueryNum = 0
  /\ told = [o \in Orders |-> "None"]
  /\ astray = FALSE

-----------------------------------------------------------------------------
(* Requests, which the strategy thread and Start make.                     *)

addCommand(c) == commandQueue' = Append(commandQueue, c)

\* The references under which an order is found.
References(o) ==
  {ref \in DOMAIN client_orders_index : client_orders_index[ref] = o}

FirstReference(o) ==
  CHOOSE ref \in References(o) : \A other \in References(o) : ref <= other

\* The order carries the reference read before; the index and the increment
\* read it again.
reqOrderInsert(o, ref) ==
  /\ client_orders_index' =
       [r \in DOMAIN client_orders_index \cup {maxOrderRef} |->
          IF r = maxOrderRef THEN o ELSE client_orders_index[r]]
  /\ maxOrderRef' = maxOrderRef + 1
  /\ addCommand(Order("insert", o, ref))
  /\ UNCHANGED <<tradable, m_InitQueryNum, told, astray>>

\* An order that is not in the index is passed over.
reqOrderAction(o) ==
  /\ IF References(o) = {}
       THEN UNCHANGED commandQueue
       ELSE addCommand(Order("withdraw", o, FirstReference(o)))
  /\ UNCHANGED <<maxOrderRef, client_orders_index, tradable, m_InitQueryNum,
                 told, astray>>

reqQryOrder(o) ==
  /\ IF References(o) = {}
       THEN UNCHANGED commandQueue
       ELSE addCommand(Simple("order"))
  /\ UNCHANGED <<maxOrderRef, client_orders_index, tradable, m_InitQueryNum,
                 told, astray>>

reqUserLogout ==
  /\ addCommand(Simple("logout"))
  /\ UNCHANGED <<maxOrderRef, client_orders_index, tradable, m_InitQueryNum,
                 told, astray>>

\* Mutant: a command leaves the queue in any case.
executed_anyway(result) ==
  /\ commandQueue # <<>>
  /\ commandQueue' = Tail(commandQueue)
  /\ UNCHANGED <<maxOrderRef, client_orders_index, tradable, m_InitQueryNum,
                 told, astray>>

\* CommandQueue::run: a command leaves the queue when it could be sent.
executed(result) ==
  /\ commandQueue # <<>>
  /\ result = 0
  /\ commandQueue' = Tail(commandQueue)
  /\ UNCHANGED <<maxOrderRef, client_orders_index, tradable, m_InitQueryNum,
                 told, astray>>

-----------------------------------------------------------------------------
(* Callbacks.                                                              *)

Client(ref) ==
  IF ref \in DOMAIN client_orders_index THEN client_orders_index[ref] ELSE None

\* ExchangeListenerI::OnOrder, with the id that the reference leads to.
Tell(m, status) ==
  /\ told' = [o \in Orders |-> IF o = Client(m.ref) THEN status ELSE told[o]]
  /\ astray' = (astray \/ Client(m.ref) # m.order)

\* Mutant: a cancelled order counts as rejected.
SetOrderStatus_rejects(status) ==
  CASE status = "AllTraded"       -> "Filled"
    [] status = "NoTradeQueueing" -> "Working"
    [] status = "Canceled"        -> "Rejected"
    [] status = "Unknown"         -> "Pending"

SetOrderStatus(status) ==
  CASE status = "AllTraded"       -> "Filled"
    [] status = "NoTradeQueueing" -> "Working"
    [] status = "Canceled"        -> "Cancelled"
    [] status = "Unknown"         -> "Pending"

OnFrontConnected ==
  /\ addCommand(Simple("login"))
  /\ UNCHANGED <<maxOrderRef, client_orders_index, tradable, m_InitQueryNum,
                 told, astray>>

\* Mutant: the next reference is the largest one used.
OnRspUserLogin_same(m) ==
  /\ IF m.ok
       THEN /\ maxOrderRef' = m.ref
            /\ addCommand(Simple("confirm"))
       ELSE UNCHANGED <<maxOrderRef, commandQueue>>
  /\ UNCHANGED <<client_orders_index, tradable, m_InitQueryNum, told, astray>>

OnRspUserLogin(m) ==
  /\ IF m.ok
       THEN /\ maxOrderRef' = m.ref + 1
            /\ addCommand(Simple("confirm"))
       ELSE UNCHANGED <<maxOrderRef, commandQueue>>
  /\ UNCHANGED <<client_orders_index, tradable, m_InitQueryNum, told, astray>>

OnRspSettlementInfoConfirm(m) ==
  /\ IF m.ok
       THEN /\ tradable' = TRUE
            /\ addCommand(Simple("instruments"))
       ELSE UNCHANGED <<tradable, commandQueue>>
  /\ UNCHANGED <<maxOrderRef, client_orders_index, m_InitQueryNum, told,
                 astray>>

\* The order was refused.
OnRspOrderInsert(m) ==
  /\ Tell(m, "Rejected")
  /\ UNCHANGED <<maxOrderRef, client_orders_index, commandQueue, tradable,
                 m_InitQueryNum>>

\* The cancel was refused; the order is told to be cancelled.
OnRspOrderAction(m) ==
  /\ Tell(m, "Cancelled")
  /\ UNCHANGED <<maxOrderRef, client_orders_index, commandQueue, tradable,
                 m_InitQueryNum>>

OnRtnOrder(m) ==
  /\ Tell(m, SetOrderStatus(m.status))
  /\ UNCHANGED <<maxOrderRef, client_orders_index, commandQueue, tradable,
                 m_InitQueryNum>>

\* ExchangeListenerI::OnFill, with the same id.
OnRtnTrade(m) ==
  /\ astray' = (astray \/ Client(m.ref) # m.order)
  /\ UNCHANGED <<maxOrderRef, client_orders_index, commandQueue, tradable,
                 m_InitQueryNum, told>>

\* Mutant: the number of answers to wait for is not looked at.
OnRspQryOrder_counts(m) ==
  /\ m_InitQueryNum' = IF m_InitQueryNum = 0 THEN 0 - 1 ELSE m_InitQueryNum - 1
  /\ Tell(m, SetOrderStatus(m.status))
  /\ UNCHANGED <<maxOrderRef, client_orders_index, commandQueue, tradable>>

\* One call for each order of the answer.
OnRspQryOrder(m) ==
  /\ m_InitQueryNum' = IF m_InitQueryNum > 0 THEN m_InitQueryNum - 1 ELSE 0
  /\ Tell(m, SetOrderStatus(m.status))
  /\ UNCHANGED <<maxOrderRef, client_orders_index, commandQueue, tradable>>

OnRspQryTrade(m) ==
  /\ Tell(m, "Filled")
  /\ UNCHANGED <<maxOrderRef, client_orders_index, commandQueue, tradable,
                 m_InitQueryNum>>
=============================================================================
