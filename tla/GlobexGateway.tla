---------------------------- MODULE GlobexGateway ----------------------------
(***************************************************************************)
(* The order gateway of CME: GlobexCommunicator and OrderManager           *)
(* (cme/exchange) on their FIX session, with the strategies on one side    *)
(* and the exchange on the other.  Requests are FIX messages that quickfix *)
(* stores and sends again (PersistMessages=Y): none is lost with the       *)
(* connection.  No program passes initial orders to Start, which then      *)
(* returns at once.                                                        *)
(***************************************************************************)
EXTENDS GlobexSession, FiniteSets, Functions

CONSTANTS
  Ids,        \* client order ids
  Quantity,   \* of an order; it is traded one by one
  MaxSent,    \* the exchange does nothing of itself beyond so many messages
  MaxDrops,   \* lost connections (bound)
  MaxBeats,   \* heartbeats (bound)
  MaxOther    \* requests other than Add (bound)

ASSUME GatewayAssumption ==
  /\ IsFiniteSet(Ids)
  /\ Quantity \in Nat \ {0}
  /\ {MaxSent, MaxDrops, MaxBeats, MaxOther} \subseteq Nat

VARIABLES
  requests,  \* requests on their way to the exchange, in order
  added,     \* ids that the strategies have used
  book,      \* the exchange's state of each order
  traded,    \* quantity traded of each order
  heard,     \* the status OnOrder last told of each order
  filled,    \* quantity told with OnFill of each order
  stopped,   \* Stop was called
  drops, beats, other

ordersVars == <<requests, added, book, traded, heard, filled, stopped>>
vars       == <<sessionVars, ordersVars, drops, beats, other>>

BookStatus == {"none", "new", "partial", "filled", "cancelled", "rejected",
               "expired"}
Open(id)   == book[id] \in {"new", "partial"}

Told == {"nothing", "pending", "cancelled", "rejected", "none"}

\* OrdStatus, by its meaning: the value '4' is cancelled, and so on.
OrdStatus == {"new", "partial", "filled", "cancelled", "replaced",
              "rejected", "expired", "busted", "undefined"}

\* Execution reports and cancel rejects; answers to status requests are
\* execution reports of ExecType I, with nothing traded.  All other messages
\* are not told, and "other" stands for them.
Report(id, status, qty) == [type |-> "report", id |-> id, status |-> status,
                            qty |-> qty]
Refusal(id) == [type |-> "refusal", id |-> id, status |-> "undefined",
                qty |-> 0]
NoReport(type) == [type |-> type, id |-> "-", status |-> "undefined",
                   qty |-> 0]
LogonMessage == NoReport("logon")
OtherMessage == NoReport("other")

Messages == {LogonMessage, OtherMessage}
            \cup {Refusal(id) : id \in Ids}
            \cup [type : {"report"}, id : Ids, status : OrdStatus,
                  qty : {0, 1}]

Requests == [type : {"add", "change", "delete", "query", "queryAll"},
             id : Ids \cup {"-"}]

-----------------------------------------------------------------------------
(* What OrderManager and GlobexCommunicator make of a message.             *)

\* Mutant: a refused request is taken for a rejected order.
RejectUndefined(status) ==
  CASE status \in {"new", "cancelled", "replaced"} -> "pending"
    [] status \in {"rejected", "undefined"} -> "rejected"
    [] status \in {"expired", "busted"} -> "cancelled"
    [] OTHER -> "none"

\* Convert_order_status.  What is cancelled is told as pending.
Convert_order_status(status) ==
  CASE status \in {"new", "cancelled", "replaced"} -> "pending"
    [] status = "rejected" -> "rejected"
    [] status \in {"expired", "busted"} -> "cancelled"
    [] OTHER -> "none"

IsFill(m)   == m.type = "report" /\ m.status \in {"partial", "filled"}
IsStatus(m) == \/ m.type = "refusal"
               \/ /\ m.type = "report"
                  /\ m.status \notin {"partial", "filled", "busted"}

\* Mutant: the last fill of an order is told as its status.
FillPartialOnly(m) ==
  LET isFill == m.type = "report" /\ m.status = "partial"
  IN  /\ filled' = IF isFill THEN [filled EXCEPT ![m.id] = @ + m.qty]
                             ELSE filled
      /\ heard' =
           IF ~isFill /\ (IsFill(m) \/ IsStatus(m))
             THEN [heard EXCEPT ![m.id] = Convert_order_status(m.status)]
             ELSE heard

\* onMessage and Order_response: a report of an order that is traded is a
\* fill, whether it tells of a trade or answers a query; a cancelled trade is
\* not told; anything else of an order is its status.
Order_response(m) ==
  /\ filled' = IF IsFill(m) THEN [filled EXCEPT ![m.id] = @ + m.qty]
                            ELSE filled
  /\ heard' = IF IsStatus(m)
                THEN [heard EXCEPT ![m.id] = Convert_order_status(m.status)]
                ELSE heard

-----------------------------------------------------------------------------
\* Orders of an earlier day may still work at the exchange.
Init ==
  /\ SessionInit
  /\ requests = <<>>
  /\ added \in SUBSET Ids
  /\ book = [id \in Ids |-> IF id \in added THEN "new" ELSE "none"]
  /\ traded = [id \in Ids |-> 0]
  /\ heard = [id \in Ids |-> "nothing"]
  /\ filled = [id \in Ids |-> 0]
  /\ stopped = FALSE
  /\ drops = 0 /\ beats = 0 /\ other = 0

\* Start connects, and quickfix connects again after a loss.  onLogon tells
\* the strategies OnExchangeReady, and asks for the status of all orders.
Logon ==
  /\ ~stopped
  /\ LogonAnswer(LogonMessage)
  /\ requests' = Append(requests, [type |-> "queryAll", id |-> "-"])
  /\ UNCHANGED <<added, book, traded, heard, filled, stopped, drops, beats,
                 other>>

\* Stop logs out.
Stop ==
  /\ ~stopped
  /\ stopped' = TRUE
  /\ IF up THEN Disconnect ELSE UNCHANGED sessionVars
  /\ UNCHANGED <<requests, added, book, traded, heard, filled, drops,
                 beats, other>>

Lose ==
  /\ drops < MaxDrops
  /\ drops' = drops + 1
  /\ Disconnect
  /\ UNCHANGED <<ordersVars, beats, other>>

Ask_exchange(type, id) ==
  /\ ~stopped
  /\ requests' = Append(requests, [type |-> type, id |-> id])
  /\ UNCHANGED <<sessionVars, book, traded, heard, filled, stopped,
                 drops, beats>>

\* Strategies give every order an id of its own.
Add(id) ==
  /\ id \notin added
  /\ added' = added \cup {id}
  /\ Ask_exchange("add", id)
  /\ UNCHANGED other

Later(type, id) ==
  /\ other < MaxOther
  /\ other' = other + 1
  /\ Ask_exchange(type, id)
  /\ UNCHANGED added

Change(id) == Later("change", id)
Delete(id) == Later("delete", id)
Query(id)  == Later("query", id)

\* fromAdmin and fromApp: crack, then the number of the message.
From ==
  /\ InTurn
  /\ Order_response(sent[expected])
  /\ setCurrentReceivedSeq(LogonMessage)
  /\ UNCHANGED <<requests, added, book, traded, stopped, drops, beats,
                 other>>

\* quickfix sorts out the other messages by itself.
Sort ==
  /\ TooHigh \/ TooLow
  /\ UNCHANGED <<ordersVars, drops, beats, other>>

-----------------------------------------------------------------------------
(* The exchange.                                                           *)

Status(id) == Report(id, IF Open(id) THEN book[id] ELSE "undefined", 0)

\* The open orders, in any order.
Listings ==
  LET open == {id \in Ids : Open(id)}
  IN  Injection(1 .. Cardinality(open), open)

\* It takes the next request: an order is accepted, rejected, or refused with
\* a message that is not told; one that is not open is not changed.
Serve ==
  /\ up
  /\ requests # <<>>
  /\ requests' = Tail(requests)
  /\ LET r == Head(requests)
     IN  \/ /\ r.type = "add"
            /\ \E s \in {"new", "rejected"} :
                 /\ book' = [book EXCEPT ![r.id] = s]
                 /\ Send(<<Report(r.id, s, 0)>>)
         \/ /\ r.type = "add"
            /\ Send(<<OtherMessage>>)
            /\ UNCHANGED book
         \/ /\ r.type = "delete"
            /\ Open(r.id)
            /\ book' = [book EXCEPT ![r.id] = "cancelled"]
            /\ Send(<<Report(r.id, "cancelled", 0)>>)
         \/ /\ r.type = "change"
            /\ Open(r.id)
            /\ Send(<<Report(r.id, "replaced", 0)>>)
            /\ UNCHANGED book
         \/ /\ r.type \in {"delete", "change"}
            /\ Send(<<Refusal(r.id)>>)
            /\ UNCHANGED book
         \/ /\ r.type = "query"
            /\ Send(<<Status(r.id)>>)
            /\ UNCHANGED book
         \/ /\ r.type = "queryAll"
            /\ \E f \in Listings : Send([i \in DOMAIN f |-> Status(f[i])])
            /\ UNCHANGED book
  /\ UNCHANGED <<asks, up, expected, received, held, added, traded, heard,
                 filled, stopped, drops, beats, other>>

\* A trade, the end of the day, or the cancellation of a trade.
Event ==
  /\ LastSent < MaxSent
  /\ \E id \in Ids :
       \/ /\ Open(id)
          /\ LET s == IF traded[id] + 1 = Quantity THEN "filled"
                                                   ELSE "partial"
             IN  /\ book' = [book EXCEPT ![id] = s]
                 /\ traded' = [traded EXCEPT ![id] = @ + 1]
                 /\ Send(<<Report(id, s, 1)>>)
       \/ /\ Open(id)
          /\ book' = [book EXCEPT ![id] = "expired"]
          /\ Send(<<Report(id, "expired", 0)>>)
          /\ UNCHANGED traded
       \/ /\ traded[id] > 0
          /\ Send(<<Report(id, "busted", 1)>>)
          /\ UNCHANGED <<book, traded>>
  /\ UNCHANGED <<asks, up, expected, received, held, requests, added, heard,
                 filled, stopped, drops, beats, other>>

\* Only those that show the gateway a gap: the others change nothing.
Heartbeat ==
  /\ up
  /\ wire = <<>> /\ asks = <<>> /\ expected <= LastSent
  /\ beats < MaxBeats
  /\ beats' = beats + 1
  /\ Send(<<OtherMessage>>)
  /\ UNCHANGED <<asks, up, expected, received, held, ordersVars, drops, other>>

SendAgain ==
  /\ Resend
  /\ UNCHANGED <<ordersVars, drops, beats, other>>

Gateway  == Logon \/ From \/ Sort
Exchange == Serve \/ SendAgain \/ Heartbeat

Next ==
  \/ Gateway
  \/ Exchange
  \/ Event
  \/ Lose
  \/ Stop
  \/ \E id \in Ids : Add(id) \/ Change(id) \/ Delete(id) \/ Query(id)

Spec == Init /\ [][Next]_vars

\* quickfix works on what it has received and connects again by itself; the
\* exchange answers while it is connected.
FairSpec ==
  /\ Spec
  /\ WF_vars(Logon) /\ WF_vars(From) /\ WF_vars(Sort)
  /\ WF_vars(Serve) /\ WF_vars(SendAgain) /\ WF_vars(Heartbeat)

-----------------------------------------------------------------------------
(* Properties.                                                             *)

\* The type of the state; what is kept for later, or is on its way, was sent.
TypeOK ==
  /\ sent \in Seq(Messages)
  /\ wire \in Seq(1 .. LastSent)
  /\ asks \in Seq(Ask)
  /\ up \in BOOLEAN /\ stopped \in BOOLEAN
  /\ expected \in 1 .. LastSent + 1
  /\ received \in 0 .. LastSent
  /\ held \subseteq expected .. LastSent
  /\ requests \in Seq(Requests)
  /\ added \subseteq Ids
  /\ book \in [Ids -> BookStatus]
  /\ traded \in [Ids -> 0 .. Quantity]
  /\ heard \in [Ids -> Told]
  /\ filled \in [Ids -> Nat]
  /\ drops \in 0 .. MaxDrops /\ beats \in 0 .. MaxBeats
  /\ other \in 0 .. MaxOther

\* The strategies are told every trade once: lost connections, messages that
\* are sent again twice, and reports of a traded order that only answer a
\* query change nothing (Order_response, Is_duplicate_resend_request).
FillsToldOnce ==
  \A id \in Ids :
    /\ filled[id] <= traded[id]
    /\ expected > LastSent => filled[id] = traded[id]

\* An order that the strategies were told is over is over at the exchange,
\* also when it was a request that the exchange refused
\* (Convert_order_status, OrderCancelReject).
OverIsOver ==
  \A id \in Ids :
    heard[id] \in {"cancelled", "rejected"} =>
      book[id] \in {"filled", "cancelled", "rejected", "expired"}

\* However long the connection was lost, and although OrderManager asks for a
\* part of what is missing only, the gateway gets to the last message of the
\* exchange again and again.
AllReportsArrive == []<>(stopped \/ expected > LastSent)

\* appendResendRequestField: "CME allows to ask for 2500 messages at a time;
\* of more, only 2500 are asked for".  Counted are those that are missing.
WithinLimit ==
  \A i \in DOMAIN asks :
    LET a    == asks[i]
        last == IF a.to = 0 THEN a.high ELSE a.to
    IN  Cardinality((a.from .. last) \ (held \cup 1 .. expected - 1))
          <= MaxResend

=============================================================================
