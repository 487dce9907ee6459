--------------------------- MODULE ReplaySimulater ---------------------------
(***************************************************************************)
(* The replay of recorded market data against the orders of a strategy:    *)
(* the reader and the replayer of MarketSimulater (tmalpha/market) and of  *)
(* ReplaySimulater (tmalpha/replay), the order matcher they drive, the     *)
(* thread that receives orders (StrategyCommunicator), and the thread of   *)
(* the program that calls Stop.                                            *)
(*                                                                         *)
(* Reader and replayer share m_messages under m_mutex and wait on one      *)
(* condition variable; m_is_fetch_end and m_is_stopped are set without the *)
(* mutex.  Every section that holds the mutex is one action, except the    *)
(* replayer's test of m_is_fetch_end, after which the reader can set it    *)
(* before the replayer waits.                                              *)
(***************************************************************************)
EXTENDS OrderMatcher

CONSTANTS Stamps,     \* insertTime of the records in the range, oldest first
          PageSize,   \* persist.page_size
          LowMark,    \* the reader is woken below this many records (100)
          Book,       \* the L2s that a record can hold
          Wanted,     \* the orders that the strategy may give
          MaxRequests, \* bound on changes, deletions and queries
          MaxSpurious \* bound on wake-ups without a notification

\* Records are stamped one by one, in nanoseconds, when they are saved: no
\* two have the same stamp, or a page that ends between them loses one.
ASSUME ReplayAssumption ==
  /\ Stamps \in Seq(Nat \ {0})
  /\ \A i, j \in DOMAIN Stamps : i < j => Stamps[i] < Stamps[j]
  /\ PageSize \in Nat \ {0}
  /\ LowMark \in Nat \ {0}
  /\ Book \subseteq Contracts \X L2s
  /\ Wanted \subseteq Orders
  /\ MaxRequests \in Nat
  /\ MaxSpurious \in Nat

VARIABLES
  reader,    \* what Read does: see ReaderSteps
  replayer,  \* what Replay does: see ReplayerSteps
  page,      \* the records that Query returned to the reader
  last,      \* last_message
  messages,  \* m_messages
  fetchEnd,  \* m_is_fetch_end
  stopped,   \* m_is_stopped
  replayed,  \* history: the records consumed, in order
  requests, spurious

pumpVars ==
  <<reader, replayer, page, last, messages, fetchEnd, stopped, replayed>>
bounds   == <<requests, spurious>>
vars     == <<pumpVars, matcherVars, bounds>>

ReaderSteps   == {"test", "query", "push", "wait", "leave", "done"}
ReplayerSteps == {"test", "lock", "sleepy", "wait", "done"}

Records == DOMAIN Stamps

PumpTypeOK ==
  /\ reader \in ReaderSteps
  /\ replayer \in ReplayerSteps
  /\ page \in Seq(Records)
  /\ last \in {0} \cup {Stamps[r] : r \in Records}
  /\ messages \in Seq(Records)
  /\ fetchEnd \in BOOLEAN
  /\ stopped \in BOOLEAN
  /\ replayed \in Seq(Records)

\* The mutex is held between two actions only while the replayer is about to
\* wait.
Free == replayer # "sleepy"

Woken(t) == IF t = "wait" THEN "test" ELSE t

-----------------------------------------------------------------------------
\* Start of both threads.
Init ==
  /\ MatcherInit
  /\ reader = "test"
  /\ replayer = "test"
  /\ page = <<>>
  /\ last = 0
  /\ messages = <<>>
  /\ fetchEnd = FALSE
  /\ stopped = FALSE
  /\ replayed = <<>>
  /\ requests = 0
  /\ spurious = 0

Stop ==
  /\ stopped' = TRUE
  /\ UNCHANGED <<reader, replayer, page, last, messages, fetchEnd, replayed,
                 matcherVars, bounds>>

\* while(!m_is_stopped) of Read.  After a wait it has the mutex again.
ReadTest ==
  /\ reader = "test"
  /\ Free
  /\ reader' = IF stopped THEN "leave" ELSE "query"
  /\ UNCHANGED <<replayer, page, last, messages, fetchEnd, stopped, replayed,
                 matcherVars, bounds>>

\* Mutant: the last record is fetched again.
FetchedFromLast ==
  LET later == Remaining([i \in Records |-> i],
                         {i \in Records : Stamps[i] < last})
  IN  SubSeq(later, 1, IF Len(later) < PageSize THEN Len(later) ELSE PageSize)

\* Mongo::Query: the first PageSize records stamped later than last.
Fetched ==
  LET later == Remaining([i \in Records |-> i],
                         {i \in Records : Stamps[i] <= last})
  IN  SubSeq(later, 1, IF Len(later) < PageSize THEN Len(later) ELSE PageSize)

\* Mutant: a short page is taken for the end before it is pushed.
ReadFullPages ==
  /\ reader = "query"
  /\ page' = Fetched
  /\ IF Len(page') < PageSize
       THEN fetchEnd' = TRUE /\ reader' = "leave"
       ELSE reader' = "push" /\ UNCHANGED fetchEnd
  /\ UNCHANGED <<replayer, last, messages, stopped, replayed,
                 matcherVars, bounds>>

ReadQuery ==
  /\ reader = "query"
  /\ page' = Fetched
  /\ IF page' = <<>>
       THEN fetchEnd' = TRUE /\ reader' = "leave"
       ELSE reader' = "push" /\ UNCHANGED fetchEnd
  /\ UNCHANGED <<replayer, last, messages, stopped, replayed,
                 matcherVars, bounds>>

\* Mutants: it goes on from the number of the record; it wakes nobody.
PushByNumber ==
  /\ reader = "push"
  /\ Free
  /\ messages' = messages \o page
  /\ page' = <<>>
  /\ last' = messages'[Len(messages')]
  /\ replayer' = Woken(replayer)
  /\ reader' = "wait"
  /\ UNCHANGED <<fetchEnd, stopped, replayed, matcherVars, bounds>>

PushSilently ==
  /\ reader = "push"
  /\ Free
  /\ messages' = messages \o page
  /\ page' = <<>>
  /\ last' = Stamps[messages'[Len(messages')]]
  /\ reader' = "wait"
  /\ UNCHANGED <<replayer, fetchEnd, stopped, replayed, matcherVars,
                 bounds>>

\* It wakes the replayer and waits to be woken.
ReadPush ==
  /\ reader = "push"
  /\ Free
  /\ messages' = messages \o page
  /\ page' = <<>>
  /\ last' = Stamps[messages'[Len(messages')]]
  /\ replayer' = Woken(replayer)
  /\ reader' = "wait"
  /\ UNCHANGED <<fetchEnd, stopped, replayed, matcherVars, bounds>>

\* The last notify_all, made without the mutex.
ReadLeave ==
  /\ reader = "leave"
  /\ replayer' = Woken(replayer)
  /\ reader' = "done"
  /\ UNCHANGED <<page, last, messages, fetchEnd, stopped, replayed,
                 matcherVars, bounds>>

-----------------------------------------------------------------------------
\* while(!m_is_stopped) of Replay, before it takes the mutex.
ReplayTest ==
  /\ replayer = "test"
  /\ replayer' = IF stopped THEN "done" ELSE "lock"
  /\ UNCHANGED <<reader, page, last, messages, fetchEnd, stopped, replayed,
                 matcherVars, bounds>>

\* Sleep and Consume_one: the record goes to the market listener, and its L2
\* to the order matcher.  What the record holds is chosen here.
ReplayOne ==
  /\ replayer = "lock"
  /\ messages # <<>>
  /\ \E b \in Book : On_state_changed(b[1], b[2])
  /\ replayed' = Append(replayed, Head(messages))
  /\ messages' = Tail(messages)
  /\ reader' = IF Len(messages') < LowMark THEN Woken(reader) ELSE reader
  /\ replayer' = "test"
  /\ UNCHANGED <<page, last, fetchEnd, stopped, bounds>>

ReplayEmpty ==
  /\ replayer = "lock"
  /\ messages = <<>>
  /\ replayer' = IF fetchEnd THEN "done" ELSE "sleepy"
  /\ UNCHANGED <<reader, page, last, messages, fetchEnd, stopped, replayed,
                 matcherVars, bounds>>

ReplayWait ==
  /\ replayer = "sleepy"
  /\ replayer' = "wait"
  /\ UNCHANGED <<reader, page, last, messages, fetchEnd, stopped, replayed,
                 matcherVars, bounds>>

\* A condition variable may wake a thread that nobody notified.
Spurious ==
  /\ spurious < MaxSpurious
  /\ spurious' = spurious + 1
  /\ \/ reader = "wait" /\ reader' = "test" /\ UNCHANGED replayer
     \/ replayer = "wait" /\ replayer' = "test" /\ UNCHANGED reader
  /\ UNCHANGED <<page, last, messages, fetchEnd, stopped, replayed,
                 matcherVars, requests>>

-----------------------------------------------------------------------------
\* Check_order throws on an Add, a Change or a Query with a field that is
\* missing or invalid: the exchange is not asked, and the order is told as
\* OS_Rejected, whatever the exchange has of it.  (A request without a readable
\* id tells of no order and is left out.)
Reject_order(id) ==
  /\ told' = [told EXCEPT ![id] = "invalid"]
  /\ UNCHANGED <<working, ids, filled, canceled, states, lastId, changed>>

\* Order_request: an order is added once, and may be changed, deleted and
\* asked for at any time; any of these but a deletion may be invalid.
Strategy ==
  /\ UNCHANGED <<pumpVars, spurious>>
  /\ \/ /\ \E id \in Ids, o \in Wanted : Add(id, o)
        /\ UNCHANGED requests
     \/ /\ requests < MaxRequests
        /\ requests' = requests + 1
        /\ \E id \in Ids :
             \/ \E o \in Wanted : Change(id, o)
             \/ Delete(id)
             \/ Query(id)
             \/ Reject_order(id)

Reader   == ReadTest \/ ReadQuery \/ ReadPush \/ ReadLeave
Replayer == ReplayTest \/ ReplayOne \/ ReplayEmpty \/ ReplayWait

Next == Reader \/ Replayer \/ Spurious \/ Strategy \/ Stop

Spec == Init /\ [][Next]_vars

\* Both threads go on when they can; nobody has to wake them, stop them or
\* give orders.
FairSpec == Spec /\ WF_vars(Reader) /\ WF_vars(Replayer)

-----------------------------------------------------------------------------
MatcherTypeOK ==
  /\ working \in [DOMAIN working -> Entries]
  /\ ids \in Seq(Ids)
  /\ \A id \in DOMAIN filled :
       /\ filled[id].order \in Orders
       /\ filled[id].exchange \in Nat
       /\ filled[id].price \in Prices
       /\ \/ filled[id].order.market
          \/ ~Better(filled[id].order.side, filled[id].price,
                     filled[id].order.price)
  /\ canceled \in [DOMAIN canceled -> Nat]
  /\ Known \subseteq Ids
  /\ states \in [DOMAIN states -> L2s]
  /\ DOMAIN states \subseteq Contracts
  /\ lastId \in Nat
  /\ told \in [Ids -> Statuses]
  /\ changed \subseteq DOMAIN working

\* The variables hold what they are meant to hold; a limit order is not filled
\* at a price worse than its own.
TypeOK == PumpTypeOK /\ MatcherTypeOK

\* Read and Replay: whatever the pages and the wake-ups, the records are
\* replayed in the order of the database, none left out and none twice; the
\* next ones wait in m_messages, and those after them in the reader's page.
ReplaysInOrder ==
  LET taken == replayed \o messages \o page
  IN  /\ Len(taken) <= Len(Stamps)
      /\ \A i \in DOMAIN taken : taken[i] = i

\* Replay ends by itself only when every record of the range was replayed.
EndsComplete ==
  replayer = "done" /\ ~stopped => Len(replayed) = Len(Stamps)

\* An order is in one of the three maps, under an exchange order id of its own
\* through changes, fills and cancellations, and m_working_order_ids, which
\* decides who is tried first, has each working order once and nothing else.
OneOf(S) == \A i, j \in DOMAIN S : i # j => S[i] # S[j]
Exchange(id) == IF id \in DOMAIN working THEN working[id].exchange
                ELSE IF id \in DOMAIN filled THEN filled[id].exchange
                ELSE canceled[id]
EveryOrderOnce ==
  /\ DOMAIN working \cap DOMAIN filled = {}
  /\ DOMAIN working \cap DOMAIN canceled = {}
  /\ DOMAIN filled \cap DOMAIN canceled = {}
  /\ OneOf(ids)
  /\ {ids[i] : i \in DOMAIN ids} = DOMAIN working
  /\ \A i, j \in Known : i # j => Exchange(i) # Exchange(j)

\* What the strategy last heard of an order is true of it, and it heard of
\* every order that the exchange has: Rematching runs in the replayer's thread,
\* between any two requests of the strategy's.  The exchange rejects requests
\* for orders it does not have working only.  An invalid Change or Query of a
\* working order is the exception: strategy_communicator.cc:138-144 tells it as
\* OS_Rejected, and its message alone shows that the order goes on working.
ToldIsTrue ==
  \A id \in Ids :
    /\ told[id] = "working" => id \in DOMAIN working
    /\ told[id] = "filled" => id \in DOMAIN filled
    /\ told[id] = "cancelled" => id \in DOMAIN canceled
    /\ id \in DOMAIN working => told[id] \in {"working", "invalid"}
    /\ id \in Known => told[id] # "none"

\* No order is left working that the market of its contract could fill: Add
\* and every L2 see to it, in two threads.  Change alone can put one there.
NoneLeftBehind ==
  \A id \in DOMAIN working \ changed :
    LET o == working[id].order
    IN  o.contract \in DOMAIN states =>
          ~Is_price_matching(o, states[o.contract])

\* What is in the range is replayed: the reader and the replayer never both
\* wait while records are left.  (That the replayer then ends is another
\* matter: see the README.)
AllReplayed == <>(stopped \/ Len(replayed) = Len(Stamps))

=============================================================================
