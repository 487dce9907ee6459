--------------------------- MODULE MarketManager ---------------------------
(***************************************************************************)
(* cme/market/market_manager.cc: the threads of a CME channel, from Start  *)
(* to Stop, and the UDP receivers (core/udp/udp_receiver.cc) that three of *)
(* them run.  What the threads do with the data is in IncrementFeed,       *)
(* RecoveryFeed and MarketBooks.                                           *)
(*                                                                         *)
(* Start, Stop, On_definition_end and On_recovery_end are lists of calls:  *)
(* start a thread, or stop one.  They run on the thread that makes them,   *)
(* which may be one of those that they stop; calls[t] is what thread t has *)
(* still to do, and step[t] how far it is with the first of them.          *)
(*                                                                         *)
(* A thread is stopped by closing its sockets (or by the flag of the       *)
(* saver), by a signal whose handler calls pthread_exit, and by a join.    *)
(*                                                                         *)
(* The channel has an address for each of its three feeds.  A thread and   *)
(* its id (m_tid, m_ptid) are assigned in one step.  The signal ends the   *)
(* thread as is meant, whatever frames it unwinds.  MarketManager::Stop in *)
(* a replay thread runs in a catch handler, or is called once more by one: *)
(* in both cases an exception in it ends the program.                      *)
(***************************************************************************)
EXTENDS Naturals, Sequences

CONSTANT Replays   \* threads of DatProcessor::Start_tcp_replay (bound)

UdpFeeds == {"increments", "definitions", "recoveries"}
Workers  == UdpFeeds \cup {"saver"}

ASSUME ThreadAssumption == Replays \cap (Workers \cup {"main"}) = {}

Threads == Workers \cup Replays \cup {"main"}

VARIABLES
  pc,            \* what each thread does when it has no call to make
  calls, step,   \* the calls it has to make
  handle,        \* the std::thread object of each worker
  open,          \* feeds whose sockets are open
  m_is_stopped,  \* DatSaver, CmeData: the saver is to end
  signalled,     \* threads with a SIGUSR1 on its way
  process,       \* the whole program
  m_tcp_replayer,  \* the channel has a TCP line
  early          \* history: Stop was called while Start was running

fixed       == <<m_tcp_replayer, early>>
managerVars == <<pc, calls, step, handle, open, m_is_stopped, signalled,
                 process, fixed>>

Begin(who) == [do |-> "start", who |-> who]
End(who)   == [do |-> "stop", who |-> who]
Callback   == [do |-> "callback", who |-> "main"]

ManagerStart == <<Begin("increments"), Begin("definitions"), Begin("saver")>>
ManagerStop  == <<End("saver"), End("recoveries"), End("definitions"),
                  End("increments"), Callback>>

On_definition_end == <<End("definitions"), Begin("recoveries")>>
On_recovery_end   == <<End("recoveries")>>

ManagerInit ==
  /\ pc = [t \in Threads |-> IF t = "main" THEN "running" ELSE "none"]
  /\ calls = [t \in Threads |-> IF t = "main" THEN ManagerStart ELSE <<>>]
  /\ step = [t \in Threads |-> 1]
  /\ handle = [w \in Workers |-> "null"]
  /\ open = UdpFeeds
  /\ m_is_stopped = FALSE
  /\ signalled = {}
  /\ process = "up"
  /\ m_tcp_replayer \in BOOLEAN
  /\ early = FALSE

Alive(t) == process = "up" /\ pc[t] \notin {"none", "ended"}
Free(t)  == Alive(t) /\ calls[t] = <<>>

-----------------------------------------------------------------------------
(* One step of a call that thread t makes.                                 *)

At(t, do, n) ==
  /\ Alive(t)
  /\ calls[t] # <<>>
  /\ Head(calls[t]).do = do
  /\ step[t] = n

Who(t) == Head(calls[t]).who

Continue(t) ==
  /\ step' = [step EXCEPT ![t] = @ + 1]
  /\ UNCHANGED calls

Return(t) ==
  /\ calls' = [calls EXCEPT ![t] = Tail(@)]
  /\ step' = [step EXCEPT ![t] = 1]

\* An exception that nobody in the thread catches ends the program; so does
\* one in the main thread, which leaves main() with threads to join.
Fail ==
  /\ process' = "failed"
  /\ UNCHANGED <<pc, calls, step, handle, open, m_is_stopped, signalled,
                 fixed>>

\* new std::thread: the thread runs before its object is assigned.
Spawn(t) ==
  /\ At(t, "start", 1)
  /\ pc' = [pc EXCEPT ![Who(t)] = IF Who(t) \in UdpFeeds THEN "opening"
                                                         ELSE "running"]
  /\ Continue(t)
  /\ UNCHANGED <<handle, open, m_is_stopped, signalled, process, fixed>>

Assign(t) ==
  /\ At(t, "start", 2)
  /\ handle' = [handle EXCEPT ![Who(t)] = "joinable"]
  /\ Return(t)
  /\ UNCHANGED <<pc, open, m_is_stopped, signalled, process, fixed>>

\* DatSaver::Stop: the flag, and notify_all without the mutex.  A saver that
\* has tested the flag and is not asleep yet does not hear it.
StopSaver(t) ==
  /\ At(t, "stop", 1)
  /\ Who(t) = "saver"
  /\ m_is_stopped' = TRUE
  /\ pc' = [pc EXCEPT !["saver"] = IF @ = "asleep" THEN "running" ELSE @]
  /\ Continue(t)
  /\ UNCHANGED <<handle, open, signalled, process, fixed>>

\* UDPReceiver::Stop asks every socket for its endpoint before it closes it:
\* of a closed one there is none, and local_endpoint() throws.
Close(t) ==
  /\ At(t, "stop", 1)
  /\ Who(t) \in open
  /\ open' = open \ {Who(t)}
  /\ Continue(t)
  /\ UNCHANGED <<pc, handle, m_is_stopped, signalled, process, fixed>>

CloseClosed(t) ==
  /\ At(t, "stop", 1)
  /\ Who(t) \in UdpFeeds \ open
  /\ Fail

\* Exit_work_thread, unless no thread was started.
NoThread(t) ==
  /\ At(t, "stop", 2)
  /\ handle[Who(t)] = "null"
  /\ Return(t)
  /\ UNCHANGED <<pc, handle, open, m_is_stopped, signalled, process, fixed>>

\* Mutant: only the threads of the feeds are signalled.
Signal_feeds(t) ==
  /\ At(t, "stop", 2)
  /\ handle[Who(t)] # "null"
  /\ IF Who(t) = t
       THEN /\ pc' = [pc EXCEPT ![t] = "ended"]
            /\ UNCHANGED signalled
       ELSE /\ signalled' = signalled \cup ({Who(t)} \cap UdpFeeds)
            /\ UNCHANGED pc
  /\ Continue(t)
  /\ UNCHANGED <<handle, open, m_is_stopped, process, fixed>>

\* pthread_kill(tid, SIGUSR1).  A thread that signals itself is gone before
\* the call returns; nothing happens to one that has ended.
Signal(t) ==
  /\ At(t, "stop", 2)
  /\ handle[Who(t)] # "null"
  /\ IF Who(t) = t
       THEN /\ pc' = [pc EXCEPT ![t] = "ended"]
            /\ UNCHANGED signalled
       ELSE /\ signalled' = signalled \cup {Who(t)}
            /\ UNCHANGED pc
  /\ Continue(t)
  /\ UNCHANGED <<handle, open, m_is_stopped, process, fixed>>

\* Mutant: the thread is detached.
Join_detached(t) ==
  /\ At(t, "stop", 3)
  /\ handle[Who(t)] = "joinable"
  /\ handle' = [handle EXCEPT ![Who(t)] = "joined"]
  /\ Return(t)
  /\ UNCHANGED <<pc, open, m_is_stopped, signalled, process, fixed>>

Join(t) ==
  /\ At(t, "stop", 3)
  /\ handle[Who(t)] = "joinable"
  /\ pc[Who(t)] = "ended"
  /\ handle' = [handle EXCEPT ![Who(t)] = "joined"]
  /\ Return(t)
  /\ UNCHANGED <<pc, open, m_is_stopped, signalled, process, fixed>>

\* join() of a thread that was joined throws.
JoinJoined(t) ==
  /\ At(t, "stop", 3)
  /\ handle[Who(t)] = "joined"
  /\ Fail

\* CmeMarket::Remove_market: the last channel ends the program.
ChannelStopped(t) ==
  /\ At(t, "callback", 1)
  /\ process' = "stopped"
  /\ UNCHANGED <<pc, calls, step, handle, open, m_is_stopped, signalled,
                 fixed>>

CallStep(t) ==
  \/ Spawn(t)
  \/ Assign(t)
  \/ StopSaver(t)
  \/ Close(t)
  \/ CloseClosed(t)
  \/ NoThread(t)
  \/ Signal(t)
  \/ Join(t)
  \/ JoinJoined(t)
  \/ ChannelStopped(t)

\* The handler of SIGUSR1 calls pthread_exit, wherever the thread is.
Die(t) ==
  /\ Alive(t)
  /\ t \in signalled
  /\ pc' = [pc EXCEPT ![t] = "ended"]
  /\ signalled' = signalled \ {t}
  /\ UNCHANGED <<calls, step, handle, open, m_is_stopped, process, fixed>>

-----------------------------------------------------------------------------
(* What the threads do besides.                                            *)

Goto(t, from, to) ==
  /\ Free(t)
  /\ pc[t] = from
  /\ pc' = [pc EXCEPT ![t] = to]
  /\ UNCHANGED <<step, handle, open, m_is_stopped, signalled, process,
                 m_tcp_replayer>>

Starting == \E n \in DOMAIN calls["main"] : calls["main"][n].do = "start"

Call(t, list) ==
  /\ calls' = [calls EXCEPT ![t] = list]
  /\ early' = IF list = ManagerStop THEN early \/ Starting ELSE early

\* Async_receive_from, when the thread begins and after every packet, asks
\* the socket for its endpoint.
Listen(f) ==
  /\ f \in open
  /\ Goto(f, "opening", "waiting") \/ Goto(f, "handling", "waiting")
  /\ UNCHANGED <<calls, early>>

ListenClosed(f) ==
  /\ f \notin open
  /\ Free(f)
  /\ pc[f] \in {"opening", "handling"}
  /\ Fail

\* The io_service is stopped: run() returns, and the thread ends.
RunReturns(f) ==
  /\ f \notin open
  /\ Goto(f, "waiting", "ended")
  /\ UNCHANGED <<calls, early>>

\* A packet arrives that needs no call of the manager.
ReceivePacket(f) ==
  /\ f \in open
  /\ Goto(f, "waiting", "handling")
  /\ UNCHANGED <<calls, early>>

\* The packet that completes the set of definitions, or of snapshots.
ReceiveLast(f, on_end) ==
  /\ f \in open
  /\ Goto(f, "waiting", "handling")
  /\ Call(f, on_end)

\* A gap without a TCP line stops the channel.
ReceiveGap ==
  /\ ~m_tcp_replayer
  /\ "increments" \in open
  /\ Goto("increments", "waiting", "handling")
  /\ Call("increments", ManagerStop)

\* ... with one it is requested by a new thread, which is detached.
StartReplay(r) ==
  /\ m_tcp_replayer
  /\ Free("increments")
  /\ pc["increments"] = "handling"
  /\ pc[r] = "none"
  /\ pc' = [pc EXCEPT ![r] = "running"]
  /\ UNCHANGED <<calls, step, handle, open, m_is_stopped, signalled, process,
                 fixed>>

ReplayEnd(r) ==
  /\ Goto(r, "running", "ended")
  /\ UNCHANGED <<calls, early>>

\* processor(nullptr, 0): MarketManager::Stop.
ReplayFail(r) ==
  /\ Goto(r, "running", "running")
  /\ Call(r, ManagerStop)

\* Pick_next_message tests the flag, then waits for the condition variable.
SaverTest ==
  /\ ~m_is_stopped
  /\ Goto("saver", "running", "testing")
  /\ UNCHANGED <<calls, early>>

SaverSleep ==
  /\ Goto("saver", "testing", "asleep")
  /\ UNCHANGED <<calls, early>>

\* Another thread inserts a message.
SaverWakeup ==
  /\ Goto("saver", "asleep", "running")
  /\ UNCHANGED <<calls, early>>

SaverEnd ==
  /\ m_is_stopped
  /\ Goto("saver", "running", "ended")
  /\ UNCHANGED <<calls, early>>

\* MarketApplication::Stop: the user ends the program.
UserStop ==
  /\ Goto("main", "running", "running")
  /\ Call("main", ManagerStop)

-----------------------------------------------------------------------------
Feed(f) == Listen(f) \/ ListenClosed(f) \/ RunReturns(f)

ManagerNext ==
  \/ \E t \in Threads : CallStep(t) \/ Die(t)
  \/ \E f \in UdpFeeds : Feed(f) \/ ReceivePacket(f)
  \/ ReceiveLast("definitions", On_definition_end)
  \/ ReceiveLast("recoveries", On_recovery_end)
  \/ ReceiveGap
  \/ \E r \in Replays : StartReplay(r) \/ ReplayEnd(r) \/ ReplayFail(r)
  \/ SaverTest \/ SaverSleep \/ SaverWakeup \/ SaverEnd
  \/ UserStop

ManagerSpec == ManagerInit /\ [][ManagerNext]_managerVars

\* Threads that can run do, and signals arrive.  Nothing is assumed of the
\* network, of the replay server, or of the user.
Fairness ==
  /\ \A t \in Threads : WF_managerVars(CallStep(t)) /\ WF_managerVars(Die(t))
  /\ \A f \in UdpFeeds : WF_managerVars(Feed(f))
  /\ WF_managerVars(SaverTest \/ SaverSleep \/ SaverEnd)

FairManagerSpec == ManagerSpec /\ Fairness

-----------------------------------------------------------------------------
(* Properties.                                                             *)

Stopping(t) == \E n \in DOMAIN calls[t] : calls[t][n] = Callback

\* When a Stop that was not called before Start was done reports that the
\* channel has stopped, none of its threads is left.
StopComplete ==
  process = "stopped" /\ ~early =>
    \A w \in Workers : pc[w] \in {"none", "ended"}

\* A Stop never hangs: not in the join of a saver that sleeps through the
\* notification, nor with another Stop that runs at the same time.
StopEnds ==
  \A t \in Threads :
    Stopping(t) ~> process # "up" \/ pc[t] = "ended"

\* introduce.md, 1.5.5: when all the definitions are there, a thread is
\* started that listens to the recovery feed.
RecoveryStarts ==
  calls["definitions"] # <<>>
    ~> \/ pc["recoveries"] # "none"
       \/ \E t \in Threads : Stopping(t)
       \/ process # "up"
=============================================================================
