--------------------------- MODULE IncrementFeed ---------------------------
(***************************************************************************)
(* The increment pipeline of one CME channel and the threads that run it:  *)
(*                                                                         *)
(*   - the feed thread (UDPReceiver's io_service) that runs                *)
(*     DatProcessor::Process_feed_data for the packets of both feeds;      *)
(*   - one detached thread per gap (DatProcessor::Start_tcp_replay) that   *)
(*     runs DatReplayer::Start_receive and Process_replay_data;            *)
(*   - the saver thread (DatSaver::Start_save), which waits on CmeData's   *)
(*     condition variable and handles the messages in order.               *)
(*                                                                         *)
(* DatArbitrator's check and CmeData's insertion take different mutexes:   *)
(* other threads run between the two.                                      *)
(***************************************************************************)
EXTENDS CmeData

CONSTANTS
  Copies,          \* datagrams of a packet the network can deliver (A and B)
  SnapshotSeqs,    \* LastMsgSeqNumProcessed values a snapshot can carry
  Replayer,        \* possible settings: TRUE when the channel has a TCP line
  FaultyReplay     \* the replay server may skip packets, hang up or fail

ASSUME FeedAssumption ==
  /\ Copies \in Nat
  /\ SnapshotSeqs \subseteq 0 .. LastSeq
  /\ Replayer \subseteq BOOLEAN
  /\ FaultyReplay \in BOOLEAN

VARIABLES
  copies,     \* datagrams still on their way, per sequence
  m_replayer, \* DatProcessor::m_replayer # nullptr
  feed,       \* the feed thread
  replay_pc,  \* the replay thread of the gap that starts at each sequence:
  replay_next, replay_end, \* it waits for [next, end)
  replay_pkt,              \* and holds this packet
  saver,      \* the saver thread
  first,      \* history: the first sequence accepted, 0 before
  start,      \* history: where the stream to the books begins, 0 before
  parsed      \* history: messages of each packet parsed into the books

dataVars == <<m_increment_datas, m_unreceived_seqs, m_last_seq, m_is_stopped>>
vars == <<m_current_sequence, m_lost_sequences, m_increment_datas,
          m_unreceived_seqs, m_last_seq, m_is_stopped, copies, m_replayer,
          feed, replay_pc, replay_next, replay_end, replay_pkt, saver, first,
          start, parsed>>
replay == <<replay_pc, replay_next, replay_end, replay_pkt>>

history == <<first, start, parsed>>

FeedPcs   == {"receive", "insert", "notify", "start_replay", "stop_notify",
              "done"}
ReplayPcs == {"none", "receive", "insert", "notify", "stop_notify", "done"}
SaverPcs  == {"first", "first_wait", "first_asleep", "recovery",
              "pick", "pick_wait", "pick_asleep", "convert", "remove", "done"}

FeedThread   == [pc : FeedPcs, pkt : Seqs, status : Seqs \cup {0}]
SaverThread  == [pc : SaverPcs, msg : Seqs,
                 recovery_first_seq : 0 .. LastSeq]

TypeOK ==
  /\ ArbitratorTypeOK
  /\ CmeDataTypeOK
  /\ copies \in [Seqs -> 0 .. Copies]
  /\ m_replayer \in BOOLEAN
  /\ feed \in FeedThread
  /\ replay_pc \in [Seqs -> ReplayPcs]
  /\ replay_next \in [Seqs -> Seqs]
  /\ replay_end \in [Seqs -> Seqs]
  /\ replay_pkt \in [Seqs -> Seqs]
  /\ saver \in SaverThread
  /\ first \in Seqs \cup {0}
  /\ start \in 0 .. LastSeq + 1
  /\ parsed \in [Seqs -> Nat]

Init ==
  /\ ArbitratorInit
  /\ CmeDataInit
  /\ copies = [s \in Seqs |-> Copies]
  /\ m_replayer \in Replayer
  /\ feed = [pc |-> "receive", pkt |-> 1, status |-> 0]
  /\ replay_pc = [b \in Seqs |-> "none"]
  /\ replay_next = [b \in Seqs |-> 1]
  /\ replay_end = [b \in Seqs |-> 1]
  /\ replay_pkt = [b \in Seqs |-> 1]
  /\ saver = [pc |-> "first", msg |-> 1, recovery_first_seq |-> 0]
  /\ first = 0
  /\ start = 0
  /\ parsed = [s \in Seqs |-> 0]

-----------------------------------------------------------------------------
(* The mutex and the condition variable of CmeData.                        *)

\* The saver tests and sleeps in two steps; in between it holds the mutex.
MutexFree == saver.pc \notin {"first_wait", "pick_wait"}

\* m_condition_variable.notify_all()
Woken(pc) == IF pc = "first_asleep" THEN "first"
             ELSE IF pc = "pick_asleep" THEN "pick" ELSE pc

Notify_all == saver' = [saver EXCEPT !.pc = Woken(@)]

\* DatProcessor::m_on_error is MarketManager::Stop, which starts with
\* DatSaver::Stop: m_is_stopped, then notify_all (no mutex is taken).
On_error ==
  /\ m_is_stopped' = TRUE
  /\ UNCHANGED <<arbitratorVars, cmeDataVars, copies, m_replayer, saver,
                 history>>

-----------------------------------------------------------------------------
(* The feed thread.                                                        *)

\* The A and the B feed deliver a datagram of this packet, in any order; a
\* datagram that never arrives is lost.
FeedReceive(seq) ==
  /\ feed.pc = "receive"
  /\ copies[seq] > 0
  /\ copies' = [copies EXCEPT ![seq] = @ - 1]
  /\ \E status \in Seqs \cup {0, SeqMax} :
       /\ Check_feed_packet(seq, status)
       /\ IF status = Discard
            THEN UNCHANGED <<feed, first>>
            ELSE /\ feed' = [pc |-> "insert", pkt |-> seq, status |-> status]
                 /\ first' = IF first = 0 THEN seq ELSE first
  /\ UNCHANGED <<dataVars, m_replayer, replay, saver, start, parsed>>

FeedInsert ==
  /\ feed.pc = "insert"
  /\ MutexFree
  /\ Insert_increment_data(feed.pkt)
  /\ feed' = [feed EXCEPT !.pc = "notify"]
  /\ UNCHANGED <<arbitratorVars, m_is_stopped, copies, m_replayer, replay,
                 saver, history>>

\* Mutant: no notify_all after the insertion.
FeedNotifyNobody ==
  /\ feed.pc = "notify"
  /\ feed' = [feed EXCEPT !.pc = IF feed.status > 0 THEN "start_replay"
                                                     ELSE "receive"]
  /\ UNCHANGED <<arbitratorVars, dataVars, copies, m_replayer, replay, saver,
                 history>>

FeedNotify ==
  /\ feed.pc = "notify"
  /\ feed' = [feed EXCEPT !.pc = IF feed.status > 0 THEN "start_replay"
                                                     ELSE "receive"]
  /\ Notify_all
  /\ UNCHANGED <<arbitratorVars, dataVars, copies, m_replayer, replay,
                 history>>

\* Start_tcp_replay(status, pkt): a new detached thread asks for
\* [status, pkt).  No two gaps start at the same sequence.
FeedStartReplay ==
  /\ feed.pc = "start_replay"
  /\ m_replayer
  /\ replay_pc' = [replay_pc EXCEPT ![feed.status] = "receive"]
  /\ replay_next' = [replay_next EXCEPT ![feed.status] = feed.status]
  /\ replay_end' = [replay_end EXCEPT ![feed.status] = feed.pkt]
  /\ feed' = [feed EXCEPT !.pc = "receive"]
  /\ UNCHANGED replay_pkt
  /\ UNCHANGED <<arbitratorVars, dataVars, copies, m_replayer, saver, history>>

\* Start_tcp_replay without a TCP line: the feed thread itself stops the
\* channel.
FeedNoReplayer ==
  /\ feed.pc = "start_replay"
  /\ ~m_replayer
  /\ On_error
  /\ feed' = [feed EXCEPT !.pc = "stop_notify"]
  /\ UNCHANGED replay

\* ... and ends with Stop_increments, which makes the feed thread exit.
FeedStopNotify ==
  /\ feed.pc = "stop_notify"
  /\ feed' = [feed EXCEPT !.pc = "done"]
  /\ Notify_all
  /\ UNCHANGED <<arbitratorVars, dataVars, copies, m_replayer, replay, history>>

-----------------------------------------------------------------------------
(* The replay thread of the gap that starts at b.                          *)

ReplayGoto(b, pc) ==
  /\ replay_pc' = [replay_pc EXCEPT ![b] = pc]
  /\ UNCHANGED <<replay_next, replay_end, replay_pkt>>

\* Mutant: the packet the request ends before is taken as well.
ReplayReceiveInclusive(b) ==
  /\ replay_pc[b] = "receive"
  /\ \E seq \in replay_next[b] .. replay_end[b] :
       /\ replay_next' = [replay_next EXCEPT ![b] = seq + 1]
       /\ \/ /\ Check_replay_packet(seq, Discard)
             /\ UNCHANGED <<replay_pc, replay_pkt>>
          \/ /\ Check_replay_packet(seq, 0)
             /\ replay_pc' = [replay_pc EXCEPT ![b] = "insert"]
             /\ replay_pkt' = [replay_pkt EXCEPT ![b] = seq]
  /\ UNCHANGED <<dataVars, copies, m_replayer, feed, replay_end, saver, history>>

\* On_recovery_data picks the next packet of the answer.  A faulty server
\* leaves packets out; TCP keeps the others in order.
ReplayReceive(b) ==
  /\ replay_pc[b] = "receive"
  /\ \E seq \in replay_next[b] .. (replay_end[b] - 1) :
       /\ ~FaultyReplay => seq = replay_next[b]
       /\ replay_next' = [replay_next EXCEPT ![b] = seq + 1]
       /\ \/ /\ Check_replay_packet(seq, Discard)
             /\ UNCHANGED <<replay_pc, replay_pkt>>
          \/ /\ Check_replay_packet(seq, 0)
             /\ replay_pc' = [replay_pc EXCEPT ![b] = "insert"]
             /\ replay_pkt' = [replay_pkt EXCEPT ![b] = seq]
  /\ UNCHANGED <<dataVars, copies, m_replayer, feed, replay_end, saver, history>>

ReplayInsert(b) ==
  /\ replay_pc[b] = "insert"
  /\ MutexFree
  /\ Insert_increment_data(replay_pkt[b])
  /\ ReplayGoto(b, "notify")
  /\ UNCHANGED <<arbitratorVars, m_is_stopped, copies, m_replayer, feed,
                 saver, history>>

ReplayNotify(b) ==
  /\ replay_pc[b] = "notify"
  /\ ReplayGoto(b, "receive")
  /\ Notify_all
  /\ UNCHANGED <<arbitratorVars, dataVars, copies, m_replayer, feed, history>>

\* The logout message, or the connection is closed: io_service runs out of
\* work and the thread ends, whatever it has received.
ReplayEnd(b) ==
  /\ replay_pc[b] = "receive"
  /\ FaultyReplay \/ replay_next[b] >= replay_end[b]
  /\ ReplayGoto(b, "done")
  /\ UNCHANGED <<arbitratorVars, dataVars, copies, m_replayer, feed, saver,
                 history>>

\* An exception: processor(nullptr, 0), hence m_on_error.
ReplayFail(b) ==
  /\ replay_pc[b] = "receive"
  /\ FaultyReplay
  /\ On_error
  /\ ReplayGoto(b, "stop_notify")
  /\ UNCHANGED feed

ReplayStopNotify(b) ==
  /\ replay_pc[b] = "stop_notify"
  /\ ReplayGoto(b, "done")
  /\ Notify_all
  /\ UNCHANGED <<arbitratorVars, dataVars, copies, m_replayer, feed, history>>

-----------------------------------------------------------------------------
(* The saver thread.                                                       *)

saverUnchanged == <<arbitratorVars, m_is_stopped, copies, m_replayer, feed,
                    replay, first>>

SaverGoto(from, to) ==
  /\ saver.pc = from
  /\ saver' = [saver EXCEPT !.pc = to]
  /\ UNCHANGED <<saverUnchanged, cmeDataVars, parsed>>

\* Get_increment_first_data_seq, with data: the loop head, the mutex and the
\* test in one step.  Sequence 1 means that nothing was missed.
SaverFirst ==
  /\ ~m_is_stopped
  /\ \E seq \in Seqs :
       /\ FirstStored(seq)
       /\ SaverGoto("first", IF seq = 1 THEN "pick" ELSE "recovery")
       /\ start' = IF seq = 1 THEN 1 ELSE 0

\* ... without data: it goes on to wait, still holding the mutex.
SaverFirstEmpty ==
  /\ ~m_is_stopped
  /\ ~HasData
  /\ SaverGoto("first", "first_wait")
  /\ UNCHANGED start

\* m_condition_variable.wait releases the mutex and sleeps.
SaverSleep ==
  /\ \/ SaverGoto("first_wait", "first_asleep")
     \/ SaverGoto("pick_wait", "pick_asleep")
  /\ UNCHANGED start

\* A condition variable may wake up by itself.
SaverSpuriousWakeup ==
  /\ saver.pc \in {"first_asleep", "pick_asleep"}
  /\ Notify_all
  /\ UNCHANGED <<saverUnchanged, cmeDataVars, start, parsed>>

\* Process_recovery_data sees a snapshot (RecoveryFeed says which) and
\* takes the LastMsgSeqNumProcessed of its first message: the books parsed
\* from here on must continue the snapshot.
SaverRecovery(seq) ==
  /\ saver.pc = "recovery"
  /\ ~m_is_stopped
  /\ saver' = [saver EXCEPT !.pc = "pick", !.recovery_first_seq = seq]
  /\ start' = IF first > seq THEN first ELSE seq + 1
  /\ UNCHANGED <<saverUnchanged, cmeDataVars, parsed>>

SaverPick(seq) ==
  /\ saver.pc = "pick"
  /\ ~m_is_stopped
  /\ Available(seq)
  /\ saver' = [saver EXCEPT !.pc = "convert", !.msg = seq]
  /\ UNCHANGED <<saverUnchanged, cmeDataVars, start, parsed>>

SaverPickNothing ==
  /\ ~m_is_stopped
  /\ ~\E seq \in Seqs : Available(seq)
  /\ SaverGoto("pick", "pick_wait")
  /\ UNCHANGED start

\* Convert_message: dropped when not after the snapshot, else parsed into
\* the books (and sent to the database, Send_message).
SaverConvert ==
  /\ saver.pc = "convert"
  /\ saver' = [saver EXCEPT !.pc = "remove"]
  /\ parsed' = IF saver.msg <= saver.recovery_first_seq THEN parsed
               ELSE [parsed EXCEPT ![saver.msg] = @ + 1]
  /\ UNCHANGED <<saverUnchanged, cmeDataVars, start>>

\* Remove_past_message erases the picked message.
SaverRemove ==
  /\ saver.pc = "remove"
  /\ saver' = [saver EXCEPT !.pc = "pick"]
  /\ Remove_increment_data(saver.msg)
  /\ UNCHANGED <<saverUnchanged, start, parsed>>

\* Every loop of the saver ends when m_is_stopped is seen at its head.
SaverExit ==
  /\ m_is_stopped
  /\ \E pc \in {"first", "recovery", "pick"} : SaverGoto(pc, "done")
  /\ UNCHANGED start

-----------------------------------------------------------------------------
Feed ==
  \/ \E seq \in Seqs : FeedReceive(seq)
  \/ FeedInsert
  \/ FeedNotify
  \/ FeedStartReplay
  \/ FeedNoReplayer
  \/ FeedStopNotify

Replay(b) ==
  \/ ReplayReceive(b)
  \/ ReplayInsert(b)
  \/ ReplayNotify(b)
  \/ ReplayEnd(b)
  \/ ReplayFail(b)
  \/ ReplayStopNotify(b)

SaverStep ==
  \/ SaverFirst
  \/ SaverFirstEmpty
  \/ SaverSleep
  \/ \E seq \in Seqs : SaverPick(seq)
  \/ SaverPickNothing
  \/ SaverConvert
  \/ SaverRemove
  \/ SaverExit

Next ==
  \/ Feed
  \/ \E b \in Seqs : Replay(b)
  \/ SaverStep
  \/ \E seq \in SnapshotSeqs : SaverRecovery(seq)
  \/ SaverSpuriousWakeup

Spec == Init /\ [][Next]_vars

\* Threads that have something to do are scheduled, and a thread that waits for
\* m_increment_mutex gets it although the saver takes it again and again
\* (strong fairness: a spurious wakeup can always come first).  Nothing is assumed of
\* the network: FeedReceive has no fairness, so that any datagram may be lost,
\* nor of the snapshot (SaverRecovery).
Fairness ==
  /\ WF_vars(FeedNotify \/ FeedStartReplay)
  /\ SF_vars(FeedInsert)
  /\ \A b \in Seqs : WF_vars(Replay(b)) /\ SF_vars(ReplayInsert(b))
  /\ WF_vars(SaverStep)

FairSpec == Spec /\ Fairness

-----------------------------------------------------------------------------
(* Properties.                                                             *)

Joined == m_current_sequence # SeqMax

Lost(s)           == s \in m_lost_sequences
FeedHolds(s)      == feed.pc = "insert" /\ feed.pkt = s
ReplayHolds(b, s) == replay_pc[b] = "insert" /\ replay_pkt[b] = s

\* Passed by the arbitrator, not yet in CmeData.
InHand(s) == FeedHolds(s) \/ \E b \in Seqs : ReplayHolds(b, s)

\* What CmeData takes for received.
Received(s) ==
  /\ m_last_seq # SeqMax
  /\ first <= s
  /\ s <= m_last_seq
  /\ s \notin m_unreceived_seqs

\* The arbitrator and CmeData keep separate records of what is missing, under
\* separate mutexes.  Together they never forget a packet and never take one
\* twice: from the first packet to the highest, each is either lost (and may
\* still come), in the hands of one thread, or in CmeData; no other packet is.
NothingForgotten ==
  \A s \in Seqs :
    /\ Lost(s) \/ InHand(s) \/ Received(s)
         <=> Joined /\ first <= s /\ s <= m_current_sequence
    /\ Lost(s) => ~InHand(s) /\ ~Received(s)
    /\ InHand(s) => ~Received(s)
    /\ \A b \in Seqs :
         ReplayHolds(b, s) => /\ ~FeedHolds(s)
                              /\ \A c \in Seqs \ {b} : ~ReplayHolds(c, s)

\* No lost wakeup between Insert_increment_data, which notifies after it has
\* released the mutex, and the saver's test and wait: a saver asleep although
\* a message can be picked is about to be notified.
NotifyPending ==
  feed.pc = "notify" \/ \E b \in Seqs : replay_pc[b] = "notify"

NoLostWakeup ==
  /\ saver.pc = "first_asleep" /\ HasData => NotifyPending
  /\ saver.pc = "pick_asleep" /\ (\E s \in Seqs : Available(s))
       => NotifyPending

\* Each missing packet is requested by one replay thread: gaps that
\* Check_feed_packet reports never overlap.
ReplaysDisjoint ==
  \A b, c \in Seqs :
    b < c /\ replay_pc[b] # "none" /\ replay_pc[c] # "none"
      => replay_end[b] <= c

\* The books see an ordered stream: from the join point (the first packet, or
\* the packet after the snapshot) every message is parsed exactly once, in
\* sequence order and without a hole, whatever the network, the replay
\* server and the scheduler do.
Stream == INSTANCE OrderedStream WITH first <- start, handled <- parsed
StreamSpec == Stream!Spec

\* When the replay server answers, every packet up to the highest one seen
\* reaches the books: no gap blocks Pick_next_message for ever.
GapsClose ==
  \A s \in Seqs :
    (/\ start # 0 /\ start <= s
     /\ Joined /\ s <= m_current_sequence) ~> (parsed[s] = MsgCount[s])
=============================================================================
