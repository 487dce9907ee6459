------------------------- MODULE IncrementFeedProof -------------------------
(***************************************************************************)
(* Proofs about IncrementFeed for every number of packets, of datagrams    *)
(* per packet and of messages per packet.                                  *)
(***************************************************************************)
EXTENDS IncrementFeed, TLAPS

(* The inductive invariant, part by part.                                  *)

\* What the arbitrator knows, in terms of the first packet.
ArbitratorInv ==
  /\ Joined <=> first # 0
  /\ Joined => first <= m_current_sequence
  /\ \A s \in m_lost_sequences : Joined /\ first < s /\ s < m_current_sequence

\* What CmeData knows.  Before its first insertion the only packet accepted
\* is the one the feed thread is about to insert.
DataInv ==
  /\ ~Joined => m_last_seq = SeqMax /\ feed.pc # "insert"
  /\ m_last_seq = SeqMax =>
       /\ m_unreceived_seqs = {}
       /\ m_lost_sequences = {}
       /\ \A b \in Seqs : replay_pc[b] # "insert"
       /\ Joined => FeedHolds(m_current_sequence) /\ first = m_current_sequence
  /\ m_last_seq # SeqMax => first <= m_last_seq /\ m_last_seq <= m_current_sequence
  /\ \A u \in m_unreceived_seqs : first < u /\ u < m_last_seq

\* Messages are counted: stored, parsed, or not there yet.
CountInv ==
  \A s \in Seqs :
    /\ ~Received(s) => m_increment_datas[s] = 0 /\ parsed[s] = 0
    /\ Received(s) /\ start = 0 =>
         m_increment_datas[s] = MsgCount[s] /\ parsed[s] = 0
    /\ Received(s) /\ start # 0 /\ s < start => parsed[s] = 0
    /\ Received(s) /\ start # 0 /\ start <= s =>
         m_increment_datas[s] + parsed[s]
           = IF saver.pc = "remove" /\ saver.msg = s
               THEN MsgCount[s] + 1 ELSE MsgCount[s]

\* The message the saver holds is the oldest one and has no hole before it.
Picked(m) ==
  /\ Received(m)
  /\ m_increment_datas[m] > 0
  /\ \A s \in Seqs : first <= s /\ s < m =>
       Received(s) /\ m_increment_datas[s] = 0

SaverInv ==
  /\ start = 0 => saver.recovery_first_seq = 0
  /\ saver.pc \in {"first", "first_wait", "first_asleep", "recovery"} => start = 0
  /\ saver.pc = "recovery" => first # 0
  /\ saver.pc \in {"pick", "pick_wait", "pick_asleep", "convert", "remove"} => start # 0
  /\ start # 0 =>
       /\ first # 0
       /\ start = IF first > saver.recovery_first_seq
                    THEN first ELSE saver.recovery_first_seq + 1
  /\ saver.pc \in {"convert", "remove"} => Picked(saver.msg)

\* The gap the feed thread is about to request lies above every earlier one.
ReplayInv ==
  /\ feed.pc \in {"insert", "notify", "start_replay"} /\ feed.status # 0 =>
       /\ Joined /\ feed.pkt = m_current_sequence /\ feed.status < feed.pkt
       /\ \A b \in Seqs :
            replay_pc[b] # "none" => replay_end[b] <= feed.status
  /\ feed.pc = "start_replay" => feed.status # 0
  /\ \A b \in Seqs : replay_pc[b] # "none" =>
       Joined /\ b < replay_end[b] /\ replay_end[b] <= m_current_sequence
  /\ ReplaysDisjoint

IInv ==
  /\ TypeOK
  /\ ArbitratorInv
  /\ DataInv
  /\ NothingForgotten
  /\ CountInv
  /\ SaverInv
  /\ ReplayInv

\* Nothing to be had when the saver goes to sleep, and a notifier on its way
\* whenever something has come since.
WakeInv ==
  /\ saver.pc = "first_wait" => ~HasData
  /\ saver.pc = "pick_wait" => ~\E s \in Seqs : Available(s)
  /\ NoLostWakeup

-----------------------------------------------------------------------------
(* Type correctness.                                                       *)

ReplayTypeOK ==
  /\ replay_pc \in [Seqs -> ReplayPcs]
  /\ replay_next \in [Seqs -> Seqs]
  /\ replay_end \in [Seqs -> Seqs]
  /\ replay_pkt \in [Seqs -> Seqs]

LEMMA InitType == Init => TypeOK
<1>1. 1 \in Seqs /\ 0 \in Nat
  BY SeqAssumption DEF Seqs
<1>2. Init => m_replayer \in BOOLEAN
  BY FeedAssumption DEF Init
<1>3. Init => copies \in [Seqs -> 0 .. Copies]
  BY FeedAssumption DEF Init
<1>4. 0 \in 0 .. LastSeq /\ 0 \in 0 .. LastSeq + 1
  BY SeqAssumption
<1>5. Init => feed \in FeedThread /\ saver \in SaverThread
  BY <1>1, <1>4 DEF Init, FeedThread, FeedPcs, SaverThread, SaverPcs
<1>6. Init => ArbitratorTypeOK /\ CmeDataTypeOK
  <2>1. [s \in Seqs |-> 0] \in [Seqs -> Nat]
    OBVIOUS
  <2>2. Init => m_is_stopped \in BOOLEAN
    BY DEF Init, CmeDataInit
  <2>3. QED
    BY <2>1, <2>2
    DEF Init, ArbitratorInit, CmeDataInit, ArbitratorTypeOK, CmeDataTypeOK
<1>7. Init => ReplayTypeOK
  BY <1>1 DEF Init, ReplayTypeOK, ReplayPcs
<1>8. QED
  BY <1>2, <1>3, <1>4, <1>5, <1>6, <1>7 DEF Init, TypeOK, ReplayTypeOK

\* Insert_increment_data keeps the types of CmeData.
LEMMA InsertType ==
  ASSUME TypeOK, NEW s \in Seqs, Insert_increment_data(s)
  PROVE  /\ m_increment_datas' \in [Seqs -> Nat]
         /\ m_unreceived_seqs' \subseteq Seqs
         /\ m_last_seq' \in Seqs \cup {SeqMax}
<1>1. m_increment_datas' \in [Seqs -> Nat]
  <2>1. MsgCount[s] \in Nat
    BY MsgAssumption
  <2>2. QED
    BY <2>1 DEF TypeOK, CmeDataTypeOK, Insert_increment_data, Store
<1>2. ASSUME NEW u \in m_unreceived_seqs', u \notin m_unreceived_seqs
      PROVE  u \in Seqs
  <2>1. u \in (m_last_seq + 1) .. (s - 1) /\ m_last_seq \in Seqs
    BY <1>2 DEF Insert_increment_data, TypeOK, CmeDataTypeOK
  <2>2. QED
    BY <2>1, SeqAssumption DEF Seqs
<1>3. QED
  BY <1>1, <1>2 DEF TypeOK, CmeDataTypeOK, Insert_increment_data

\* notify_all keeps the type of the saver thread.
LEMMA NotifyType ==
  ASSUME TypeOK, Notify_all
  PROVE  saver' \in SaverThread
  BY DEF TypeOK, Notify_all, Woken, SaverThread, SaverPcs

LEMMA FeedType ==
  ASSUME TypeOK, Feed
  PROVE  TypeOK'
<1>1. ASSUME NEW seq \in Seqs, FeedReceive(seq) PROVE TypeOK'
  <2>1. PICK status \in Seqs \cup {0, SeqMax} :
          /\ Check_feed_packet(seq, status)
          /\ IF status = Discard
               THEN UNCHANGED <<feed, first>>
               ELSE /\ feed' = [pc |-> "insert", pkt |-> seq, status |-> status]
                    /\ first' = IF first = 0 THEN seq ELSE first
    BY <1>1 DEF FeedReceive
  <2>2. ArbitratorTypeOK'
    <3>1. m_current_sequence' \in Seqs \cup {SeqMax}
      BY <2>1
      DEF TypeOK, ArbitratorTypeOK, Check_feed_packet, NormalPacket,
          RepeatedPacket, FirstPacket, OldPacket, GapPacket, arbitratorVars
    <3>2. ASSUME NEW s \in m_lost_sequences', s \notin m_lost_sequences
          PROVE  s \in Seqs
      <4>1. /\ s \in (m_current_sequence + 1) .. (seq - 1)
            /\ m_current_sequence \in Seqs
        BY <2>1, <3>2
        DEF TypeOK, ArbitratorTypeOK, Check_feed_packet, NormalPacket,
            RepeatedPacket, FirstPacket, OldPacket, GapPacket, arbitratorVars
      <4>2. QED
        BY <4>1, SeqAssumption DEF Seqs
    <3>3. QED
      BY <3>1, <3>2 DEF ArbitratorTypeOK, TypeOK
  <2>3. feed' \in FeedThread /\ first' \in Seqs \cup {0}
    BY <2>1 DEF TypeOK, FeedThread, FeedPcs, Discard
  <2>4. copies' \in [Seqs -> 0 .. Copies]
    BY <1>1, FeedAssumption DEF FeedReceive, TypeOK
  <2>5. QED
    BY <1>1, <2>2, <2>3, <2>4
    DEF FeedReceive, TypeOK, CmeDataTypeOK, dataVars, replay
<1>2. ASSUME FeedInsert PROVE TypeOK'
  BY <1>2, InsertType
  DEF FeedInsert, TypeOK, ArbitratorTypeOK, CmeDataTypeOK, FeedThread,
      FeedPcs, arbitratorVars, history, replay
<1>3. ASSUME FeedNotify \/ FeedStopNotify PROVE TypeOK'
  BY <1>3, NotifyType
  DEF FeedNotify, FeedStopNotify, TypeOK, ArbitratorTypeOK, CmeDataTypeOK,
      FeedThread, FeedPcs, arbitratorVars, dataVars, history, replay
<1>4. ASSUME FeedStartReplay PROVE TypeOK'
  BY <1>4
  DEF FeedStartReplay, TypeOK, ArbitratorTypeOK, CmeDataTypeOK, FeedThread,
      FeedPcs, ReplayPcs, arbitratorVars, dataVars, history
<1>5. ASSUME FeedNoReplayer PROVE TypeOK'
  BY <1>5
  DEF FeedNoReplayer, On_error, TypeOK, ArbitratorTypeOK, CmeDataTypeOK,
      FeedThread, FeedPcs, arbitratorVars, cmeDataVars, history, replay
<1>6. QED
  BY <1>1, <1>2, <1>3, <1>4, <1>5 DEF Feed

LEMMA ReplayType ==
  ASSUME TypeOK, NEW b \in Seqs, Replay(b)
  PROVE  TypeOK'
<1>1. ASSUME ReplayReceive(b) PROVE TypeOK'
  <2>1. PICK seq \in replay_next[b] .. (replay_end[b] - 1) :
          /\ replay_next' = [replay_next EXCEPT ![b] = seq + 1]
          /\ \/ /\ Check_replay_packet(seq, Discard)
                /\ UNCHANGED <<replay_pc, replay_pkt>>
             \/ /\ Check_replay_packet(seq, 0)
                /\ replay_pc' = [replay_pc EXCEPT ![b] = "insert"]
                /\ replay_pkt' = [replay_pkt EXCEPT ![b] = seq]
    BY <1>1 DEF ReplayReceive
  <2>2. seq \in Seqs /\ seq + 1 \in Seqs
    <3>1. replay_next[b] \in Seqs /\ replay_end[b] \in Seqs
      BY DEF TypeOK
    <3>2. QED
      BY <2>1, <3>1, SeqAssumption DEF Seqs
  <2>3. /\ replay_next' \in [Seqs -> Seqs]
        /\ replay_pc' \in [Seqs -> ReplayPcs]
        /\ replay_pkt' \in [Seqs -> Seqs]
    BY <2>1, <2>2 DEF TypeOK, ReplayPcs
  <2>4. ArbitratorTypeOK'
    BY <2>1 DEF TypeOK, ArbitratorTypeOK, Check_replay_packet
  <2>5. QED
    BY <1>1, <2>3, <2>4
    DEF ReplayReceive, TypeOK, CmeDataTypeOK, dataVars, history
<1>2. ASSUME ReplayInsert(b) PROVE TypeOK'
  <2>1. replay_pkt[b] \in Seqs
    BY DEF TypeOK
  <2>2. ReplayTypeOK'
    BY <1>2 DEF ReplayInsert, ReplayGoto, TypeOK, ReplayTypeOK, ReplayPcs
  <2>3. QED
    BY <1>2, <2>1, <2>2, InsertType
    DEF ReplayInsert, TypeOK, ArbitratorTypeOK, CmeDataTypeOK, ReplayTypeOK,
        arbitratorVars, history
<1>3. ASSUME ReplayNotify(b) \/ ReplayStopNotify(b) PROVE TypeOK'
  <2>1. ReplayTypeOK'
    BY <1>3
    DEF ReplayNotify, ReplayStopNotify, ReplayGoto, TypeOK, ReplayTypeOK,
        ReplayPcs
  <2>2. QED
    BY <1>3, <2>1, NotifyType
    DEF ReplayNotify, ReplayStopNotify, TypeOK, ArbitratorTypeOK,
        CmeDataTypeOK, ReplayTypeOK, arbitratorVars, dataVars, history
<1>4. ASSUME ReplayEnd(b) \/ ReplayFail(b) PROVE TypeOK'
  <2>1. ReplayTypeOK'
    BY <1>4
    DEF ReplayEnd, ReplayFail, ReplayGoto, TypeOK, ReplayTypeOK, ReplayPcs
  <2>2. QED
    BY <1>4, <2>1
    DEF ReplayEnd, ReplayFail, On_error, TypeOK, ArbitratorTypeOK,
        CmeDataTypeOK, ReplayTypeOK, arbitratorVars, cmeDataVars, dataVars,
        history
<1>5. QED
  BY <1>1, <1>2, <1>3, <1>4 DEF Replay

\* The message the saver removes is there (SaverInv).
LEMMA SaverType ==
  ASSUME TypeOK, SaverInv,
         SaverStep \/ SaverSpuriousWakeup
           \/ \E seq \in SnapshotSeqs : SaverRecovery(seq)
  PROVE  TypeOK'
<1>1. ASSUME NEW from, NEW to \in SaverPcs, SaverGoto(from, to),
             start' \in 0 .. LastSeq + 1
      PROVE  TypeOK'
  BY <1>1
  DEF SaverGoto, TypeOK, ArbitratorTypeOK, CmeDataTypeOK, SaverThread,
      saverUnchanged, arbitratorVars, cmeDataVars, replay
<1>2. CASE SaverFirst
  <2>1. PICK seq \in Seqs :
          /\ SaverGoto("first", IF seq = 1 THEN "pick" ELSE "recovery")
          /\ start' = IF seq = 1 THEN 1 ELSE 0
    BY <1>2 DEF SaverFirst
  <2>2. start' \in 0 .. LastSeq + 1
    BY <2>1, SeqAssumption
  <2>3. QED
    BY <2>1, <2>2, <1>1 DEF SaverPcs
<1>3. CASE SaverFirstEmpty \/ SaverSleep \/ SaverPickNothing \/ SaverExit
  <2>1. start' \in 0 .. LastSeq + 1
    BY <1>3
    DEF SaverFirstEmpty, SaverSleep, SaverPickNothing, SaverExit, TypeOK
  <2>2. \E from, to \in SaverPcs : SaverGoto(from, to)
    BY <1>3
    DEF SaverFirstEmpty, SaverSleep, SaverPickNothing, SaverExit, SaverPcs
  <2>3. QED
    BY <1>1, <2>1, <2>2
<1>4. CASE SaverSpuriousWakeup
  BY <1>4, NotifyType
  DEF SaverSpuriousWakeup, TypeOK, ArbitratorTypeOK, CmeDataTypeOK,
      saverUnchanged, arbitratorVars, cmeDataVars, replay
<1>5. ASSUME NEW seq \in SnapshotSeqs, SaverRecovery(seq) PROVE TypeOK'
  <2>1. seq \in 0 .. LastSeq
    BY FeedAssumption
  <2>2. start' \in 0 .. LastSeq + 1
    <3>0. first \in Seqs \cup {0}
      BY DEF TypeOK
    <3>1. first \in 0 .. LastSeq /\ LastSeq \in Nat
      BY <3>0, SeqAssumption DEF Seqs
    <3>2. start' = IF first > seq THEN first ELSE seq + 1
      BY <1>5 DEF SaverRecovery
    <3>3. QED
      BY <2>1, <3>1, <3>2
  <2>3. saver' \in SaverThread
    BY <1>5, <2>1 DEF SaverRecovery, TypeOK, SaverThread, SaverPcs
  <2>4. QED
    BY <1>5, <2>2, <2>3
    DEF SaverRecovery, TypeOK, ArbitratorTypeOK, CmeDataTypeOK,
        saverUnchanged, arbitratorVars, cmeDataVars, replay
<1>6. ASSUME NEW seq \in Seqs, SaverPick(seq) PROVE TypeOK'
  BY <1>6
  DEF SaverPick, TypeOK, ArbitratorTypeOK, CmeDataTypeOK, SaverThread,
      SaverPcs, saverUnchanged, arbitratorVars, cmeDataVars, replay
<1>7. CASE SaverConvert
  BY <1>7
  DEF SaverConvert, TypeOK, ArbitratorTypeOK, CmeDataTypeOK, SaverThread,
      SaverPcs, saverUnchanged, arbitratorVars, cmeDataVars, replay
<1>8. CASE SaverRemove
  <2>1. m_increment_datas' \in [Seqs -> Nat]
    BY <1>8
    DEF SaverRemove, Remove_increment_data, SaverInv, Picked, TypeOK,
        CmeDataTypeOK, SaverThread
  <2>2. QED
    BY <1>8, <2>1
    DEF SaverRemove, Remove_increment_data, TypeOK, ArbitratorTypeOK,
        CmeDataTypeOK, SaverThread, SaverPcs, saverUnchanged, arbitratorVars,
        replay
<1>9. QED
  BY <1>2, <1>3, <1>4, <1>5, <1>6, <1>7, <1>8 DEF SaverStep
-----------------------------------------------------------------------------
(* The inductive invariant.                                                *)

LEMMA SeqFacts ==
  /\ LastSeq \in Nat
  /\ SeqMax \in Nat
  /\ SeqMax \notin Seqs
  /\ \A s \in Seqs : s \in Nat /\ 1 <= s /\ s <= LastSeq /\ s < SeqMax
  BY SeqAssumption DEF Seqs

\* The types the steps below need, without the Boolean variables.
LEMMA Types ==
  ASSUME TypeOK
  PROVE  /\ m_current_sequence \in Seqs \cup {SeqMax}
         /\ m_lost_sequences \subseteq Seqs
         /\ m_last_seq \in Seqs \cup {SeqMax}
         /\ m_unreceived_seqs \subseteq Seqs
         /\ m_increment_datas \in [Seqs -> Nat]
         /\ feed.pkt \in Seqs
         /\ feed.status \in Seqs \cup {0}
         /\ replay_pc \in [Seqs -> ReplayPcs]
         /\ replay_pkt \in [Seqs -> Seqs]
         /\ replay_next \in [Seqs -> Seqs]
         /\ replay_end \in [Seqs -> Seqs]
         /\ first \in Seqs \cup {0}
         /\ parsed \in [Seqs -> Nat]
         /\ saver.pc \in SaverPcs
         /\ saver.msg \in Seqs
         /\ saver.recovery_first_seq \in 0 .. LastSeq
  BY DEF TypeOK, ArbitratorTypeOK, CmeDataTypeOK, FeedThread, SaverThread

LEMMA StartType ==
  ASSUME TypeOK
  PROVE  start \in Nat
  BY SeqAssumption DEF TypeOK

LEMMA InitIInv == Init => IInv
<1> SUFFICES ASSUME Init PROVE IInv
  OBVIOUS
<1>1. TypeOK
  BY InitType
<1>2. /\ m_current_sequence = SeqMax /\ m_lost_sequences = {}
      /\ m_last_seq = SeqMax /\ m_unreceived_seqs = {}
      /\ m_increment_datas = [s \in Seqs |-> 0]
      /\ parsed = [s \in Seqs |-> 0]
      /\ first = 0 /\ start = 0
      /\ feed.pc = "receive" /\ saver.pc = "first"
      /\ saver.recovery_first_seq = 0
      /\ replay_pc = [b \in Seqs |-> "none"]
  BY DEF Init, ArbitratorInit, CmeDataInit
<1>3. QED
  BY <1>1, <1>2
  DEF IInv, ArbitratorInv, DataInv, NothingForgotten, CountInv, SaverInv,
      ReplayInv, ReplaysDisjoint, Joined, Lost, InHand, FeedHolds,
      ReplayHolds, Received

LEMMA FeedReceiveInv ==
  ASSUME IInv, NEW seq \in Seqs, FeedReceive(seq)
  PROVE  IInv'
<1>1. TypeOK'
  BY FeedType DEF IInv, Feed
<1>2. PICK status \in Seqs \cup {0, SeqMax} :
        /\ Check_feed_packet(seq, status)
        /\ IF status = Discard
             THEN UNCHANGED <<feed, first>>
             ELSE /\ feed' = [pc |-> "insert", pkt |-> seq, status |-> status]
                  /\ first' = IF first = 0 THEN seq ELSE first
  BY DEF FeedReceive
<1>3. /\ feed.pc = "receive"
      /\ UNCHANGED <<m_increment_datas, m_unreceived_seqs, m_last_seq,
                     replay_pc, replay_next, replay_end, replay_pkt,
                     saver, start, parsed>>
  BY DEF FeedReceive, dataVars, replay
<1>4. CASE status = Discard
  <2>1. UNCHANGED <<m_current_sequence, m_lost_sequences, feed, first>>
    BY <1>2, <1>4, SeqFacts, Types
    DEF Check_feed_packet, NormalPacket, RepeatedPacket, FirstPacket,
        OldPacket, GapPacket, arbitratorVars, Discard, IInv
  <2>2. QED
    BY <1>1, <1>3, <2>1
    DEF IInv, ArbitratorInv, DataInv, NothingForgotten, CountInv, SaverInv,
        ReplayInv, ReplaysDisjoint, Joined, Lost, InHand, FeedHolds,
        ReplayHolds, Received, Picked
<1>5. CASE status # Discard
  <2>1. /\ feed' = [pc |-> "insert", pkt |-> seq, status |-> status]
        /\ first' = IF first = 0 THEN seq ELSE first
    BY <1>2, <1>5
  <2>2. \/ /\ ~Joined /\ m_current_sequence' = seq /\ status = 0
           /\ m_lost_sequences' = m_lost_sequences
        \/ /\ Joined /\ seq = m_current_sequence + 1
           /\ m_current_sequence' = seq /\ status = 0
           /\ m_lost_sequences' = m_lost_sequences
        \/ /\ Joined /\ seq \in m_lost_sequences /\ status = 0
           /\ m_lost_sequences' = m_lost_sequences \ {seq}
           /\ m_current_sequence' = m_current_sequence
        \/ /\ Joined /\ m_current_sequence + 1 < seq
           /\ m_current_sequence' = seq /\ status = m_current_sequence + 1
           /\ m_lost_sequences' =
                m_lost_sequences \cup (m_current_sequence + 1) .. (seq - 1)
    BY <1>2, <1>5, SeqFacts, Types
    DEF Check_feed_packet, NormalPacket, RepeatedPacket, FirstPacket,
        OldPacket, GapPacket, arbitratorVars, Successor, Discard, IInv, Joined
  <2>3. \A s \in Seqs : Received(s)' <=> Received(s)
    BY <1>3, <2>1 DEF Received, IInv, ArbitratorInv, DataInv
  <2>4. \A s \in Seqs : InHand(s)' <=> InHand(s) \/ s = seq
    BY <1>3, <2>1 DEF InHand, FeedHolds, ReplayHolds
  <2>5. ArbitratorInv'
    BY <2>1, <2>2, SeqFacts, Types DEF IInv, ArbitratorInv, Joined
  <2>6. DataInv'
    BY <1>3, <2>1, <2>2, SeqFacts, Types
    DEF IInv, ArbitratorInv, DataInv, Joined, FeedHolds
  <2>7. NothingForgotten'
    <3>1. ~InHand(seq) /\ ~Received(seq)
      BY <2>2, SeqFacts, Types
      DEF IInv, ArbitratorInv, NothingForgotten, Joined, Lost
    <3>2. \A s \in Seqs : /\ FeedHolds(s)' <=> s = seq
                          /\ ~FeedHolds(s)
      BY <1>3, <2>1 DEF FeedHolds
    <3>3. \A b, s \in Seqs : ReplayHolds(b, s)' <=> ReplayHolds(b, s)
      BY <1>3 DEF ReplayHolds
    <3>4. \A b \in Seqs : ~ReplayHolds(b, seq)
      BY <3>1 DEF InHand
    <3>5. ASSUME NEW s \in Seqs
          PROVE  /\ (Lost(s) \/ InHand(s) \/ Received(s))'
                      <=> (Joined /\ first <= s /\ s <= m_current_sequence)'
                 /\ Lost(s)' => ~InHand(s)' /\ ~Received(s)'
                 /\ InHand(s)' => ~Received(s)'
      <4>1. /\ Lost(s) \/ InHand(s) \/ Received(s)
                <=> Joined /\ first <= s /\ s <= m_current_sequence
            /\ Lost(s) => ~InHand(s) /\ ~Received(s)
            /\ InHand(s) => ~Received(s)
        BY DEF IInv, NothingForgotten
      <4>2. /\ InHand(s)' <=> InHand(s) \/ s = seq
            /\ Received(s)' <=> Received(s)
        BY <2>3, <2>4
      <4>3. Joined' /\ first' # 0
        BY <2>2, <2>1, SeqFacts, Types DEF IInv, ArbitratorInv, Joined
      <4>4. QED
        BY <2>1, <2>2, <3>1, <4>1, <4>2, <4>3, SeqFacts, Types
        DEF IInv, ArbitratorInv, Joined, Lost
    <3>6. QED
      BY <3>2, <3>3, <3>4, <3>5 DEF IInv, NothingForgotten
  <2>8. CountInv'
    BY <1>3, <2>3 DEF IInv, CountInv
  <2>9. SaverInv'
    BY <1>3, <2>1, <2>3, Types DEF IInv, SaverInv, Picked
  <2>10. ReplayInv'
    BY <1>3, <2>1, <2>2, SeqFacts, Types
    DEF IInv, ReplayInv, ReplaysDisjoint, Joined
  <2>11. QED
    BY <1>1, <2>5, <2>6, <2>7, <2>8, <2>9, <2>10 DEF IInv
<1>6. QED
  BY <1>4, <1>5
\* Inserting a packet that a thread holds adds that packet, and no other, to
\* what CmeData has received: m_unreceived_seqs needs no help from the
\* arbitrator to stay exact.
LEMMA InsertReceived ==
  ASSUME IInv, NEW s \in Seqs, InHand(s), Insert_increment_data(s),
         UNCHANGED first
  PROVE  /\ \A t \in Seqs : Received(t)' <=> Received(t) \/ t = s
         /\ ~Received(s)
         /\ first # 0
         /\ m_last_seq' # SeqMax
         /\ first <= m_last_seq' /\ m_last_seq' <= m_current_sequence
         /\ \A u \in m_unreceived_seqs' : first < u /\ u < m_last_seq'
<1>1. /\ Joined /\ first <= s /\ s <= m_current_sequence /\ first # 0
      /\ ~Received(s)
  BY DEF IInv, NothingForgotten, ArbitratorInv
<1>2. CASE m_last_seq = SeqMax
  <2>1. s = first /\ m_last_seq' = s /\ m_unreceived_seqs' = {}
    BY <1>1, <1>2, SeqFacts
    DEF IInv, DataInv, InHand, FeedHolds, ReplayHolds, Insert_increment_data
  <2>2. QED
    BY <1>1, <1>2, <2>1, SeqFacts, Types DEF Received, IInv
<1>3. CASE m_last_seq # SeqMax /\ s < m_last_seq
  <2>1. m_last_seq' = m_last_seq /\ m_unreceived_seqs' = m_unreceived_seqs \ {s}
    BY <1>3, SeqFacts, Types DEF Insert_increment_data, IInv
  <2>2. s \in m_unreceived_seqs
    BY <1>1, <1>3, SeqFacts, Types DEF Received, IInv
  <2>3. QED
    BY <1>1, <1>3, <2>1, <2>2, SeqFacts, Types DEF Received, IInv, DataInv
<1>4. CASE m_last_seq # SeqMax /\ ~(s < m_last_seq)
  <2>1. /\ m_last_seq' = s
        /\ m_unreceived_seqs' =
             m_unreceived_seqs \cup (m_last_seq + 1) .. (s - 1)
    BY <1>4 DEF Insert_increment_data
  <2>2. m_last_seq < s
    BY <1>1, <1>4, SeqFacts, Types DEF Received, IInv, DataInv
  <2>3. \A u \in m_unreceived_seqs' : first < u /\ u < s
    BY <1>1, <1>4, <2>1, <2>2, SeqFacts, Types DEF IInv, DataInv
  <2>4. ASSUME NEW t \in Seqs PROVE Received(t)' <=> Received(t) \/ t = s
    <3>1. CASE t <= m_last_seq
      BY <1>4, <2>1, <2>2, <3>1, SeqFacts, Types DEF Received, IInv
    <3>2. CASE ~(t <= m_last_seq)
      BY <1>1, <1>4, <2>1, <2>2, <2>3, <3>2, SeqFacts, Types
      DEF Received, IInv
    <3>3. QED
      BY <3>1, <3>2
  <2>5. QED
    BY <1>1, <2>1, <2>2, <2>3, <2>4, <1>4, SeqFacts, Types DEF IInv, DataInv
<1>5. QED
  BY <1>2, <1>3, <1>4

\* What both insertions have in common.
LEMMA InsertInv ==
  ASSUME IInv, TypeOK', NEW s \in Seqs, InHand(s), Insert_increment_data(s),
         UNCHANGED <<m_current_sequence, m_lost_sequences, first, start,
                     parsed, saver>>,
         \A t \in Seqs : InHand(t)' <=> InHand(t) /\ t # s
  PROVE  /\ ArbitratorInv'
         /\ CountInv'
         /\ SaverInv'
         /\ \A t \in Seqs :
              /\ (Lost(t) \/ InHand(t) \/ Received(t))'
                   <=> (Joined /\ first <= t /\ t <= m_current_sequence)'
              /\ Lost(t)' => ~InHand(t)' /\ ~Received(t)'
              /\ InHand(t)' => ~Received(t)'
<1>1. /\ \A t \in Seqs : Received(t)' <=> Received(t) \/ t = s
      /\ ~Received(s)
  BY InsertReceived
<1>2. /\ MsgCount[s] \in Nat
      /\ m_increment_datas' =
           [m_increment_datas EXCEPT ![s] = @ + MsgCount[s]]
  BY MsgAssumption DEF Insert_increment_data, Store
<1>3. ArbitratorInv'
  BY DEF IInv, ArbitratorInv, Joined
<1>4. CountInv'
  <2>1. ASSUME NEW t \in Seqs, t # s
        PROVE  /\ Received(t)' <=> Received(t)
               /\ m_increment_datas'[t] = m_increment_datas[t]
    BY <1>1, <1>2, <2>1, Types DEF IInv
  <2>2. /\ m_increment_datas'[s] = MsgCount[s]
        /\ parsed[s] = 0
        /\ Received(s)'
    BY <1>1, <1>2, Types DEF IInv, CountInv
  <2>3. ~(saver.pc = "remove" /\ saver.msg = s)
    BY <1>1 DEF IInv, SaverInv, Picked
  <2>4. QED
    BY <1>2, <2>1, <2>2, <2>3 DEF IInv, CountInv
<1>5. SaverInv'
  <2>1. ASSUME saver.pc \in {"convert", "remove"} PROVE Picked(saver.msg)'
    <3>1. Picked(saver.msg) /\ saver.msg \in Seqs
      BY <2>1, Types DEF IInv, SaverInv
    <3>2. \A t \in Seqs :
            Received(t) => Received(t)' /\ m_increment_datas'[t] = m_increment_datas[t]
      BY <1>1, <1>2, Types DEF IInv
    <3>3. QED
      BY <3>1, <3>2 DEF Picked
  <2>2. QED
    BY <2>1 DEF IInv, SaverInv
<1>6. ASSUME NEW t \in Seqs
      PROVE  /\ (Lost(t) \/ InHand(t) \/ Received(t))'
                  <=> (Joined /\ first <= t /\ t <= m_current_sequence)'
             /\ Lost(t)' => ~InHand(t)' /\ ~Received(t)'
             /\ InHand(t)' => ~Received(t)'
  BY <1>1 DEF IInv, NothingForgotten, Lost, Joined
<1>7. QED
  BY <1>3, <1>4, <1>5, <1>6

LEMMA FeedInsertInv ==
  ASSUME IInv, FeedInsert
  PROVE  IInv'
<1> DEFINE s == feed.pkt
<1>1. TypeOK'
  BY FeedType DEF IInv, Feed
<1>2. /\ feed.pc = "insert"
      /\ Insert_increment_data(s)
      /\ feed' = [feed EXCEPT !.pc = "notify"]
      /\ UNCHANGED <<m_current_sequence, m_lost_sequences, first, start,
                     parsed, saver, replay_pc, replay_next, replay_end,
                     replay_pkt>>
  BY DEF FeedInsert, arbitratorVars, history, replay
<1>3. s \in Seqs /\ FeedHolds(s) /\ InHand(s)
  BY <1>2, Types DEF FeedHolds, InHand, IInv
<1>4. feed' \in FeedThread /\ feed'.pc = "notify" /\ feed'.pkt = s
        /\ feed'.status = feed.status
  BY <1>1, <1>2 DEF IInv, TypeOK, FeedThread
<1>5. /\ \A t \in Seqs : ~FeedHolds(t)'
      /\ \A b, t \in Seqs : ReplayHolds(b, t)' <=> ReplayHolds(b, t)
  BY <1>2, <1>4 DEF FeedHolds, ReplayHolds
<1>6. \A t \in Seqs : InHand(t)' <=> InHand(t) /\ t # s
  <2>1. \A b \in Seqs : ~ReplayHolds(b, s)
    BY <1>3 DEF IInv, NothingForgotten
  <2>2. \A t \in Seqs : FeedHolds(t) => t = s
    BY DEF FeedHolds
  <2>3. QED
    BY <1>5, <2>1, <2>2 DEF InHand
<1> HIDE DEF s
<1>7. DataInv'
  BY <1>2, <1>3, <1>4, InsertReceived, SeqFacts, Types
  DEF IInv, ArbitratorInv, DataInv, Joined
<1>8. NothingForgotten'
  BY <1>1, <1>2, <1>3, <1>5, <1>6, InsertInv DEF IInv, NothingForgotten
<1>9. ReplayInv'
  BY <1>2, <1>4 DEF IInv, ReplayInv, ReplaysDisjoint, Joined
<1>10. QED
  BY <1>1, <1>2, <1>3, <1>6, <1>7, <1>8, <1>9, InsertInv DEF IInv

LEMMA ReplayInsertInv ==
  ASSUME IInv, NEW b \in Seqs, ReplayInsert(b)
  PROVE  IInv'
<1> DEFINE s == replay_pkt[b]
<1>1. TypeOK'
  BY ReplayType DEF IInv, Replay
<1>2. /\ replay_pc[b] = "insert"
      /\ Insert_increment_data(s)
      /\ replay_pc' = [replay_pc EXCEPT ![b] = "notify"]
      /\ UNCHANGED <<m_current_sequence, m_lost_sequences, first, start,
                     parsed, saver, feed, replay_next, replay_end,
                     replay_pkt>>
  BY DEF ReplayInsert, ReplayGoto, arbitratorVars, history
<1>3. s \in Seqs /\ ReplayHolds(b, s) /\ InHand(s)
  BY <1>2, Types DEF ReplayHolds, InHand, IInv
<1>4. replay_pc'[b] = "notify" /\ \A c \in Seqs \ {b} : replay_pc'[c] = replay_pc[c]
  BY <1>2, Types DEF IInv
<1>5. /\ \A t \in Seqs : FeedHolds(t)' <=> FeedHolds(t)
      /\ \A c \in Seqs \ {b}, t \in Seqs : ReplayHolds(c, t)' <=> ReplayHolds(c, t)
      /\ \A t \in Seqs : ~ReplayHolds(b, t)'
  BY <1>2, <1>4 DEF FeedHolds, ReplayHolds
<1>6. \A t \in Seqs : InHand(t)' <=> InHand(t) /\ t # s
  <2>1. ~FeedHolds(s) /\ \A c \in Seqs \ {b} : ~ReplayHolds(c, s)
    BY <1>3 DEF IInv, NothingForgotten
  <2>2. \A t \in Seqs : ReplayHolds(b, t) => t = s
    BY DEF ReplayHolds
  <2>3. QED
    BY <1>5, <2>1, <2>2 DEF InHand
<1> HIDE DEF s
<1>7. DataInv'
  BY <1>2, <1>3, <1>4, InsertReceived, SeqFacts, Types
  DEF IInv, ArbitratorInv, DataInv, Joined
<1>8. NothingForgotten'
  BY <1>1, <1>2, <1>3, <1>5, <1>6, InsertInv DEF IInv, NothingForgotten
<1>9. ReplayInv'
  BY <1>2, <1>4 DEF IInv, ReplayInv, ReplaysDisjoint, Joined
<1>10. QED
  BY <1>1, <1>2, <1>3, <1>6, <1>7, <1>8, <1>9, InsertInv DEF IInv
LEMMA ReplayReceiveInv ==
  ASSUME IInv, NEW b \in Seqs, ReplayReceive(b)
  PROVE  IInv'
<1>1. TypeOK'
  BY ReplayType DEF IInv, Replay
<1>2. PICK seq \in replay_next[b] .. (replay_end[b] - 1) :
        /\ replay_next' = [replay_next EXCEPT ![b] = seq + 1]
        /\ \/ /\ Check_replay_packet(seq, Discard)
              /\ UNCHANGED <<replay_pc, replay_pkt>>
           \/ /\ Check_replay_packet(seq, 0)
              /\ replay_pc' = [replay_pc EXCEPT ![b] = "insert"]
              /\ replay_pkt' = [replay_pkt EXCEPT ![b] = seq]
  BY DEF ReplayReceive
<1>3. /\ replay_pc[b] = "receive"
      /\ UNCHANGED <<m_current_sequence, m_increment_datas, m_last_seq,
                     m_unreceived_seqs, feed, saver, first, start, parsed,
                     replay_end>>
  BY <1>2 DEF ReplayReceive, dataVars, history, Check_replay_packet
<1>4. seq \in Seqs
  BY <1>2, SeqFacts, Types DEF IInv, Seqs
<1>5. /\ Received(0)' <=> Received(0)
      /\ \A s \in Seqs : /\ Received(s)' <=> Received(s)
                         /\ FeedHolds(s)' <=> FeedHolds(s)
  BY <1>3 DEF Received, FeedHolds
<1>6. CASE seq \notin m_lost_sequences
  <2>1. UNCHANGED <<m_lost_sequences, replay_pc, replay_pkt>>
    BY <1>2, <1>6, SeqFacts DEF Check_replay_packet, Discard
  <2>2. QED
    BY <1>1, <1>3, <2>1
    DEF IInv, ArbitratorInv, DataInv, NothingForgotten, CountInv, SaverInv,
        ReplayInv, ReplaysDisjoint, Joined, Lost, InHand, FeedHolds,
        ReplayHolds, Received, Picked
<1>7. CASE seq \in m_lost_sequences
  <2>1. /\ m_lost_sequences' = m_lost_sequences \ {seq}
        /\ replay_pc' = [replay_pc EXCEPT ![b] = "insert"]
        /\ replay_pkt' = [replay_pkt EXCEPT ![b] = seq]
    BY <1>2, <1>7, SeqFacts DEF Check_replay_packet, Discard
  <2>2. /\ Joined /\ first < seq /\ seq < m_current_sequence
        /\ ~InHand(seq) /\ ~Received(seq)
    BY <1>4, <1>7 DEF IInv, ArbitratorInv, NothingForgotten, Lost
  <2>3. /\ \A t \in Seqs : ReplayHolds(b, t)' <=> t = seq
        /\ \A t \in Seqs : ~ReplayHolds(b, t)
        /\ \A c \in Seqs \ {b}, t \in Seqs :
             ReplayHolds(c, t)' <=> ReplayHolds(c, t)
    BY <1>3, <2>1, Types DEF IInv, ReplayHolds
  <2>4. \A t \in Seqs : InHand(t)' <=> InHand(t) \/ t = seq
    BY <1>5, <2>3 DEF InHand
  <2>5. ArbitratorInv'
    BY <1>3, <2>1 DEF IInv, ArbitratorInv, Joined
  <2>6. DataInv'
    BY <1>3, <1>7 DEF IInv, DataInv, Joined
  <2>7. NothingForgotten'
    <3>1. ~FeedHolds(seq) /\ \A c \in Seqs : ~ReplayHolds(c, seq)
      BY <1>4, <2>2 DEF InHand
    <3>2. ASSUME NEW t \in Seqs
          PROVE  /\ (Lost(t) \/ InHand(t) \/ Received(t))'
                      <=> (Joined /\ first <= t /\ t <= m_current_sequence)'
                 /\ Lost(t)' => ~InHand(t)' /\ ~Received(t)'
                 /\ InHand(t)' => ~Received(t)'
      <4>1. /\ Lost(t) \/ InHand(t) \/ Received(t)
                 <=> Joined /\ first <= t /\ t <= m_current_sequence
            /\ Lost(t) => ~InHand(t) /\ ~Received(t)
            /\ InHand(t) => ~Received(t)
        BY DEF IInv, NothingForgotten
      <4>2. Lost(t)' <=> Lost(t) /\ t # seq
        BY <2>1 DEF Lost
      <4>3. (Joined /\ first <= t /\ t <= m_current_sequence)'
              <=> Joined /\ first <= t /\ t <= m_current_sequence
        BY <1>3 DEF Joined
      <4>4. Lost(seq)
        BY <1>7 DEF Lost
      <4>5. QED
        BY <1>5, <2>2, <2>4, <4>1, <4>2, <4>3, <4>4
    <3>3. QED
      BY <1>5, <2>3, <3>1, <3>2 DEF IInv, NothingForgotten
  <2>8. CountInv'
    BY <1>3, <1>5 DEF IInv, CountInv
  <2>9. SaverInv'
    BY <1>3, <1>5, Types DEF IInv, SaverInv, Picked
  <2>10. ReplayInv'
    BY <1>3, <2>1, Types DEF IInv, ReplayInv, ReplaysDisjoint, Joined
  <2>11. QED
    BY <1>1, <2>5, <2>6, <2>7, <2>8, <2>9, <2>10 DEF IInv
<1>8. QED
  BY <1>6, <1>7

\* Steps that touch neither component: threads that notify, start or end, and
\* the saver where it only waits.
LEMMA QuietInv ==
  ASSUME IInv, TypeOK',
         UNCHANGED <<m_current_sequence, m_lost_sequences, m_increment_datas,
                     m_unreceived_seqs, m_last_seq, first, start, parsed>>,
         \A s \in Seqs : FeedHolds(s)' <=> FeedHolds(s),
         \A b, s \in Seqs : ReplayHolds(b, s)' <=> ReplayHolds(b, s),
         feed'.pc = "insert" <=> feed.pc = "insert",
         \A b \in Seqs : replay_pc'[b] = "insert" <=> replay_pc[b] = "insert",
         saver'.msg = saver.msg,
         saver'.pc = "remove" <=> saver.pc = "remove"
  PROVE  ArbitratorInv' /\ DataInv' /\ NothingForgotten' /\ CountInv'
<1>1. \A s \in Seqs : Received(s)' <=> Received(s)
  BY DEF Received
<1>2. \A s \in Seqs : InHand(s)' <=> InHand(s)
  BY DEF InHand
<1>3. ArbitratorInv'
  BY DEF IInv, ArbitratorInv, Joined
<1>4. DataInv'
  BY Types DEF IInv, DataInv, Joined
<1>5. NothingForgotten'
  BY <1>1, <1>2 DEF IInv, NothingForgotten, Lost, Joined
<1>6. CountInv'
  BY <1>1 DEF IInv, CountInv
<1>7. QED
  BY <1>3, <1>4, <1>5, <1>6

\* notify_all only moves a sleeping saver back to the head of its loop.
LEMMA NotifyInv ==
  ASSUME IInv, Notify_all, UNCHANGED <<first, start, m_increment_datas,
                                       m_last_seq, m_unreceived_seqs>>
  PROVE  /\ SaverInv'
         /\ saver'.msg = saver.msg
         /\ saver'.pc = "remove" <=> saver.pc = "remove"
<1>1. /\ saver'.msg = saver.msg
      /\ saver'.recovery_first_seq = saver.recovery_first_seq
      /\ saver'.pc = Woken(saver.pc)
  BY DEF Notify_all, IInv, TypeOK, SaverThread
<1>2. \A m : Picked(m)' <=> Picked(m)
  BY DEF Picked, Received
<1>3. QED
  BY <1>1, <1>2 DEF IInv, SaverInv, Woken

LEMMA FeedQuietInv ==
  ASSUME IInv, FeedNotify \/ FeedStartReplay \/ FeedNoReplayer \/ FeedStopNotify
  PROVE  IInv'
<1>1. TypeOK'
  BY FeedType DEF IInv, Feed
<1>2. /\ UNCHANGED <<m_current_sequence, m_lost_sequences, m_increment_datas,
                     m_unreceived_seqs, m_last_seq, first, start, parsed,
                     replay_pkt>>
      /\ feed.pc # "insert" /\ feed'.pc # "insert"
      /\ feed'.pkt = feed.pkt /\ feed'.status = feed.status
  BY Types DEF FeedNotify, FeedStartReplay, FeedNoReplayer, FeedStopNotify,
     On_error, arbitratorVars, dataVars, cmeDataVars, history, replay, IInv,
     TypeOK, FeedThread
<1>3. \A b \in Seqs : replay_pc'[b] = "insert" <=> replay_pc[b] = "insert"
  <2>1. CASE FeedStartReplay
    <3>1. /\ feed.status \in Seqs
          /\ replay_pc' = [replay_pc EXCEPT ![feed.status] = "receive"]
      BY <2>1, Types DEF FeedStartReplay, IInv, ReplayInv
    <3>2. replay_pc[feed.status] = "none"
      BY <2>1, <3>1, SeqFacts, Types DEF FeedStartReplay, IInv, ReplayInv
    <3>3. QED
      BY <3>1, <3>2, Types DEF IInv
  <2>2. CASE ~FeedStartReplay
    BY <2>2 DEF FeedNotify, FeedNoReplayer, FeedStopNotify, replay
  <2>3. QED
    BY <2>1, <2>2
<1>4. /\ \A s \in Seqs : FeedHolds(s)' <=> FeedHolds(s)
      /\ \A b, s \in Seqs : ReplayHolds(b, s)' <=> ReplayHolds(b, s)
  BY <1>2, <1>3 DEF FeedHolds, ReplayHolds
<1>5. /\ SaverInv'
      /\ saver'.msg = saver.msg
      /\ saver'.pc = "remove" <=> saver.pc = "remove"
  <2>1. CASE Notify_all
    BY <1>2, <2>1, NotifyInv
  <2>2. CASE UNCHANGED saver
    BY <1>2, <2>2 DEF IInv, SaverInv, Picked, Received
  <2>3. QED
    BY <2>1, <2>2
    DEF FeedNotify, FeedStartReplay, FeedNoReplayer, FeedStopNotify, On_error
<1>6. ReplayInv'
  <2>1. CASE FeedStartReplay
    <3>1. /\ feed.pc = "start_replay" /\ feed'.pc = "receive"
          /\ feed.status \in Seqs
          /\ replay_pc' = [replay_pc EXCEPT ![feed.status] = "receive"]
          /\ replay_end' = [replay_end EXCEPT ![feed.status] = feed.pkt]
      BY <2>1, Types DEF FeedStartReplay, IInv, ReplayInv, TypeOK, FeedThread
    <3>2. /\ Joined /\ feed.pkt = m_current_sequence /\ feed.status < feed.pkt
          /\ \A b \in Seqs : replay_pc[b] # "none" =>
               b < replay_end[b] /\ replay_end[b] <= feed.status
      BY <3>1 DEF IInv, ReplayInv
    <3>3. \A b \in Seqs \ {feed.status} :
            replay_pc'[b] = replay_pc[b] /\ replay_end'[b] = replay_end[b]
      BY <3>1, Types DEF IInv
    <3>4. replay_pc'[feed.status] = "receive" /\ replay_end'[feed.status] = feed.pkt
      BY <3>1, Types DEF IInv
    <3>5. ASSUME NEW b \in Seqs, replay_pc'[b] # "none"
          PROVE  b < replay_end'[b] /\ replay_end'[b] <= m_current_sequence
      <4>1. CASE b = feed.status
        BY <3>2, <3>4, <4>1, SeqFacts, Types DEF IInv
      <4>2. CASE b # feed.status
        BY <3>3, <3>5, <4>2 DEF IInv, ReplayInv
      <4>3. QED
        BY <4>1, <4>2
    <3>6. ReplaysDisjoint'
      <4>1. SUFFICES ASSUME NEW b \in Seqs, NEW c \in Seqs, b < c,
                            replay_pc'[b] # "none", replay_pc'[c] # "none"
                     PROVE  replay_end'[b] <= c
        BY DEF ReplaysDisjoint
      <4>2. CASE b = feed.status
        <5>1. c # b /\ replay_pc[c] # "none" /\ c < replay_end[c]
                /\ replay_end[c] <= b
          BY <4>1, <4>2, <3>2, <3>3, SeqFacts
        <5>2. QED
          BY <4>1, <5>1, SeqFacts, Types DEF IInv
      <4>3. CASE b # feed.status /\ c = feed.status
        BY <4>1, <4>3, <3>2, <3>3
      <4>4. CASE b # feed.status /\ c # feed.status
        BY <4>1, <4>4, <3>3 DEF IInv, ReplayInv, ReplaysDisjoint
      <4>5. QED
        BY <4>2, <4>3, <4>4
    <3>7. QED
      BY <1>2, <3>1, <3>2, <3>5, <3>6 DEF ReplayInv, Joined
  <2>2. CASE ~FeedStartReplay
    <3>1. UNCHANGED <<replay_pc, replay_end>>
      BY <2>2 DEF FeedNotify, FeedNoReplayer, FeedStopNotify, replay
    <3>2. /\ feed'.pc \in {"notify", "start_replay"} => feed.pc = "notify"
          /\ feed'.pc = "start_replay" => feed.status # 0
      BY <2>2, Types
      DEF FeedNotify, FeedNoReplayer, FeedStopNotify, IInv, TypeOK, FeedThread
    <3>3. QED
      BY <1>2, <3>1, <3>2 DEF IInv, ReplayInv, ReplaysDisjoint, Joined
  <2>3. QED
    BY <2>1, <2>2
<1>7. ArbitratorInv' /\ DataInv' /\ NothingForgotten' /\ CountInv'
  BY <1>1, <1>2, <1>3, <1>4, <1>5, QuietInv
<1>8. QED
  BY <1>1, <1>5, <1>6, <1>7 DEF IInv
LEMMA ReplayQuietInv ==
  ASSUME IInv, NEW b \in Seqs,
         ReplayNotify(b) \/ ReplayEnd(b) \/ ReplayFail(b) \/ ReplayStopNotify(b)
  PROVE  IInv'
<1>1. TypeOK'
  BY ReplayType DEF IInv, Replay
<1>2. PICK pc \in ReplayPcs \ {"none", "insert"} : ReplayGoto(b, pc)
  BY DEF ReplayNotify, ReplayEnd, ReplayFail, ReplayStopNotify, ReplayPcs
<1>3. /\ UNCHANGED <<m_current_sequence, m_lost_sequences, m_increment_datas,
                     m_unreceived_seqs, m_last_seq, first, start, parsed,
                     feed, replay_end, replay_pkt>>
      /\ replay_pc[b] \notin {"none", "insert"}
  BY <1>2 DEF ReplayNotify, ReplayEnd, ReplayFail, ReplayStopNotify,
     ReplayGoto, On_error, arbitratorVars, dataVars, cmeDataVars, history
<1>4. replay_pc'[b] = pc /\ \A c \in Seqs \ {b} : replay_pc'[c] = replay_pc[c]
  BY <1>2, Types DEF ReplayGoto, IInv
<1>5. \A c \in Seqs : replay_pc'[c] = "insert" <=> replay_pc[c] = "insert"
  BY <1>2, <1>3, <1>4
<1>6. /\ \A s \in Seqs : FeedHolds(s)' <=> FeedHolds(s)
      /\ \A c, s \in Seqs : ReplayHolds(c, s)' <=> ReplayHolds(c, s)
  BY <1>3, <1>5 DEF FeedHolds, ReplayHolds
<1>7. /\ SaverInv'
      /\ saver'.msg = saver.msg
      /\ saver'.pc = "remove" <=> saver.pc = "remove"
  <2>1. CASE Notify_all
    BY <1>3, <2>1, NotifyInv
  <2>2. CASE UNCHANGED saver
    BY <1>3, <2>2 DEF IInv, SaverInv, Picked, Received
  <2>3. QED
    BY <2>1, <2>2
    DEF ReplayNotify, ReplayEnd, ReplayFail, ReplayStopNotify, On_error
<1>8. ReplayInv'
  BY <1>2, <1>3, <1>4 DEF IInv, ReplayInv, ReplaysDisjoint, Joined
<1>9. ArbitratorInv' /\ DataInv' /\ NothingForgotten' /\ CountInv'
  BY <1>1, <1>3, <1>5, <1>6, <1>7, QuietInv
<1>10. QED
  BY <1>1, <1>7, <1>8, <1>9 DEF IInv

\* The saver never touches the arbitrator, and of CmeData only the messages.
LEMMA SaverQuiet ==
  ASSUME IInv, TypeOK', UNCHANGED <<saverUnchanged, m_unreceived_seqs, m_last_seq>>
  PROVE  /\ ArbitratorInv' /\ DataInv' /\ NothingForgotten' /\ ReplayInv'
         /\ \A s \in Seqs : Received(s)' <=> Received(s)
         /\ first' = first
  BY DEF IInv, ArbitratorInv, DataInv, NothingForgotten, ReplayInv,
     ReplaysDisjoint, Joined, Lost, InHand, FeedHolds, ReplayHolds, Received,
     saverUnchanged, arbitratorVars, replay

\* A message that Pick_next_message returns has no hole before it: whatever
\* is missing below m_last_seq is in m_unreceived_seqs.
LEMMA AvailablePicked ==
  ASSUME IInv, NEW s \in Seqs, Available(s)
  PROVE  Picked(s)
<1>1. m_increment_datas[s] > 0 /\ Received(s)
  BY SeqFacts, Types DEF Available, FirstStored, IInv, CountInv
<1>2. ASSUME NEW u \in Seqs, first <= u, u < s
      PROVE  Received(u) /\ m_increment_datas[u] = 0
  <2>1. Received(u)
    BY <1>1, <1>2, SeqFacts, Types DEF Available, Received, IInv
  <2>2. m_increment_datas[u] = 0
    BY <1>2, SeqFacts, Types DEF Available, FirstStored, IInv
  <2>3. QED
    BY <2>1, <2>2
<1>3. QED
  BY <1>1, <1>2 DEF Picked

LEMMA SaverInvariant ==
  ASSUME IInv,
         SaverStep \/ SaverSpuriousWakeup
           \/ \E seq \in SnapshotSeqs : SaverRecovery(seq)
  PROVE  IInv'
<1>1. TypeOK'
  BY SaverType DEF IInv
<1>2. UNCHANGED <<saverUnchanged, m_unreceived_seqs, m_last_seq>>
  BY DEF SaverStep, SaverFirst, SaverFirstEmpty, SaverSleep, SaverPick,
     SaverPickNothing, SaverConvert, SaverRemove, SaverExit, SaverGoto,
     SaverSpuriousWakeup, SaverRecovery, Remove_increment_data, cmeDataVars
<1>3. /\ ArbitratorInv' /\ DataInv' /\ NothingForgotten' /\ ReplayInv'
      /\ \A s \in Seqs : Received(s)' <=> Received(s)
      /\ first' = first
  BY <1>1, <1>2, SaverQuiet
<1>4. SUFFICES CountInv' /\ SaverInv'
  BY <1>1, <1>3 DEF IInv
<1>5. CASE SaverFirst
  <2>1. PICK seq \in Seqs :
          /\ FirstStored(seq)
          /\ SaverGoto("first", IF seq = 1 THEN "pick" ELSE "recovery")
          /\ start' = IF seq = 1 THEN 1 ELSE 0
    BY <1>5 DEF SaverFirst
  <2>2. /\ saver.pc = "first" /\ start = 0
        /\ saver' = [saver EXCEPT !.pc = IF seq = 1 THEN "pick" ELSE "recovery"]
        /\ UNCHANGED <<m_increment_datas, parsed>>
    BY <2>1 DEF SaverGoto, cmeDataVars, IInv, SaverInv
  <2>3. /\ saver'.pc = IF seq = 1 THEN "pick" ELSE "recovery"
        /\ saver'.recovery_first_seq = 0
    BY <2>2 DEF IInv, TypeOK, SaverThread, SaverInv
  <2>4. Received(seq) /\ first # 0 /\ (seq = 1 => first = 1)
    BY <2>1, SeqFacts, Types
    DEF FirstStored, IInv, CountInv, ArbitratorInv, DataInv, Received
  <2>5. SaverInv'
    BY <1>3, <2>1, <2>3, <2>4 DEF SaverInv
  <2>6. CountInv'
    <3>1. ASSUME NEW s \in Seqs, Received(s)
          PROVE  /\ m_increment_datas[s] = MsgCount[s] /\ parsed[s] = 0
                 /\ MsgCount[s] \in Nat
      BY <2>2, <3>1, MsgAssumption DEF IInv, CountInv
    <3>2. saver'.pc # "remove"
      BY <2>3
    <3>3. \A s \in Seqs : ~Received(s) => m_increment_datas[s] = 0 /\ parsed[s] = 0
      BY DEF IInv, CountInv
    <3>4. QED
      BY <1>3, <2>2, <3>1, <3>2, <3>3 DEF CountInv
  <2>7. QED
    BY <2>5, <2>6
<1>6. CASE SaverFirstEmpty \/ SaverSleep \/ SaverPickNothing \/ SaverExit
  <2>1. /\ UNCHANGED <<start, parsed, m_increment_datas>>
        /\ saver'.msg = saver.msg
        /\ saver'.recovery_first_seq = saver.recovery_first_seq
        /\ \/ saver.pc \in {"first", "first_wait"}
              /\ saver'.pc \in {"first_wait", "first_asleep", "done"}
           \/ saver.pc \in {"pick", "pick_wait", "recovery"}
              /\ saver'.pc \in {"pick_wait", "pick_asleep", "done"}
              /\ (saver.pc = "recovery" => saver'.pc = "done")
    BY <1>6
    DEF SaverFirstEmpty, SaverSleep, SaverPickNothing, SaverExit, SaverGoto,
        cmeDataVars, IInv, TypeOK, SaverThread
  <2>2. QED
    BY <1>3, <2>1 DEF IInv, CountInv, SaverInv
<1>7. CASE SaverSpuriousWakeup
  <2>1. UNCHANGED <<start, parsed, m_increment_datas>> /\ Notify_all
    BY <1>7 DEF SaverSpuriousWakeup, cmeDataVars
  <2>2. /\ SaverInv'
        /\ saver'.msg = saver.msg
        /\ saver'.pc = "remove" <=> saver.pc = "remove"
    BY <1>2, <1>3, <2>1, NotifyInv
  <2>3. QED
    BY <1>3, <2>1, <2>2 DEF IInv, CountInv
<1>8. ASSUME NEW seq \in SnapshotSeqs, SaverRecovery(seq)
      PROVE  CountInv' /\ SaverInv'
  <2>1. /\ seq \in 0 .. LastSeq
        /\ saver.pc = "recovery"
        /\ saver' = [saver EXCEPT !.pc = "pick", !.recovery_first_seq = seq]
        /\ start' = IF first > seq THEN first ELSE seq + 1
        /\ UNCHANGED <<m_increment_datas, parsed>>
    BY <1>8, FeedAssumption DEF SaverRecovery, cmeDataVars
  <2>2. saver'.pc = "pick" /\ saver'.recovery_first_seq = seq
    BY <2>1 DEF IInv, TypeOK, SaverThread
  <2>3. start = 0 /\ first # 0
    BY <2>1 DEF IInv, SaverInv
  <2>4. SaverInv'
    BY <1>3, <2>1, <2>2, <2>3, SeqFacts, Types DEF SaverInv, IInv
  <2>5. CountInv'
    <3>1. \A s \in Seqs :
            /\ Received(s) => m_increment_datas[s] = MsgCount[s] /\ parsed[s] = 0
            /\ ~Received(s) => m_increment_datas[s] = 0 /\ parsed[s] = 0
            /\ MsgCount[s] \in Nat
      BY <2>3, MsgAssumption DEF IInv, CountInv
    <3>2. QED
      BY <1>3, <2>1, <2>2, <3>1 DEF CountInv
  <2>6. QED
    BY <2>4, <2>5
<1>9. ASSUME NEW seq \in Seqs, SaverPick(seq)
      PROVE  CountInv' /\ SaverInv'
  <2>1. /\ saver.pc = "pick" /\ Available(seq)
        /\ saver' = [saver EXCEPT !.pc = "convert", !.msg = seq]
        /\ UNCHANGED <<m_increment_datas, start, parsed>>
    BY <1>9 DEF SaverPick, cmeDataVars
  <2>2. /\ saver'.pc = "convert" /\ saver'.msg = seq
        /\ saver'.recovery_first_seq = saver.recovery_first_seq
    BY <2>1 DEF IInv, TypeOK, SaverThread
  <2>3. Picked(seq)
    BY <2>1, AvailablePicked
  <2>4. Picked(seq)'
    BY <1>3, <2>1, <2>3 DEF Picked
  <2>5. SaverInv'
    BY <1>3, <2>1, <2>2, <2>4 DEF IInv, SaverInv
  <2>6. CountInv'
    BY <1>3, <2>1, <2>2 DEF IInv, CountInv
  <2>7. QED
    BY <2>5, <2>6
<1>10. CASE SaverConvert
  <2>1. /\ saver.pc = "convert"
        /\ saver' = [saver EXCEPT !.pc = "remove"]
        /\ parsed' = IF saver.msg <= saver.recovery_first_seq THEN parsed
                     ELSE [parsed EXCEPT ![saver.msg] = @ + 1]
        /\ UNCHANGED <<m_increment_datas, start>>
    BY <1>10 DEF SaverConvert, cmeDataVars
  <2>2. /\ saver'.pc = "remove" /\ saver'.msg = saver.msg
        /\ saver'.recovery_first_seq = saver.recovery_first_seq
    BY <2>1 DEF IInv, TypeOK, SaverThread
  <2>3. Picked(saver.msg) /\ start # 0
    BY <2>1 DEF IInv, SaverInv
  <2>4. SaverInv'
    <3>1. PICK m \in Seqs : m = saver.msg
      BY Types DEF IInv
    <3>2. Picked(m)'
      BY <1>3, <2>1, <2>3, <3>1 DEF Picked
    <3>3. QED
      BY <1>3, <2>1, <2>2, <3>1, <3>2 DEF IInv, SaverInv
  <2>5. saver.msg <= saver.recovery_first_seq <=> saver.msg < start
    BY <2>3, SeqFacts, Types DEF IInv, SaverInv, Picked, Received
  <2>6. CountInv'
    <3>1. ASSUME NEW s \in Seqs, s # saver.msg
          PROVE  parsed'[s] = parsed[s]
      BY <2>1, <3>1, Types DEF IInv
    <3>2. CASE saver.msg < start
      <4>1. parsed' = parsed
        BY <2>1, <2>5, <3>2
      <4>2. ASSUME NEW s \in Seqs, start <= s
            PROVE  s # saver.msg
        BY <3>2, <4>2, SeqFacts, Types, StartType DEF IInv
      <4>3. saver.pc # "remove"
        BY <2>1
      <4>4. QED
        BY <1>3, <2>1, <2>2, <2>3, <4>1, <4>2, <4>3 DEF IInv, CountInv
    <3>3. CASE ~(saver.msg < start)
      <4>1. parsed'[saver.msg] = parsed[saver.msg] + 1
        BY <2>1, <2>5, <3>3, Types DEF IInv
      <4>2. Received(saver.msg) /\ start # 0 /\ saver.msg \in Seqs
        BY <2>3, Types DEF IInv, Picked
      <4>3. m_increment_datas[saver.msg] + parsed[saver.msg]
              = MsgCount[saver.msg]
        BY <2>1, <3>3, <4>2, SeqFacts, Types, StartType DEF IInv, CountInv
      <4>4. ASSUME NEW s \in Seqs, s = saver.msg
            PROVE  /\ ~(s < start) /\ Received(s)'
                   /\ m_increment_datas'[s] + parsed'[s] = MsgCount[s] + 1
        <5>1. /\ parsed[s] \in Nat /\ m_increment_datas[s] \in Nat
              /\ MsgCount[s] \in Nat
          BY Types, MsgAssumption DEF IInv
        <5>2. QED
          BY <1>3, <2>1, <3>3, <4>1, <4>2, <4>3, <4>4, <5>1
      <4>5. \A s \in Seqs : s # saver.msg => parsed'[s] = parsed[s]
        BY <3>1
      <4>6. QED
        BY <1>3, <2>1, <2>2, <2>3, <4>4, <4>5 DEF IInv, CountInv
    <3>4. QED
      BY <3>2, <3>3
  <2>7. QED
    BY <2>4, <2>6
<1>11. CASE SaverRemove
  <2>1. /\ saver.pc = "remove"
        /\ saver' = [saver EXCEPT !.pc = "pick"]
        /\ m_increment_datas' = [m_increment_datas EXCEPT ![saver.msg] = @ - 1]
        /\ UNCHANGED <<start, parsed>>
    BY <1>11 DEF SaverRemove, Remove_increment_data
  <2>2. /\ saver'.pc = "pick"
        /\ saver'.recovery_first_seq = saver.recovery_first_seq
    BY <2>1 DEF IInv, TypeOK, SaverThread
  <2>3. Picked(saver.msg) /\ start # 0 /\ saver.msg \in Seqs
    BY <2>1, Types DEF IInv, SaverInv
  <2>4. SaverInv'
    BY <1>3, <2>1, <2>2 DEF IInv, SaverInv
  <2>5. CountInv'
    <3>1. /\ \A s \in Seqs \ {saver.msg} :
               m_increment_datas'[s] = m_increment_datas[s]
          /\ m_increment_datas'[saver.msg] = m_increment_datas[saver.msg] - 1
      BY <2>1, <2>3, Types DEF IInv
    <3>2. QED
      BY <1>3, <2>1, <2>2, <2>3, <3>1, Types, MsgAssumption
      DEF IInv, CountInv, Picked
  <2>6. QED
    BY <2>4, <2>5
<1>12. QED
  BY <1>5, <1>6, <1>7, <1>8, <1>9, <1>10, <1>11 DEF SaverStep

LEMMA Inductive ==
  ASSUME IInv, [Next]_vars
  PROVE  IInv'
<1>1. CASE Feed
  BY <1>1, FeedReceiveInv, FeedInsertInv, FeedQuietInv DEF Feed
<1>2. ASSUME NEW b \in Seqs, Replay(b) PROVE IInv'
  BY <1>2, ReplayReceiveInv, ReplayInsertInv, ReplayQuietInv DEF Replay
<1>3. CASE SaverStep \/ SaverSpuriousWakeup
             \/ \E seq \in SnapshotSeqs : SaverRecovery(seq)
  BY <1>3, SaverInvariant
<1>4. CASE UNCHANGED vars
  BY <1>4
  DEF vars, IInv, TypeOK, ArbitratorTypeOK, CmeDataTypeOK, ArbitratorInv,
      DataInv, NothingForgotten, CountInv, SaverInv, Picked, ReplayInv,
      ReplaysDisjoint, Joined, Lost, InHand, FeedHolds, ReplayHolds, Received
<1>5. QED
  BY <1>1, <1>2, <1>3, <1>4 DEF Next

LEMMA Invariant == Spec => []IInv
<1>1. Init => IInv
  BY InitIInv
<1>2. IInv /\ [Next]_vars => IInv'
  BY Inductive
<1>3. QED
  BY <1>1, <1>2, PTL DEF Spec

-----------------------------------------------------------------------------
(* The theorems.                                                           *)

\* The mutexes, threads and containers of the pipeline stay within their
\* types: in particular Remove_past_message erases a message that is there.
THEOREM TypeCorrect == Spec => []TypeOK
<1>1. IInv => TypeOK
  BY DEF IInv
<1>2. QED
  BY <1>1, Invariant, PTL

\* DatArbitrator::Check_feed_packet, Check_replay_packet and
\* CmeData::Insert_increment_data together never forget a packet of the feeds
\* and never take one twice, however the threads interleave between the two
\* mutexes.
THEOREM Accounting == Spec => []NothingForgotten
<1>1. IInv => NothingForgotten
  BY DEF IInv
<1>2. QED
  BY <1>1, Invariant, PTL

\* DatProcessor::Start_tcp_replay never has two replay threads ask for the
\* same packet.
THEOREM Disjoint == Spec => []ReplaysDisjoint
<1>1. IInv => ReplaysDisjoint
  BY DEF IInv, ReplayInv
<1>2. QED
  BY <1>1, Invariant, PTL

-----------------------------------------------------------------------------
(* No lost wakeup.                                                         *)

\* Steps that leave the data and the saver alone and end no pending
\* notification.
LEMMA WakeQuiet ==
  ASSUME WakeInv, UNCHANGED <<saver, cmeDataVars>>,
         NotifyPending => NotifyPending'
  PROVE  WakeInv'
  BY DEF WakeInv, NoLostWakeup, cmeDataVars, HasData, Available, FirstStored

\* notify_all leaves no saver asleep.
LEMMA WakeNotify ==
  ASSUME IInv, WakeInv, Notify_all, UNCHANGED cmeDataVars
  PROVE  WakeInv'
<1>1. saver'.pc = Woken(saver.pc)
  BY DEF Notify_all, IInv, TypeOK, SaverThread
<1>2. /\ saver'.pc \notin {"first_asleep", "pick_asleep"}
      /\ saver'.pc \in {"first_wait", "pick_wait"} => saver'.pc = saver.pc
  BY <1>1 DEF Woken
<1>3. QED
  BY <1>2
  DEF WakeInv, NoLostWakeup, cmeDataVars, HasData, Available, FirstStored

LEMMA FeedWake ==
  ASSUME IInv, WakeInv, Feed
  PROVE  WakeInv'
<1>1. CASE \E seq \in Seqs : FeedReceive(seq)
  <2>1. feed.pc = "receive" /\ UNCHANGED <<saver, cmeDataVars, replay_pc>>
    BY <1>1 DEF FeedReceive, dataVars, cmeDataVars, replay
  <2>2. QED
    BY <2>1, WakeQuiet DEF NotifyPending
<1>2. CASE FeedInsert
  <2>1. saver.pc \notin {"first_wait", "pick_wait"} /\ saver' = saver
    BY <1>2 DEF FeedInsert, MutexFree
  <2>2. feed'.pc = "notify"
    BY <1>2 DEF FeedInsert, IInv, TypeOK, FeedThread
  <2>3. NotifyPending'
    BY <2>2 DEF NotifyPending
  <2>4. QED
    BY <2>1, <2>3 DEF WakeInv, NoLostWakeup
<1>3. CASE FeedNotify \/ FeedStopNotify
  BY <1>3, WakeNotify DEF FeedNotify, FeedStopNotify, dataVars, cmeDataVars
<1>4. CASE FeedStartReplay
  <2>1. /\ feed.pc = "start_replay" /\ UNCHANGED <<saver, cmeDataVars>>
        /\ replay_pc' = [replay_pc EXCEPT ![feed.status] = "receive"]
    BY <1>4 DEF FeedStartReplay, dataVars, cmeDataVars
  <2>2. feed.status \in Seqs /\ replay_pc[feed.status] = "none"
    <3>1. feed.status \in Seqs
      BY <2>1, Types DEF IInv, ReplayInv
    <3>2. ASSUME replay_pc[feed.status] # "none"
          PROVE  /\ feed.status < replay_end[feed.status]
                 /\ replay_end[feed.status] <= feed.status
                 /\ replay_end[feed.status] \in Seqs
      BY <2>1, <3>1, <3>2, Types DEF IInv, ReplayInv
    <3>3. QED
      BY <3>1, <3>2, SeqFacts
  <2>3. \A b \in Seqs : replay_pc[b] = "notify" => replay_pc'[b] = "notify"
    BY <2>1, <2>2, Types DEF IInv
  <2>4. NotifyPending => NotifyPending'
    BY <2>1, <2>3 DEF NotifyPending
  <2>5. QED
    BY <2>1, <2>4, WakeQuiet
<1>5. CASE FeedNoReplayer
  <2>1. /\ feed.pc = "start_replay"
        /\ UNCHANGED <<saver, cmeDataVars, replay_pc>>
    BY <1>5 DEF FeedNoReplayer, On_error, cmeDataVars, replay
  <2>2. QED
    BY <2>1, WakeQuiet DEF NotifyPending
<1>6. QED
  BY <1>1, <1>2, <1>3, <1>4, <1>5 DEF Feed

LEMMA ReplayWake ==
  ASSUME IInv, WakeInv, NEW b \in Seqs, Replay(b)
  PROVE  WakeInv'
<1>1. CASE ReplayReceive(b) \/ ReplayEnd(b) \/ ReplayFail(b)
  <2>1. /\ replay_pc[b] = "receive" /\ feed' = feed
        /\ UNCHANGED <<saver, cmeDataVars>>
        /\ \/ UNCHANGED replay_pc
           \/ \E pc \in ReplayPcs : replay_pc' = [replay_pc EXCEPT ![b] = pc]
    BY <1>1
    DEF ReplayReceive, ReplayEnd, ReplayFail, ReplayGoto, On_error, dataVars,
        cmeDataVars, ReplayPcs
  <2>2. \A c \in Seqs : replay_pc[c] = "notify" => replay_pc'[c] = "notify"
    BY <2>1, Types DEF IInv
  <2>3. QED
    BY <2>1, <2>2, WakeQuiet DEF NotifyPending
<1>2. CASE ReplayInsert(b)
  <2>1. saver.pc \notin {"first_wait", "pick_wait"} /\ saver' = saver
    BY <1>2 DEF ReplayInsert, MutexFree
  <2>2. replay_pc'[b] = "notify"
    BY <1>2, Types DEF ReplayInsert, ReplayGoto, IInv
  <2>3. NotifyPending'
    BY <2>2 DEF NotifyPending
  <2>4. QED
    BY <2>1, <2>3 DEF WakeInv, NoLostWakeup
<1>3. CASE ReplayNotify(b) \/ ReplayStopNotify(b)
  BY <1>3, WakeNotify
  DEF ReplayNotify, ReplayStopNotify, dataVars, cmeDataVars
<1>4. QED
  BY <1>1, <1>2, <1>3 DEF Replay

LEMMA SaverWake ==
  ASSUME IInv, WakeInv,
         SaverStep \/ SaverSpuriousWakeup
           \/ \E seq \in SnapshotSeqs : SaverRecovery(seq)
  PROVE  WakeInv'
<1>1. CASE SaverSpuriousWakeup
  BY <1>1, WakeNotify DEF SaverSpuriousWakeup
<1>2. CASE SaverFirstEmpty
  <2>1. ~HasData /\ saver'.pc = "first_wait" /\ UNCHANGED cmeDataVars
    BY <1>2 DEF SaverFirstEmpty, SaverGoto, IInv, TypeOK, SaverThread
  <2>2. QED
    BY <2>1 DEF WakeInv, NoLostWakeup, HasData, cmeDataVars
<1>3. CASE SaverPickNothing
  <2>1. /\ ~\E seq \in Seqs : Available(seq)
        /\ saver'.pc = "pick_wait" /\ UNCHANGED cmeDataVars
    BY <1>3 DEF SaverPickNothing, SaverGoto, IInv, TypeOK, SaverThread
  <2>2. QED
    BY <2>1 DEF WakeInv, NoLostWakeup, Available, FirstStored, cmeDataVars
<1>4. CASE SaverSleep
  <2>1. /\ \/ saver.pc = "first_wait" /\ saver'.pc = "first_asleep"
           \/ saver.pc = "pick_wait" /\ saver'.pc = "pick_asleep"
        /\ UNCHANGED cmeDataVars
    BY <1>4 DEF SaverSleep, SaverGoto, IInv, TypeOK, SaverThread
  <2>2. QED
    BY <2>1
    DEF WakeInv, NoLostWakeup, HasData, Available, FirstStored, cmeDataVars
<1>5. CASE \/ SaverFirst \/ SaverConvert \/ SaverRemove \/ SaverExit
           \/ \E seq \in Seqs : SaverPick(seq)
           \/ \E seq \in SnapshotSeqs : SaverRecovery(seq)
  <2>1. saver'.pc \notin {"first_wait", "first_asleep", "pick_wait", "pick_asleep"}
    BY <1>5
    DEF SaverFirst, SaverConvert, SaverRemove, SaverExit, SaverPick,
        SaverRecovery, SaverGoto, IInv, TypeOK, SaverThread
  <2>2. QED
    BY <2>1 DEF WakeInv, NoLostWakeup
<1>6. QED
  BY <1>1, <1>2, <1>3, <1>4, <1>5 DEF SaverStep

\* CmeData::Insert_increment_data notifies after it has released the mutex,
\* and Pick_next_message and Get_increment_first_data_seq test and wait under
\* it: the saver never sleeps on data that nobody is about to announce.
THEOREM Wakeup == Spec => []NoLostWakeup
<1>1. Init => WakeInv
  <2>1. Init => saver.pc = "first"
    BY DEF Init
  <2>2. QED
    BY <2>1 DEF WakeInv, NoLostWakeup
<1>2. IInv /\ WakeInv /\ [Next]_vars => WakeInv'
  <2>1. ASSUME IInv, WakeInv, Next PROVE WakeInv'
    BY <2>1, FeedWake, ReplayWake, SaverWake DEF Next
  <2>2. ASSUME WakeInv, UNCHANGED vars PROVE WakeInv'
    BY <2>2, WakeQuiet DEF vars, cmeDataVars, NotifyPending
  <2>3. QED
    BY <2>1, <2>2
<1>3. WakeInv => NoLostWakeup
  BY DEF WakeInv
<1>4. QED
  BY <1>1, <1>2, <1>3, Invariant, PTL DEF Spec

-----------------------------------------------------------------------------
(* Refinement.                                                             *)

\* DatSaver::Convert_message hands over the next message of the stream, or
\* one the snapshot already contains.
LEMMA ConvertHandles ==
  ASSUME IInv, SaverConvert
  PROVE  UNCHANGED <<start, parsed>> \/ \E s \in Seqs : Stream!Handle(s)
<1>1. PICK m \in Seqs : m = saver.msg
  BY Types DEF IInv
<1>2. /\ saver.pc = "convert" /\ start' = start
      /\ parsed' = IF m <= saver.recovery_first_seq THEN parsed
                   ELSE [parsed EXCEPT ![m] = @ + 1]
  BY <1>1 DEF SaverConvert
<1>3. /\ Picked(m) /\ start # 0 /\ first # 0
      /\ start = IF first > saver.recovery_first_seq
                   THEN first ELSE saver.recovery_first_seq + 1
  BY <1>1, <1>2 DEF IInv, SaverInv
<1>4. CASE m <= saver.recovery_first_seq
  BY <1>2, <1>4
<1>5. CASE ~(m <= saver.recovery_first_seq)
  <2>1. start <= m /\ first <= start
    BY <1>3, <1>5, SeqFacts, Types DEF IInv, Picked, Received
  <2>2. ASSUME NEW s \in Seqs, Received(s), start <= s
        PROVE  m_increment_datas[s] + parsed[s] = MsgCount[s]
    BY <1>2, <1>3, <2>2 DEF IInv, CountInv
  <2>3. \A s \in Seqs : /\ parsed[s] \in Nat
                        /\ m_increment_datas[s] \in Nat
                        /\ MsgCount[s] \in Nat
    BY Types, MsgAssumption DEF IInv
  <2>4. parsed[m] < MsgCount[m]
    BY <1>3, <2>1, <2>2, <2>3 DEF Picked
  <2>5. ASSUME NEW s \in Seqs, start <= s, s < m
        PROVE  parsed[s] = MsgCount[s]
    <3>1. first <= s
      BY <2>1, <2>5, SeqFacts, Types, StartType DEF IInv
    <3>2. Received(s) /\ m_increment_datas[s] = 0
      BY <1>3, <2>5, <3>1 DEF Picked
    <3>3. QED
      BY <2>2, <2>3, <2>5, <3>2
  <2>6. Stream!Handle(m)
    BY <1>2, <1>3, <1>5, <2>1, <2>4, <2>5 DEF Stream!Handle
  <2>7. QED
    BY <2>6
<1>6. QED
  BY <1>4, <1>5

\* What DatSaver hands to BookManager is one ordered stream of messages: from
\* the join point on each message exactly once, in sequence order, no hole.
THEOREM Implements == Spec => StreamSpec
<1>1. Init => Stream!Init
  BY DEF Init, Stream!Init
<1>2. IInv /\ [Next]_vars => [Stream!Next]_<<start, parsed>>
  <2> SUFFICES ASSUME IInv, [Next]_vars
               PROVE  Stream!Next \/ UNCHANGED <<start, parsed>>
    OBVIOUS
  <2>1. CASE Feed
    BY <2>1
    DEF Feed, FeedReceive, FeedInsert, FeedNotify, FeedStartReplay,
        FeedNoReplayer, FeedStopNotify, On_error, history
  <2>2. ASSUME NEW b \in Seqs, Replay(b) PROVE UNCHANGED <<start, parsed>>
    BY <2>2
    DEF Replay, ReplayReceive, ReplayInsert, ReplayNotify, ReplayEnd,
        ReplayFail, ReplayStopNotify, On_error, history
  <2>3. CASE SaverFirst
    <3>1. start = 0 /\ start' \in {0, 1} /\ parsed' = parsed
      BY <2>3 DEF SaverFirst, SaverGoto, IInv, SaverInv
    <3>2. QED
      BY <3>1 DEF Stream!Next, Stream!Join
  <2>4. ASSUME NEW seq \in SnapshotSeqs, SaverRecovery(seq)
        PROVE  Stream!Join
    <3>1. /\ start = 0 /\ parsed' = parsed /\ first \in Seqs
          /\ start' = IF first > seq THEN first ELSE seq + 1
          /\ seq \in 0 .. LastSeq
      BY <2>4, FeedAssumption, Types DEF SaverRecovery, IInv, SaverInv
    <3>2. start' \in Nat \ {0}
      BY <3>1, SeqFacts
    <3>3. QED
      BY <3>1, <3>2 DEF Stream!Join
  <2>5. CASE SaverConvert
    BY <2>5, ConvertHandles DEF Stream!Next
  <2>6. CASE \/ SaverFirstEmpty \/ SaverSleep \/ SaverPickNothing
             \/ SaverRemove \/ SaverExit \/ SaverSpuriousWakeup
             \/ \E seq \in Seqs : SaverPick(seq)
    BY <2>6
    DEF SaverFirstEmpty, SaverSleep, SaverPickNothing, SaverRemove, SaverExit,
        SaverSpuriousWakeup, SaverPick, SaverGoto
  <2>7. CASE UNCHANGED vars
    BY <2>7 DEF vars
  <2>8. QED
    BY <2>1, <2>2, <2>3, <2>4, <2>5, <2>6, <2>7
    DEF Next, SaverStep, Stream!Next
<1>3. QED
  BY <1>1, <1>2, Invariant, PTL DEF Spec, StreamSpec, Stream!Spec
=============================================================================
