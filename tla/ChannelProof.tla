---------------------------- MODULE ChannelProof ----------------------------
(***************************************************************************)
(* Theorems about two parts of a CME channel.                              *)
(*                                                                         *)
(* RecoveryFeed, for every length of the loop, every number of messages in *)
(* its packets and every distance between the feeds.  The inductive        *)
(* invariant adds to the type three facts: what is saved is the beginning  *)
(* of a loop (SetInOrder); its positions ascend while the feeds are less   *)
(* than a loop apart (Ascending), which needs that nothing saved is ahead  *)
(* of both feeds (OnTheLine); and a set that the saver took when it was    *)
(* complete is the one that RecoverySaver still has (Kept).  LoopInv adds  *)
(* what is saved of the loop that the feeds are in.                        *)
(*                                                                         *)
(* MarketManager, for every number of replay threads: a Stop that reports  *)
(* its end has ended every thread.  Sockets are closed once, so of         *)
(* On_definition_end and a Stop one at most gets past those of the         *)
(* definitions (ClosedOnce): the recoveries thread cannot begin behind the *)
(* back of a Stop.  A thread has no object only while Start has not come   *)
(* to it (Started), and what a Stop joined stays ended (StaysStopped).     *)
(***************************************************************************)
EXTENDS RecoveryFeed, MarketManager, SequenceTheorems, TLAPS

OnTheLine ==
  /\ Behind(pos) <= apart
  /\ \A n \in DOMAIN m_recovery_datas :
       m_recovery_datas[n] <= pos["A"] \/ m_recovery_datas[n] <= pos["B"]

Ascending ==
  apart < Packets =>
    \A m, n \in DOMAIN m_recovery_datas :
      m < n => m_recovery_datas[m] <= m_recovery_datas[n]

Kept ==
  /\ recovered # <<>> => m_recovery_datas # <<>>
  /\ recovered = <<>> => m_recovery_first_seq = 0
  /\ Len(recovered) = TotNumReports =>
       /\ ended
       /\ recovered = m_recovery_datas
       /\ m_recovery_first_seq \in {0, m_recovery_datas[1]}

Counted == m_current_sequence # 0 => m_total_number = TotNumReports

IInv == TypeOK /\ SetInOrder /\ Counted /\ OnTheLine /\ Ascending /\ Kept

-----------------------------------------------------------------------------
(* The numbers of the packets.                                             *)

\* A position has a packet number.
LEMMA SeqNumType ==
  ASSUME NEW p \in Nat \ {0}
  PROVE  SeqNum(p) \in 1 .. Packets
BY LoopAssumption DEF SeqNum

\* A packet with the number that comes next is either further on in the
\* repetition, or almost a loop back.
LEMMA NextNumber ==
  ASSUME NEW p \in Nat \ {0}, NEW q \in Nat \ {0},
         SeqNum(q) = SeqNum(p) + 1, q <= p
  PROVE  p - q >= Packets - 1
<1> DEFINE a == (p - 1) \div Packets
           b == (q - 1) \div Packets
           r == (p - 1) % Packets
<1>1. Packets \in Nat \ {0}
  BY LoopAssumption
<1>2. /\ a \in Int /\ b \in Int /\ r \in Int
      /\ p - 1 = Packets * a + r
      /\ q - 1 = Packets * b + r + 1
  BY <1>1 DEF SeqNum
<1>3. p - q = Packets * a - Packets * b - 1
  BY <1>1, <1>2
<1>4. p - q = Packets * (a - b) - 1
  BY <1>1, <1>2, <1>3
<1>5. a - b >= 1
  BY <1>1, <1>2, <1>4
<1>6. Packets * (a - b) >= Packets
  BY <1>1, <1>2, <1>5
<1> QED
  BY <1>1, <1>2, <1>4, <1>6

-----------------------------------------------------------------------------
(* What saving a packet does to the set.                                   *)

\* The messages of a packet.
LEMMA MessagesType ==
  ASSUME NEW p \in Nat \ {0}
  PROVE  /\ Messages(p) \in Seq(Nat \ {0})
         /\ Len(Messages(p)) = Upto[SeqNum(p)] - Upto[SeqNum(p) - 1]
         /\ Len(Messages(p)) > 0
         /\ \A n \in 1 .. Len(Messages(p)) : Messages(p)[n] = p
<1> DEFINE k == SeqNum(p)
           w == Upto[k] - Upto[k - 1]
<1>1. k \in 1 .. Packets /\ Packets \in Nat
  BY SeqNumType, LoopAssumption
<1>2. Upto[k] \in Nat /\ Upto[k - 1] \in Nat /\ Upto[k - 1] < Upto[k]
  BY <1>1, LoopAssumption
<1>3. w \in Nat \ {0}
  BY <1>2
<1>4. Messages(p) = [n \in 1 .. w |-> p]
  BY DEF Messages
<1> HIDE DEF w
<1> QED
  BY <1>3, <1>4 DEF w

\* Concatenation with a sequence of equal elements.
LEMMA AppendSame ==
  ASSUME NEW s \in Seq(Nat \ {0}), NEW t \in Seq(Nat \ {0}), NEW p,
         \A n \in 1 .. Len(t) : t[n] = p
  PROVE  /\ s \o t \in Seq(Nat \ {0})
         /\ Len(s \o t) = Len(s) + Len(t)
         /\ \A n \in 1 .. Len(s) : (s \o t)[n] = s[n]
         /\ \A n \in Len(s) + 1 .. Len(s \o t) : (s \o t)[n] = p
OBVIOUS

\* A packet that is expected continues the set, or begins it anew.
LEMMA SaveKeepsOrder ==
  ASSUME RecoveryTypeOK, SetInOrder, Counted, NEW p \in Nat \ {0},
         Expected(p), Save_packet(p)
  PROVE  /\ m_recovery_datas' \in Seq(Nat \ {0})
         /\ FirstMessages(m_recovery_datas', SeqNum(p))
         /\ m_recovery_datas' # <<>>
         /\ m_current_sequence' = SeqNum(p)
         /\ m_total_number' = TotNumReports
<1> DEFINE k == SeqNum(p)
           new == Messages(p)
<1>1. k \in 1 .. Packets /\ Packets \in Nat \ {0}
  BY SeqNumType, LoopAssumption
<1>2. /\ Upto[k] \in Nat /\ Upto[k - 1] \in Nat /\ Upto[0] = 0
      /\ Upto[k - 1] < Upto[k]
  BY <1>1, LoopAssumption
<1>3. /\ new \in Seq(Nat \ {0}) /\ Len(new) = Upto[k] - Upto[k - 1]
      /\ Len(new) > 0 /\ \A n \in 1 .. Len(new) : new[n] = p
  BY MessagesType
<1>4. CASE k = 1
  <2>1. m_recovery_datas' = new /\ m_total_number' = TotNumReports
    BY <1>4 DEF Save_packet
  <2>2. Upto[k - 1] = 0 /\ Len(new) = Upto[k]
    BY <1>2, <1>3, <1>4
  <2>3. FirstMessages(new, k)
    <3>1. \A n \in DOMAIN new : n \in 1 .. Len(new) /\ new[n] = p
      BY <1>3
    <3>2. \A n \in DOMAIN new : Upto[SeqNum(new[n]) - 1] < n
                                  /\ n <= Upto[SeqNum(new[n])]
      BY <1>2, <2>2, <3>1
    <3> QED
      BY <2>2, <3>2 DEF FirstMessages
  <2> QED
    BY <1>3, <2>1, <2>3 DEF Save_packet
<1>5. CASE k # 1
  <2> DEFINE old == m_recovery_datas
             all == old \o new
  <2>1. /\ m_recovery_datas' = all
        /\ m_total_number' = m_total_number
        /\ k = m_current_sequence + 1
    BY <1>5 DEF Save_packet, Expected
  <2>2. m_current_sequence \in 0 .. Packets /\ m_current_sequence = k - 1
    BY <1>1, <2>1 DEF RecoveryTypeOK
  <2>3. /\ old \in Seq(Nat \ {0}) /\ Len(old) = Upto[k - 1]
        /\ \A n \in DOMAIN old : /\ Upto[SeqNum(old[n]) - 1] < n
                                 /\ n <= Upto[SeqNum(old[n])]
    BY <2>2 DEF RecoveryTypeOK, SetInOrder, FirstMessages
  <2>4. /\ all \in Seq(Nat \ {0})
        /\ Len(all) = Upto[k]
        /\ \A n \in 1 .. Len(old) : all[n] = old[n]
        /\ \A n \in Len(old) + 1 .. Len(all) : all[n] = p
    <3>1. old \in Seq(Nat \ {0}) /\ Len(old) \in Nat /\ Len(new) \in Nat
      BY <1>2, <1>3, <2>3
    <3>2. /\ all \in Seq(Nat \ {0})
          /\ Len(all) = Len(old) + Len(new)
          /\ \A n \in 1 .. Len(old) : all[n] = old[n]
          /\ \A n \in Len(old) + 1 .. Len(all) : all[n] = p
      <4> HIDE DEF old, new, k
      <4>1. new \in Seq(Nat \ {0}) /\ \A n \in 1 .. Len(new) : new[n] = p
        BY <1>3
      <4> QED
        BY <3>1, <4>1, AppendSame
    <3>3. Len(all) = Upto[k]
      BY <1>2, <1>3, <2>3, <3>2
    <3> QED
      BY <3>2, <3>3
  <2>5. \A n \in DOMAIN all : Upto[SeqNum(all[n]) - 1] < n
                                /\ n <= Upto[SeqNum(all[n])]
    <3> TAKE n \in DOMAIN all
    <3>1. n \in 1 .. Upto[k]
      BY <2>4
    <3>2. CASE n <= Len(old)
      BY <2>3, <2>4, <3>1, <3>2
    <3>3. CASE n > Len(old)
      <4>1. all[n] = p
        <5>1. n \in Len(old) + 1 .. Len(all)
          BY <1>2, <2>3, <2>4, <3>1, <3>3
        <5> QED
          BY <2>4, <5>1
      <4>2. Upto[k - 1] < n /\ n <= Upto[k]
        BY <1>2, <2>3, <3>1, <3>3
      <4> QED
        BY <4>1, <4>2
    <3> QED
      BY <1>2, <2>3, <3>1, <3>2, <3>3
  <2>6. FirstMessages(all, k)
    BY <2>4, <2>5 DEF FirstMessages
  <2>7. all # <<>>
    BY <1>2, <2>4
  <2>8. m_total_number = TotNumReports
    BY <1>1, <1>5, <2>2 DEF Counted
  <2> QED
    BY <2>1, <2>4, <2>6, <2>7, <2>8 DEF Save_packet
<1> QED
  BY <1>4, <1>5

-----------------------------------------------------------------------------
(* The feeds.                                                              *)

\* A feed goes on: neither is further behind than the history says.
LEMMA AdvanceStep ==
  ASSUME TypeOK, NEW f \in Feeds, Advance(f)
  PROVE  /\ pos' \in [Feeds -> 0 .. LastPosition]
         /\ apart' \in 0 .. MaxApart
         /\ apart <= apart'
         /\ Behind(pos') <= apart'
         /\ pos[f] + 1 \in Positions
         /\ \A g \in Feeds : pos[g] <= pos'[g]
         /\ pos'[f] = pos[f] + 1
         /\ \A g \in Feeds : pos[g] - pos[f] <= Behind(pos)
<1>1. /\ pos["A"] \in 0 .. LastPosition /\ pos["B"] \in 0 .. LastPosition
      /\ pos[f] \in 0 .. LastPosition /\ LastPosition \in Nat
      /\ MaxApart \in Nat /\ apart \in 0 .. MaxApart
  BY FeedsAssumption DEF TypeOK, Feeds
<1>2. pos[f] < LastPosition /\ pos' = [pos EXCEPT ![f] = @ + 1]
  BY DEF Advance
<1>3. pos' \in [Feeds -> 0 .. LastPosition]
  BY <1>1, <1>2 DEF TypeOK
<1>4. pos'["A"] \in Nat /\ pos'["B"] \in Nat
  BY <1>3, FeedsAssumption DEF Feeds
<1>5. Behind(pos') \in Nat /\ Behind(pos) \in Nat
  BY <1>1, <1>4 DEF Behind
<1>6. /\ Behind(pos') <= MaxApart
      /\ apart' = IF apart < Behind(pos') THEN Behind(pos') ELSE apart
  BY DEF Advance
<1>7. apart' \in 0 .. MaxApart /\ apart <= apart' /\ Behind(pos') <= apart'
  BY <1>1, <1>5, <1>6
<1>8. \A g \in Feeds : pos[g] <= pos'[g]
  BY <1>1, <1>2 DEF TypeOK, Feeds
<1>9. \A g \in Feeds : pos[g] - pos[f] <= Behind(pos)
  BY <1>1 DEF Feeds, Behind
<1>10. pos[f] + 1 \in Positions /\ pos'[f] = pos[f] + 1
  BY <1>1, <1>2 DEF Positions, TypeOK
<1> QED
  BY <1>3, <1>7, <1>8, <1>9, <1>10

\* What was on the line stays on the line.
LEMMA StaysOnTheLine ==
  ASSUME TypeOK, OnTheLine, NEW f \in Feeds, Advance(f)
  PROVE  \A n \in DOMAIN m_recovery_datas :
           m_recovery_datas[n] <= pos'["A"] \/ m_recovery_datas[n] <= pos'["B"]
<1> TAKE n \in DOMAIN m_recovery_datas
<1>1. m_recovery_datas[n] \in Nat
  BY DEF TypeOK, RecoveryTypeOK
<1>2. /\ pos["A"] \in Nat /\ pos["B"] \in Nat
      /\ pos'["A"] \in Nat /\ pos'["B"] \in Nat
      /\ pos["A"] <= pos'["A"] /\ pos["B"] <= pos'["B"]
  BY AdvanceStep, FeedsAssumption DEF TypeOK, Feeds
<1> QED
  BY <1>1, <1>2 DEF OnTheLine

-----------------------------------------------------------------------------
(* The inductive invariant.                                                *)

LEMMA InitInv == Init => IInv
<1> SUFFICES ASSUME Init PROVE IInv
  OBVIOUS
<1>1. Packets \in Nat \ {0} /\ Upto[0] = 0 /\ Upto[Packets] \in Nat
      /\ LastPosition \in Nat /\ MaxApart \in Nat
  BY LoopAssumption, FeedsAssumption
<1>2. Upto[Packets] > 0
  BY LoopAssumption
<1>3. PICK start \in 0 .. Packets - 1 :
        start <= LastPosition /\ pos = [f \in Feeds |-> start]
  BY DEF Init
<1>4. TypeOK
  <2>1. RecoveryTypeOK
    <3>1. /\ m_current_sequence = 0 /\ m_total_number = 0
          /\ m_recovery_datas = <<>> /\ ended = FALSE
      BY DEF Init, RecoveryInit
    <3>2. m_recovery_datas \in Seq(Nat \ {0}) /\ Len(m_recovery_datas) = 0
      BY <3>1
    <3>3. m_current_sequence \in 0 .. Packets
      BY <1>1, <3>1
    <3>4. Len(m_recovery_datas) <= TotNumReports
      BY <1>1, <3>2 DEF TotNumReports
    <3>5. m_total_number \in {0, TotNumReports} /\ ended \in BOOLEAN
      BY <3>1
    <3> QED
      BY <3>2, <3>3, <3>4, <3>5 DEF RecoveryTypeOK
  <2>2. pos \in [Feeds -> 0 .. LastPosition]
    BY <1>1, <1>3
  <2>3. /\ apart \in 0 .. MaxApart /\ arrived \subseteq Positions
        /\ recovered \in Seq(Nat \ {0})
        /\ m_recovery_first_seq \in 0 .. LastPosition
    BY <1>1 DEF Init
  <2> QED
    BY <2>1, <2>2, <2>3 DEF TypeOK
<1>5. SetInOrder /\ Counted
  BY <1>1 DEF Init, RecoveryInit, SetInOrder, FirstMessages, Counted
<1>6. OnTheLine /\ Ascending
  BY <1>1, <1>3 DEF Init, RecoveryInit, OnTheLine, Ascending, Behind, Feeds
<1>7. Kept
  BY <1>2 DEF Init, RecoveryInit, Kept, TotNumReports
<1> QED
  BY <1>4, <1>5, <1>6, <1>7 DEF IInv

\* A packet is lost.
LEMMA LoseInv ==
  ASSUME IInv, NEW f \in Feeds, Lose(f)
  PROVE  IInv'
<1>1. Advance(f) /\ UNCHANGED <<recoveryVars, arrived, saverVars>>
  BY DEF Lose, Advance
<1>2. TypeOK'
  BY <1>1, AdvanceStep DEF IInv, TypeOK, RecoveryTypeOK, recoveryVars, saverVars
<1>3. SetInOrder' /\ Counted' /\ Kept'
  BY <1>1 DEF IInv, SetInOrder, FirstMessages, Counted, Kept, recoveryVars,
              saverVars
<1>4. OnTheLine'
  BY <1>1, AdvanceStep, StaysOnTheLine DEF IInv, OnTheLine, recoveryVars
<1>5. Ascending'
  <2>1. apart' < Packets => apart < Packets
    BY <1>1, AdvanceStep, LoopAssumption DEF IInv, TypeOK
  <2> QED
    BY <1>1, <2>1 DEF IInv, Ascending, recoveryVars
<1> QED
  BY <1>2, <1>3, <1>4, <1>5 DEF IInv

\* The saver takes the set.
LEMMA SaverRecoversInv ==
  ASSUME IInv, SaverRecovers
  PROVE  IInv'
<1>1. /\ UNCHANGED <<recoveryVars, feedVars, m_recovery_first_seq>>
      /\ recovered = <<>> /\ m_recovery_datas # <<>>
      /\ recovered' = m_recovery_datas
  BY DEF SaverRecovers
<1>2. TypeOK'
  BY <1>1 DEF IInv, TypeOK, RecoveryTypeOK, recoveryVars, feedVars
<1>3. SetInOrder' /\ Counted' /\ OnTheLine' /\ Ascending'
  BY <1>1 DEF IInv, SetInOrder, FirstMessages, Counted, OnTheLine, Ascending,
              recoveryVars, feedVars
<1>4. Len(m_recovery_datas) = TotNumReports => ended
  <2> SUFFICES ASSUME Upto[m_current_sequence] = Upto[Packets]
               PROVE  m_current_sequence = Packets
    BY DEF IInv, SetInOrder, FirstMessages, TotNumReports
  <2>1. m_current_sequence \in 0 .. Packets /\ Packets \in 0 .. Packets
    BY LoopAssumption DEF IInv, TypeOK, RecoveryTypeOK
  <2> QED
    BY <2>1, LoopAssumption
<1>5. Kept'
  BY <1>1, <1>4 DEF IInv, Kept, recoveryVars
<1> QED
  BY <1>2, <1>3, <1>5 DEF IInv

\* The saver reads the first element.
LEMMA SaverFirstInv ==
  ASSUME IInv, SaverFirst
  PROVE  IInv'
<1>1. /\ UNCHANGED <<recoveryVars, feedVars, recovered>>
      /\ recovered # <<>> /\ m_recovery_first_seq' = m_recovery_datas[1]
  BY DEF SaverFirst
<1>2. m_recovery_datas \in Seq(Nat \ {0}) /\ m_recovery_datas # <<>>
  BY <1>1 DEF IInv, TypeOK, RecoveryTypeOK, Kept
<1>3. m_recovery_datas[1] \in 0 .. LastPosition
  <2>1. 1 \in DOMAIN m_recovery_datas /\ m_recovery_datas[1] \in Nat
    BY <1>2
  <2>2. /\ m_recovery_datas[1] <= pos["A"] \/ m_recovery_datas[1] <= pos["B"]
        /\ pos["A"] \in 0 .. LastPosition /\ pos["B"] \in 0 .. LastPosition
    BY <2>1 DEF IInv, OnTheLine, TypeOK, Feeds
  <2> QED
    BY <2>1, <2>2, FeedsAssumption
<1>4. TypeOK'
  <2>1. RecoveryTypeOK' /\ pos' = pos /\ apart' = apart /\ arrived' = arrived
        /\ recovered' = recovered
    BY <1>1 DEF IInv, TypeOK, RecoveryTypeOK, recoveryVars, feedVars
  <2> QED
    BY <1>1, <1>3, <2>1 DEF IInv, TypeOK
<1>5. SetInOrder' /\ Counted' /\ OnTheLine' /\ Ascending'
  BY <1>1 DEF IInv, SetInOrder, FirstMessages, Counted, OnTheLine, Ascending,
              recoveryVars, feedVars
<1>6. Kept'
  BY <1>1 DEF IInv, Kept, recoveryVars
<1> QED
  BY <1>4, <1>5, <1>6 DEF IInv

\* A packet is saved.
LEMMA SaveInv ==
  ASSUME IInv, NEW f \in Feeds, Advance(f), ~ended,
         Expected(pos[f] + 1), Save_packet(pos[f] + 1), ended' = IsAllSaved,
         arrived' = arrived \cup {pos[f] + 1}
  PROVE  IInv'
<1> DEFINE p == pos[f] + 1
           k == SeqNum(p)
<1>1. /\ p \in Nat \ {0} /\ p \in Positions /\ pos'[f] = p
      /\ pos[f] \in Nat /\ Packets \in Nat \ {0}
  BY AdvanceStep, FeedsAssumption, LoopAssumption DEF IInv, TypeOK, Positions
<1>2. k \in 1 .. Packets
  BY <1>1, SeqNumType
<1>3. /\ m_recovery_datas' \in Seq(Nat \ {0})
      /\ FirstMessages(m_recovery_datas', k)
      /\ m_recovery_datas' # <<>>
      /\ m_current_sequence' = k
      /\ m_total_number' = TotNumReports
  BY <1>1, SaveKeepsOrder DEF IInv, TypeOK
<1>4. UNCHANGED saverVars
  BY DEF Advance
<1>5. /\ Len(m_recovery_datas') = Upto[k]
      /\ Upto[k] \in Nat /\ TotNumReports \in Nat
      /\ Upto[k] <= TotNumReports
      /\ k # Packets => Upto[k] < TotNumReports
      /\ k = Packets => Upto[k] = TotNumReports
  <2>1. /\ k \in 0 .. Packets /\ Packets \in 0 .. Packets
        /\ k # Packets => k < Packets
    BY <1>1, <1>2
  <2>2. /\ Upto[k] \in Nat /\ Upto[Packets] \in Nat
        /\ k < Packets => Upto[k] < Upto[Packets]
    BY <2>1, LoopAssumption
  <2>3. Len(m_recovery_datas') = Upto[k]
    BY <1>3 DEF FirstMessages
  <2> HIDE DEF k
  <2> QED
    BY <2>1, <2>2, <2>3 DEF TotNumReports
<1>6. ended' <=> k = Packets
  <2>1. IsAllSaved <=> k = Packets
    <3>1. IsAllSaved <=> Upto[k] >= TotNumReports
      BY <1>3, <1>5 DEF IsAllSaved
    <3> HIDE DEF k
    <3> QED
      BY <1>5, <3>1
  <2> QED
    BY <2>1
<1>7. SetInOrder' /\ Counted'
  BY <1>3, <1>6 DEF SetInOrder, FirstMessages, Counted
<1>8. TypeOK'
  <2>1. RecoveryTypeOK'
    <3>1. m_current_sequence' \in 0 .. Packets
      BY <1>1, <1>2, <1>3
    <3>2. ended' \in BOOLEAN
      BY DEF IsAllSaved
    <3> QED
      BY <1>3, <1>5, <3>1, <3>2 DEF RecoveryTypeOK, TotNumReports
  <2>2. pos' \in [Feeds -> 0 .. LastPosition] /\ apart' \in 0 .. MaxApart
    BY AdvanceStep DEF IInv
  <2>3. arrived' \subseteq Positions
    BY <1>1 DEF IInv, TypeOK
  <2> QED
    BY <1>4, <2>1, <2>2, <2>3 DEF IInv, TypeOK, saverVars
<1>9. Kept'
  <2>1. Len(recovered) # TotNumReports
    BY DEF IInv, Kept
  <2> QED
    BY <1>3, <1>4, <2>1 DEF IInv, Kept, saverVars, TotNumReports
<1>10. OnTheLine' /\ Ascending'
  <2>1. /\ Behind(pos') <= apart' /\ apart <= apart'
        /\ pos'["A"] \in Nat /\ pos'["B"] \in Nat
        /\ \A g \in Feeds : pos[g] - pos[f] <= Behind(pos)
    BY AdvanceStep, FeedsAssumption DEF IInv, Feeds
  <2>2. p <= pos'["A"] \/ p <= pos'["B"]
    BY <1>1, <2>1 DEF Feeds
  <2>3. Messages(p) \in Seq(Nat \ {0})
        /\ \A n \in 1 .. Len(Messages(p)) : Messages(p)[n] = p
    BY <1>1, MessagesType
  <2>4. CASE k = 1
    <3>1. m_recovery_datas' = Messages(p)
      BY <2>4 DEF Save_packet
    <3>2. \A n \in DOMAIN m_recovery_datas' : m_recovery_datas'[n] = p
      BY <2>3, <3>1
    <3>3. OnTheLine'
      BY <2>1, <2>2, <3>2 DEF OnTheLine
    <3>4. Ascending'
      BY <1>1, <3>2 DEF Ascending
    <3> QED
      BY <3>3, <3>4
  <2>5. CASE k # 1
    <3> DEFINE old == m_recovery_datas
               new == Messages(p)
    <3>1. m_recovery_datas' = old \o new /\ k = m_current_sequence + 1
      BY <2>5 DEF Save_packet, Expected
    <3>2. old \in Seq(Nat \ {0})
      BY DEF IInv, TypeOK, RecoveryTypeOK
    <3>3. /\ Len(m_recovery_datas') = Len(old) + Len(new)
          /\ \A n \in 1 .. Len(old) : m_recovery_datas'[n] = old[n]
          /\ \A n \in Len(old) + 1 .. Len(m_recovery_datas') :
               m_recovery_datas'[n] = p
      <4> HIDE DEF old, new, p, k
      <4> QED
        BY <2>3, <3>1, <3>2, AppendSame DEF new
    <3>4. \A n \in DOMAIN m_recovery_datas' :
            \/ n \in DOMAIN old /\ m_recovery_datas'[n] = old[n]
            \/ n \notin DOMAIN old /\ n > Len(old) /\ m_recovery_datas'[n] = p
      <4> TAKE n \in DOMAIN m_recovery_datas'
      <4>1. /\ n \in 1 .. Len(m_recovery_datas')
            /\ DOMAIN old = 1 .. Len(old) /\ Len(old) \in Nat
        BY <1>3, <3>2
      <4>2. CASE n <= Len(old)
        BY <3>3, <4>1, <4>2
      <4>3. CASE n > Len(old)
        BY <3>3, <4>1, <4>3
      <4> QED
        BY <4>1, <4>2, <4>3
    <3>5. \A n \in DOMAIN old : old[n] <= pos'["A"] \/ old[n] <= pos'["B"]
      BY StaysOnTheLine DEF IInv
    <3>6. OnTheLine'
      BY <2>1, <2>2, <3>4, <3>5 DEF OnTheLine
    <3>7. ASSUME apart' < Packets
          PROVE  \A n \in DOMAIN old : old[n] <= p
      <4> DEFINE last == Len(old)
      <4>1. m_current_sequence \in 1 .. Packets /\ last = Upto[m_current_sequence]
        BY <1>2, <2>5, <3>1 DEF IInv, TypeOK, RecoveryTypeOK, SetInOrder,
                                FirstMessages
      <4>2. last \in Nat \ {0} /\ last \in DOMAIN old
        <5>1. Upto[m_current_sequence] > 0 /\ Upto[m_current_sequence] \in Nat
          BY <4>1, LoopAssumption
        <5> QED
          BY <3>2, <4>1, <5>1
      <4>3. old[last] \in Nat \ {0}
        BY <3>2, <4>2
      <4>4. SeqNum(old[last]) = m_current_sequence
        <5> DEFINE s == SeqNum(old[last])
        <5>1. s \in 1 .. Packets
          BY <4>3, SeqNumType
        <5>2. Upto[s - 1] < last /\ last <= Upto[s]
          BY <4>2 DEF IInv, SetInOrder, FirstMessages
        <5>3. /\ Upto[s] \in Nat /\ Upto[s - 1] \in Nat
              /\ Upto[m_current_sequence] \in Nat
              /\ s < m_current_sequence => Upto[s] < Upto[m_current_sequence]
              /\ m_current_sequence < s - 1
                   => Upto[m_current_sequence] < Upto[s - 1]
          BY <4>1, <5>1, LoopAssumption, SMTT(40)
        <5>4. ~ (s < m_current_sequence)
          BY <4>1, <5>2, <5>3
        <5>5. ~ (m_current_sequence <= s - 1)
          BY <4>1, <5>1, <5>2, <5>3
        <5> QED
          BY <4>1, <5>1, <5>4, <5>5
      <4>5. old[last] <= p
        <5> SUFFICES ASSUME ~ (old[last] <= p) PROVE FALSE
          OBVIOUS
        <5>1. old[last] - p >= Packets - 1
          BY <1>1, <3>1, <4>3, <4>4, NextNumber
        <5>2. PICK g \in Feeds : old[last] <= pos[g]
          BY <4>2 DEF IInv, OnTheLine, Feeds
        <5>3. pos[g] \in Nat /\ pos[g] - pos[f] <= Behind(pos)
          BY <2>1, FeedsAssumption DEF IInv, TypeOK
        <5>4. pos[g] - pos[f] <= apart'
          <6>1. Behind(pos) <= apart /\ Behind(pos) \in Int /\ apart \in Int
                /\ apart' \in Int
            BY AdvanceStep, FeedsAssumption
               DEF IInv, OnTheLine, Behind, TypeOK, Feeds
          <6> QED
            BY <1>1, <2>1, <5>3, <6>1
        <5>5. apart' \in Int
          BY AdvanceStep DEF IInv
        <5> QED
          BY <1>1, <3>7, <4>3, <5>1, <5>2, <5>3, <5>4, <5>5
      <4>6. \A n \in DOMAIN old : old[n] <= old[last]
        <5>1. apart < Packets
          BY <1>1, <2>1, <3>7, AdvanceStep DEF IInv, TypeOK
        <5>2. \A n \in DOMAIN old : n \in Nat /\ n <= last /\ old[n] \in Nat
          BY <3>2, <4>2
        <5> QED
          BY <4>2, <5>1, <5>2 DEF IInv, Ascending
      <4>7. \A n \in DOMAIN old : old[n] \in Nat
        BY <3>2
      <4> QED
        BY <1>1, <4>3, <4>5, <4>6, <4>7
    <3>8. Ascending'
      <4> SUFFICES ASSUME apart' < Packets,
                          NEW m \in DOMAIN m_recovery_datas',
                          NEW n \in DOMAIN m_recovery_datas', m < n
                   PROVE  m_recovery_datas'[m] <= m_recovery_datas'[n]
        BY DEF Ascending
      <4>1. apart < Packets
        BY <1>1, <2>1, AdvanceStep DEF IInv, TypeOK
      <4>2. CASE n \in DOMAIN old
        <5>1. m \in DOMAIN old
          BY <1>3, <3>2, <3>4, <4>2
        <5> QED
          BY <3>4, <4>1, <4>2, <5>1 DEF IInv, Ascending
      <4>3. CASE n \notin DOMAIN old
        BY <1>1, <3>4, <3>7, <4>3
      <4> QED
        BY <4>2, <4>3
    <3> QED
      BY <3>6, <3>8
  <2> QED
    BY <2>4, <2>5
<1> QED
  BY <1>7, <1>8, <1>9, <1>10 DEF IInv

\* A packet is received.
LEMMA ReceiveInv ==
  ASSUME IInv, NEW f \in Feeds, Receive(f)
  PROVE  IInv'
<1>1. Advance(f) /\ ~ended /\ arrived' = arrived \cup {pos[f] + 1}
  BY DEF Receive, Process_recovery_packet
<1>2. CASE /\ Expected(pos[f] + 1)
           /\ Save_packet(pos[f] + 1)
           /\ ended' = IsAllSaved
  BY <1>1, <1>2, SaveInv
<1>3. CASE UNCHANGED recoveryVars
  <2>1. UNCHANGED <<recoveryVars, saverVars>>
    BY <1>1, <1>3 DEF Advance
  <2>2. TypeOK'
    BY <1>1, <2>1, AdvanceStep
       DEF IInv, TypeOK, RecoveryTypeOK, recoveryVars, saverVars
  <2>3. SetInOrder' /\ Counted' /\ Kept'
    BY <2>1 DEF IInv, SetInOrder, FirstMessages, Counted, Kept, recoveryVars,
                saverVars
  <2>4. OnTheLine'
    BY <1>1, <2>1, AdvanceStep, StaysOnTheLine DEF IInv, OnTheLine, recoveryVars
  <2>5. Ascending'
    <3>1. apart' < Packets => apart < Packets
      BY <1>1, AdvanceStep, LoopAssumption DEF IInv, TypeOK
    <3> QED
      BY <2>1, <3>1 DEF IInv, Ascending, recoveryVars
  <2> QED
    BY <2>2, <2>3, <2>4, <2>5 DEF IInv
<1> QED
  BY <1>2, <1>3 DEF Receive, Process_recovery_packet

LEMMA NextInv == IInv /\ [Next]_vars => IInv'
<1> SUFFICES ASSUME IInv, [Next]_vars PROVE IInv'
  OBVIOUS
<1>1. ASSUME NEW f \in Feeds, Receive(f) PROVE IInv'
  BY <1>1, ReceiveInv
<1>2. ASSUME NEW f \in Feeds, Lose(f) PROVE IInv'
  BY <1>2, LoseInv
<1>3. CASE SaverRecovers
  BY <1>3, SaverRecoversInv
<1>4. CASE SaverFirst
  BY <1>4, SaverFirstInv
<1>5. CASE UNCHANGED vars
  BY <1>5 DEF vars, recoveryVars, feedVars, saverVars, IInv, TypeOK,
              RecoveryTypeOK, SetInOrder, FirstMessages, Counted, OnTheLine,
              Behind, Ascending, Kept
<1> QED
  BY <1>1, <1>2, <1>3, <1>4, <1>5 DEF Next

LEMMA Invariance == Spec => []IInv
<1>1. Init => IInv
  BY InitInv
<1>2. IInv /\ [Next]_vars => IInv'
  BY NextInv
<1> QED
  BY <1>1, <1>2, PTL DEF Spec

-----------------------------------------------------------------------------
(* A loop that arrives whole.  The feeds are at most one packet apart, so   *)
(* the position that a feed comes to is the furthest one so far or the next *)
(* one: the packets of a loop come in order, each once or twice running.    *)
(* The invariant is about the loop that the furthest position is in: when   *)
(* its first k packets have arrived and what comes after them has not, and  *)
(* both feeds are at most one position beyond them, packet k is the one     *)
(* saved last.                                                              *)

Start(l, k) == {l * Packets + j : j \in 1 .. k}

ArrivedOnLine ==
  arrived \subseteq Positions /\ \A p \in arrived : \E f \in Feeds : p <= pos[f]

StartIsSaved ==
  \A l \in Nat : \A k \in 1 .. Packets :
    /\ Start(l, k) \subseteq arrived
    /\ l * Packets + k + 1 \notin arrived
    /\ \A f \in Feeds : pos[f] <= l * Packets + k + 1
    => m_current_sequence = k

LoopInv ==
  /\ ArrivedOnLine
  /\ ~ended /\ apart <= 1 => StartIsSaved
  /\ WholeLoopCompletes

\* Where the packets of a loop are.
LEMMA LoopPositions ==
  ASSUME NEW l \in Nat, NEW k \in 1 .. Packets
  PROVE  /\ l * Packets \in Nat
         /\ SeqNum(l * Packets + k) = k
         /\ (l * Packets + k - 1) \div Packets = l
<1> DEFINE b == l * Packets
           p == b + k
           a == (p - 1) \div Packets
           r == (p - 1) % Packets
<1>1. Packets \in Nat \ {0} /\ k \in Nat /\ k >= 1 /\ k <= Packets
  BY LoopAssumption
<1>2. b \in Nat /\ b = Packets * l
  BY <1>1
<1>3. a \in Int /\ r \in 0 .. Packets - 1 /\ p - 1 = Packets * a + r
  BY <1>1, <1>2
<1>4. Packets * (a - l) = k - 1 - r
  <2>1. Packets * (a - l) = Packets * a - Packets * l
    BY <1>1, <1>3
  <2>2. Packets * a \in Int
    BY <1>1, <1>3
  <2> QED
    BY <1>1, <1>2, <1>3, <2>1, <2>2
<1>5. a = l
  <2>1. CASE a - l >= 1
    <3>1. Packets * (a - l) >= Packets
      BY <1>1, <1>3, <2>1
    <3> QED
      BY <1>1, <1>3, <1>4, <3>1
  <2>2. CASE a - l <= -1
    <3>1. Packets * (a - l) <= -Packets
      BY <1>1, <1>3, <2>2
    <3> QED
      BY <1>1, <1>3, <1>4, <3>1
  <2> QED
    BY <1>3, <2>1, <2>2
<1>6. r = k - 1
  BY <1>1, <1>2, <1>3, <1>5
<1> QED
  BY <1>1, <1>2, <1>5, <1>6 DEF SeqNum

\* A loop within the bound has all its packets, and none beyond its last.
LEMMA LoopExtent ==
  ASSUME NEW l \in 0 .. LastPosition \div Packets - 1
  PROVE  /\ Start(l, Packets) \subseteq Loop(l)
         /\ \A p \in Loop(l) : p <= l * Packets + Packets
<1> DEFINE b == l * Packets
           d == LastPosition \div Packets
<1>1. /\ Packets \in Nat \ {0} /\ LastPosition \in Nat /\ d \in Int
      /\ l \in Nat /\ l + 1 <= d
  BY LoopAssumption, FeedsAssumption
<1>2. Packets * d <= LastPosition
  BY <1>1
<1>3. b \in Nat /\ b + Packets = Packets * (l + 1)
  BY <1>1
<1>4. Packets * (l + 1) <= Packets * d
  <2>1. Packets * (d - (l + 1)) >= 0
    BY <1>1
  <2>2. Packets * (d - (l + 1)) = Packets * d - Packets * (l + 1)
    BY <1>1
  <2>3. Packets * d \in Int /\ Packets * (l + 1) \in Int
    BY <1>1
  <2> QED
    BY <2>1, <2>2, <2>3
<1>5. Packets * d \in Int
  BY <1>1
<1>6. ASSUME NEW j \in 1 .. Packets
      PROVE  b + j \in Loop(l)
  <2>1. b + j \in Positions
    BY <1>1, <1>2, <1>3, <1>4, <1>5 DEF Positions
  <2> QED
    BY <1>1, <2>1, LoopPositions DEF Loop
<1>7. ASSUME NEW p \in Loop(l)
      PROVE  p <= b + Packets
  <2>1. p \in Nat /\ (p - 1) \div Packets = l
    BY <1>1 DEF Loop, Positions
  <2>2. p - 1 = Packets * l + ((p - 1) % Packets)
    BY <1>1, <2>1
  <2>3. (p - 1) % Packets \in 0 .. Packets - 1 /\ Packets * l = b
    BY <1>1, <2>1
  <2> QED
    BY <1>1, <1>3, <2>1, <2>2, <2>3
<1> QED
  BY <1>6, <1>7 DEF Start

\* What comes next is not behind what has arrived.
LEMMA NextIsFurthest ==
  ASSUME TypeOK, OnTheLine, apart <= 1, NEW f \in Feeds, Advance(f)
  PROVE  /\ \A g \in Feeds : pos[g] <= pos[f] + 1
         /\ \A g \in Feeds : pos'[g] <= pos[f] + 1
         /\ pos'[f] = pos[f] + 1
<1>1. /\ pos["A"] \in Nat /\ pos["B"] \in Nat /\ pos[f] \in Nat
      /\ apart \in Nat
  BY FeedsAssumption DEF TypeOK, Feeds
<1>2. /\ \A g \in Feeds : pos[g] - pos[f] <= Behind(pos)
      /\ pos'[f] = pos[f] + 1
  BY AdvanceStep
<1>3. Behind(pos) \in Nat /\ Behind(pos) <= 1
  BY <1>1 DEF OnTheLine, Behind
<1>4. \A g \in Feeds : pos[g] <= pos[f] + 1
  BY <1>1, <1>2, <1>3 DEF Feeds
<1>5. \A g \in Feeds : g # f => pos'[g] = pos[g]
  BY DEF Advance, TypeOK
<1> QED
  BY <1>1, <1>2, <1>4, <1>5

\* What has arrived has been on the line, and stays.
LEMMA ArrivedStays ==
  ASSUME TypeOK, ArrivedOnLine, NEW f \in Feeds, Advance(f),
         arrived' \in {arrived, arrived \cup {pos[f] + 1}}
  PROVE  ArrivedOnLine'
<1>1. /\ \A g \in Feeds : pos[g] \in Nat /\ pos'[g] \in Nat
      /\ \A g \in Feeds : pos[g] <= pos'[g]
      /\ pos'[f] = pos[f] + 1 /\ pos[f] + 1 \in Positions
  BY AdvanceStep, FeedsAssumption DEF TypeOK
<1>2. arrived' \subseteq Positions
  BY <1>1 DEF ArrivedOnLine
<1>3. ASSUME NEW p \in arrived'
      PROVE  \E g \in Feeds : p <= pos'[g]
  <2>1. p \in Nat
    BY <1>2 DEF Positions
  <2>2. CASE p \in arrived
    <3>1. PICK g \in Feeds : p <= pos[g]
      BY <2>2 DEF ArrivedOnLine
    <3> QED
      BY <1>1, <2>1, <3>1
  <2>3. CASE p = pos[f] + 1
    BY <1>1, <2>1, <2>3
  <2> QED
    BY <2>2, <2>3
<1> QED
  BY <1>2, <1>3 DEF ArrivedOnLine

\* What arrives is not behind what has arrived.
LEMMA ArrivesLast ==
  ASSUME TypeOK, OnTheLine, ArrivedOnLine, apart <= 1,
         NEW f \in Feeds, Advance(f), NEW q \in arrived \cup {pos[f] + 1}
  PROVE  q \in Nat /\ q <= pos[f] + 1
<1>1. /\ \A g \in Feeds : pos[g] \in Nat /\ pos[g] <= pos[f] + 1
      /\ pos[f] + 1 \in Positions
  BY AdvanceStep, NextIsFurthest, FeedsAssumption DEF TypeOK
<1>2. q \in Nat
  BY <1>1 DEF ArrivedOnLine, Positions
<1>3. CASE q \in arrived
  <2>1. PICK g \in Feeds : q <= pos[g]
    BY <1>3 DEF ArrivedOnLine
  <2> QED
    BY <1>1, <1>2, <2>1
<1> QED
  BY <1>1, <1>2, <1>3

\* The first packets of the nearest loop are saved, with the one that arrives.
LEMMA ReceiveStart ==
  ASSUME TypeOK, OnTheLine, ArrivedOnLine, StartIsSaved, apart <= 1,
         NEW f \in Feeds, Receive(f), ~ended'
  PROVE  StartIsSaved'
<1> DEFINE p == pos[f] + 1
<1> SUFFICES ASSUME NEW l \in Nat, NEW k \in 1 .. Packets,
                    Start(l, k) \subseteq arrived',
                    l * Packets + k + 1 \notin arrived',
                    \A g \in Feeds : pos'[g] <= l * Packets + k + 1
             PROVE  m_current_sequence' = k
  BY DEF StartIsSaved, Start
<1> DEFINE b == l * Packets
<1>1. /\ Advance(f) /\ Process_recovery_packet(p)
      /\ arrived' = arrived \cup {p}
  BY DEF Receive
<1>2. /\ Packets \in Nat \ {0} /\ k \in Nat /\ k >= 1 /\ k <= Packets
      /\ b \in Nat /\ SeqNum(b + k) = k
  BY LoopPositions, LoopAssumption
<1>3. /\ \A g \in Feeds : pos[g] \in Nat /\ pos'[g] \in Nat
      /\ \A g \in Feeds : pos[g] <= p /\ pos'[g] <= p
      /\ p \in Nat /\ pos'[f] = p
  BY <1>1, AdvanceStep, NextIsFurthest, FeedsAssumption DEF TypeOK
<1>4. \A q \in arrived' : q \in Nat /\ q <= p
  BY <1>1, ArrivesLast
<1>5. b + k \in arrived'
  BY <1>2 DEF Start
<1>6. p = b + k
  <2>1. p \in arrived' /\ p # b + k + 1 /\ p <= b + k + 1
    BY <1>1, <1>3
  <2> QED
    BY <1>2, <1>3, <1>4, <1>5, <2>1
<1> HIDE DEF b, p
<1>7. CASE k = 1
  BY <1>1, <1>2, <1>6, <1>7
     DEF Process_recovery_packet, Expected, Save_packet
<1>8. CASE k # 1 /\ p \in arrived
  <2>1. arrived' = arrived
    BY <1>1, <1>8
  <2>2. \A g \in Feeds : pos[g] <= b + k + 1
    BY <1>2, <1>3, <1>6
  <2>3. m_current_sequence = k
    BY <2>1, <2>2 DEF StartIsSaved, b
  <2>4. ~Expected(p)
    BY <1>2, <1>6, <1>8, <2>3 DEF Expected
  <2> QED
    BY <1>1, <2>3, <2>4 DEF Process_recovery_packet, recoveryVars
<1>9. CASE k # 1 /\ p \notin arrived
  <2>1. k - 1 \in 1 .. Packets
    BY <1>2, <1>9
  <2>2. Start(l, k - 1) \subseteq arrived
    <3> SUFFICES ASSUME NEW j \in 1 .. k - 1 PROVE b + j \in arrived
      BY DEF Start, b
    <3>1. j \in 1 .. k /\ b + j # p
      BY <1>2, <1>6
    <3>2. b + j \in arrived'
      BY <3>1 DEF Start, b
    <3> QED
      BY <1>1, <3>1, <3>2
  <2>3. l * Packets + (k - 1) + 1 = p
    BY <1>2, <1>6 DEF b
  <2>4. m_current_sequence = k - 1
    <3>1. /\ l * Packets + (k - 1) + 1 \notin arrived
          /\ \A g \in Feeds : pos[g] <= l * Packets + (k - 1) + 1
      BY <1>3, <1>9, <2>3
    <3> QED
      BY <2>1, <2>2, <3>1 DEF StartIsSaved
  <2>5. Expected(p)
    BY <1>2, <1>6, <2>4 DEF Expected
  <2> QED
    BY <1>1, <1>2, <1>6, <2>5 DEF Process_recovery_packet, Save_packet
<1> QED
  BY <1>7, <1>8, <1>9

\* The packet with which a loop has arrived whole is the last one, and it is
\* the one that is expected.
LEMMA ReceiveLoop ==
  ASSUME TypeOK, OnTheLine, ArrivedOnLine, StartIsSaved, apart <= 1,
         NEW f \in Feeds, Receive(f),
         NEW l \in 0 .. LastPosition \div Packets - 1,
         Loop(l) \subseteq arrived', ~(Loop(l) \subseteq arrived)
  PROVE  m_current_sequence' = Packets
<1> DEFINE p == pos[f] + 1
           b == l * Packets
<1>1. /\ Advance(f) /\ Process_recovery_packet(p)
      /\ arrived' = arrived \cup {p}
  BY DEF Receive
<1>2. Packets \in Nat \ {0} /\ LastPosition \in Nat
  BY LoopAssumption, FeedsAssumption
<1>3. l \in Nat
  BY <1>2
<1>4. b \in Nat /\ SeqNum(b + Packets) = Packets
  BY <1>2, <1>3, LoopPositions
<1>5. p \in Loop(l) /\ p \notin arrived
  BY <1>1
<1>6. p \in Nat /\ p <= b + Packets
  BY <1>5, LoopExtent DEF Loop, Positions
<1>7. b + Packets \in arrived'
  BY <1>2, <1>4, LoopExtent DEF Start
<1>8. /\ \A g \in Feeds : pos[g] \in Nat
      /\ \A g \in Feeds : pos[g] <= p
  BY <1>1, AdvanceStep, NextIsFurthest, FeedsAssumption DEF TypeOK
<1>9. \A q \in arrived' : q \in Nat /\ q <= p
  BY <1>1, ArrivesLast
<1>10. p = b + Packets
  BY <1>2, <1>4, <1>6, <1>7, <1>9
<1>11. CASE Packets = 1
  BY <1>1, <1>4, <1>10, <1>11
     DEF Process_recovery_packet, Expected, Save_packet
<1>12. CASE Packets # 1
  <2>1. Packets - 1 \in 1 .. Packets
    BY <1>2, <1>12
  <2>2. Start(l, Packets - 1) \subseteq arrived
    <3> SUFFICES ASSUME NEW j \in 1 .. Packets - 1 PROVE b + j \in arrived
      BY DEF Start
    <3>1. j \in 1 .. Packets /\ b + j # p
      BY <1>2, <1>4, <1>10
    <3>2. b + j \in arrived'
      BY <3>1, LoopExtent DEF Start
    <3> QED
      BY <1>1, <3>1, <3>2
  <2>3. b + (Packets - 1) + 1 = p
    BY <1>2, <1>4, <1>10
  <2>4. m_current_sequence = Packets - 1
    <3>1. /\ l * Packets + (Packets - 1) + 1 \notin arrived
          /\ \A g \in Feeds : pos[g] <= l * Packets + (Packets - 1) + 1
      BY <1>5, <1>8, <2>3
    <3> QED
      BY <1>3, <2>1, <2>2, <3>1 DEF StartIsSaved
  <2>5. Expected(p)
    BY <1>2, <1>4, <1>10, <2>4 DEF Expected
  <2> QED
    BY <1>1, <1>2, <1>4, <1>10, <2>5 DEF Process_recovery_packet, Save_packet
<1> QED
  BY <1>11, <1>12

LEMMA LoopInit == Init => LoopInv
<1> SUFFICES ASSUME Init PROVE LoopInv
  OBVIOUS
<1>1. arrived = {} /\ Packets \in Nat \ {0} /\ LastPosition \in Nat
  BY LoopAssumption, FeedsAssumption DEF Init
<1>2. ArrivedOnLine
  BY <1>1 DEF ArrivedOnLine
<1>3. \A l \in Nat : \A k \in 1 .. Packets : ~(Start(l, k) \subseteq arrived)
  BY <1>1 DEF Start
<1>4. WholeLoopCompletes
  <2> SUFFICES ASSUME NEW l \in 0 .. LastPosition \div Packets - 1,
                      Loop(l) \subseteq arrived
               PROVE  FALSE
    BY DEF WholeLoopCompletes
  <2>1. l \in Nat /\ Packets \in 1 .. Packets
    BY <1>1
  <2> QED
    BY <1>3, <2>1, LoopExtent
<1> QED
  BY <1>2, <1>3, <1>4 DEF LoopInv, StartIsSaved

\* The saver and a lost packet touch neither what has arrived nor the set.
LEMMA LoopNext == IInv /\ IInv' /\ LoopInv /\ [Next]_vars => LoopInv'
<1> SUFFICES ASSUME IInv, IInv', LoopInv, [Next]_vars PROVE LoopInv'
  OBVIOUS
<1>1. /\ TypeOK /\ OnTheLine /\ SetInOrder' /\ ArrivedOnLine
      /\ WholeLoopCompletes /\ apart \in Nat
      /\ Packets \in Nat \ {0} /\ LastPosition \in Nat
  BY FeedsAssumption, LoopAssumption DEF IInv, LoopInv, TypeOK
<1>2. ASSUME NEW f \in Feeds, Lose(f) PROVE LoopInv'
  <2>1. /\ Advance(f) /\ arrived' = arrived /\ ended' = ended
        /\ m_current_sequence' = m_current_sequence
    BY <1>2 DEF Lose, recoveryVars
  <2>2. /\ apart' \in Nat /\ apart <= apart'
        /\ \A g \in Feeds : pos[g] <= pos'[g]
        /\ \A g \in Feeds : pos[g] \in Nat /\ pos'[g] \in Nat
    BY <1>1, <2>1, AdvanceStep, FeedsAssumption DEF TypeOK
  <2>3. ArrivedOnLine'
    BY <1>1, <2>1, ArrivedStays
  <2>4. ASSUME ~ended', apart' <= 1 PROVE StartIsSaved'
    <3> SUFFICES ASSUME NEW l \in Nat, NEW k \in 1 .. Packets,
                        Start(l, k) \subseteq arrived',
                        l * Packets + k + 1 \notin arrived',
                        \A g \in Feeds : pos'[g] <= l * Packets + k + 1
                 PROVE  m_current_sequence' = k
      BY DEF StartIsSaved, Start
    <3>1. StartIsSaved
      BY <1>1, <2>1, <2>2, <2>4 DEF LoopInv
    <3>2. l * Packets \in Nat /\ k \in Nat
      BY <1>1, LoopPositions
    <3>3. \A g \in Feeds : pos[g] <= l * Packets + k + 1
      BY <2>2, <3>2
    <3> QED
      BY <2>1, <3>1, <3>3 DEF StartIsSaved
  <2>5. WholeLoopCompletes'
    BY <1>1, <2>1, <2>2 DEF WholeLoopCompletes, Loop
  <2> QED
    BY <2>3, <2>4, <2>5 DEF LoopInv
<1>3. ASSUME NEW f \in Feeds, Receive(f) PROVE LoopInv'
  <2>1. /\ Advance(f) /\ ~ended /\ arrived' = arrived \cup {pos[f] + 1}
    BY <1>3 DEF Receive, Process_recovery_packet
  <2>2. apart' \in Nat /\ apart <= apart'
    BY <1>1, <2>1, AdvanceStep, FeedsAssumption
  <2>3. ArrivedOnLine'
    BY <1>1, <2>1, ArrivedStays
  <2>4. apart' <= 1 => apart <= 1 /\ StartIsSaved
    BY <1>1, <2>1, <2>2 DEF LoopInv
  <2>5. ~ended' /\ apart' <= 1 => StartIsSaved'
    BY <1>1, <1>3, <2>4, ReceiveStart
  <2>6. WholeLoopCompletes'
    <3> SUFFICES ASSUME NEW l \in 0 .. LastPosition \div Packets - 1,
                        Loop(l) \subseteq arrived', apart' <= 1
                 PROVE  ended'
      BY DEF WholeLoopCompletes, Loop
    <3>1. ~(Loop(l) \subseteq arrived)
      BY <1>1, <2>1, <2>4 DEF WholeLoopCompletes
    <3>2. m_current_sequence' = Packets
      BY <1>1, <1>3, <2>4, <3>1, ReceiveLoop
    <3> QED
      BY <1>1, <3>2 DEF SetInOrder
  <2> QED
    BY <2>3, <2>5, <2>6 DEF LoopInv
<1>4. CASE UNCHANGED <<recoveryVars, feedVars>>
  BY <1>4 DEF LoopInv, ArrivedOnLine, StartIsSaved, Start, WholeLoopCompletes,
              Loop, recoveryVars, feedVars
<1> QED
  BY <1>2, <1>3, <1>4 DEF Next, SaverRecovers, SaverFirst, vars

-----------------------------------------------------------------------------
(* The theorems.                                                           *)

\* Every variable of the recovery feed keeps its type; in particular the set
\* never holds more messages than the loop has.
THEOREM TypeCorrect == Spec => []TypeOK
<1>1. IInv => TypeOK
  BY DEF IInv
<1> QED
  BY <1>1, Invariance, PTL

\* RecoverySaver's set is the beginning of a loop without a hole or a
\* repetition, for every loss, repetition and delay of either feed, and the
\* feed ends with a whole one.
THEOREM Complete == Spec => []SetInOrder
<1>1. IInv => SetInOrder
  BY DEF IInv
<1> QED
  BY <1>1, Invariance, PTL

\* When the feeds are less than a loop apart, no snapshot of a complete set is
\* older than the first: Convert_message drops no increment that a book needs.
THEOREM FirstIsOldest == Spec => []NothingDroppedTooMuch
<1>1. IInv => NothingDroppedTooMuch
  <2> SUFFICES ASSUME IInv, Len(recovered) = TotNumReports,
                      m_recovery_first_seq # 0, apart < Packets,
                      NEW n \in DOMAIN recovered
               PROVE  m_recovery_first_seq <= recovered[n]
    BY DEF NothingDroppedTooMuch
  <2>1. recovered = m_recovery_datas /\ m_recovery_first_seq = recovered[1]
    BY DEF IInv, Kept
  <2>2. recovered \in Seq(Nat \ {0})
    BY DEF IInv, TypeOK
  <2>3. 1 \in DOMAIN recovered /\ n \in Nat /\ 1 <= n /\ recovered[1] \in Nat
    BY <2>2
  <2>4. CASE n = 1
    BY <2>1, <2>3, <2>4
  <2>5. CASE n # 1
    BY <2>1, <2>3, <2>5 DEF IInv, Ascending
  <2> QED
    BY <2>4, <2>5
<1> QED
  BY <1>1, Invariance, PTL

\* As long as no feed is more than a packet behind the other, a loop of which
\* every packet arrives, on whichever feed, ends the recovery: nothing that
\* RecoverySaver discards, and no set that it begins anew, costs another loop.
THEOREM LoopsComplete == Spec => []WholeLoopCompletes
<1>1. Init => LoopInv
  BY LoopInit
<1>2. IInv /\ IInv' /\ LoopInv /\ [Next]_vars => LoopInv'
  BY LoopNext
<1>3. LoopInv => WholeLoopCompletes
  BY DEF LoopInv
<1> QED
  BY <1>1, <1>2, <1>3, Invariance, PTL DEF Spec

-----------------------------------------------------------------------------
(* The channel: the calls of a thread, and the threads.                    *)

\* What is left of a list of calls when some of them have returned.
Rest(list) == {SubSeq(list, n, Len(list)) : n \in 1 .. Len(list) + 1}

\* The calls that thread t makes.
ListsOf(t) ==
  CASE t = "main"        -> Rest(ManagerStart) \cup Rest(ManagerStop)
    [] t = "definitions" -> Rest(On_definition_end)
    [] t = "recoveries"  -> Rest(On_recovery_end)
    [] t = "saver"       -> {<<>>}
    [] OTHER             -> Rest(ManagerStop)

CallTypes ==
  /\ calls = [t \in Threads |-> calls[t]]
  /\ \A t \in Threads : calls[t] \in ListsOf(t)
  /\ step \in [Threads -> 1 .. 3]
  /\ \A t \in Threads : calls[t] = <<>> => step[t] = 1

ThreadTypes ==
  /\ CallTypes
  /\ pc \in [Threads -> {"none", "opening", "running", "waiting", "handling",
                         "testing", "asleep", "ended"}]
  /\ handle \in [Workers -> {"null", "joinable", "joined"}]
  /\ open \subseteq UdpFeeds
  /\ process \in {"up", "failed", "stopped"}
  /\ early \in BOOLEAN

\* How much Start has to do when it comes to the thread.
Place == [w \in Workers \ {"recoveries"} |->
            IF w = "increments" THEN 3 ELSE IF w = "definitions" THEN 2 ELSE 1]

\* A thread has no object only as long as Start has not come to it.
Started ==
  \A w \in Workers \ {"recoveries"} :
    handle[w] = "null" =>
      calls["main"] \in Rest(ManagerStart) /\ Len(calls["main"]) >= Place[w]

\* No Stop that counts runs together with Start.
Ready ==
  ~early => \A t \in Threads : Stopping(t) => ~Starting

\* Stop has come past the sockets of the definitions.
PastDefinitions(t) ==
  /\ Stopping(t)
  /\ Len(calls[t]) < 3 \/ (Len(calls[t]) = 3 /\ step[t] > 1)

\* On_definition_end has.
DefinitionsOver ==
  \/ pc["recoveries"] # "none"
  \/ /\ calls["definitions"] # <<>>
     /\ Len(calls["definitions"]) = 1 \/ step["definitions"] > 1

\* Sockets are closed once.  So it is one or the other.
ClosedOnce ==
  /\ DefinitionsOver => "definitions" \notin open
  /\ \A t \in Threads : PastDefinitions(t) => "definitions" \notin open
                                              /\ ~DefinitionsOver

Gone(w) == pc[w] \in {"none", "ended"}

\* What a Stop that counts has stopped stays so.
StaysStopped ==
  ~early =>
    \A t \in Threads : Stopping(t) =>
      /\ Len(calls[t]) < 5 => Gone("saver")
      /\ Len(calls[t]) < 3 => Gone("definitions")
      /\ Len(calls[t]) < 2 => Gone("increments")

StopParts == Started /\ Ready /\ ClosedOnce /\ StaysStopped

-----------------------------------------------------------------------------
(* Lists of calls.                                                         *)

AnyCall == [do : {"start", "stop", "callback"}, who : Threads]

LEMMA CallsHere ==
  /\ Begin("increments") \in AnyCall /\ Begin("definitions") \in AnyCall
  /\ Begin("saver") \in AnyCall /\ Begin("recoveries") \in AnyCall
  /\ End("saver") \in AnyCall /\ End("recoveries") \in AnyCall
  /\ End("definitions") \in AnyCall /\ End("increments") \in AnyCall
  /\ Callback \in AnyCall
BY DEF AnyCall, Begin, End, Callback, Threads, Workers, UdpFeeds

\* The four lists, call by call.
LEMMA StartIs ==
  /\ ManagerStart \in Seq(AnyCall) /\ Len(ManagerStart) = 3
  /\ ManagerStart[1] = Begin("increments") /\ ManagerStart[2] = Begin("definitions")
  /\ ManagerStart[3] = Begin("saver")
BY CallsHere DEF ManagerStart

LEMMA StopIs ==
  /\ ManagerStop \in Seq(AnyCall) /\ Len(ManagerStop) = 5
  /\ ManagerStop[1] = End("saver") /\ ManagerStop[2] = End("recoveries")
  /\ ManagerStop[3] = End("definitions") /\ ManagerStop[4] = End("increments")
  /\ ManagerStop[5] = Callback
BY CallsHere DEF ManagerStop

LEMMA DefinitionEndIs ==
  /\ On_definition_end \in Seq(AnyCall) /\ Len(On_definition_end) = 2
  /\ On_definition_end[1] = End("definitions")
  /\ On_definition_end[2] = Begin("recoveries")
BY CallsHere DEF On_definition_end

LEMMA RecoveryEndIs ==
  /\ On_recovery_end \in Seq(AnyCall) /\ Len(On_recovery_end) = 1
  /\ On_recovery_end[1] = End("recoveries")
BY CallsHere DEF On_recovery_end

\* A list is what is left of it at first.
LEMMA RestWhole ==
  ASSUME NEW S, NEW full \in Seq(S)
  PROVE  full \in Rest(full) /\ <<>> \in Rest(full)
<1>1. SubSeq(full, 1, Len(full)) = full
  OBVIOUS
<1>2. SubSeq(full, Len(full) + 1, Len(full)) = <<>>
  BY SubSeqEmpty
<1> QED
  BY <1>1, <1>2 DEF Rest

\* What is left of a list ends as it does.
LEMMA RestElements ==
  ASSUME NEW S, NEW full \in Seq(S), NEW list \in Rest(full)
  PROVE  /\ list \in Seq(S)
         /\ Len(list) \in 0 .. Len(full)
         /\ \A n \in 1 .. Len(list) :
              list[n] = full[n + Len(full) - Len(list)]
<1>1. PICK m \in 1 .. Len(full) + 1 : list = SubSeq(full, m, Len(full))
  BY DEF Rest
<1>2. CASE m = Len(full) + 1
  <2>1. list = <<>>
    BY <1>1, <1>2, SubSeqEmpty
  <2> QED
    BY <2>1
<1>3. CASE m # Len(full) + 1
  <2>1. m \in 1 .. Len(full)
    BY <1>3
  <2>2. /\ list \in Seq(S)
        /\ Len(list) = Len(full) - m + 1
        /\ \A n \in 1 .. Len(full) - m + 1 : list[n] = full[m + n - 1]
    BY <1>1, <2>1, SubSeqProperties
  <2> QED
    BY <2>1, <2>2
<1> QED
  BY <1>2, <1>3

\* The next call is done, and the others are left.
LEMMA RestTail ==
  ASSUME NEW S, NEW full \in Seq(S), NEW list \in Rest(full), list # <<>>
  PROVE  /\ Len(list) \in 1 .. Len(full)
         /\ Head(list) = full[Len(full) - Len(list) + 1]
         /\ Tail(list) \in Rest(full)
         /\ Len(Tail(list)) = Len(list) - 1
<1>1. PICK m \in 1 .. Len(full) + 1 : list = SubSeq(full, m, Len(full))
  BY DEF Rest
<1>2. m \in 1 .. Len(full)
  BY <1>1, SubSeqEmpty
<1>3. Head(list) = full[m] /\ Len(list) = Len(full) - m + 1
  BY <1>1, <1>2, SubSeqProperties, HeadTailOfSubSeq
<1>4. Tail(list) = SubSeq(full, m + 1, Len(full))
  BY <1>1, <1>2, HeadTailOfSubSeq
<1>5. Tail(list) \in Rest(full)
  <2>1. m + 1 \in 1 .. Len(full) + 1
    BY <1>2
  <2> QED
    BY <1>4, <2>1 DEF Rest
<1>6. Len(Tail(list)) = Len(list) - 1
  BY <1>1, HeadTailProperties, RestElements
<1> QED
  BY <1>2, <1>3, <1>5, <1>6

\* Only Stop has a callback, and only Start begins threads of Start.
LEMMA ListKinds ==
  ASSUME NEW l
  PROVE  /\ l \in Rest(ManagerStart) =>
              /\ ~ \E n \in DOMAIN l : l[n] = Callback
              /\ (\E n \in DOMAIN l : l[n].do = "start") <=> l # <<>>
         /\ l \in Rest(ManagerStop) =>
              /\ (\E n \in DOMAIN l : l[n] = Callback) <=> l # <<>>
              /\ ~ \E n \in DOMAIN l : l[n].do = "start"
         /\ l \in Rest(On_definition_end) \cup Rest(On_recovery_end) =>
              ~ \E n \in DOMAIN l : l[n] = Callback
<1>1. /\ Begin("increments") # Callback /\ Begin("definitions") # Callback
      /\ Begin("saver") # Callback /\ Begin("recoveries") # Callback
      /\ End("saver") # Callback /\ End("recoveries") # Callback
      /\ End("definitions") # Callback /\ End("increments") # Callback
      /\ Begin("increments").do = "start" /\ Begin("definitions").do = "start"
      /\ Begin("saver").do = "start"
      /\ End("saver").do # "start" /\ End("recoveries").do # "start"
      /\ End("definitions").do # "start" /\ End("increments").do # "start"
      /\ Callback.do # "start"
  BY DEF Begin, End, Callback
<1>2. ASSUME l \in Rest(ManagerStart)
      PROVE  /\ ~ \E n \in DOMAIN l : l[n] = Callback
             /\ (\E n \in DOMAIN l : l[n].do = "start") <=> l # <<>>
  <2>1. /\ l \in Seq(AnyCall) /\ Len(l) \in 0 .. 3
        /\ \A n \in 1 .. Len(l) : l[n] = ManagerStart[n + 3 - Len(l)]
    BY <1>2, RestElements, StartIs
  <2>2. ASSUME NEW n \in 1 .. Len(l)
        PROVE  l[n] # Callback /\ l[n].do = "start"
    <3>1. n + 3 - Len(l) \in {1, 2, 3}
      BY <2>1, SMTT(40)
    <3> QED
      BY <1>1, <2>1, <3>1, StartIs, SMTT(40)
  <2>3. DOMAIN l = 1 .. Len(l)
    BY <2>1
  <2>4. l # <<>> => 1 \in 1 .. Len(l)
    BY <2>1
  <2> QED
    BY <2>2, <2>3, <2>4
<1>3. ASSUME l \in Rest(ManagerStop)
      PROVE  /\ (\E n \in DOMAIN l : l[n] = Callback) <=> l # <<>>
             /\ ~ \E n \in DOMAIN l : l[n].do = "start"
  <2>1. /\ l \in Seq(AnyCall) /\ Len(l) \in 0 .. 5
        /\ \A n \in 1 .. Len(l) : l[n] = ManagerStop[n + 5 - Len(l)]
    BY <1>3, RestElements, StopIs
  <2>2. ASSUME NEW n \in 1 .. Len(l)
        PROVE  l[n].do # "start"
    <3>1. n + 5 - Len(l) \in {1, 2, 3, 4, 5}
      BY <2>1, SMTT(40)
    <3> QED
      BY <1>1, <2>1, <3>1, StopIs, SMTT(40)
  <2>3. DOMAIN l = 1 .. Len(l)
    BY <2>1
  <2>4. ASSUME l # <<>> PROVE Len(l) \in 1 .. Len(l) /\ l[Len(l)] = Callback
    <3>1. Len(l) \in 1 .. Len(l) /\ Len(l) + 5 - Len(l) = 5
      BY <2>1, <2>4
    <3> QED
      BY <2>1, <3>1, StopIs
  <2> QED
    BY <2>2, <2>3, <2>4
<1>4. ASSUME l \in Rest(On_definition_end)
      PROVE  ~ \E n \in DOMAIN l : l[n] = Callback
  <2>1. /\ l \in Seq(AnyCall) /\ Len(l) \in 0 .. 2
        /\ \A n \in 1 .. Len(l) : l[n] = On_definition_end[n + 2 - Len(l)]
    BY <1>4, RestElements, DefinitionEndIs
  <2>2. ASSUME NEW n \in 1 .. Len(l) PROVE l[n] # Callback
    <3>1. n + 2 - Len(l) \in {1, 2}
      BY <2>1
    <3> QED
      BY <1>1, <2>1, <3>1, DefinitionEndIs
  <2> QED
    BY <2>1, <2>2
<1>5. ASSUME l \in Rest(On_recovery_end)
      PROVE  ~ \E n \in DOMAIN l : l[n] = Callback
  <2>1. /\ l \in Seq(AnyCall) /\ Len(l) \in 0 .. 1
        /\ \A n \in 1 .. Len(l) : l[n] = On_recovery_end[n + 1 - Len(l)]
    BY <1>5, RestElements, RecoveryEndIs
  <2>2. ASSUME NEW n \in 1 .. Len(l) PROVE l[n] # Callback
    <3>1. n + 1 - Len(l) = 1
      BY <2>1
    <3> QED
      BY <1>1, <2>1, <3>1, RecoveryEndIs
  <2> QED
    BY <2>1, <2>2
<1> QED
  BY <1>2, <1>3, <1>4, <1>5

-----------------------------------------------------------------------------
(* The call that a thread makes next.                                      *)

Left(t) == Len(calls[t])
Next_call(t) == Head(calls[t])

StartNext(t) ==
  /\ t = "main" /\ calls[t] \in Rest(ManagerStart) /\ Tail(calls[t]) \in Rest(ManagerStart)
  /\ ~Stopping(t) /\ Starting
  /\ \/ Left(t) = 3 /\ Next_call(t) = Begin("increments")
     \/ Left(t) = 2 /\ Next_call(t) = Begin("definitions")
     \/ Left(t) = 1 /\ Next_call(t) = Begin("saver")

StopNext(t) ==
  /\ t \notin {"definitions", "recoveries", "saver"}
  /\ calls[t] \in Rest(ManagerStop) /\ Tail(calls[t]) \in Rest(ManagerStop)
  /\ Stopping(t)
  /\ \/ Left(t) = 5 /\ Next_call(t) = End("saver")
     \/ Left(t) = 4 /\ Next_call(t) = End("recoveries")
     \/ Left(t) = 3 /\ Next_call(t) = End("definitions")
     \/ Left(t) = 2 /\ Next_call(t) = End("increments")
     \/ Left(t) = 1 /\ Next_call(t) = Callback

DefinitionEndNext(t) ==
  /\ t = "definitions"
  /\ Tail(calls[t]) \in Rest(On_definition_end)
  /\ ~Stopping(t)
  /\ \/ Left(t) = 2 /\ Next_call(t) = End("definitions")
     \/ Left(t) = 1 /\ Next_call(t) = Begin("recoveries")

RecoveryEndNext(t) ==
  /\ t = "recoveries"
  /\ Tail(calls[t]) \in Rest(On_recovery_end)
  /\ ~Stopping(t)
  /\ Left(t) = 1 /\ Next_call(t) = End("recoveries")

\* The next call of each list.
LEMMA StartRest ==
  ASSUME NEW l \in Rest(ManagerStart), l # <<>>
  PROVE  /\ Tail(l) \in Rest(ManagerStart)
         /\ Len(Tail(l)) = Len(l) - 1
         /\ \/ Len(l) = 3 /\ Head(l) = Begin("increments")
            \/ Len(l) = 2 /\ Head(l) = Begin("definitions")
            \/ Len(l) = 1 /\ Head(l) = Begin("saver")
<1>1. ManagerStart \in Seq(AnyCall)
  BY StartIs
<1>2. /\ Len(l) \in 1 .. Len(ManagerStart)
      /\ Head(l) = ManagerStart[Len(ManagerStart) - Len(l) + 1]
      /\ Tail(l) \in Rest(ManagerStart)
      /\ Len(Tail(l)) = Len(l) - 1
  BY <1>1, RestTail, Zenon
<1>3. \/ Len(l) = 3 /\ 3 - Len(l) + 1 = 1
      \/ Len(l) = 2 /\ 3 - Len(l) + 1 = 2
      \/ Len(l) = 1 /\ 3 - Len(l) + 1 = 3
  <2>1. Len(ManagerStart) = 3
    BY StartIs
  <2>2. Len(l) \in 1 .. Len(ManagerStart)
    BY <1>2, Zenon
  <2>3. Len(l) \in 1 .. 3
    BY <2>1, <2>2, Zenon
  <2>4. \A k \in 1 .. 3 :
          \/ k = 3 /\ 3 - k + 1 = 1
          \/ k = 2 /\ 3 - k + 1 = 2
          \/ k = 1 /\ 3 - k + 1 = 3
    OBVIOUS
  <2> QED
    BY <2>3, <2>4, Zenon
<1> QED
  BY <1>2, <1>3, StartIs

LEMMA StopRest ==
  ASSUME NEW l \in Rest(ManagerStop), l # <<>>
  PROVE  /\ Tail(l) \in Rest(ManagerStop)
         /\ Len(Tail(l)) = Len(l) - 1
         /\ \/ Len(l) = 5 /\ Head(l) = End("saver")
            \/ Len(l) = 4 /\ Head(l) = End("recoveries")
            \/ Len(l) = 3 /\ Head(l) = End("definitions")
            \/ Len(l) = 2 /\ Head(l) = End("increments")
            \/ Len(l) = 1 /\ Head(l) = Callback
<1>1. ManagerStop \in Seq(AnyCall)
  BY StopIs
<1>2. /\ Len(l) \in 1 .. Len(ManagerStop)
      /\ Head(l) = ManagerStop[Len(ManagerStop) - Len(l) + 1]
      /\ Tail(l) \in Rest(ManagerStop)
      /\ Len(Tail(l)) = Len(l) - 1
  BY <1>1, RestTail, Zenon
<1>3. \/ Len(l) = 5 /\ 5 - Len(l) + 1 = 1
      \/ Len(l) = 4 /\ 5 - Len(l) + 1 = 2
      \/ Len(l) = 3 /\ 5 - Len(l) + 1 = 3
      \/ Len(l) = 2 /\ 5 - Len(l) + 1 = 4
      \/ Len(l) = 1 /\ 5 - Len(l) + 1 = 5
  <2>1. Len(ManagerStop) = 5
    BY StopIs
  <2>2. Len(l) \in 1 .. Len(ManagerStop)
    BY <1>2, Zenon
  <2>3. Len(l) \in 1 .. 5
    BY <2>1, <2>2, Zenon
  <2>4. \A k \in 1 .. 5 :
          \/ k = 5 /\ 5 - k + 1 = 1
          \/ k = 4 /\ 5 - k + 1 = 2
          \/ k = 3 /\ 5 - k + 1 = 3
          \/ k = 2 /\ 5 - k + 1 = 4
          \/ k = 1 /\ 5 - k + 1 = 5
    OBVIOUS
  <2> QED
    BY <2>3, <2>4, Zenon
<1> QED
  BY <1>2, <1>3, StopIs, SMTT(40)

LEMMA DefinitionEndRest ==
  ASSUME NEW l \in Rest(On_definition_end), l # <<>>
  PROVE  /\ Tail(l) \in Rest(On_definition_end)
         /\ Len(Tail(l)) = Len(l) - 1
         /\ \/ Len(l) = 2 /\ Head(l) = End("definitions")
            \/ Len(l) = 1 /\ Head(l) = Begin("recoveries")
<1>1. On_definition_end \in Seq(AnyCall)
  BY DefinitionEndIs
<1>2. /\ Len(l) \in 1 .. Len(On_definition_end)
      /\ Head(l) = On_definition_end[Len(On_definition_end) - Len(l) + 1]
      /\ Tail(l) \in Rest(On_definition_end)
      /\ Len(Tail(l)) = Len(l) - 1
  BY <1>1, RestTail, Zenon
<1>3. \/ Len(l) = 2 /\ 2 - Len(l) + 1 = 1
      \/ Len(l) = 1 /\ 2 - Len(l) + 1 = 2
  <2>1. Len(On_definition_end) = 2
    BY DefinitionEndIs
  <2>2. Len(l) \in 1 .. Len(On_definition_end)
    BY <1>2, Zenon
  <2>3. Len(l) \in 1 .. 2
    BY <2>1, <2>2, Zenon
  <2>4. \A k \in 1 .. 2 :
          \/ k = 2 /\ 2 - k + 1 = 1
          \/ k = 1 /\ 2 - k + 1 = 2
    OBVIOUS
  <2> QED
    BY <2>3, <2>4, Zenon
<1> QED
  BY <1>2, <1>3, DefinitionEndIs

LEMMA RecoveryEndRest ==
  ASSUME NEW l \in Rest(On_recovery_end), l # <<>>
  PROVE  /\ Tail(l) \in Rest(On_recovery_end)
         /\ Len(Tail(l)) = Len(l) - 1
         /\ Len(l) = 1 /\ Head(l) = End("recoveries")
<1>1. On_recovery_end \in Seq(AnyCall)
  BY RecoveryEndIs
<1>2. /\ Len(l) \in 1 .. Len(On_recovery_end)
      /\ Head(l) = On_recovery_end[Len(On_recovery_end) - Len(l) + 1]
      /\ Tail(l) \in Rest(On_recovery_end)
      /\ Len(Tail(l)) = Len(l) - 1
  BY <1>1, RestTail, Zenon
<1>3. Len(l) = 1 /\ 1 - Len(l) + 1 = 1
  <2>1. Len(On_recovery_end) = 1
    BY RecoveryEndIs
  <2>2. Len(l) \in 1 .. Len(On_recovery_end)
    BY <1>2, Zenon
  <2>3. Len(l) \in 1 .. 1
    BY <2>1, <2>2, Zenon
  <2>4. \A k \in 1 .. 1 :
          k = 1 /\ 1 - k + 1 = 1
    OBVIOUS
  <2> QED
    BY <2>3, <2>4, Zenon
<1> QED
  BY <1>2, <1>3, RecoveryEndIs

\* A call is one of these four lists.
LEMMA NextCall ==
  ASSUME CallTypes, NEW t \in Threads, calls[t] # <<>>
  PROVE  /\ StartNext(t) \/ StopNext(t) \/ DefinitionEndNext(t)
              \/ RecoveryEndNext(t)
         /\ Len(Tail(calls[t])) = Left(t) - 1
<1>1. CASE calls[t] \in Rest(ManagerStart) /\ t = "main"
  <2>1. ~Stopping(t) /\ Starting
    BY <1>1, ListKinds DEF Stopping, Starting
  <2> QED
    BY <1>1, <2>1, StartRest DEF StartNext, Left, Next_call
<1>2. CASE calls[t] \in Rest(ManagerStop)
  <2>1. Stopping(t)
    BY <1>2, ListKinds DEF Stopping
  <2>2. calls[t] \in ListsOf(t)
    BY DEF CallTypes
  <2>3. t # "saver"
    BY <2>2 DEF ListsOf
  <2>4. t # "definitions" /\ t # "recoveries"
    BY <2>1, <2>2, ListKinds DEF ListsOf, Stopping
  <2> QED
    BY <1>2, <2>1, <2>3, <2>4, StopRest DEF StopNext, Left, Next_call
<1>3. CASE calls[t] \in Rest(On_definition_end) /\ t = "definitions"
  <2>1. ~Stopping(t)
    BY <1>3, ListKinds DEF Stopping
  <2> QED
    BY <1>3, <2>1, DefinitionEndRest DEF DefinitionEndNext, Left, Next_call
<1>4. CASE calls[t] \in Rest(On_recovery_end) /\ t = "recoveries"
  <2>1. ~Stopping(t)
    BY <1>4, ListKinds DEF Stopping
  <2> QED
    BY <1>4, <2>1, RecoveryEndRest DEF RecoveryEndNext, Left, Next_call
<1>5. \/ calls[t] \in Rest(ManagerStart) /\ t = "main"
      \/ calls[t] \in Rest(ManagerStop)
      \/ calls[t] \in Rest(On_definition_end) /\ t = "definitions"
      \/ calls[t] \in Rest(On_recovery_end) /\ t = "recoveries"
      \/ calls[t] = <<>>
  <2>1. calls[t] \in ListsOf(t)
    BY DEF CallTypes
  <2> QED
    BY <2>1 DEF ListsOf
<1> HIDE DEF StartNext, StopNext, DefinitionEndNext, RecoveryEndNext, Left
<1> QED
  BY <1>1, <1>2, <1>3, <1>4, <1>5, Zenon

-----------------------------------------------------------------------------
(* Calls return, go on, and are made.                                      *)

\* When the first call returns, the thread has the rest of the list to do.
LEMMA ReturnCalls ==
  ASSUME CallTypes, NEW t \in Threads, calls[t] # <<>>, Return(t)
  PROVE  CallTypes'
<1>1. calls' = [calls EXCEPT ![t] = Tail(@)] /\ step' = [step EXCEPT ![t] = 1]
  BY DEF Return
<1>2. Tail(calls[t]) \in ListsOf(t)
  <2>1. CASE StartNext(t)
    BY <2>1 DEF StartNext, ListsOf
  <2>2. CASE StopNext(t)
    BY <2>2 DEF StopNext, ListsOf
  <2>3. CASE DefinitionEndNext(t)
    BY <2>3 DEF DefinitionEndNext, ListsOf
  <2>4. CASE RecoveryEndNext(t)
    BY <2>4 DEF RecoveryEndNext, ListsOf
  <2> QED
    BY <2>1, <2>2, <2>3, <2>4, NextCall
<1>3. calls' = [u \in Threads |-> calls'[u]]
  BY <1>1 DEF CallTypes
<1>4. \A u \in Threads : calls'[u] \in ListsOf(u)
  BY <1>1, <1>2 DEF CallTypes
<1>5. step' \in [Threads -> 1 .. 3]
  BY <1>1 DEF CallTypes
<1>6. \A u \in Threads : calls'[u] = <<>> => step'[u] = 1
  BY <1>1 DEF CallTypes
<1> QED
  BY <1>3, <1>4, <1>5, <1>6 DEF CallTypes, ListsOf

LEMMA ContinueCalls ==
  ASSUME CallTypes, NEW t \in Threads, calls[t] # <<>>, step[t] < 3,
         Continue(t)
  PROVE  CallTypes'
<1>1. calls' = calls /\ step' = [step EXCEPT ![t] = @ + 1]
  BY DEF Continue
<1>2. step' \in [Threads -> 1 .. 3]
  BY <1>1 DEF CallTypes
<1>3. \A u \in Threads : calls'[u] = <<>> => step'[u] = 1
  BY <1>1 DEF CallTypes
<1> QED
  BY <1>1, <1>2, <1>3 DEF CallTypes, ListsOf

\* A thread that has nothing to do gets a list.
LEMMA NewCalls ==
  ASSUME CallTypes, NEW t \in Threads, calls[t] = <<>>,
         NEW list \in ListsOf(t), Call(t, list), step' = step
  PROVE  CallTypes'
<1>1. calls' = [calls EXCEPT ![t] = list]
  BY DEF Call
<1>2. calls' = [u \in Threads |-> calls'[u]]
  BY <1>1 DEF CallTypes
<1>3. \A u \in Threads : calls'[u] \in ListsOf(u)
  BY <1>1 DEF CallTypes
<1>4. \A u \in Threads : calls'[u] = <<>> => step'[u] = 1
  BY <1>1 DEF CallTypes
<1> QED
  BY <1>2, <1>3, <1>4 DEF CallTypes, ListsOf

\* The lists that threads are given.
LEMMA GivenLists ==
  /\ ManagerStart \in ListsOf("main")
  /\ \A t \in Threads \ {"definitions", "recoveries", "saver"} :
       ManagerStop \in ListsOf(t)
  /\ On_definition_end \in ListsOf("definitions")
  /\ On_recovery_end \in ListsOf("recoveries")
  /\ \A t \in Threads : <<>> \in ListsOf(t)
<1>1. ManagerStart \in Rest(ManagerStart) /\ <<>> \in Rest(ManagerStart)
  BY RestWhole, StartIs
<1>2. ManagerStop \in Rest(ManagerStop) /\ <<>> \in Rest(ManagerStop)
  BY RestWhole, StopIs
<1>3. On_definition_end \in Rest(On_definition_end)
      /\ <<>> \in Rest(On_definition_end)
  BY RestWhole, DefinitionEndIs
<1>4. On_recovery_end \in Rest(On_recovery_end)
      /\ <<>> \in Rest(On_recovery_end)
  BY RestWhole, RecoveryEndIs
<1> QED
  BY <1>1, <1>2, <1>3, <1>4 DEF ListsOf

\* Who is started, and by whom.
LEMMA WhoStarts ==
  ASSUME CallTypes, NEW t \in Threads, NEW n, At(t, "start", n)
  PROVE  \/ /\ StartNext(t)
            /\ Who(t) \in Workers \ {"recoveries"}
            /\ Left(t) = Place[Who(t)]
         \/ /\ DefinitionEndNext(t)
            /\ Who(t) = "recoveries"
            /\ Left(t) = 1
<1>1. calls[t] # <<>> /\ Next_call(t).do = "start"
  BY DEF At, Next_call
<1>2. CASE StartNext(t)
  <2>1. /\ Place["increments"] = 3 /\ Place["definitions"] = 2
        /\ Place["saver"] = 1
        /\ {"increments", "definitions", "saver"} = Workers \ {"recoveries"}
    BY DEF Place, Workers, UdpFeeds
  <2> QED
    BY <1>2, <2>1 DEF StartNext, Begin, Who, Next_call
<1>3. CASE StopNext(t)
  BY <1>1, <1>3 DEF StopNext, End, Callback
<1>4. CASE DefinitionEndNext(t)
  BY <1>1, <1>4 DEF DefinitionEndNext, End, Begin, Who, Next_call
<1>5. CASE RecoveryEndNext(t)
  BY <1>1, <1>5 DEF RecoveryEndNext, End
<1> QED
  BY <1>1, <1>2, <1>3, <1>4, <1>5, NextCall

\* Who is stopped, and by whom.
LEMMA WhoStops ==
  ASSUME CallTypes, NEW t \in Threads, NEW n, At(t, "stop", n)
  PROVE  \/ /\ StopNext(t)
            /\ \/ Left(t) = 5 /\ Who(t) = "saver"
               \/ Left(t) = 4 /\ Who(t) = "recoveries"
               \/ Left(t) = 3 /\ Who(t) = "definitions"
               \/ Left(t) = 2 /\ Who(t) = "increments"
         \/ DefinitionEndNext(t) /\ Left(t) = 2 /\ Who(t) = "definitions"
         \/ RecoveryEndNext(t) /\ Left(t) = 1 /\ Who(t) = "recoveries"
<1>1. calls[t] # <<>> /\ Next_call(t).do = "stop"
  BY DEF At, Next_call
<1>2. CASE StartNext(t)
  BY <1>1, <1>2 DEF StartNext, Begin
<1>3. CASE StopNext(t)
  BY <1>1, <1>3 DEF StopNext, End, Callback, Who, Next_call
<1>4. CASE DefinitionEndNext(t)
  BY <1>1, <1>4 DEF DefinitionEndNext, End, Begin, Who, Next_call
<1>5. CASE RecoveryEndNext(t)
  BY <1>1, <1>5 DEF RecoveryEndNext, End, Who, Next_call
<1> QED
  BY <1>1, <1>2, <1>3, <1>4, <1>5, NextCall

-----------------------------------------------------------------------------
(* Types.                                                                  *)

\* The threads are told apart.
LEMMA Apart ==
  /\ Workers \subseteq Threads /\ Replays \subseteq Threads
  /\ "main" \in Threads /\ UdpFeeds \subseteq Workers
  /\ \A r \in Replays : r \notin Workers /\ r # "main"
  /\ UdpFeeds = {"increments", "definitions", "recoveries"}
  /\ Workers = {"increments", "definitions", "recoveries", "saver"}
BY ThreadAssumption DEF Threads, Workers, UdpFeeds

StateTypes ==
  /\ pc \in [Threads -> {"none", "opening", "running", "waiting", "handling",
                         "testing", "asleep", "ended"}]
  /\ handle \in [Workers -> {"null", "joinable", "joined"}]
  /\ open \subseteq UdpFeeds
  /\ process \in {"up", "failed", "stopped"}
  /\ early \in BOOLEAN

\* The type, in the calls of the threads.
LEMMA CallTypesHold ==
  ASSUME ThreadTypes, NEW t \in Threads, CallStep(t)
  PROVE  ThreadTypes'
<1>1. CallTypes /\ StateTypes
  BY DEF ThreadTypes, StateTypes
<1> SUFFICES CallTypes' /\ StateTypes'
  BY DEF ThreadTypes, StateTypes
<1>2. CASE Spawn(t)
  <2>1. calls[t] # <<>> /\ step[t] < 3 /\ Continue(t)
    BY <1>2 DEF Spawn, At
  <2>2. CallTypes'
    BY <1>1, <2>1, ContinueCalls
  <2>3. StateTypes'
    BY <1>1, <1>2 DEF Spawn, StateTypes, fixed
  <2> QED
    BY <2>2, <2>3
<1>3. CASE Assign(t)
  <2>1. calls[t] # <<>> /\ Return(t)
    BY <1>3 DEF Assign, At
  <2>2. CallTypes'
    BY <1>1, <2>1, ReturnCalls
  <2>3. StateTypes'
    BY <1>1, <1>3 DEF Assign, StateTypes, fixed
  <2> QED
    BY <2>2, <2>3
<1>4. CASE StopSaver(t)
  <2>1. calls[t] # <<>> /\ step[t] < 3 /\ Continue(t)
    BY <1>4 DEF StopSaver, At
  <2>2. CallTypes'
    BY <1>1, <2>1, ContinueCalls
  <2>3. StateTypes'
    BY <1>1, <1>4 DEF StopSaver, StateTypes, fixed
  <2> QED
    BY <2>2, <2>3
<1>5. CASE Close(t)
  <2>1. calls[t] # <<>> /\ step[t] < 3 /\ Continue(t)
    BY <1>5 DEF Close, At
  <2>2. CallTypes'
    BY <1>1, <2>1, ContinueCalls
  <2>3. StateTypes'
    BY <1>1, <1>5 DEF Close, StateTypes, fixed
  <2> QED
    BY <2>2, <2>3
<1>6. CASE CloseClosed(t) \/ JoinJoined(t)
  BY <1>1, <1>6
     DEF CloseClosed, JoinJoined, Fail, StateTypes, CallTypes, ListsOf, fixed
<1>7. CASE NoThread(t)
  <2>1. calls[t] # <<>> /\ Return(t)
    BY <1>7 DEF NoThread, At
  <2>2. CallTypes'
    BY <1>1, <2>1, ReturnCalls
  <2>3. StateTypes'
    BY <1>1, <1>7 DEF NoThread, StateTypes, fixed
  <2> QED
    BY <2>2, <2>3
<1>8. CASE Signal(t)
  <2>1. calls[t] # <<>> /\ step[t] < 3 /\ Continue(t)
    BY <1>8 DEF Signal, At
  <2>2. CallTypes'
    BY <1>1, <2>1, ContinueCalls
  <2>3. StateTypes'
    BY <1>1, <1>8 DEF Signal, StateTypes, fixed
  <2> QED
    BY <2>2, <2>3
<1>9. CASE Join(t)
  <2>1. calls[t] # <<>> /\ Return(t)
    BY <1>9 DEF Join, At
  <2>2. CallTypes'
    BY <1>1, <2>1, ReturnCalls
  <2>3. StateTypes'
    BY <1>1, <1>9 DEF Join, StateTypes, fixed
  <2> QED
    BY <2>2, <2>3
<1>10. CASE ChannelStopped(t)
  BY <1>1, <1>10 DEF ChannelStopped, StateTypes, CallTypes, ListsOf, fixed
<1> QED
  BY <1>2, <1>3, <1>4, <1>5, <1>6, <1>7, <1>8, <1>9, <1>10 DEF CallStep

\* A step in which the calls and the objects stay as they are.
Quiet ==
  /\ UNCHANGED <<calls, step, handle, open, early>>
  /\ pc' \in [Threads -> {"none", "opening", "running", "waiting", "handling",
                          "testing", "asleep", "ended"}]
  /\ process' \in {"up", "failed"}
  /\ \A w \in Workers : pc'[w] # pc[w] => ~Gone(w) /\ pc'[w] # "none"

\* The packet or the wish that makes a thread call.
Calling ==
  \/ ReceiveLast("definitions", On_definition_end)
  \/ ReceiveLast("recoveries", On_recovery_end)
  \/ ReceiveGap
  \/ \E r \in Replays : ReplayFail(r)
  \/ UserStop

\* What threads do that are not stopped is one or the other.
LEMMA OtherSteps ==
  ASSUME ThreadTypes, ManagerNext
  PROVE  (\E t \in Threads : CallStep(t)) \/ Quiet \/ Calling
<1>1. StateTypes /\ pc = [t \in Threads |-> pc[t]]
  BY DEF ThreadTypes, StateTypes
<1>2. ASSUME NEW t \in Threads, NEW from, from \in {"opening", "handling",
               "waiting", "running", "testing", "asleep"},
             NEW to, to \in {"opening", "handling", "waiting", "running",
               "testing", "asleep", "ended"},
             Goto(t, from, to), UNCHANGED <<calls, early>>
      PROVE  Quiet
  <2>1. pc[t] = from /\ pc' = [pc EXCEPT ![t] = to] /\ process = "up"
    BY <1>2 DEF Goto, Free, Alive
  <2>2. \A w \in Workers : pc'[w] # pc[w] => w = t
    BY <1>1, <2>1, Apart
  <2>3. pc' \in [Threads -> {"none", "opening", "running", "waiting",
                            "handling", "testing", "asleep", "ended"}]
    BY <1>1, <1>2, <2>1 DEF StateTypes
  <2>4. pc'[t] = to
    BY <1>1, <2>1
  <2>5. \A w \in Workers : pc'[w] # pc[w] => ~Gone(w) /\ pc'[w] # "none"
    BY <1>2, <2>1, <2>2, <2>4 DEF Gone
  <2>6. UNCHANGED <<calls, step, handle, open, early>> /\ process' = "up"
    BY <1>2, <2>1 DEF Goto
  <2> QED
    BY <2>3, <2>5, <2>6 DEF Quiet
<1>3. ASSUME NEW t \in Threads, Die(t) PROVE Quiet
  <2>1. /\ pc[t] \notin {"none", "ended"}
        /\ pc' = [pc EXCEPT ![t] = "ended"] /\ process = "up"
    BY <1>3 DEF Die, Alive
  <2>2. \A w \in Workers : pc'[w] # pc[w] => w = t /\ pc'[t] = "ended"
    BY <1>1, <2>1, Apart
  <2>3. pc' \in [Threads -> {"none", "opening", "running", "waiting",
                            "handling", "testing", "asleep", "ended"}]
    BY <1>1, <2>1 DEF StateTypes
  <2> QED
    BY <1>3, <2>1, <2>2, <2>3 DEF Quiet, Die, Gone, fixed
<1>4. ASSUME NEW f \in UdpFeeds, Feed(f) \/ ReceivePacket(f) PROVE Quiet
  <2>1. CASE ListenClosed(f)
    BY <1>1, <2>1 DEF ListenClosed, Fail, Quiet, StateTypes, fixed
  <2>2. CASE Listen(f)
    BY <1>2, <2>2, Apart DEF Listen
  <2>3. CASE RunReturns(f)
    BY <1>2, <2>3, Apart DEF RunReturns
  <2>4. CASE ReceivePacket(f)
    BY <1>2, <2>4, Apart DEF ReceivePacket
  <2> QED
    BY <1>4, <2>1, <2>2, <2>3, <2>4 DEF Feed
<1>5. ASSUME NEW r \in Replays, StartReplay(r) PROVE Quiet
  <2>1. /\ pc' = [pc EXCEPT ![r] = "running"] /\ process' = "up"
        /\ UNCHANGED <<calls, step, handle, open, early>>
    BY <1>5 DEF StartReplay, Free, Alive, fixed
  <2>2. \A w \in Workers : pc'[w] = pc[w]
    BY <1>1, <2>1, Apart
  <2>3. pc' \in [Threads -> {"none", "opening", "running", "waiting",
                            "handling", "testing", "asleep", "ended"}]
    BY <1>1, <2>1 DEF StateTypes
  <2> QED
    BY <2>1, <2>2, <2>3 DEF Quiet
<1>6. ASSUME NEW r \in Replays, ReplayEnd(r) PROVE Quiet
  BY <1>2, <1>6, Apart DEF ReplayEnd
<1>7. ASSUME SaverTest \/ SaverSleep \/ SaverWakeup \/ SaverEnd PROVE Quiet
  <2>1. CASE SaverTest
    BY <1>2, <2>1, Apart DEF SaverTest
  <2>2. CASE SaverSleep
    BY <1>2, <2>2, Apart DEF SaverSleep
  <2>3. CASE SaverWakeup
    BY <1>2, <2>3, Apart DEF SaverWakeup
  <2>4. CASE SaverEnd
    BY <1>2, <2>4, Apart DEF SaverEnd
  <2> QED
    BY <1>7, <2>1, <2>2, <2>3, <2>4
<1> QED
  BY <1>3, <1>4, <1>5, <1>6, <1>7 DEF ManagerNext, Calling

CallLists == {ManagerStop, On_definition_end, On_recovery_end}

\* A thread that had nothing to do is given a list.
CallMade(t, list) ==
  /\ calls[t] = <<>> /\ list \in ListsOf(t) /\ Call(t, list)
  /\ \/ list = ManagerStop
     \/ /\ list = On_definition_end /\ t = "definitions"
        /\ "definitions" \in open
     \/ list = On_recovery_end /\ t = "recoveries"
  /\ UNCHANGED <<step, handle, open, process>>
  /\ process = "up"
  /\ pc' \in [Threads -> {"none", "opening", "running", "waiting", "handling",
                          "testing", "asleep", "ended"}]
  /\ \A w \in Workers : pc'[w] # pc[w] => ~Gone(w) /\ pc'[w] # "none"

\* That is what the packets and the user do.
LEMMA CallingStep ==
  ASSUME ThreadTypes, Calling
  PROVE  \E t \in Threads, list \in CallLists : CallMade(t, list)
<1>1. StateTypes /\ pc = [t \in Threads |-> pc[t]]
  BY DEF ThreadTypes, StateTypes
<1>2. ASSUME NEW t \in Threads,
             NEW from, from \in {"waiting", "running"},
             NEW to, to \in {"handling", "running"}, Goto(t, from, to)
      PROVE  /\ calls[t] = <<>>
             /\ UNCHANGED <<step, handle, open, process>>
             /\ process = "up"
             /\ pc' \in [Threads -> {"none", "opening", "running", "waiting",
                                "handling", "testing", "asleep", "ended"}]
             /\ \A w \in Workers :
                  pc'[w] # pc[w] => ~Gone(w) /\ pc'[w] # "none"
  <2>1. /\ pc[t] = from /\ pc' = [pc EXCEPT ![t] = to] /\ process = "up"
        /\ calls[t] = <<>> /\ UNCHANGED <<step, handle, open, process>>
    BY <1>2 DEF Goto, Free, Alive
  <2>2. \A w \in Workers : pc'[w] # pc[w] => w = t /\ pc'[t] = to
    BY <1>1, <2>1, Apart
  <2>3. pc' \in [Threads -> {"none", "opening", "running", "waiting",
                            "handling", "testing", "asleep", "ended"}]
    BY <1>1, <1>2, <2>1 DEF StateTypes
  <2> QED
    BY <1>2, <2>1, <2>2, <2>3 DEF Gone
<1>3. CASE ReceiveLast("definitions", On_definition_end)
  BY <1>2, <1>3, Apart, GivenLists DEF ReceiveLast, CallMade, CallLists
<1>4. CASE ReceiveLast("recoveries", On_recovery_end)
  BY <1>2, <1>4, Apart, GivenLists DEF ReceiveLast, CallMade, CallLists
<1>5. CASE ReceiveGap
  <2>1. "increments" \in Threads \ {"definitions", "recoveries", "saver"}
    BY Apart
  <2> QED
    BY <1>2, <1>5, <2>1, GivenLists DEF ReceiveGap, CallMade, CallLists
<1>6. ASSUME NEW r \in Replays, ReplayFail(r)
      PROVE  \E t \in Threads, list \in CallLists : CallMade(t, list)
  <2>1. r \in Threads \ {"definitions", "recoveries", "saver"}
    BY <1>6, Apart
  <2> QED
    BY <1>2, <1>6, <2>1, GivenLists DEF ReplayFail, CallMade, CallLists
<1>7. CASE UserStop
  <2>1. "main" \in Threads \ {"definitions", "recoveries", "saver"}
    BY Apart
  <2> QED
    BY <1>2, <1>7, <2>1, GivenLists DEF UserStop, CallMade, CallLists
<1> QED
  BY <1>3, <1>4, <1>5, <1>6, <1>7 DEF Calling

\* The type, in every other step.
LEMMA OtherTypesHold ==
  ASSUME ThreadTypes, Quiet \/ Calling
  PROVE  ThreadTypes'
<1>1. CallTypes /\ StateTypes
  BY DEF ThreadTypes, StateTypes
<1> SUFFICES CallTypes' /\ StateTypes'
  BY DEF ThreadTypes, StateTypes
<1>2. CASE Quiet
  BY <1>1, <1>2 DEF Quiet, CallTypes, StateTypes, ListsOf
<1>3. CASE Calling
  <2>1. PICK t \in Threads, list \in CallLists : CallMade(t, list)
    BY <1>3, CallingStep
  <2>2. CallTypes'
    BY <1>1, <2>1, NewCalls DEF CallMade
  <2>3. early' \in BOOLEAN
    BY <1>1, <2>1 DEF CallMade, Call, StateTypes, Starting
  <2> QED
    BY <1>1, <2>1, <2>2, <2>3 DEF CallMade, StateTypes
<1> QED
  BY <1>2, <1>3

-----------------------------------------------------------------------------
(* Who has stopped what.                                                   *)

\* A quiet step does not bring back what is gone.
LEMMA QuietKeeps ==
  ASSUME StopParts, Quiet
  PROVE  StopParts'
<1>1. /\ UNCHANGED <<calls, step, handle, open, early>>
      /\ \A w \in Workers : pc'[w] # pc[w] => ~Gone(w) /\ pc'[w] # "none"
  BY DEF Quiet
<1>2. \A t \in Threads : Stopping(t)' <=> Stopping(t)
  BY <1>1 DEF Stopping
<1>3. Starting' <=> Starting
  BY <1>1 DEF Starting
<1>4. DefinitionsOver' <=> DefinitionsOver
  BY <1>1, Apart DEF DefinitionsOver, Gone
<1>5. \A t \in Threads : PastDefinitions(t)' <=> PastDefinitions(t)
  BY <1>1, <1>2 DEF PastDefinitions
<1>6. \A w \in Workers : Gone(w) => Gone(w)'
  BY <1>1 DEF Gone
<1>7. Started'
  BY <1>1 DEF StopParts, Started, Rest, ManagerStart, Begin, Place, Workers, UdpFeeds
<1>8. Ready'
  BY <1>1, <1>2, <1>3 DEF StopParts, Ready
<1>9. ClosedOnce'
  BY <1>1, <1>4, <1>5 DEF StopParts, ClosedOnce
<1>10. StaysStopped'
  BY <1>1, <1>2, <1>6, Apart DEF StopParts, StaysStopped
<1> QED
  BY <1>7, <1>8, <1>9, <1>10 DEF StopParts

\* A new Stop has stopped nothing, and counts only if Start is done.
LEMMA CallKeeps ==
  ASSUME ThreadTypes, StopParts, NEW t \in Threads, NEW list \in CallLists,
         CallMade(t, list)
  PROVE  StopParts'
<1>1. /\ calls[t] = <<>> /\ list \in ListsOf(t)
      /\ \/ list = ManagerStop
         \/ /\ list = On_definition_end /\ t = "definitions"
            /\ "definitions" \in open
         \/ list = On_recovery_end /\ t = "recoveries"
      /\ UNCHANGED <<step, handle, open>>
      /\ \A w \in Workers : pc'[w] # pc[w] => ~Gone(w) /\ pc'[w] # "none"
  BY DEF CallMade
<1>2. /\ calls' = [calls EXCEPT ![t] = list]
      /\ early' = IF list = ManagerStop THEN early \/ Starting ELSE early
  BY DEF CallMade, Call
<1>3. /\ CallTypes /\ early \in BOOLEAN
      /\ calls'[t] = list /\ step[t] = 1
      /\ \A u \in Threads \ {t} : calls'[u] = calls[u]
  BY <1>1, <1>2 DEF ThreadTypes, CallTypes
<1>4. \A u \in Threads \ {t} : Stopping(u)' <=> Stopping(u)
  BY <1>3 DEF Stopping
<1>5. Stopping(t)' => list = ManagerStop /\ Len(list) = 5
                     /\ t \notin {"definitions", "recoveries"}
  <2>1. CASE list = ManagerStop
    <3>1. Len(list) = 5 /\ list # <<>> /\ list \in Rest(ManagerStop)
      BY <2>1, StopIs, RestWhole
    <3>2. t # "definitions" /\ t # "recoveries"
      BY <1>1, <3>1, ListKinds DEF ListsOf
    <3> QED
      BY <2>1, <3>1, <3>2
  <2>2. CASE list # ManagerStop
    <3>1. list \in Rest(On_definition_end) \cup Rest(On_recovery_end)
      BY <1>1, <2>2, RestWhole, DefinitionEndIs, RecoveryEndIs
    <3> QED
      BY <1>3, <3>1, ListKinds DEF Stopping
  <2> QED
    BY <2>1, <2>2
<1>6. Starting' => Starting
  <2>1. CASE t = "main"
    <3>1. list = ManagerStop
      BY <1>1, <2>1
    <3>2. list \in Rest(ManagerStop)
      BY <3>1, StopIs, RestWhole
    <3> QED
      BY <1>3, <2>1, <3>2, ListKinds DEF Starting
  <2>2. CASE t # "main"
    BY <1>3, <2>2, Apart DEF Starting
  <2> QED
    BY <2>1, <2>2
<1>7. ~early' => ~early /\ (list = ManagerStop => ~Starting)
  BY <1>2
<1>8. Started'
  <2>1. CASE t = "main"
    <3>1. \A w \in Workers \ {"recoveries"} : handle[w] # "null"
      <4>1. \A w \in Workers \ {"recoveries"} : Place[w] > 0
        BY DEF Place
      <4>2. Len(calls["main"]) = 0
        BY <1>1, <2>1
      <4> QED
        BY <4>1, <4>2 DEF StopParts, Started, Place
    <3> QED
      BY <1>1, <3>1 DEF Started
  <2>2. CASE t # "main"
    <3>1. calls'["main"] = calls["main"] /\ handle' = handle
      BY <1>1, <1>3, <2>2, Apart
    <3> QED
      BY <3>1 DEF StopParts, Started, Rest, ManagerStart, Begin, Place, Workers, UdpFeeds
  <2> QED
    BY <2>1, <2>2
<1>9. Ready'
  BY <1>4, <1>5, <1>6, <1>7 DEF StopParts, Ready
<1>10. \A u \in Threads : PastDefinitions(u)' => u # t /\ PastDefinitions(u)
  BY <1>1, <1>3, <1>4, <1>5 DEF PastDefinitions
<1>11. DefinitionsOver' => DefinitionsOver
  <2>1. pc'["recoveries"] # "none" => pc["recoveries"] # "none"
    BY <1>1, Apart DEF Gone
  <2>2. CASE t = "definitions"
    <3>1. list = On_definition_end \/ list = ManagerStop
      BY <1>1, <2>2
    <3>2. CASE list = ManagerStop
      <4>1. list \in Rest(ManagerStop) /\ list # <<>>
        BY <3>2, StopIs, RestWhole
      <4>2. list \in Rest(On_definition_end)
        BY <1>1, <2>2 DEF ListsOf
      <4> QED
        BY <4>1, <4>2, ListKinds
    <3>3. CASE list = On_definition_end
      <4>1. Len(calls'["definitions"]) = 2 /\ step'["definitions"] = 1
        BY <1>1, <1>3, <2>2, <3>3, DefinitionEndIs
      <4> QED
        BY <2>1, <4>1 DEF DefinitionsOver
    <3> QED
      BY <3>1, <3>2, <3>3
  <2>3. CASE t # "definitions"
    BY <1>1, <1>3, <2>1, <2>3, Apart DEF DefinitionsOver
  <2> QED
    BY <2>2, <2>3
<1>12. ClosedOnce'
  <2>1. DefinitionsOver' => "definitions" \notin open'
    BY <1>1, <1>11 DEF StopParts, ClosedOnce
  <2>2. ASSUME NEW u \in Threads, PastDefinitions(u)'
        PROVE  "definitions" \notin open' /\ ~DefinitionsOver'
    BY <1>1, <1>10, <1>11, <2>2 DEF StopParts, ClosedOnce
  <2> QED
    BY <2>1, <2>2 DEF ClosedOnce
<1>13. \A w \in Workers : Gone(w) => Gone(w)'
  BY <1>1 DEF Gone
<1>14. StaysStopped'
  <2>1. ASSUME ~early', NEW u \in Threads, Stopping(u)'
        PROVE  /\ Len(calls'[u]) < 5 => Gone("saver")'
               /\ Len(calls'[u]) < 3 => Gone("definitions")'
               /\ Len(calls'[u]) < 2 => Gone("increments")'
    <3>1. CASE u = t
      <4>1. calls'[u] = list /\ Len(list) = 5
        BY <1>3, <1>5, <2>1, <3>1
      <4>2. ~(5 < 5) /\ ~(5 < 3) /\ ~(5 < 2)
        OBVIOUS
      <4> QED
        BY <4>1, <4>2, Zenon
    <3>2. CASE u # t
      <4>1. ~early /\ Stopping(u) /\ calls'[u] = calls[u]
        BY <1>3, <1>4, <1>7, <2>1, <3>2
      <4>2. /\ Len(calls[u]) < 5 => Gone("saver")
            /\ Len(calls[u]) < 3 => Gone("definitions")
            /\ Len(calls[u]) < 2 => Gone("increments")
        BY <4>1 DEF StopParts, StaysStopped
      <4> QED
        BY <1>13, <4>1, <4>2, Apart, Zenon
    <3> QED
      BY <3>1, <3>2
  <2> QED
    BY <2>1 DEF StaysStopped
<1> QED
  BY <1>8, <1>9, <1>12, <1>14 DEF StopParts

\* A call of which a step is done, and which has not returned: nothing is
\* brought back but by a start.
LEMMA ContinueKeeps ==
  ASSUME ThreadTypes, StopParts, NEW t \in Threads, calls[t] # <<>>,
         Continue(t), UNCHANGED <<handle, early>>,
         \A w \in Workers : pc'[w] # pc[w] =>
           \/ ~Gone(w) /\ pc'[w] # "none"
           \/ StartNext(t) /\ w # "recoveries"
           \/ w = "recoveries" /\ DefinitionEndNext(t) /\ Left(t) = 1,
         \/ open' = open
         \/ Who(t) \in open /\ open' = open \ {Who(t)},
         StopNext(t) /\ Left(t) = 3 =>
           \/ step[t] > 1
           \/ Who(t) = "definitions" /\ Who(t) \in open /\ Who(t) \notin open',
         DefinitionEndNext(t) /\ Left(t) = 2 =>
           \/ step[t] > 1
           \/ Who(t) = "definitions" /\ Who(t) \in open /\ Who(t) \notin open'
  PROVE  StopParts'
<1>1. /\ calls' = calls /\ step' = [step EXCEPT ![t] = @ + 1]
      /\ handle' = handle /\ early' = early
  BY DEF Continue
<1>2. /\ CallTypes /\ step \in [Threads -> 1 .. 3]
      /\ step'[t] = step[t] + 1
      /\ \A u \in Threads \ {t} : step'[u] = step[u]
      /\ open' \subseteq open
  BY <1>1 DEF ThreadTypes, CallTypes
<1>3. \A u \in Threads : Stopping(u)' <=> Stopping(u)
  BY <1>1 DEF Stopping
<1>4. Starting' <=> Starting
  BY <1>1 DEF Starting
<1>5. Started'
  BY <1>1 DEF StopParts, Started, Rest, ManagerStart, Begin, Place, Workers, UdpFeeds
<1>6. Ready'
  BY <1>1, <1>3, <1>4 DEF StopParts, Ready
<1>7. pc'["recoveries"] # "none" =>
        pc["recoveries"] # "none" \/ (DefinitionEndNext(t) /\ Left(t) = 1)
  BY Apart DEF Gone
<1>8. \A u \in Threads \ {t} : PastDefinitions(u)' <=> PastDefinitions(u)
  BY <1>1, <1>2, <1>3 DEF PastDefinitions
<1>9. ASSUME StopNext(t) PROVE ClosedOnce'
  <2>1. t # "definitions" /\ ~DefinitionEndNext(t)
    BY <1>9 DEF StopNext, DefinitionEndNext
  <2>2. DefinitionsOver' => DefinitionsOver
    BY <1>1, <1>2, <1>7, <2>1, Apart DEF DefinitionsOver
  <2>3. PastDefinitions(t)' => PastDefinitions(t) \/
          ("definitions" \in open /\ "definitions" \notin open')
    BY <1>1, <1>2, <1>3, <1>9 DEF PastDefinitions, Left
  <2>4. \A u \in Threads : PastDefinitions(u)' =>
          "definitions" \notin open' /\ ~DefinitionsOver'
    BY <1>2, <1>8, <2>2, <2>3 DEF StopParts, ClosedOnce
  <2>5. DefinitionsOver' => "definitions" \notin open'
    BY <1>2, <2>2 DEF StopParts, ClosedOnce
  <2> QED
    BY <2>4, <2>5 DEF ClosedOnce
<1>10. ASSUME DefinitionEndNext(t) PROVE ClosedOnce'
  <2>1. t = "definitions" /\ ~Stopping(t)
    BY <1>10 DEF DefinitionEndNext
  <2>2. \A u \in Threads : PastDefinitions(u)' => u # t /\ PastDefinitions(u)
    BY <1>3, <1>8, <2>1 DEF PastDefinitions
  <2>3. CASE DefinitionsOver
    <3>1. "definitions" \notin open'
      BY <1>2, <2>3 DEF StopParts, ClosedOnce
    <3>2. \A u \in Threads : ~PastDefinitions(u)'
      BY <2>2, <2>3 DEF StopParts, ClosedOnce
    <3> QED
      BY <3>1, <3>2 DEF ClosedOnce
  <2>4. CASE ~DefinitionsOver
    <3>1. Left(t) = 2 /\ ~(step[t] > 1)
      BY <1>10, <2>1, <2>4 DEF DefinitionsOver, DefinitionEndNext, Left
    <3>2. "definitions" \in open /\ "definitions" \notin open'
      BY <1>10, <3>1
    <3>3. \A u \in Threads : ~PastDefinitions(u)'
      BY <2>2, <3>2 DEF StopParts, ClosedOnce
    <3> QED
      BY <3>2, <3>3 DEF ClosedOnce
  <2> QED
    BY <2>3, <2>4
<1>11. ASSUME StartNext(t) \/ RecoveryEndNext(t) PROVE ClosedOnce'
  <2>1. t # "definitions" /\ ~Stopping(t) /\ ~DefinitionEndNext(t)
    BY <1>11 DEF StartNext, RecoveryEndNext, DefinitionEndNext
  <2>2. DefinitionsOver' => DefinitionsOver
    BY <1>1, <1>2, <1>7, <2>1, Apart DEF DefinitionsOver
  <2>3. \A u \in Threads : PastDefinitions(u)' => PastDefinitions(u)
    BY <1>3, <1>8, <2>1 DEF PastDefinitions
  <2> QED
    BY <1>2, <2>2, <2>3 DEF StopParts, ClosedOnce
<1>12. ClosedOnce'
  BY <1>2, <1>9, <1>10, <1>11, NextCall
<1>13. StaysStopped'
  <2>1. ASSUME ~early', NEW u \in Threads, Stopping(u)'
        PROVE  /\ Len(calls'[u]) < 5 => Gone("saver")'
               /\ Len(calls'[u]) < 3 => Gone("definitions")'
               /\ Len(calls'[u]) < 2 => Gone("increments")'
    <3>1. ~early /\ Stopping(u) /\ calls'[u] = calls[u]
      BY <1>1, <1>3, <2>1
    <3>2. /\ Len(calls[u]) < 5 => Gone("saver")
          /\ Len(calls[u]) < 3 => Gone("definitions")
          /\ Len(calls[u]) < 2 => Gone("increments")
      BY <3>1 DEF StopParts, StaysStopped
    <3>3. ~Starting
      BY <3>1 DEF StopParts, Ready
    <3>4. ~StartNext(t)
      BY <3>3 DEF StartNext
    <3>5. \A w \in Workers \ {"recoveries"} : Gone(w) => Gone(w)'
      BY <3>4 DEF Gone
    <3> QED
      BY <3>1, <3>2, <3>5, Apart
  <2> QED
    BY <2>1 DEF StaysStopped
<1> QED
  BY <1>5, <1>6, <1>12, <1>13 DEF StopParts

\* The stop of a thread returns, which is gone then if that counts.
LEMMA StopReturns ==
  ASSUME ThreadTypes, StopParts, NEW t \in Threads, At(t, "stop", step[t]),
         step[t] > 1, Return(t), UNCHANGED <<pc, open, early>>,
         \A w \in Workers : handle'[w] = "null" => handle[w] = "null",
         StopNext(t) /\ ~early => Who(t) = "recoveries" \/ Gone(Who(t))
  PROVE  StopParts'
<1>1. /\ CallTypes /\ calls[t] # <<>>
      /\ calls' = [calls EXCEPT ![t] = Tail(@)]
      /\ step' = [step EXCEPT ![t] = 1]
      /\ pc' = pc /\ open' = open /\ early' = early
  BY DEF ThreadTypes, At, Return
<1>2. /\ calls'[t] = Tail(calls[t]) /\ step'[t] = 1
      /\ \A u \in Threads \ {t} : calls'[u] = calls[u] /\ step'[u] = step[u]
      /\ Len(calls'[t]) = Left(t) - 1
  BY <1>1, NextCall DEF CallTypes
<1>3. \/ /\ StopNext(t)
         /\ \/ Left(t) = 5 /\ Who(t) = "saver"
            \/ Left(t) = 4 /\ Who(t) = "recoveries"
            \/ Left(t) = 3 /\ Who(t) = "definitions"
            \/ Left(t) = 2 /\ Who(t) = "increments"
      \/ DefinitionEndNext(t) /\ Left(t) = 2 /\ Who(t) = "definitions"
      \/ RecoveryEndNext(t) /\ Left(t) = 1 /\ Who(t) = "recoveries"
  BY <1>1, WhoStops
<1>4. \A u \in Threads : Stopping(u)' => Stopping(u) /\ (u = t => StopNext(t))
  <2>1. ASSUME NEW u \in Threads \ {t} PROVE Stopping(u)' <=> Stopping(u)
    BY <1>2, <2>1 DEF Stopping
  <2>2. ASSUME DefinitionEndNext(t) \/ RecoveryEndNext(t) PROVE ~Stopping(t)'
    BY <1>2, <2>2, ListKinds DEF DefinitionEndNext, RecoveryEndNext, Stopping
  <2>3. StopNext(t) => Stopping(t)
    BY DEF StopNext
  <2> QED
    BY <1>3, <2>1, <2>2, <2>3
<1>5. Starting' => Starting
  <2>1. CASE t = "main"
    <3>1. calls'[t] \in Rest(ManagerStop)
      BY <1>2, <1>3, <2>1 DEF StopNext, DefinitionEndNext, RecoveryEndNext
    <3> QED
      BY <2>1, <3>1, ListKinds DEF Starting
  <2>2. CASE t # "main"
    BY <1>2, <2>2, Apart DEF Starting
  <2> QED
    BY <2>1, <2>2
<1>6. Started'
  <2>1. ASSUME NEW w \in Workers \ {"recoveries"}, handle'[w] = "null"
        PROVE  calls'["main"] \in Rest(ManagerStart) /\ Len(calls'["main"]) >= Place[w]
    <3>1. calls["main"] \in Rest(ManagerStart) /\ Len(calls["main"]) >= Place[w]
      BY <2>1 DEF StopParts, Started
    <3>2. t # "main"
      <4>1. SUFFICES ASSUME t = "main" PROVE FALSE
        OBVIOUS
      <4>2. StopNext(t)
        BY <1>3, <4>1 DEF DefinitionEndNext, RecoveryEndNext
      <4>3. Stopping(t) /\ ~ Stopping(t)
        BY <3>1, <4>1, <4>2, ListKinds DEF StopNext, Stopping
      <4> QED
        BY <4>3
    <3> QED
      BY <1>2, <3>1, <3>2, Apart
  <2> QED
    BY <2>1 DEF Started, Rest, ManagerStart, Begin, Place, Workers, UdpFeeds
<1>7. Ready'
  BY <1>1, <1>4, <1>5 DEF StopParts, Ready
<1>8. DefinitionsOver' => DefinitionsOver
  <2>1. CASE t = "definitions"
    <3>1. DefinitionEndNext(t)
      BY <1>3, <2>1 DEF StopNext, RecoveryEndNext
    <3>2. DefinitionsOver
      BY <1>1, <2>1, <3>1 DEF DefinitionsOver
    <3> QED
      BY <3>2
  <2>2. CASE t # "definitions"
    BY <1>1, <1>2, <2>2, Apart DEF DefinitionsOver
  <2> QED
    BY <2>1, <2>2
<1>9. \A u \in Threads : PastDefinitions(u)' => PastDefinitions(u)
  <2>1. ASSUME NEW u \in Threads \ {t}, PastDefinitions(u)'
        PROVE  PastDefinitions(u)
    BY <1>2, <1>4, <2>1 DEF PastDefinitions
  <2>2. ASSUME PastDefinitions(t)' PROVE PastDefinitions(t)
    <3>1. Stopping(t) /\ StopNext(t) /\ Left(t) - 1 < 3
      BY <1>2, <1>4, <2>2 DEF PastDefinitions
    <3>2. Left(t) < 3 \/ Left(t) = 3
      BY <3>1 DEF StopNext
    <3> QED
      BY <3>1, <3>2 DEF PastDefinitions, Left
  <2> QED
    BY <2>1, <2>2
<1>10. ClosedOnce'
  BY <1>1, <1>8, <1>9 DEF StopParts, ClosedOnce
<1>11. StaysStopped'
  <2>1. ASSUME ~early', NEW u \in Threads, Stopping(u)'
        PROVE  /\ Len(calls'[u]) < 5 => Gone("saver")'
               /\ Len(calls'[u]) < 3 => Gone("definitions")'
               /\ Len(calls'[u]) < 2 => Gone("increments")'
    <3>1. ~early /\ Stopping(u)
      BY <1>1, <1>4, <2>1
    <3>2. /\ Len(calls[u]) < 5 => Gone("saver")
          /\ Len(calls[u]) < 3 => Gone("definitions")
          /\ Len(calls[u]) < 2 => Gone("increments")
      BY <3>1 DEF StopParts, StaysStopped
    <3>3. \A w \in Workers : Gone(w)' <=> Gone(w)
      BY <1>1 DEF Gone
    <3>4. CASE u # t
      BY <1>2, <3>2, <3>3, <3>4, Apart
    <3>5. CASE u = t
      <4>1. StopNext(t) /\ (Who(t) = "recoveries" \/ Gone(Who(t)))
        BY <1>4, <2>1, <3>1, <3>5
      <4>2. \/ Left(t) = 5 /\ Gone("saver")
            \/ Left(t) = 4
            \/ Left(t) = 3 /\ Gone("definitions")
            \/ Left(t) = 2 /\ Gone("increments")
        BY <1>3, <4>1 DEF StopNext, DefinitionEndNext, RecoveryEndNext
      <4>3. /\ Left(t) < 5 => Gone("saver")
            /\ Left(t) < 3 => Gone("definitions")
            /\ Left(t) < 2 => Gone("increments")
        BY <3>2, <3>5 DEF Left
      <4>4. /\ Left(t) - 1 < 5 => Gone("saver")
            /\ Left(t) - 1 < 3 => Gone("definitions")
            /\ Left(t) - 1 < 2 => Gone("increments")
        BY <4>2, <4>3
      <4> QED
        BY <1>2, <3>3, <3>5, <4>4, Apart
    <3> QED
      BY <3>4, <3>5
  <2> QED
    BY <2>1 DEF StaysStopped
<1> QED
  BY <1>6, <1>7, <1>10, <1>11 DEF StopParts

\* Nothing of this changes.
LEMMA UnchangedKeeps ==
  ASSUME StopParts, UNCHANGED <<pc, calls, step, handle, open, early>>
  PROVE  StopParts'
<1>1. \A t \in Threads : Stopping(t)' <=> Stopping(t)
  BY DEF Stopping
<1>2. Starting' <=> Starting
  BY DEF Starting
<1>3. DefinitionsOver' <=> DefinitionsOver
  BY DEF DefinitionsOver
<1>4. \A t \in Threads : PastDefinitions(t)' <=> PastDefinitions(t)
  BY <1>1 DEF PastDefinitions
<1>5. \A w \in Workers : Gone(w)' <=> Gone(w)
  BY DEF Gone
<1>6. Started'
  BY DEF StopParts, Started, Rest, ManagerStart, Begin, Place, Workers, UdpFeeds
<1>7. Ready'
  BY <1>1, <1>2 DEF StopParts, Ready
<1>8. ClosedOnce'
  BY <1>3, <1>4 DEF StopParts, ClosedOnce
<1>9. StaysStopped'
  BY <1>1, <1>5, Apart DEF StopParts, StaysStopped
<1> QED
  BY <1>6, <1>7, <1>8, <1>9 DEF StopParts

\* A start returns: the thread has its object, and no Stop counts that is
\* there while Start is not done.
LEMMA AssignKeeps ==
  ASSUME ThreadTypes, StopParts, NEW t \in Threads, calls[t] # <<>>,
         At(t, "start", 2), Return(t),
         handle' = [handle EXCEPT ![Who(t)] = "joinable"],
         UNCHANGED <<pc, open, early>>
  PROVE  StopParts'
<1>1. /\ CallTypes /\ calls' = [calls EXCEPT ![t] = Tail(@)]
      /\ step' = [step EXCEPT ![t] = 1]
      /\ pc' = pc /\ open' = open /\ early' = early
      /\ handle = [w \in Workers |-> handle[w]]
  BY DEF ThreadTypes, Return
<1>2. /\ calls'[t] = Tail(calls[t]) /\ step'[t] = 1
      /\ \A u \in Threads \ {t} : calls'[u] = calls[u] /\ step'[u] = step[u]
      /\ Len(calls'[t]) = Left(t) - 1
  BY <1>1, NextCall DEF CallTypes
<1>3. \/ /\ StartNext(t) /\ Who(t) \in Workers \ {"recoveries"}
         /\ Left(t) = Place[Who(t)]
      \/ DefinitionEndNext(t) /\ Who(t) = "recoveries" /\ Left(t) = 1
  BY <1>1, WhoStarts
<1>4. \A u \in Threads : Stopping(u)' => Stopping(u) /\ u # t
  <2>1. ASSUME NEW u \in Threads \ {t} PROVE Stopping(u)' <=> Stopping(u)
    BY <1>2, <2>1 DEF Stopping
  <2>2. ~Stopping(t)'
    BY <1>2, <1>3, ListKinds DEF StartNext, DefinitionEndNext, Stopping
  <2> QED
    BY <2>1, <2>2
<1>5. Starting' => Starting
  <2>1. CASE t = "main"
    BY <1>3, <2>1 DEF StartNext, DefinitionEndNext
  <2>2. CASE t # "main"
    BY <1>2, <2>2, Apart DEF Starting
  <2> QED
    BY <2>1, <2>2
<1>6. Started'
  <2>1. ASSUME NEW w \in Workers \ {"recoveries"}, handle'[w] = "null"
        PROVE  calls'["main"] \in Rest(ManagerStart) /\ Len(calls'["main"]) >= Place[w]
    <3>1. handle[w] = "null" /\ w # Who(t)
      BY <1>1, <2>1
    <3>2. calls["main"] \in Rest(ManagerStart) /\ Len(calls["main"]) >= Place[w]
      BY <2>1, <3>1 DEF StopParts, Started
    <3>3. CASE StartNext(t)
      <4>1. /\ t = "main" /\ calls'[t] \in Rest(ManagerStart)
            /\ Left(t) = Place[Who(t)] /\ Left(t) \in {1, 2, 3}
        BY <1>2, <1>3, <3>3 DEF StartNext, DefinitionEndNext
      <4>2. Place[w] \in {1, 2, 3} /\ Place[w] # Left(t)
        BY <1>3, <2>1, <3>1, <3>3, <4>1, Apart
           DEF Place, StartNext, DefinitionEndNext
      <4>3. Left(t) >= Place[w]
        BY <3>2, <4>1 DEF Left
      <4>4. Left(t) - 1 >= Place[w]
        BY <4>1, <4>2, <4>3
      <4> QED
        BY <1>2, <4>1, <4>4
    <3>4. CASE DefinitionEndNext(t)
      BY <1>2, <3>2, <3>4, Apart DEF DefinitionEndNext
    <3> QED
      BY <1>3, <3>3, <3>4
  <2> QED
    BY <2>1 DEF Started, Rest, ManagerStart, Begin, Place, Workers, UdpFeeds
<1>7. Ready'
  BY <1>1, <1>4, <1>5 DEF StopParts, Ready
<1>8. DefinitionsOver' => DefinitionsOver
  <2>1. CASE t = "definitions"
    <3>1. Left(t) = 1
      BY <1>3, <2>1 DEF StartNext
    <3> QED
      BY <2>1, <3>1 DEF DefinitionsOver, Left
  <2>2. CASE t # "definitions"
    BY <1>1, <1>2, <2>2, Apart DEF DefinitionsOver
  <2> QED
    BY <2>1, <2>2
<1>9. \A u \in Threads : PastDefinitions(u)' => PastDefinitions(u)
  BY <1>2, <1>4 DEF PastDefinitions
<1>10. ClosedOnce'
  BY <1>1, <1>8, <1>9 DEF StopParts, ClosedOnce
<1>11. StaysStopped'
  <2>1. ASSUME ~early', NEW u \in Threads, Stopping(u)'
        PROVE  /\ Len(calls'[u]) < 5 => Gone("saver")'
               /\ Len(calls'[u]) < 3 => Gone("definitions")'
               /\ Len(calls'[u]) < 2 => Gone("increments")'
    <3>1. ~early /\ Stopping(u) /\ calls'[u] = calls[u]
      BY <1>1, <1>2, <1>4, <2>1
    <3>2. /\ Len(calls[u]) < 5 => Gone("saver")
          /\ Len(calls[u]) < 3 => Gone("definitions")
          /\ Len(calls[u]) < 2 => Gone("increments")
      BY <3>1 DEF StopParts, StaysStopped
    <3>3. \A w \in Workers : Gone(w)' <=> Gone(w)
      BY <1>1 DEF Gone
    <3> QED
      BY <3>1, <3>2, <3>3, Apart
  <2> QED
    BY <2>1 DEF StaysStopped
<1> QED
  BY <1>6, <1>7, <1>10, <1>11 DEF StopParts

\* What a call does, step by step.
LEMMA CallStepKeeps ==
  ASSUME ThreadTypes, StopParts, NEW t \in Threads, CallStep(t)
  PROVE  StopParts'
<1>1. /\ CallTypes /\ pc = [u \in Threads |-> pc[u]]
      /\ handle = [w \in Workers |-> handle[w]]
  BY DEF ThreadTypes
<1>2. CASE Spawn(t)
  <2>1. /\ calls[t] # <<>> /\ Continue(t) /\ open' = open
        /\ UNCHANGED <<handle, early>> /\ At(t, "start", 1)
        /\ pc' = [pc EXCEPT ![Who(t)] = IF Who(t) \in UdpFeeds THEN "opening"
                                                           ELSE "running"]
    BY <1>2 DEF Spawn, At, fixed
  <2>2. \/ StartNext(t) /\ Who(t) # "recoveries"
        \/ DefinitionEndNext(t) /\ Who(t) = "recoveries" /\ Left(t) = 1
    BY <1>1, <2>1, WhoStarts
  <2>3. \A w \in Workers : pc'[w] # pc[w] =>
           \/ StartNext(t) /\ w # "recoveries"
           \/ w = "recoveries" /\ DefinitionEndNext(t) /\ Left(t) = 1
    BY <1>1, <2>1, <2>2, Apart
  <2>4. ~StopNext(t) /\ ~(DefinitionEndNext(t) /\ Left(t) = 2)
    BY <2>2 DEF StartNext, StopNext, DefinitionEndNext
  <2> QED
    BY <2>1, <2>3, <2>4, ContinueKeeps
<1>3. CASE Assign(t)
  <2>1. /\ calls[t] # <<>> /\ Return(t) /\ At(t, "start", 2)
        /\ handle' = [handle EXCEPT ![Who(t)] = "joinable"]
        /\ UNCHANGED <<pc, open, early>>
    BY <1>3 DEF Assign, At, fixed
  <2> QED
    BY <1>1, <2>1, AssignKeeps
<1>4. CASE StopSaver(t)
  <2>1. /\ calls[t] # <<>> /\ Continue(t) /\ open' = open
        /\ UNCHANGED <<handle, early>> /\ At(t, "stop", 1)
        /\ Who(t) = "saver"
        /\ pc' = [pc EXCEPT !["saver"] = IF @ = "asleep" THEN "running" ELSE @]
    BY <1>4 DEF StopSaver, At, fixed
  <2>2. \A w \in Workers : pc'[w] # pc[w] => ~Gone(w) /\ pc'[w] # "none"
    BY <1>1, <2>1, Apart DEF Gone
  <2>3. StopNext(t) /\ Left(t) = 5
    BY <1>1, <2>1, WhoStops
  <2>4. ~DefinitionEndNext(t)
    BY <2>3 DEF StopNext, DefinitionEndNext
  <2> QED
    BY <2>1, <2>2, <2>3, <2>4, ContinueKeeps
<1>5. CASE Close(t)
  <2>1. /\ calls[t] # <<>> /\ Continue(t)
        /\ Who(t) \in open /\ open' = open \ {Who(t)}
        /\ UNCHANGED <<pc, handle, early>> /\ At(t, "stop", 1)
    BY <1>5 DEF Close, At, fixed
  <2>2. /\ StopNext(t) /\ Left(t) = 3 => Who(t) = "definitions"
        /\ DefinitionEndNext(t) /\ Left(t) = 2 => Who(t) = "definitions"
    BY <1>1, <2>1, WhoStops DEF StopNext, DefinitionEndNext, RecoveryEndNext
  <2>3. Who(t) \notin open'
    BY <2>1
  <2> QED
    BY <2>1, <2>2, <2>3, ContinueKeeps
<1>6. CASE CloseClosed(t) \/ JoinJoined(t) \/ ChannelStopped(t)
  <2>1. UNCHANGED <<pc, calls, step, handle, open, early>>
    BY <1>6 DEF CloseClosed, JoinJoined, ChannelStopped, Fail, fixed
  <2> QED
    BY <2>1, UnchangedKeeps
<1>7. CASE NoThread(t)
  <2>1. /\ At(t, "stop", 2) /\ handle[Who(t)] = "null" /\ Return(t)
        /\ UNCHANGED <<pc, handle, open, early>> /\ step[t] = 2
    BY <1>7 DEF NoThread, At, fixed
  <2>2. ASSUME StopNext(t), ~early, Who(t) # "recoveries" PROVE FALSE
    <3>1. Who(t) \in Workers \ {"recoveries"}
      BY <1>1, <2>1, <2>2, WhoStops, Apart
    <3>2. calls["main"] \in Rest(ManagerStart) /\ Len(calls["main"]) >= Place[Who(t)]
      BY <2>1, <3>1 DEF StopParts, Started
    <3>3. Place[Who(t)] > 0
      BY <3>1 DEF Place
    <3>4. calls["main"] # <<>>
      <4>1. SUFFICES ASSUME calls["main"] = <<>> PROVE FALSE
        OBVIOUS
      <4>2. Len(calls["main"]) = 0
        BY <4>1
      <4>3. Place[Who(t)] \in Nat
        BY <3>1 DEF Place
      <4> QED
        BY <3>2, <3>3, <4>2, <4>3
    <3>5. Starting
      BY <3>2, <3>4, ListKinds DEF Starting
    <3>6. Stopping(t)
      BY <2>2 DEF StopNext
    <3> QED
      BY <2>2, <3>5, <3>6 DEF StopParts, Ready
  <2> QED
    BY <2>1, <2>2, StopReturns
<1>8. CASE Signal(t)
  <2>1. /\ calls[t] # <<>> /\ Continue(t) /\ open' = open
        /\ UNCHANGED <<handle, early>> /\ step[t] = 2
        /\ pc[t] \notin {"none", "ended"}
        /\ pc' = pc \/ pc' = [pc EXCEPT ![t] = "ended"]
    BY <1>8 DEF Signal, At, Alive, fixed
  <2>2. \A w \in Workers : pc'[w] # pc[w] => ~Gone(w) /\ pc'[w] # "none"
    BY <1>1, <2>1, Apart DEF Gone
  <2>3. step[t] > 1
    BY <2>1
  <2> QED
    BY <2>1, <2>2, <2>3, ContinueKeeps
<1>9. CASE Join(t)
  <2>1. /\ At(t, "stop", 3) /\ pc[Who(t)] = "ended" /\ Return(t)
        /\ handle' = [handle EXCEPT ![Who(t)] = "joined"]
        /\ UNCHANGED <<pc, open, early>> /\ step[t] = 3
    BY <1>9 DEF Join, At, fixed
  <2>2. \A w \in Workers : handle'[w] = "null" => handle[w] = "null"
    BY <1>1, <2>1
  <2>3. Gone(Who(t)) /\ step[t] > 1
    BY <2>1 DEF Gone
  <2> QED
    BY <2>1, <2>2, <2>3, StopReturns
<1> QED
  BY <1>2, <1>3, <1>4, <1>5, <1>6, <1>7, <1>8, <1>9 DEF CallStep

-----------------------------------------------------------------------------
(* The theorem.                                                            *)

LEMMA StopInvInit == ManagerInit => ThreadTypes /\ StopParts /\ StopComplete
<1> SUFFICES ASSUME ManagerInit PROVE ThreadTypes /\ StopParts /\ StopComplete
  OBVIOUS
<1>1. /\ calls = [t \in Threads |-> IF t = "main" THEN ManagerStart ELSE <<>>]
      /\ step = [t \in Threads |-> 1]
      /\ pc = [t \in Threads |-> IF t = "main" THEN "running" ELSE "none"]
      /\ handle = [w \in Workers |-> "null"]
      /\ open = UdpFeeds /\ process = "up" /\ early = FALSE
  BY DEF ManagerInit
<1>2. /\ ManagerStart \in Rest(ManagerStart) /\ Len(ManagerStart) = 3
  BY StartIs, RestWhole
<1>3. ThreadTypes
  <2>1. calls = [t \in Threads |-> calls[t]]
    BY <1>1
  <2>2. \A t \in Threads : calls[t] = IF t = "main" THEN ManagerStart ELSE <<>>
    BY <1>1
  <2>3. \A t \in Threads : calls[t] \in ListsOf(t)
    BY <2>2, GivenLists, Zenon
  <2>4. CallTypes
    BY <1>1, <2>1, <2>3 DEF CallTypes
  <2>5. StateTypes
    BY <1>1 DEF StateTypes
  <2> QED
    BY <2>4, <2>5 DEF ThreadTypes, StateTypes
<1>4. \A t \in Threads : ~Stopping(t)
  BY <1>1, <1>2, ListKinds DEF Stopping
<1>5. ~DefinitionsOver
  BY <1>1, Apart DEF DefinitionsOver
<1>6. Started
  <2>1. calls["main"] = ManagerStart
    BY <1>1, Apart
  <2>2. \A w \in Workers \ {"recoveries"} : 3 >= Place[w]
    BY DEF Place
  <2> QED
    BY <1>2, <2>1, <2>2 DEF Started
<1>7. Ready /\ ClosedOnce /\ StaysStopped
  BY <1>4, <1>5 DEF Ready, ClosedOnce, PastDefinitions, StaysStopped
<1>8. StopComplete
  BY <1>1 DEF StopComplete
<1> QED
  BY <1>3, <1>6, <1>7, <1>8 DEF StopParts

\* The program that reports the end has stopped all.
LEMMA StoppedComplete ==
  ASSUME ThreadTypes, StopParts, NEW t \in Threads, ChannelStopped(t)
  PROVE  StopComplete'
<1>1. /\ calls[t] # <<>> /\ Next_call(t).do = "callback"
      /\ UNCHANGED <<pc, early>> /\ CallTypes
  BY DEF ChannelStopped, At, Next_call, fixed, ThreadTypes
<1>2. StopNext(t) /\ Left(t) = 1
  <2>1. ~StartNext(t)
    BY <1>1 DEF StartNext, Begin
  <2>2. ~DefinitionEndNext(t)
    BY <1>1 DEF DefinitionEndNext, Begin, End
  <2>3. ~RecoveryEndNext(t)
    BY <1>1 DEF RecoveryEndNext, End
  <2>4. StopNext(t)
    BY <1>1, <2>1, <2>2, <2>3, NextCall
  <2> QED
    BY <1>1, <2>4 DEF StopNext, End
<1>3. Stopping(t) /\ PastDefinitions(t)
  BY <1>2 DEF StopNext, PastDefinitions, Left
<1>4. pc["recoveries"] = "none"
  BY <1>3 DEF StopParts, ClosedOnce, DefinitionsOver
<1>5. ~early => Gone("saver") /\ Gone("definitions") /\ Gone("increments")
  <2>1. Len(calls[t]) < 5 /\ Len(calls[t]) < 3 /\ Len(calls[t]) < 2
    BY <1>2 DEF Left
  <2> QED
    BY <1>3, <2>1, Zenon DEF StopParts, StaysStopped
<1> QED
  BY <1>1, <1>4, <1>5, Apart DEF StopComplete, Gone

\* StopComplete: when MarketManager::Stop reports its end, no thread of the
\* channel is left that Exit_work_thread had to end.
THEOREM ChannelStops == ManagerSpec => []StopComplete
<1> DEFINE Inv == ThreadTypes /\ StopParts /\ StopComplete
<1>1. ManagerInit => Inv
  BY StopInvInit
<1>2. Inv /\ [ManagerNext]_managerVars => Inv'
  <2> SUFFICES ASSUME Inv, [ManagerNext]_managerVars PROVE Inv'
    OBVIOUS
  <2>1. CASE UNCHANGED managerVars
    <3>1. UNCHANGED <<pc, calls, step, handle, open, early, process>>
      BY <2>1 DEF managerVars, fixed
    <3>2. ThreadTypes'
      BY <3>1 DEF ThreadTypes, CallTypes, ListsOf
    <3>3. StopComplete'
      BY <3>1 DEF StopComplete
    <3> QED
      BY <3>1, <3>2, <3>3, UnchangedKeeps
  <2>2. ASSUME NEW t \in Threads, CallStep(t) PROVE Inv'
    <3>1. ThreadTypes' /\ StopParts'
      BY <2>2, CallTypesHold, CallStepKeeps
    <3>2. StopComplete'
      <4>1. CASE ChannelStopped(t)
        BY <4>1, StoppedComplete
      <4>2. CASE ~ChannelStopped(t)
        <5>1. process' = "failed" \/ process' = process
          BY <2>2, <4>2 DEF CallStep, Spawn, Assign, StopSaver, Close,
             CloseClosed, NoThread, Signal, Join, JoinJoined, Fail
        <5>2. process = "up"
          BY <2>2, <4>2 DEF CallStep, Spawn, Assign, StopSaver, Close,
             CloseClosed, NoThread, Signal, Join, JoinJoined, At, Alive
        <5> QED
          BY <5>1, <5>2 DEF StopComplete
      <4> QED
        BY <4>1, <4>2
    <3> QED
      BY <3>1, <3>2
  <2>3. CASE Quiet
    <3>1. ThreadTypes' /\ StopParts'
      BY <2>3, OtherTypesHold, QuietKeeps
    <3>2. StopComplete'
      BY <2>3 DEF Quiet, StopComplete
    <3> QED
      BY <3>1, <3>2
  <2>4. CASE Calling
    <3>1. PICK t \in Threads, list \in CallLists : CallMade(t, list)
      BY <2>4, CallingStep
    <3>2. ThreadTypes' /\ StopParts'
      BY <2>4, <3>1, OtherTypesHold, CallKeeps
    <3>3. StopComplete'
      BY <3>1 DEF CallMade, StopComplete
    <3> QED
      BY <3>2, <3>3
  <2> QED
    BY <2>1, <2>2, <2>3, <2>4, OtherSteps
<1>3. Inv => StopComplete
  OBVIOUS
<1> QED
  BY <1>1, <1>2, <1>3, PTL DEF ManagerSpec

=============================================================================
