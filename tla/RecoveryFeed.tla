---------------------------- MODULE RecoveryFeed ----------------------------
(***************************************************************************)
(* The recovery loop of a channel, from the exchange to the saver thread.  *)
(* Two feeds carry the same packets; each keeps its order, loses packets,  *)
(* and may be behind the other.  One thread (UDPReceiver's io_service)     *)
(* hands the packets of both to RecoverySaver; the saver thread            *)
(* (DatSaver::Process_recovery_data) polls the vector that RecoverySaver   *)
(* fills, without a lock, and takes what it finds.                         *)
(***************************************************************************)
EXTENDS RecoverySaver

CONSTANTS
  LastPosition,  \* packets the exchange sends (bound)
  MaxApart       \* how far one feed may be behind the other

ASSUME FeedsAssumption == LastPosition \in Nat /\ MaxApart \in Nat

VARIABLES
  pos,       \* the position each feed has come to
  apart,     \* history: the most that one feed was behind the other
  arrived,   \* history: positions received on some feed
  recovered, \* DatSaver: the recovery messages the book manager was given
  m_recovery_first_seq  \* DatSaver: position of the first recovery message

feedVars  == <<pos, apart, arrived>>
saverVars == <<recovered, m_recovery_first_seq>>
vars      == <<recoveryVars, feedVars, saverVars>>

Feeds == {"A", "B"}
Other(f) == IF f = "A" THEN "B" ELSE "A"

Positions == 1 .. LastPosition

TypeOK ==
  /\ RecoveryTypeOK
  /\ pos \in [Feeds -> 0 .. LastPosition]
  /\ apart \in 0 .. MaxApart
  /\ arrived \subseteq Positions
  /\ recovered \in Seq(Nat \ {0})
  /\ m_recovery_first_seq \in 0 .. LastPosition

\* The feed is opened at any moment of a loop.
Init ==
  /\ RecoveryInit
  /\ \E start \in 0 .. Packets - 1 :
       /\ start <= LastPosition
       /\ pos = [f \in Feeds |-> start]
  /\ apart = 0
  /\ arrived = {}
  /\ recovered = <<>>
  /\ m_recovery_first_seq = 0

-----------------------------------------------------------------------------
Behind(p) == IF p["A"] < p["B"] THEN p["B"] - p["A"] ELSE p["A"] - p["B"]

\* The next packet of a feed is on the line.
Advance(f) ==
  /\ pos[f] < LastPosition
  /\ pos' = [pos EXCEPT ![f] = @ + 1]
  /\ Behind(pos') <= MaxApart
  /\ apart' = IF apart < Behind(pos') THEN Behind(pos') ELSE apart
  /\ UNCHANGED saverVars

Receive(f) ==
  /\ Advance(f)
  /\ Process_recovery_packet(pos[f] + 1)
  /\ arrived' = arrived \cup {pos[f] + 1}

Lose(f) ==
  /\ Advance(f)
  /\ ~ended
  /\ UNCHANGED <<recoveryVars, arrived>>

\* Process_recovery_data polls until the vector is not empty, and hands it to
\* the book manager.
SaverRecovers ==
  /\ recovered = <<>>
  /\ m_recovery_datas # <<>>
  /\ recovered' = m_recovery_datas
  /\ UNCHANGED <<recoveryVars, feedVars, m_recovery_first_seq>>

\* ... and then reads the first element of the vector.
SaverFirst ==
  /\ recovered # <<>>
  /\ m_recovery_first_seq = 0
  /\ m_recovery_first_seq' = m_recovery_datas[1]
  /\ UNCHANGED <<recoveryVars, feedVars, recovered>>

Next ==
  \/ \E f \in Feeds : Receive(f) \/ Lose(f)
  \/ SaverRecovers
  \/ SaverFirst

Spec == Init /\ [][Next]_vars

-----------------------------------------------------------------------------
(* Properties.                                                             *)

\* data are the messages of the first packets of a loop, all of them, in the
\* order of the loop.
FirstMessages(data, packets) ==
  /\ Len(data) = Upto[packets]
  /\ \A n \in DOMAIN data : /\ Upto[SeqNum(data[n]) - 1] < n
                            /\ n <= Upto[SeqNum(data[n])]

\* Whatever is lost, repeated or late, no message of the set is missing or
\* there twice: the messages saved are those of packets 1 to
\* m_current_sequence, and the feed ends with those of the whole loop.  (They
\* may come from several loops.)
SetInOrder ==
  /\ FirstMessages(m_recovery_datas, m_current_sequence)
  /\ ended <=> m_current_sequence = Packets

\* As long as no feed is a whole loop behind the other, the set that the saver
\* takes when it is complete begins with its oldest message: the increments
\* that Convert_message drops, those up to the first message, are in every
\* snapshot.
NothingDroppedTooMuch ==
  /\ recovered # <<>> /\ Len(recovered) = TotNumReports
  /\ m_recovery_first_seq # 0
  /\ apart < Packets
  => \A n \in DOMAIN recovered : m_recovery_first_seq <= recovered[n]

\* As long as no feed is more than a packet behind the other, a loop that
\* arrives whole, be it half on each feed, completes the set.  (The first
\* packet of a loop, arriving again on the feed behind, throws away what was
\* saved.)
Loop(l) == {p \in Positions : (p - 1) \div Packets = l}

WholeLoopCompletes ==
  \A l \in 0 .. LastPosition \div Packets - 1 :
    Loop(l) \subseteq arrived /\ apart <= 1 => ended
=============================================================================
