--------------------------- MODULE RecoverySaver ---------------------------
(***************************************************************************)
(* cme/market/recovery_saver.cc: collects the set of definitions, or of    *)
(* snapshots, that the exchange repeats in loops on two feeds.  A loop is   *)
(* Packets packets, numbered from 1; packet k ends with message Upto[k] of *)
(* the set.                                                                *)
(*                                                                         *)
(* A packet is named by its position in the endless repetition; what it    *)
(* carries is newer than what any earlier position carries.                *)
(***************************************************************************)
EXTENDS Integers, Sequences

CONSTANTS
  Packets,  \* packets in a loop
  Upto      \* messages in the first k packets of a loop

TotNumReports == Upto[Packets]   \* tag 911, in the first message of a loop

ASSUME LoopAssumption ==
  /\ Packets \in Nat \ {0}
  /\ Upto \in [0 .. Packets -> Nat]
  /\ Upto[0] = 0
  /\ \A j, k \in 0 .. Packets : j < k => Upto[j] < Upto[k]

VARIABLES
  m_current_sequence,  \* number of the last packet saved, 0 before
  m_total_number,      \* messages to receive, 0 before
  m_recovery_datas,    \* the messages saved, each by the position it came in
  ended                \* callback() was called: the feed is stopped

recoveryVars == <<m_current_sequence, m_total_number, m_recovery_datas, ended>>

SeqNum(position) == ((position - 1) % Packets) + 1

RecoveryTypeOK ==
  /\ m_current_sequence \in 0 .. Packets
  /\ m_total_number \in {0, TotNumReports}
  /\ m_recovery_datas \in Seq(Nat \ {0})
  /\ Len(m_recovery_datas) <= TotNumReports
  /\ ended \in BOOLEAN

RecoveryInit ==
  /\ m_current_sequence = 0
  /\ m_total_number = 0
  /\ m_recovery_datas = <<>>
  /\ ended = FALSE

-----------------------------------------------------------------------------
\* Pick_messages_from_packet
Messages(position) ==
  [n \in 1 .. Upto[SeqNum(position)] - Upto[SeqNum(position) - 1] |-> position]

\* Mutant: the messages of the loop before are kept.
Save_packet_keeps(position) ==
  /\ m_recovery_datas' = m_recovery_datas \o Messages(position)
  /\ m_total_number' =
       IF SeqNum(position) = 1 THEN TotNumReports ELSE m_total_number
  /\ m_current_sequence' = SeqNum(position)

\* The first packet of a loop starts a new set.
Save_packet(position) ==
  /\ \/ /\ SeqNum(position) = 1
        /\ m_recovery_datas' = Messages(position)
        /\ m_total_number' = TotNumReports
     \/ /\ SeqNum(position) # 1
        /\ m_recovery_datas' = m_recovery_datas \o Messages(position)
        /\ UNCHANGED m_total_number
  /\ m_current_sequence' = SeqNum(position)

\* Mutant: any later packet of the loop is taken for the next one.
Expected_any_later(position) ==
  SeqNum(position) > m_current_sequence \/ SeqNum(position) = 1

Expected(position) ==
  SeqNum(position) = m_current_sequence + 1 \/ SeqNum(position) = 1

\* Mutant: the set is complete with one message more than it has.
IsAllSaved_late == Len(m_recovery_datas') > m_total_number'

\* Save_packet returns true.
IsAllSaved == Len(m_recovery_datas') >= m_total_number'

\* Mutant: the feed goes on when the set is complete.
Process_recovery_packet_goes_on(position) ==
  \/ /\ ~Expected(position)
     /\ UNCHANGED recoveryVars
  \/ /\ Expected(position)
     /\ Save_packet(position)
     /\ UNCHANGED ended

\* A packet that is not the next one is discarded, unless a loop starts.  The
\* callback stops the feed before the next packet: nothing follows it.
Process_recovery_packet(position) ==
  /\ ~ended
  /\ \/ /\ ~Expected(position)
        /\ UNCHANGED recoveryVars
     \/ /\ Expected(position)
        /\ Save_packet(position)
        /\ ended' = IsAllSaved
=============================================================================
