--------------------------- MODULE DatArbitrator ---------------------------
(***************************************************************************)
(* cme/market/dat_arbitrator.cc: decides which packets of a channel are    *)
(* processed.  The same packet reaches the program several times: on the A *)
(* and on the B feed, and once more when a TCP replay was requested.       *)
(*                                                                         *)
(* The operations are action operators; IncrementFeed composes them with   *)
(* the threads that call them.                                             *)
(***************************************************************************)
EXTENDS Naturals

CONSTANTS
  LastSeq,  \* highest packet sequence number the exchange publishes (bound)
  SeqMax    \* std::numeric_limits<std::uint32_t>::max()

ASSUME SeqAssumption ==
  /\ LastSeq \in Nat \ {0}
  /\ SeqMax \in Nat
  /\ LastSeq + 1 < SeqMax     \* a channel is reset long before the wrap

VARIABLES
  m_current_sequence,  \* highest sequence accepted, SeqMax before the first
  m_lost_sequences     \* std::set of sequences a gap has skipped

arbitratorVars == <<m_current_sequence, m_lost_sequences>>

Seqs    == 1 .. LastSeq     \* packets are numbered from 1 after the reset
Discard == SeqMax           \* the status that means "already processed"

\* std::uint32_t + 1
Successor(seq) == IF seq = SeqMax THEN 0 ELSE seq + 1

ArbitratorTypeOK ==
  /\ m_current_sequence \in Seqs \cup {SeqMax}
  /\ m_lost_sequences \subseteq Seqs

ArbitratorInit ==
  /\ m_current_sequence = SeqMax
  /\ m_lost_sequences = {}

-----------------------------------------------------------------------------
(* Check_feed_packet returns 0 (process), Discard, or the first sequence   *)
(* of a gap (process, and request the gap).  One disjunct per return.      *)

NormalPacket(seq, status) ==
  /\ seq = Successor(m_current_sequence)
  /\ status = 0
  /\ m_current_sequence' = seq
  /\ UNCHANGED m_lost_sequences

RepeatedPacket(seq, status) ==
  /\ seq = m_current_sequence
  /\ status = Discard
  /\ UNCHANGED arbitratorVars

FirstPacket(seq, status) ==
  /\ m_current_sequence = SeqMax
  /\ seq \notin {SeqMax, Successor(m_current_sequence)}
  /\ status = 0
  /\ m_current_sequence' = seq
  /\ UNCHANGED m_lost_sequences

\* Mutant: a packet that arrives late takes the channel back to its sequence.
OldPacketRewinds(seq, status) ==
  /\ m_current_sequence # SeqMax
  /\ seq < m_current_sequence
  /\ status = IF seq \in m_lost_sequences THEN 0 ELSE Discard
  /\ m_lost_sequences' = m_lost_sequences \ {seq}
  /\ m_current_sequence' = IF status = 0 THEN seq ELSE m_current_sequence

OldPacket(seq, status) ==
  /\ m_current_sequence # SeqMax
  /\ seq < m_current_sequence
  /\ status = IF seq \in m_lost_sequences THEN 0 ELSE Discard
  /\ m_lost_sequences' = m_lost_sequences \ {seq}
  /\ UNCHANGED m_current_sequence

\* Mutant: the packet that opens the gap is recorded as lost as well.
GapPacketInclusive(seq, status) ==
  /\ m_current_sequence # SeqMax
  /\ seq > m_current_sequence + 1
  /\ status = m_current_sequence + 1
  /\ m_lost_sequences' =
       m_lost_sequences \cup (m_current_sequence + 1) .. seq
  /\ m_current_sequence' = seq

GapPacket(seq, status) ==
  /\ m_current_sequence # SeqMax
  /\ seq > m_current_sequence + 1
  /\ status = m_current_sequence + 1
  /\ m_lost_sequences' =
       m_lost_sequences \cup (m_current_sequence + 1) .. (seq - 1)
  /\ m_current_sequence' = seq

Check_feed_packet(seq, status) ==
  \/ NormalPacket(seq, status)
  \/ RepeatedPacket(seq, status)
  \/ FirstPacket(seq, status)
  \/ OldPacket(seq, status)
  \/ GapPacket(seq, status)

Check_replay_packet(seq, status) ==
  /\ status = IF seq \in m_lost_sequences THEN 0 ELSE Discard
  /\ m_lost_sequences' = m_lost_sequences \ {seq}
  /\ UNCHANGED m_current_sequence
=============================================================================
