------------------------------ MODULE CmeData ------------------------------
(***************************************************************************)
(* cme/market/cme_data.cc: the increment messages of a channel, between    *)
(* the receiving threads that insert them and the saver thread that takes  *)
(* them in sequence order.                                                 *)
(*                                                                         *)
(* m_increment_datas is a std::multiset ordered by packet sequence; the    *)
(* messages of one packet keep their order, so that it is enough to count  *)
(* the messages stored under each sequence.  A second insertion of the     *)
(* same packet would show as a count above MsgCount.                       *)
(***************************************************************************)
EXTENDS DatArbitrator

CONSTANT MsgCount   \* mdp messages in the packet with each sequence

ASSUME MsgAssumption == MsgCount \in [Seqs -> Nat]

VARIABLES
  m_increment_datas,   \* [Seqs -> Nat]
  m_unreceived_seqs,   \* sequences the saver has to wait for
  m_last_seq,          \* highest sequence inserted, SeqMax before the first
  m_is_stopped         \* set by Stop, read without the mutex

cmeDataVars == <<m_increment_datas, m_unreceived_seqs, m_last_seq>>

CmeDataTypeOK ==
  /\ m_increment_datas \in [Seqs -> Nat]
  /\ m_unreceived_seqs \subseteq Seqs
  /\ m_last_seq \in Seqs \cup {SeqMax}
  /\ m_is_stopped \in BOOLEAN

CmeDataInit ==
  /\ m_increment_datas = [s \in Seqs |-> 0]
  /\ m_unreceived_seqs = {}
  /\ m_last_seq = SeqMax
  /\ m_is_stopped = FALSE

-----------------------------------------------------------------------------
Store(seq) ==
  m_increment_datas' = [m_increment_datas EXCEPT ![seq] = @ + MsgCount[seq]]

\* Mutant: a packet that closes a gap leaves its sequence unreceived.
Insert_forgets_erase(seq) ==
  /\ Store(seq)
  /\ IF m_last_seq # SeqMax /\ seq < m_last_seq
       THEN UNCHANGED <<m_unreceived_seqs, m_last_seq>>
       ELSE /\ m_last_seq' = seq
            /\ m_unreceived_seqs' =
                 IF m_last_seq = SeqMax THEN m_unreceived_seqs
                 ELSE m_unreceived_seqs \cup (m_last_seq + 1) .. (seq - 1)

\* The half of Insert_increment_data that runs under m_increment_mutex.
Insert_increment_data(seq) ==
  /\ Store(seq)
  /\ \/ /\ m_last_seq = SeqMax
        /\ m_last_seq' = seq
        /\ UNCHANGED m_unreceived_seqs
     \/ /\ m_last_seq # SeqMax
        /\ seq < m_last_seq
        /\ m_unreceived_seqs' = m_unreceived_seqs \ {seq}
        /\ UNCHANGED m_last_seq
     \/ /\ m_last_seq # SeqMax
        /\ seq >= m_last_seq
        /\ m_unreceived_seqs' =
             m_unreceived_seqs \cup (m_last_seq + 1) .. (seq - 1)
        /\ m_last_seq' = seq

HasData == \E s \in Seqs : m_increment_datas[s] > 0

\* m_increment_datas.begin() is a message of this packet.
FirstStored(seq) ==
  /\ m_increment_datas[seq] > 0
  /\ \A s \in Seqs : m_increment_datas[s] > 0 => seq <= s

\* Pick_next_message returns this message; otherwise the caller waits.
Available(seq) ==
  /\ FirstStored(seq)
  /\ \A u \in m_unreceived_seqs : seq < u

\* Mutant: erases by key, that is, every message of the packet.
Remove_whole_packet(seq) ==
  /\ m_increment_datas' = [m_increment_datas EXCEPT ![seq] = 0]
  /\ UNCHANGED <<m_unreceived_seqs, m_last_seq>>

Remove_increment_data(seq) ==
  /\ m_increment_datas' = [m_increment_datas EXCEPT ![seq] = @ - 1]
  /\ UNCHANGED <<m_unreceived_seqs, m_last_seq>>
=============================================================================
