---------------------------- MODULE BookManager ----------------------------
(***************************************************************************)
(* The books of one CME channel, as its saver thread keeps them:           *)
(* cme/market/dat_saver.cc, book_manager.cc, definition_manager.cc and     *)
(* recovery_manager.cc.                                                    *)
(*                                                                         *)
(* The saver thread is the only one that touches this state.  Its loops    *)
(* over the messages and the entries they carry are run one iteration at a *)
(* time: work holds the iterations that are left of the call in progress,  *)
(* and the next call starts when it is empty.                              *)
(***************************************************************************)
EXTENDS BookStateController

VARIABLES
  m_instruments,         \* DefinitionManager: instruments with a definition
  m_md_book_states,      \* BookStateController: book state per instrument
  m_recovery_books,      \* RecoveryManager: entries of the snapshot
  m_recovery_wait_merge, \* ... index of the first one that may still matter
  m_recovery_first_seq,  \* DatSaver: 369-LastMsgSeqNumProcessed of the first
  state_will_sent,       \* On_new_recovery: books the snapshot has changed
  told,   \* the best bid and ask last sent to the strategies
  work    \* iterations left of the call in progress

bookVars == <<m_instruments, m_md_book_states, m_recovery_books,
              m_recovery_wait_merge, m_recovery_first_seq, state_will_sent,
              told, work>>

\* message::Instrument, as far as it matters: 'A'dd, 'M'odify or 'D'elete.
Instrument == [inst : Instruments, update : {"A", "M", "D"},
               depth : 1 .. MaxDepth]

\* MdpMessage 'd' carries definitions, 'X' carries books.
Message == [seq : Nat, type : {"d", "X"}, instruments : Seq(Instrument),
            books : Seq(Book)]

Work == [kind : {"definition"}, of : Instrument]
          \cup [kind : {"recovery", "increment", "past"}, of : Book]
          \cup [kind : {"send"}]

NoSide == 0
Best(rows) == IF rows = <<>> THEN NoSide ELSE Head(rows)

BookTypeOK ==
  /\ m_instruments \subseteq Instruments
  /\ DOMAIN m_md_book_states \subseteq Instruments
  /\ \A i \in DOMAIN m_md_book_states : m_md_book_states[i] \in BookState
  /\ m_recovery_books \in Seq(Book)
  /\ m_recovery_wait_merge \in 1 .. Len(m_recovery_books) + 1
  /\ m_recovery_first_seq \in Nat
  /\ state_will_sent \subseteq DOMAIN m_md_book_states
  /\ told \in [Instruments -> [bid : Nat, ask : Nat]]
  /\ work \in Seq(Work)

BookInit ==
  /\ m_instruments = {}
  /\ m_md_book_states = <<>>
  /\ m_recovery_books = <<>>
  /\ m_recovery_wait_merge = 1
  /\ m_recovery_first_seq = 0
  /\ state_will_sent = {}
  /\ told = [i \in Instruments |-> [bid |-> NoSide, ask |-> NoSide]]
  /\ work = <<>>

Idle == work = <<>>

-----------------------------------------------------------------------------
(* Sending to the strategies (MarketListenerI).                            *)

\* Send_bbo: OnBBO, OnBid or OnOffer; nothing when both sides are empty.
Send_bbo(last, bs) ==
  IF bs.bid = <<>> /\ bs.ask = <<>> THEN last
  ELSE [bid |-> Best(bs.bid), ask |-> Best(bs.ask)]

\* Mutant: deleting the best price is not reported.
Is_BBO_changed_misses_delete(b) ==
  \/ b.level = 1 /\ EffectiveAction(b) \in {"New", "Change"}
  \/ EffectiveAction(b) \in {"DeleteThru", "DeleteFrom"}

Is_BBO_changed(b) ==
  \/ b.level = 1 /\ EffectiveAction(b) \in {"New", "Change", "Delete"}
  \/ EffectiveAction(b) \in {"DeleteThru", "DeleteFrom"}

-----------------------------------------------------------------------------
(* Calls of the saver thread.                                              *)

Definitions(instruments) ==
  [n \in DOMAIN instruments |-> [kind |-> "definition", of |-> instruments[n]]]

\* The entries of a snapshot.
Recoveries(books) ==
  [n \in DOMAIN books |-> [kind |-> "recovery", of |-> books[n]]]

\* The entries of an increment; those of the instruments in past are removed.
Increments(books, past) ==
  [n \in DOMAIN books |->
     [kind |-> IF books[n].inst \in past THEN "past" ELSE "increment",
      of |-> books[n]]]

\* Process_recovery_data, once the snapshot is there: Set_definition_data,
\* Set_recovery_data (which sends the books at its end), and the sequence of
\* the first recovery message.
Process_recovery_data(definitions, books, first_seq) ==
  /\ Idle
  /\ m_recovery_books' = books
  /\ m_recovery_wait_merge' = 1
  /\ m_recovery_first_seq' = first_seq
  /\ work' = Definitions(definitions) \o Recoveries(books)
               \o << [kind |-> "send"] >>
  /\ UNCHANGED <<m_instruments, m_md_book_states, state_will_sent, told>>

\* Mutant: the entry of the very packet is skipped as well.
Merge_position_late(seq) ==
  Min({n \in m_recovery_wait_merge .. Len(m_recovery_books) :
         m_recovery_books[n].seq > seq} \cup {Len(m_recovery_books) + 1})

\* Remove_past_books, first loop: skip the entries older than the message.
Merge_position(seq) ==
  Min({n \in m_recovery_wait_merge .. Len(m_recovery_books) :
         m_recovery_books[n].seq >= seq} \cup {Len(m_recovery_books) + 1})

\* ... second loop: the instruments whose snapshot is not older.
Ahead(seq) ==
  {m_recovery_books[n].inst : n \in Merge_position(seq) .. Len(m_recovery_books)}

\* Convert_message and Parse_to_send: a message up to the first recovery
\* message is dropped whatever its type; in the others, the entries older
\* than the snapshot of their instrument are removed (marked as past).
Convert_message(message) ==
  /\ Idle
  /\ \/ /\ message.seq <= m_recovery_first_seq
        /\ UNCHANGED <<work, m_recovery_wait_merge>>
     \/ /\ message.seq > m_recovery_first_seq
        /\ message.type = "d"
        /\ work' = Definitions(message.instruments)
        /\ UNCHANGED m_recovery_wait_merge
     \/ /\ message.seq > m_recovery_first_seq
        /\ message.type = "X"
        /\ m_recovery_wait_merge' = IF message.books = <<>>
                                       THEN m_recovery_wait_merge
                                       ELSE Merge_position(message.seq)
        /\ work' = Increments(message.books, Ahead(message.seq))
  /\ UNCHANGED <<m_instruments, m_md_book_states, m_recovery_books,
                 m_recovery_first_seq, state_will_sent, told>>

-----------------------------------------------------------------------------
(* One iteration.                                                          *)

Iterate(kind) ==
  /\ work # <<>>
  /\ Head(work).kind = kind
  /\ work' = Tail(work)
  /\ UNCHANGED <<m_recovery_books, m_recovery_wait_merge, m_recovery_first_seq>>

\* DefinitionManager::Update_definition; a deletion returns before the
\* callback, On_definition_changed.
Update_definition ==
  /\ Iterate("definition")
  /\ LET d == Head(work).of
     IN  \/ /\ d.update = "D"
            /\ m_instruments' = m_instruments \ {d.inst}
            /\ UNCHANGED m_md_book_states
         \/ /\ d.update # "D"
            /\ m_instruments' = m_instruments \cup {d.inst}
            /\ m_md_book_states' =
                 Create_or_shrink(m_md_book_states, d.inst, d.depth)
  /\ UNCHANGED <<state_will_sent, told>>

\* On_new_recovery, for one entry of the snapshot.  Mutant: the null book of
\* an entry that was ignored is recorded, too.
Recover_book_unchecked ==
  /\ Iterate("recovery")
  /\ LET b == Head(work).of
     IN  /\ m_md_book_states' = Modify_state(m_md_book_states, b)
         /\ state_will_sent' = state_will_sent \cup {b.inst}
  /\ UNCHANGED <<m_instruments, told>>

Recover_book ==
  /\ Iterate("recovery")
  /\ LET b == Head(work).of
     IN  /\ m_md_book_states' = Modify_state(m_md_book_states, b)
         /\ state_will_sent' = IF Changes(m_md_book_states, b)
                                 THEN state_will_sent \cup {b.inst}
                                 ELSE state_will_sent
  /\ UNCHANGED <<m_instruments, told>>

\* ... and its end: every book that changed is sent.
Send_recovery ==
  /\ Iterate("send")
  /\ told' = [i \in Instruments |->
                IF i \in state_will_sent
                  THEN Send_bbo(told[i], m_md_book_states[i]) ELSE told[i]]
  /\ state_will_sent' = {}
  /\ UNCHANGED <<m_instruments, m_md_book_states>>

\* Parse_to_send, for one entry of an increment: Modify_state and Send.  A
\* reset and a trade send no book.
Increment_book ==
  /\ Iterate("increment")
  /\ LET b == Head(work).of
     IN  /\ m_md_book_states' = Modify_state(m_md_book_states, b)
         /\ told' = IF Changes(m_md_book_states, b) /\ Is_BBO_changed(b)
                      THEN [told EXCEPT ![b.inst] =
                              Send_bbo(@, m_md_book_states'[b.inst])]
                      ELSE told
  /\ UNCHANGED <<m_instruments, state_will_sent>>

\* ... and for one that Remove_past_books has taken out.
Past_book ==
  /\ Iterate("past")
  /\ UNCHANGED <<m_instruments, m_md_book_states, state_will_sent, told>>

BookStep ==
  \/ Update_definition
  \/ Recover_book
  \/ Send_recovery
  \/ Increment_book
  \/ Past_book

\* The saver thread under any input: MarketBooks says which inputs a channel
\* really has, most theorems of MarketBooksProof need no more.
BookNext ==
  \/ \E definitions \in Seq(Instrument), books \in Seq(Book), seq \in Nat :
       Process_recovery_data(definitions, books, seq)
  \/ \E message \in Message : Convert_message(message)
  \/ BookStep

BookSpec == BookInit /\ [][BookNext]_bookVars

-----------------------------------------------------------------------------
\* New_price and Shrink keep every book within the depth of its definition,
\* whatever definitions, snapshots and entries arrive, in whatever order.
BooksFit ==
  \A i \in DOMAIN m_md_book_states : \A side \in Sides :
    Len(m_md_book_states[i][side]) <= m_md_book_states[i].marketDepth
=============================================================================
