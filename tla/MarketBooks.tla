---------------------------- MODULE MarketBooks ----------------------------
(***************************************************************************)
(* A CME channel and the books the program keeps of it.                    *)
(*                                                                         *)
(* The exchange keeps full books and publishes the changes of their best   *)
(* marketDepth levels in numbered packets, and besides, in loops, the      *)
(* definition and the snapshot of every instrument.  The program connects  *)
(* at any moment: before the first packet, or during the week, when it     *)
(* must build its books from the definitions, a set of snapshots that are  *)
(* not of one moment, and the increments it has kept in the meantime.      *)
(*                                                                         *)
(* The increments come in order and without loss: IncrementFeed shows it.  *)
(***************************************************************************)
EXTENDS BookManager

CONSTANTS
  MaxEvents,  \* events at the exchange (bound)
  MaxRows     \* rows on one side of a full book (bound)

ASSUME MarketAssumption ==
  MaxEvents \in Nat /\ MaxRows \in Nat /\ IsFiniteSet(Instruments)

VARIABLES
  events,      \* exchange: events so far; a new row takes their number
  seq,         \* exchange: packets published
  full,        \* exchange: full book of each instrument and side
  depth,       \* exchange: market depth, Unlisted when not listed
  gone,        \* exchange: instruments that were deleted
  first,       \* first packet the program receives, 0 before it is started
  definitions, \* definitions it receives when it starts
  snapshots,   \* snapshots received: instrument, sequence, and view
  queue,       \* increment messages not handled yet
  done,        \* sequence of the last packet handled, or of the last one before
               \* the program was started
  view,        \* history: the books shown when that packet was published
  changed,     \* history: redefined, or reset, while snapshots were awaited
  right_from   \* history: sequence from which a book has to be right

marketVars == <<events, seq, full, depth, gone>>
clientVars == <<first, definitions, snapshots, queue, done, view, changed,
                right_from>>
vars == <<bookVars, marketVars, clientVars>>

Unlisted == 0
Never    == MaxEvents + 1

View(rows, levels) == SubSeq(rows, 1, IF Len(rows) < levels THEN Len(rows)
                                                            ELSE levels)

\* What a book of its depth shows of the full books fs of an instrument.
Shown(fs, ds, i) == [marketDepth |-> ds[i], bid |-> View(fs[i].bid, ds[i]),
                     ask |-> View(fs[i].ask, ds[i])]

ShownNow == [i \in Instruments |-> Shown(full, depth, i)]

Listed == {i \in Instruments : depth[i] # Unlisted}

Empty == [bid |-> <<>>, ask |-> <<>>]

HasRows(book) == book.bid # <<>> \/ book.ask # <<>>

Connected == first # 0

\* Of a program that is not there from packet 1 on.
InSnapshot(i) == \E n \in DOMAIN snapshots : snapshots[n].inst = i

Init ==
  /\ BookInit
  /\ events = 0
  /\ seq = 0
  /\ full = [i \in Instruments |-> Empty]
  /\ depth \in [Instruments -> Unlisted .. MaxDepth]
  /\ gone = {}
  /\ first = 0
  /\ definitions = <<>>
  /\ snapshots = <<>>
  /\ queue = <<>>
  /\ done = 0
  /\ view = ShownNow
  /\ changed = {}
  /\ right_from = [i \in Instruments |-> Never]

-----------------------------------------------------------------------------
(* The exchange (external).                                                *)

Event ==
  /\ events < MaxEvents
  /\ events' = events + 1
  /\ UNCHANGED <<bookVars, first, definitions, snapshots, done, view>>

\* A packet is published; a program that listens keeps its message, with the
\* view of the books it leads to.
Publish(message) ==
  /\ seq' = seq + 1
  /\ queue' = IF Connected
                THEN Append(queue, [message |-> message, view |-> ShownNow'])
                ELSE queue

Entry(i, side, action, level, row) ==
  [type |-> "X", seq |-> seq + 1, inst |-> i, entry |-> side,
   action |-> action, level |-> level, row |-> row]

BooksMessage(books) ==
  [seq |-> seq + 1, type |-> "X", instruments |-> <<>>, books |-> books]

PublishBooks(books) ==
  /\ UNCHANGED <<depth, gone, changed, right_from>>
  /\ Publish(BooksMessage(books))

\* The rows that come into view at the bottom, from this level on.
Revealed(i, side, level) ==
  LET shown == View(full[i][side]', depth[i])
  IN  [n \in 1 .. Len(shown) - level + 1 |->
         Entry(i, side, "New", level + n - 1, shown[level + n - 1])]

\* A new price; below the best levels it is not published.
AddRow(i, side, level) ==
  /\ Event
  /\ i \in Listed
  /\ level <= Len(full[i][side]) + 1
  /\ Len(full[i][side]) < MaxRows
  /\ full' = [full EXCEPT ![i][side] = InsertAt(@, level, events + 1)]
  /\ IF level <= depth[i]
       THEN PublishBooks(<<Entry(i, side, "New", level, events + 1)>>)
       ELSE UNCHANGED <<seq, queue, depth, gone, changed, right_from>>

AmendRow(i, side, level) ==
  /\ Event
  /\ i \in Listed
  /\ level <= Len(full[i][side]) /\ level <= depth[i]
  /\ full' = [full EXCEPT ![i][side][level] = events + 1]
  /\ PublishBooks(<<Entry(i, side, "Change", level, events + 1)>>)

\* The row below the best levels comes into view in the same message.
RemoveRow(i, side, level) ==
  /\ Event
  /\ i \in Listed
  /\ level <= Len(full[i][side]) /\ level <= depth[i]
  /\ full' = [full EXCEPT ![i][side] = RemoveAt(@, level)]
  /\ PublishBooks(<<Entry(i, side, "Delete", level, Filler)>>
                    \o IF Len(full[i][side]) > depth[i]
                         THEN Revealed(i, side, depth[i]) ELSE <<>>)

SweepRows(i, side, level) ==
  /\ Event
  /\ i \in Listed
  /\ level <= Len(full[i][side]) /\ level <= depth[i]
  /\ full' = [full EXCEPT ![i][side] = SubSeq(@, level + 1, Len(@))]
  /\ PublishBooks(<<Entry(i, side, "DeleteFrom", level, Filler)>>
                    \o Revealed(i, side,
                         Len(View(full[i][side], depth[i])) - level + 1))

ClearSide(i, side) ==
  /\ Event
  /\ full[i][side] # <<>>
  /\ full' = [full EXCEPT ![i][side] = <<>>]
  /\ PublishBooks(<<Entry(i, side, "DeleteThru", 1, Filler)>>)

\* One message with entries of two instruments, a trade before them.
TradeAndQuote(i, j, side) ==
  /\ Event
  /\ i \in Listed /\ j \in Listed /\ i # j
  /\ Len(full[i][side]) < MaxRows /\ Len(full[j][side]) < MaxRows
  /\ full' = [full EXCEPT ![i][side] = <<events + 1>> \o @,
                          ![j][side] = <<events + 1>> \o @]
  /\ PublishBooks(<<Entry(i, "trade", "New", 1, events + 1),
                    Entry(i, side, "New", 1, events + 1),
                    Entry(j, side, "New", 1, events + 1)>>)

\* ChannelReset: the books of all instruments are emptied.
ResetChannel ==
  /\ Event
  /\ full' = [i \in Instruments |-> Empty]
  /\ UNCHANGED <<depth, gone, right_from>>
  /\ Publish(BooksMessage(<<Entry("none", "reset", "New", 0, Filler)>>))
  /\ changed' = IF snapshots = <<>> THEN changed
                 ELSE changed \cup {i \in Instruments : ~InSnapshot(i)}

\* An instrument is added or its depth changes.  (A deeper book that brings
\* rows into view at once is left out: what is published then is not visible
\* in the program.)
Define(i, levels) ==
  /\ Event
  /\ i \notin gone
  /\ levels # depth[i]
  /\ \A side \in Sides : depth[i] # Unlisted /\ Len(full[i][side]) > depth[i]
                           => levels < depth[i]
  /\ depth' = [depth EXCEPT ![i] = levels]
  /\ UNCHANGED <<full, gone>>
  /\ Publish([seq |-> seq + 1, type |-> "d", books |-> <<>>,
              instruments |->
                <<[inst |-> i, depth |-> levels,
                   update |-> IF i \in Listed THEN "M" ELSE "A"]>>])
  /\ changed' = IF Connected THEN changed \cup {i} ELSE changed
  /\ right_from' = IF i \notin Listed /\ (first = 1 \/ snapshots # <<>>)
                     THEN [right_from EXCEPT ![i] = seq + 1] ELSE right_from

Delist(i) ==
  /\ Event
  /\ i \in Listed
  /\ depth' = [depth EXCEPT ![i] = Unlisted]
  /\ full' = [full EXCEPT ![i] = Empty]
  /\ gone' = gone \cup {i}
  /\ Publish([seq |-> seq + 1, type |-> "d", books |-> <<>>,
              instruments |-> <<[inst |-> i, depth |-> 1, update |-> "D"]>>])
  /\ UNCHANGED <<changed, right_from>>

Exchange ==
  \/ \E i \in Instruments, side \in Sides :
       \/ \E level \in 1 .. MaxRows :
            \/ AddRow(i, side, level)
            \/ AmendRow(i, side, level)
            \/ RemoveRow(i, side, level)
            \/ SweepRows(i, side, level)
       \/ ClearSide(i, side)
       \/ \E j \in Instruments : TradeAndQuote(i, j, side)
  \/ ResetChannel
  \/ \E i \in Instruments :
       \/ \E levels \in 1 .. MaxDepth : Define(i, levels)
       \/ Delist(i)

-----------------------------------------------------------------------------
(* The program.                                                            *)

\* The feeds are opened, and the definitions received, as of one moment: what
\* is published in between is not newer than any snapshot.
Connect ==
  /\ ~Connected
  /\ first' = seq + 1
  /\ definitions' \in SetToSeqs({[inst |-> i, depth |-> depth[i], update |-> "A"]
                                  : i \in Listed})
  /\ done' = seq
  /\ view' = ShownNow
  /\ UNCHANGED <<bookVars, marketVars, snapshots, queue, changed, right_from>>

\* A definition or a reset while the snapshots were being collected can spoil
\* the book of an instrument whose snapshot comes after it (see README).
ReceiveSnapshot(i) ==
  /\ first > 1
  /\ m_recovery_first_seq = 0
  /\ i \in Listed
  /\ ~InSnapshot(i)
  /\ snapshots' = Append(snapshots,
                         [inst |-> i, seq |-> seq, view |-> Shown(full, depth, i)])
  /\ right_from' = [right_from EXCEPT ![i] = IF i \in changed THEN Never ELSE seq]
  /\ UNCHANGED <<bookVars, marketVars, first, definitions, queue, done, view,
                 changed>>

\* MessageParserW::Parse_38: one entry per row, none for an empty book.
SnapshotRows(s, side) ==
  [n \in DOMAIN s.view[side] |->
     [type |-> "W", seq |-> s.seq, inst |-> s.inst, entry |-> side,
      action |-> "New", level |-> n, row |-> s.view[side][n]]]

SnapshotBooks ==
  FlattenSeq([n \in DOMAIN snapshots |->
                SnapshotRows(snapshots[n], "bid")
                  \o SnapshotRows(snapshots[n], "ask")])

\* The recovery loop is over: every instrument was in it, or is newer.
Recover ==
  /\ first > 1
  /\ queue # <<>>
  /\ m_recovery_first_seq = 0
  /\ snapshots # <<>>
  /\ \A i \in Listed : InSnapshot(i) \/ right_from[i] # Never
  /\ Process_recovery_data(definitions, SnapshotBooks, snapshots[1].seq)
  /\ UNCHANGED <<marketVars, clientVars>>

Recovered == first = 1 \/ m_recovery_first_seq # 0

\* The saver takes the next message.
Handle ==
  /\ Recovered
  /\ queue # <<>>
  /\ Convert_message(Head(queue).message)
  /\ queue' = Tail(queue)
  /\ done' = Head(queue).message.seq
  /\ view' = Head(queue).view
  /\ UNCHANGED <<marketVars, first, definitions, snapshots, changed, right_from>>

Program ==
  \/ Connect
  \/ \E i \in Instruments : ReceiveSnapshot(i)
  \/ Recover
  \/ Handle
  \/ BookStep /\ UNCHANGED <<marketVars, clientVars>>

Next == Exchange \/ Program

Spec == Init /\ [][Next]_vars

-----------------------------------------------------------------------------
(* Properties.                                                             *)

TypeOK ==
  /\ BookTypeOK
  /\ events \in 0 .. MaxEvents /\ seq \in 0 .. events
  /\ depth \in [Instruments -> 0 .. MaxDepth]
  /\ gone \subseteq Instruments /\ changed \subseteq Instruments
  /\ first \in 0 .. MaxEvents + 1 /\ done \in 0 .. seq
  /\ right_from \in [Instruments -> 0 .. Never]
  /\ \A n \in DOMAIN queue : queue[n].message \in Message

\* The snapshot of this instrument is newer than the messages handled so far.
AheadOfFeed(s) == s.seq > done

\* The books the program shows are those of the exchange.  Snapshots are taken
\* at different moments, and increments from before and after them are
\* merged; still, once a snapshot is loaded the book is never older, never
\* goes back and never takes a change twice.
BooksMatchExchange ==
  Recovered /\ Idle =>
    \A i \in m_instruments :
      LET newer == {n \in DOMAIN snapshots :
                      snapshots[n].inst = i /\ AheadOfFeed(snapshots[n])}
      IN  right_from[i] # Never =>
            /\ newer = {} /\ right_from[i] <= done =>
                 m_md_book_states[i] = view[i]
            /\ \A n \in newer :
                 HasRows(snapshots[n].view) =>
                   m_md_book_states[i] = snapshots[n].view

\* The strategies know the best prices: a book that is not empty, and whose
\* best rows are no filler, is as last told, although a level is told only
\* when Is_BBO_changed thinks that the entry can change the best one.
TopToldToStrategies ==
  Idle =>
    \A i \in DOMAIN m_md_book_states :
      LET bs == m_md_book_states[i]
      IN  /\ bs.bid # <<>> \/ bs.ask # <<>>
          /\ \A side \in Sides : bs[side] # <<>> => Head(bs[side]) # Filler
          => told[i] = [bid |-> Best(bs.bid), ask |-> Best(bs.ask)]
=============================================================================
