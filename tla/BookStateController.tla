------------------------ MODULE BookStateController ------------------------
(***************************************************************************)
(* cme/market/book_state_controller.cc: the book state of an instrument    *)
(* and how one entry of a message changes it.                              *)
(*                                                                         *)
(* A row (number of orders, quantity, price) is a positive number that     *)
(* identifies it; Filler is the row {0, 0, {0,0}}.                         *)
(***************************************************************************)
EXTENDS Naturals, Sequences, SequencesExt

CONSTANTS
  Instruments,   \* security ids
  MaxDepth       \* largest market depth of a definition (bound)

ASSUME BookAssumption == MaxDepth \in Nat \ {0} /\ "none" \notin Instruments

Sides   == {"bid", "ask"}
Actions == {"New", "Change", "Delete", "DeleteThru", "DeleteFrom"}
Filler  == 0

\* message::Book.  entry is the side it changes, "trade" or "reset"; type is
\* "W" (snapshot) or "X" (increment); seq is packet_seq_num, which for a
\* snapshot is its LastMsgSeqNumProcessed.
Book == [type : {"W", "X"}, seq : Nat, inst : Instruments \cup {"none"},
         entry : Sides \cup {"trade", "reset"}, action : Actions,
         level : Nat, row : Nat]

BookState == [marketDepth : 1 .. MaxDepth, bid : Seq(Nat), ask : Seq(Nat)]

-----------------------------------------------------------------------------
\* std::deque::resize
Resize(rows, size) ==
  [n \in 1 .. size |-> IF n <= Len(rows) THEN rows[n] ELSE Filler]

\* Mutant: the row that falls off the bottom of the book is kept.
New_price_untrimmed(rows, level, row, depth) ==
  IF level <= Len(rows) + 1 THEN InsertAt(rows, level, row)
                            ELSE Append(Resize(rows, level - 1), row)

New_price(rows, level, row, depth) ==
  LET inserted == IF level <= Len(rows) + 1
                    THEN InsertAt(rows, level, row)
                    ELSE Append(Resize(rows, level - 1), row)
  IN  IF Len(inserted) > depth THEN Resize(inserted, depth) ELSE inserted

Change_price(rows, level, row) == ReplaceAt(rows, level, row)

Delete_price(rows, level) == RemoveAt(rows, level)

Delete_all_price(rows) == <<>>

Delete_top_price(rows, level) == SubSeq(rows, level + 1, Len(rows))

\* The level an action may name in a book with these rows.
Check_price_level(rows, depth, action, level) ==
  /\ action \in {"New", "DeleteFrom", "Change", "Delete"} =>
       level # 0 /\ level <= depth
  /\ action \in {"Change", "Delete"} => level <= Len(rows)

\* A snapshot entry is treated as New.
EffectiveAction(b) == IF b.type = "W" THEN "New" ELSE b.action

\* Modify_state changes a book: the first component of its result is 2 and
\* the second is not null.
Changes(states, b) ==
  /\ b.entry \in Sides
  /\ b.inst \in DOMAIN states
  /\ LET bs == states[b.inst]
     IN  Check_price_level(bs[b.entry], bs.marketDepth, EffectiveAction(b),
                           b.level)

\* The rows of the side that an entry is about, after it.
RowsAfter(b, rows, depth) ==
  LET action == EffectiveAction(b)
  IN  CASE action = "New"        -> New_price(rows, b.level, b.row, depth)
        [] action = "Change"     -> Change_price(rows, b.level, b.row)
        [] action = "Delete"     -> Delete_price(rows, b.level)
        [] action = "DeleteThru" -> Delete_all_price(rows)
        [] action = "DeleteFrom" -> Delete_top_price(rows, b.level)

Update_price(b, bs) ==
  [bs EXCEPT ![b.entry] = RowsAfter(b, @, bs.marketDepth)]

Reset_state(states) ==
  [i \in DOMAIN states |-> [states[i] EXCEPT !.bid = <<>>, !.ask = <<>>]]

Modify_state(states, b) ==
  IF b.entry = "reset" THEN Reset_state(states)
  ELSE IF Changes(states, b)
    THEN [states EXCEPT ![b.inst] = Update_price(b, @)]
    ELSE states

-----------------------------------------------------------------------------
Create(depth) == [marketDepth |-> depth, bid |-> <<>>, ask |-> <<>>]

Trim(rows, size) == IF Len(rows) > size THEN Resize(rows, size) ELSE rows

Shrink(bs, depth) ==
  [marketDepth |-> depth, bid |-> Trim(bs.bid, depth),
   ask |-> Trim(bs.ask, depth)]

\* Create_or_shrink of a definition that adds or modifies an instrument.  (The
\* branch for a deleted one is never reached: DefinitionManager does not call
\* back for it.)
Create_or_shrink(states, inst, depth) ==
  [i \in DOMAIN states \cup {inst} |->
     IF i # inst THEN states[i]
     ELSE IF inst \in DOMAIN states THEN Shrink(states[inst], depth)
     ELSE Create(depth)]
=============================================================================
