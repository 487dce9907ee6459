-------------------------- MODULE MarketBooksProof --------------------------
(***************************************************************************)
(* Theorems about BookManager and MarketBooks, for every number of         *)
(* instruments, every depth, and any number of events.                     *)
(***************************************************************************)
EXTENDS MarketBooks, ContainerProof, SequenceTheorems, TLAPS

\* A book, or a view, of no more rows than its depth.
Fits(bs) == Len(bs.bid) <= bs.marketDepth /\ Len(bs.ask) <= bs.marketDepth

\* The books are of known instruments, well formed, and within their depth.
GoodBooks(states) ==
  /\ DOMAIN states \subseteq Instruments
  /\ \A i \in DOMAIN states : states[i] \in BookState /\ Fits(states[i])

\* The inductive invariant.
IInv ==
  /\ GoodBooks(m_md_book_states)
  /\ work \in Seq(Work)

-----------------------------------------------------------------------------
(* The operations on the rows of one side.                                 *)

\* Resize, std::deque::resize, makes rows of exactly the size asked for.
LEMMA ResizeRows ==
  ASSUME NEW rows \in Seq(Nat), NEW size \in Nat
  PROVE  /\ Resize(rows, size) \in Seq(Nat) /\ Len(Resize(rows, size)) = size
         /\ \A n \in 1 .. size :
              Resize(rows, size)[n] = IF n <= Len(rows) THEN rows[n] ELSE Filler
<1>1. \A n \in 1 .. size : Resize(rows, size)[n] \in Nat
  BY DEF Resize, Filler
<1>2. Resize(rows, size) \in [1 .. size -> Nat]
  BY <1>1 DEF Resize
<1>3. \A n \in 1 .. size :
        Resize(rows, size)[n] = IF n <= Len(rows) THEN rows[n] ELSE Filler
  BY DEF Resize
<1> QED
  BY <1>2, <1>3, LenProperties, SeqDef

\* Inserting a row, at a level that exists or is the next one.
LEMMA InsertRow ==
  ASSUME NEW rows \in Seq(Nat), NEW level \in 1 .. Len(rows) + 1, NEW row \in Nat
  PROVE  /\ InsertAt(rows, level, row) \in Seq(Nat)
         /\ Len(InsertAt(rows, level, row)) = Len(rows) + 1
         /\ \A n \in 1 .. Len(rows) + 1 :
              InsertAt(rows, level, row)[n] = IF n < level THEN rows[n]
                                              ELSE IF n = level THEN row
                                              ELSE rows[n - 1]
<1> DEFINE above == SubSeq(rows, 1, level - 1)
           below == SubSeq(rows, level, Len(rows))
           top   == above \o <<row>>
<1>1. Len(rows) \in Nat /\ level \in Nat /\ 1 <= level /\ level <= Len(rows) + 1
  BY LenProperties
<1>2. /\ above \in Seq(Nat) /\ Len(above) = level - 1
      /\ \A n \in 1 .. level - 1 : above[n] = rows[n]
  BY <1>1, SubSeqProperties, LenProperties
<1>3. /\ below \in Seq(Nat) /\ Len(below) = Len(rows) - level + 1
      /\ \A n \in 1 .. Len(rows) - level + 1 : below[n] = rows[level + n - 1]
  BY <1>1, SubSeqProperties, LenProperties
<1> HIDE DEF above, below
<1>4. /\ <<row>> \in Seq(Nat) /\ Len(<<row>>) = 1 /\ <<row>>[1] = row
  OBVIOUS
<1>5. /\ top \in Seq(Nat) /\ Len(top) = level
      /\ \A n \in 1 .. level : top[n] = IF n < level THEN rows[n] ELSE row
  <2>1. /\ top \in Seq(Nat) /\ Len(top) = Len(above) + Len(<<row>>)
        /\ \A n \in 1 .. Len(above) + Len(<<row>>) :
             top[n] = IF n <= Len(above) THEN above[n] ELSE <<row>>[n - Len(above)]
    BY <1>2, <1>4, ConcatProperties
  <2> HIDE DEF top
  <2> QED
    BY <1>1, <1>2, <1>4, <2>1
<1>6. InsertAt(rows, level, row) = top \o below
  BY DEF InsertAt, above, below, top
<1> HIDE DEF top
<1>7. /\ top \o below \in Seq(Nat) /\ Len(top \o below) = Len(rows) + 1
      /\ \A n \in 1 .. Len(rows) + 1 :
           (top \o below)[n] = IF n <= level THEN top[n] ELSE below[n - level]
  <2>1. /\ top \o below \in Seq(Nat)
        /\ Len(top \o below) = Len(top) + Len(below)
        /\ \A n \in 1 .. Len(top) + Len(below) :
             (top \o below)[n] = IF n <= Len(top) THEN top[n]
                                                  ELSE below[n - Len(top)]
    BY <1>3, <1>5, ConcatProperties
  <2>2. Len(top) + Len(below) = Len(rows) + 1
    BY <1>1, <1>3, <1>5
  <2> QED
    BY <1>5, <2>1, <2>2
<1>8. \A n \in 1 .. Len(rows) + 1 :
        (top \o below)[n] = IF n < level THEN rows[n]
                            ELSE IF n = level THEN row ELSE rows[n - 1]
  <2> TAKE n \in 1 .. Len(rows) + 1
  <2>1. CASE n <= level
    BY <1>1, <1>5, <1>7, <2>1
  <2>2. CASE n > level
    <3>1. n - level \in 1 .. Len(rows) - level + 1
      BY <1>1, <2>2
    <3>2. below[n - level] = rows[level + (n - level) - 1]
      BY <1>3, <3>1
    <3>3. level + (n - level) - 1 = n - 1 /\ ~(n <= level) /\ ~(n < level)
          /\ n # level
      BY <1>1, <2>2
    <3> QED
      BY <1>7, <3>2, <3>3
  <2>3. n <= level \/ n > level
    BY <1>1
  <2> QED
    BY <2>1, <2>2, <2>3
<1> QED
  BY <1>6, <1>7, <1>8

\* Removing a row that exists makes the side one row shorter.
LEMMA RemoveOne ==
  ASSUME NEW rows \in Seq(Nat), NEW level \in 1 .. Len(rows)
  PROVE  /\ RemoveAt(rows, level) \in Seq(Nat)
         /\ Len(RemoveAt(rows, level)) = Len(rows) - 1
         /\ \A n \in 1 .. Len(rows) - 1 :
              RemoveAt(rows, level)[n] = IF n < level THEN rows[n] ELSE rows[n + 1]
<1> DEFINE above == SubSeq(rows, 1, level - 1)
           below == SubSeq(rows, level + 1, Len(rows))
<1>1. Len(rows) \in Nat /\ level \in Nat /\ 1 <= level /\ level <= Len(rows)
  BY LenProperties
<1>2. /\ above \in Seq(Nat) /\ Len(above) = level - 1
      /\ \A n \in 1 .. level - 1 : above[n] = rows[n]
  BY <1>1, SubSeqProperties, LenProperties
<1>3. /\ below \in Seq(Nat) /\ Len(below) = Len(rows) - level
      /\ \A n \in 1 .. Len(rows) - level : below[n] = rows[level + n]
  BY <1>1, SubSeqProperties, LenProperties
<1>4. RemoveAt(rows, level) = above \o below
  BY DEF RemoveAt
<1> HIDE DEF above, below
<1>5. /\ above \o below \in Seq(Nat) /\ Len(above \o below) = Len(rows) - 1
      /\ \A n \in 1 .. Len(rows) - 1 :
           (above \o below)[n] = IF n <= level - 1 THEN above[n]
                                                  ELSE below[n - (level - 1)]
  <2>1. /\ above \o below \in Seq(Nat)
        /\ Len(above \o below) = Len(above) + Len(below)
        /\ \A n \in 1 .. Len(above) + Len(below) :
             (above \o below)[n] = IF n <= Len(above) THEN above[n]
                                                      ELSE below[n - Len(above)]
    BY <1>2, <1>3, ConcatProperties
  <2>2. Len(above) + Len(below) = Len(rows) - 1
    BY <1>1, <1>2, <1>3
  <2> QED
    BY <1>2, <2>1, <2>2
<1>6. \A n \in 1 .. Len(rows) - 1 :
        (above \o below)[n] = IF n < level THEN rows[n] ELSE rows[n + 1]
  <2> TAKE n \in 1 .. Len(rows) - 1
  <2>1. CASE n < level
    BY <1>1, <1>2, <1>5, <2>1
  <2>2. CASE ~(n < level)
    <3>1. n - (level - 1) \in 1 .. Len(rows) - level
      BY <1>1, <2>2
    <3>2. below[n - (level - 1)] = rows[level + (n - (level - 1))]
      BY <1>3, <3>1
    <3>3. level + (n - (level - 1)) = n + 1 /\ ~(n <= level - 1)
      BY <1>1, <2>2
    <3> QED
      BY <1>5, <2>2, <3>2, <3>3
  <2> QED
    BY <2>1, <2>2
<1> QED
  BY <1>4, <1>5, <1>6

\* Removing the rows from the top to a level, of which some may not exist.
LEMMA RemoveTop ==
  ASSUME NEW rows \in Seq(Nat), NEW level \in Nat
  PROVE  LET left == SubSeq(rows, level + 1, Len(rows))
         IN  /\ left \in Seq(Nat)
             /\ Len(left) = IF level <= Len(rows) THEN Len(rows) - level ELSE 0
             /\ \A n \in 1 .. Len(left) : left[n] = rows[n + level]
<1>1. Len(rows) \in Nat /\ \A n \in 1 .. Len(rows) : rows[n] \in Nat
  BY LenProperties
<1>2. /\ SubSeq(rows, level + 1, Len(rows)) \in Seq(Nat)
      /\ Len(SubSeq(rows, level + 1, Len(rows)))
           = IF level + 1 <= Len(rows) THEN Len(rows) - (level + 1) + 1 ELSE 0
      /\ \A n \in 1 .. Len(rows) - (level + 1) + 1 :
           SubSeq(rows, level + 1, Len(rows))[n] = rows[level + 1 + n - 1]
  <2>1. \A n \in level + 1 .. Len(rows) : rows[n] \in Nat
    BY <1>1
  <2>2. level + 1 \in Int /\ Len(rows) \in Int
    BY <1>1
  <2> QED
    BY <2>1, <2>2, SubSeqProperties
<1> QED
  BY <1>1, <1>2

\* A new price: the rows below it move down, the book is cut at its depth, and
\* rows that are not known are fillers.
LEMMA NewPrice ==
  ASSUME NEW rows \in Seq(Nat), NEW limit \in Nat, NEW level \in 1 .. limit,
         NEW row \in Nat
  PROVE  LET after == New_price(rows, level, row, limit)
             size  == IF level <= Len(rows) + 1 THEN Len(rows) + 1 ELSE level
         IN  /\ after \in Seq(Nat)
             /\ Len(after) = IF size > limit THEN limit ELSE size
             /\ \A n \in 1 .. Len(after) :
                  after[n] = IF n < level
                               THEN IF n <= Len(rows) THEN rows[n] ELSE Filler
                               ELSE IF n = level THEN row ELSE rows[n - 1]
<1> DEFINE inserted == IF level <= Len(rows) + 1
                         THEN InsertAt(rows, level, row)
                         ELSE Append(Resize(rows, level - 1), row)
           size == IF level <= Len(rows) + 1 THEN Len(rows) + 1 ELSE level
           RowAt(n) == IF n < level
                         THEN IF n <= Len(rows) THEN rows[n] ELSE Filler
                         ELSE IF n = level THEN row ELSE rows[n - 1]
           after == New_price(rows, level, row, limit)
<1>1. /\ Len(rows) \in Nat /\ level \in Nat /\ 1 <= level /\ level <= limit
      /\ size \in Nat
  BY LenProperties
<1>2. /\ inserted \in Seq(Nat) /\ Len(inserted) = size
      /\ \A n \in 1 .. size : inserted[n] = RowAt(n)
  <2>1. CASE level <= Len(rows) + 1
    <3>1. inserted = InsertAt(rows, level, row) /\ size = Len(rows) + 1
      BY <2>1
    <3>2. level \in 1 .. Len(rows) + 1
      BY <1>1, <2>1
    <3> HIDE DEF inserted, size
    <3>3. \A n \in 1 .. size : inserted[n] = RowAt(n)
      <4> TAKE n \in 1 .. size
      <4>1. inserted[n] = IF n < level THEN rows[n]
                          ELSE IF n = level THEN row ELSE rows[n - 1]
        <5>1. n \in 1 .. Len(rows) + 1
          BY <3>1
        <5>2. \A k \in 1 .. Len(rows) + 1 :
                InsertAt(rows, level, row)[k] = IF k < level THEN rows[k]
                                                ELSE IF k = level THEN row
                                                ELSE rows[k - 1]
          BY <3>2, InsertRow
        <5> QED
          BY <3>1, <5>1, <5>2
      <4>2. n < level => n <= Len(rows)
        BY <1>1, <3>1, <3>2
      <4> QED
        BY <4>1, <4>2
    <3> QED
      BY <3>1, <3>2, <3>3, InsertRow
  <2>2. CASE ~(level <= Len(rows) + 1)
    <3> DEFINE wide == Resize(rows, level - 1)
    <3>1. /\ wide \in Seq(Nat) /\ Len(wide) = level - 1
          /\ \A n \in 1 .. level - 1 :
               wide[n] = IF n <= Len(rows) THEN rows[n] ELSE Filler
      <4>1. level - 1 \in Nat
        BY <1>1
      <4> QED
        BY <4>1, ResizeRows
    <3>2. inserted = Append(wide, row) /\ size = level
      BY <2>2
    <3> HIDE DEF wide, inserted, size
    <3>3. /\ Append(wide, row) \in Seq(Nat) /\ Len(Append(wide, row)) = level
          /\ \A n \in 1 .. level : Append(wide, row)[n] = IF n < level
                                       THEN wide[n] ELSE row
      BY <1>1, <3>1, AppendProperties
    <3>4. \A n \in 1 .. size : inserted[n] = RowAt(n)
      <4> TAKE n \in 1 .. size
      <4>1. CASE n < level
        BY <1>1, <3>1, <3>2, <3>3, <4>1
      <4>2. CASE n = level
        BY <1>1, <3>1, <3>2, <3>3, <4>2
      <4>3. n < level \/ n = level
        BY <1>1, <3>2
      <4> QED
        BY <4>1, <4>2, <4>3
    <3> QED
      BY <1>1, <3>2, <3>3, <3>4
  <2> QED
    BY <2>1, <2>2
<1>3. after = IF Len(inserted) > limit THEN Resize(inserted, limit) ELSE inserted
  BY DEF New_price
<1> HIDE DEF inserted, after, RowAt
<1>4. /\ Resize(inserted, limit) \in Seq(Nat)
      /\ Len(Resize(inserted, limit)) = limit
      /\ \A n \in 1 .. limit : Resize(inserted, limit)[n] =
              IF n <= Len(inserted) THEN inserted[n] ELSE Filler
  BY <1>2, ResizeRows
<1>5. /\ after \in Seq(Nat)
      /\ Len(after) = IF size > limit THEN limit ELSE size
      /\ \A n \in 1 .. Len(after) : after[n] = RowAt(n)
  <2> HIDE DEF size
  <2>1. CASE size > limit
    BY <1>1, <1>2, <1>3, <1>4, <2>1
  <2>2. CASE ~(size > limit)
    BY <1>1, <1>2, <1>3, <2>2
  <2> QED
    BY <2>1, <2>2
<1> QED
  BY <1>5 DEF after, RowAt
-----------------------------------------------------------------------------
(* The operations on a book and on all books.                              *)

\* An entry that passes Check_price_level leaves a good side.
LEMMA UpdateSide ==
  ASSUME NEW rows \in Seq(Nat), NEW limit \in Nat, Len(rows) <= limit,
         NEW b \in Book,
         Check_price_level(rows, limit, EffectiveAction(b), b.level)
  PROVE  /\ RowsAfter(b, rows, limit) \in Seq(Nat)
         /\ Len(RowsAfter(b, rows, limit)) <= limit
<1> DEFINE after == RowsAfter(b, rows, limit)
<1>1. /\ EffectiveAction(b) \in Actions
      /\ b.level \in Nat
      /\ b.row \in Nat
      /\ Len(rows) \in Nat
  BY LenProperties DEF Book, EffectiveAction, Actions
<1>2. CASE EffectiveAction(b) = "New"
  <2>1. b.level \in 1 .. limit
    BY <1>1, <1>2 DEF Check_price_level
  <2>2. after = New_price(rows, b.level, b.row, limit)
    BY <1>2 DEF RowsAfter
  <2> HIDE DEF after
  <2>3. after \in Seq(Nat) /\ Len(after) <= limit
    BY <1>1, <2>1, <2>2, NewPrice
  <2> QED
    BY <2>3 DEF after
<1>3. CASE EffectiveAction(b) = "Change"
  <2>1. b.level \in 1 .. Len(rows)
    BY <1>1, <1>3 DEF Check_price_level
  <2>2. /\ Change_price(rows, b.level, b.row) \in Seq(Nat)
        /\ Len(Change_price(rows, b.level, b.row)) = Len(rows)
    BY <1>1, <2>1, ExceptSeq DEF Change_price, ReplaceAt
  <2> QED
    BY <1>3, <2>2 DEF RowsAfter
<1>4. CASE EffectiveAction(b) = "Delete"
  <2>1. b.level \in 1 .. Len(rows)
    BY <1>1, <1>4 DEF Check_price_level
  <2>2. /\ Delete_price(rows, b.level) \in Seq(Nat)
        /\ Len(Delete_price(rows, b.level)) = Len(rows) - 1
    BY <2>1, RemoveOne DEF Delete_price
  <2> QED
    BY <1>1, <1>4, <2>2 DEF RowsAfter
<1>5. CASE EffectiveAction(b) = "DeleteThru"
  BY <1>1, <1>5, EmptySeq DEF Delete_all_price, RowsAfter
<1>6. CASE EffectiveAction(b) = "DeleteFrom"
  <2>1. /\ Delete_top_price(rows, b.level) \in Seq(Nat)
        /\ Len(Delete_top_price(rows, b.level)) <= Len(rows)
    <3> DEFINE left == SubSeq(rows, b.level + 1, Len(rows))
    <3>1. /\ left \in Seq(Nat)
          /\ Len(left) = IF b.level <= Len(rows) THEN Len(rows) - b.level ELSE 0
      BY <1>1, RemoveTop
    <3> HIDE DEF left
    <3>2. left \in Seq(Nat) /\ Len(left) <= Len(rows)
      BY <1>1, <3>1
    <3> QED
      BY <3>2 DEF left, Delete_top_price
  <2> QED
    BY <1>1, <1>6, <2>1 DEF RowsAfter
<1> QED
  BY <1>1, <1>2, <1>3, <1>4, <1>5, <1>6 DEF Actions

\* Update_price keeps the book well formed and within its depth.
LEMMA UpdatePrice ==
  ASSUME NEW bs \in BookState, Fits(bs), NEW b \in Book, b.entry \in Sides,
         Check_price_level(bs[b.entry], bs.marketDepth, EffectiveAction(b),
                           b.level)
  PROVE  Update_price(b, bs) \in BookState /\ Fits(Update_price(b, bs))
<1> DEFINE rows == bs[b.entry]
           after == RowsAfter(b, rows, bs.marketDepth)
<1>1. /\ bs.marketDepth \in Nat
      /\ rows \in Seq(Nat)
      /\ Len(rows) <= bs.marketDepth
  BY DEF BookState, Sides, Fits
<1>2. after \in Seq(Nat) /\ Len(after) <= bs.marketDepth
  BY <1>1, UpdateSide
<1>3. Update_price(b, bs) = [bs EXCEPT ![b.entry] = after]
  BY DEF Update_price
<1> HIDE DEF after
<1> QED
  BY <1>2, <1>3 DEF BookState, Sides, Fits

\* Modify_state keeps all books good.
LEMMA ModifyState ==
  ASSUME NEW states, GoodBooks(states), NEW b \in Book
  PROVE  /\ GoodBooks(Modify_state(states, b))
         /\ DOMAIN Modify_state(states, b) = DOMAIN states
<1>1. CASE b.entry = "reset"
  <2>1. ASSUME NEW bs \in BookState
        PROVE  LET r == [bs EXCEPT !.bid = <<>>, !.ask = <<>>]
               IN  r \in BookState /\ Fits(r)
    <3>1. ASSUME NEW none \in Seq(Nat), Len(none) = 0
          PROVE  LET r == [bs EXCEPT !.bid = none, !.ask = none]
                 IN  r \in BookState /\ Fits(r)
      <4>1. bs.marketDepth \in 1 .. MaxDepth /\ 0 <= bs.marketDepth
        BY BookAssumption DEF BookState
      <4> QED
        BY <3>1, <4>1 DEF BookState, Fits
    <3>2. <<>> \in Seq(Nat) /\ Len(<<>>) = 0
      BY EmptySeq
    <3> QED
      BY <3>1, <3>2
  <2> QED
    BY <1>1, <2>1, Zenon DEF GoodBooks, Modify_state, Reset_state
<1>2. CASE b.entry # "reset" /\ Changes(states, b)
  <2>1. /\ b.inst \in DOMAIN states
        /\ states[b.inst] \in BookState
        /\ Fits(states[b.inst])
    BY <1>2 DEF Changes, GoodBooks
  <2>2. /\ Update_price(b, states[b.inst]) \in BookState
        /\ Fits(Update_price(b, states[b.inst]))
    BY <1>2, <2>1, UpdatePrice DEF Changes
  <2>3. Modify_state(states, b)
          = [states EXCEPT ![b.inst] = Update_price(b, states[b.inst])]
    BY <1>2 DEF Modify_state
  <2> QED
    BY <2>1, <2>2, <2>3 DEF GoodBooks
<1>3. CASE b.entry # "reset" /\ ~Changes(states, b)
  BY <1>3 DEF Modify_state
<1> QED
  BY <1>1, <1>2, <1>3

\* A definition that adds or modifies an instrument keeps all books good, and
\* cuts those that are deeper than the new depth.
LEMMA CreateOrShrink ==
  ASSUME NEW states, GoodBooks(states), NEW inst \in Instruments,
         NEW limit \in 1 .. MaxDepth
  PROVE  GoodBooks(Create_or_shrink(states, inst, limit))
<1>1. limit \in Nat
  BY BookAssumption
<1>2. Create(limit) \in BookState /\ Fits(Create(limit))
  BY <1>1, EmptySeq DEF Create, BookState, Fits
<1>3. ASSUME NEW rows \in Seq(Nat)
      PROVE  Trim(rows, limit) \in Seq(Nat) /\ Len(Trim(rows, limit)) <= limit
  <2>1. Len(rows) \in Nat
    BY LenProperties
  <2>2. Resize(rows, limit) \in Seq(Nat) /\ Len(Resize(rows, limit)) = limit
    BY <1>1, ResizeRows
  <2> QED
    BY <1>1, <2>1, <2>2 DEF Trim
<1>4. ASSUME NEW bs \in BookState
      PROVE  Shrink(bs, limit) \in BookState /\ Fits(Shrink(bs, limit))
  <2>1. bs.bid \in Seq(Nat) /\ bs.ask \in Seq(Nat)
    BY DEF BookState
  <2> QED
    BY <1>3, <2>1 DEF Shrink, BookState, Fits
<1> QED
  BY <1>2, <1>4 DEF GoodBooks, Create_or_shrink

-----------------------------------------------------------------------------
(* The invariant.                                                          *)

\* The work list loses its head.
LEMMA NextWork ==
  ASSUME NEW kind, Iterate(kind), work \in Seq(Work)
  PROVE  /\ Head(work) \in Work
         /\ Head(work).kind = kind
         /\ work' \in Seq(Work)
BY HeadTailProperties DEF Iterate

\* The work a call leaves is well formed.
LEMMA NewWork ==
  /\ \A ds \in Seq(Instrument) : Definitions(ds) \in Seq(Work)
  /\ \A books \in Seq(Book) : Recoveries(books) \in Seq(Work)
  /\ << [kind |-> "send"] >> \in Seq(Work)
<1>1. ASSUME NEW ds \in Seq(Instrument)
      PROVE  Definitions(ds) \in Seq(Work)
  <2>1. Definitions(ds) \in [1 .. Len(ds) -> Work]
    BY LenProperties, ElementOfSeq DEF Definitions, Work
  <2> QED
    BY <2>1, SeqDef, LenProperties
<1>2. ASSUME NEW books \in Seq(Book)
      PROVE  Recoveries(books) \in Seq(Work)
  <2>1. Recoveries(books) \in [1 .. Len(books) -> Work]
    BY LenProperties, ElementOfSeq DEF Recoveries, Work
  <2> QED
    BY <2>1, SeqDef, LenProperties
<1>3. << [kind |-> "send"] >> \in Seq(Work)
  BY DEF Work
<1> QED
  BY <1>1, <1>2, <1>3

\* There is no book yet.
LEMMA InitGood == BookInit => IInv
BY EmptySeq DEF BookInit, IInv, GoodBooks

\* A call of the saver keeps the invariant.
LEMMA CallGood ==
  ASSUME IInv,
         \/ \E ds \in Seq(Instrument), books \in Seq(Book),
               at \in Nat : Process_recovery_data(ds, books, at)
         \/ \E message \in Message : Convert_message(message)
  PROVE  IInv'
<1>1. ASSUME NEW ds \in Seq(Instrument), NEW books \in Seq(Book),
             NEW at \in Nat, Process_recovery_data(ds, books, at)
      PROVE  IInv'
  <2>1. work' \in Seq(Work)
    BY <1>1, NewWork, ConcatProperties DEF Process_recovery_data
  <2>2. UNCHANGED m_md_book_states
    BY <1>1 DEF Process_recovery_data
  <2> QED
    BY <2>1, <2>2 DEF IInv, GoodBooks
<1>2. ASSUME NEW message \in Message, Convert_message(message)
      PROVE  IInv'
  <2>1. /\ message.instruments \in Seq(Instrument)
        /\ message.books \in Seq(Book)
    BY DEF Message
  <2>2. work' \in Seq(Work)
    <3>1. CASE UNCHANGED work
      BY <3>1 DEF IInv
    <3>2. CASE work' = Definitions(message.instruments)
      BY <2>1, <3>2, NewWork
    <3>3. CASE work' = [n \in DOMAIN message.books |->
                 [kind |-> IF message.books[n].inst \in Ahead(message.seq)
                             THEN "past" ELSE "increment",
                  of |-> message.books[n]]]
      <4>1. work' \in [1 .. Len(message.books) -> Work]
        BY <2>1, <3>3, LenProperties, ElementOfSeq DEF Work
      <4> QED
        BY <2>1, <4>1, SeqDef, LenProperties
    <3> QED
      BY <1>2, <3>1, <3>2, <3>3 DEF Convert_message, Increments
  <2>3. UNCHANGED m_md_book_states
    BY <1>2 DEF Convert_message
  <2> QED
    BY <2>2, <2>3 DEF IInv, GoodBooks
<1> QED
  BY <1>1, <1>2

\* One iteration keeps the invariant.
LEMMA StepGood ==
  ASSUME IInv, BookStep
  PROVE  IInv'
<1>1. CASE Update_definition
  <2>1. Head(work) \in Work /\ Head(work).kind = "definition"
        /\ work' \in Seq(Work)
    BY <1>1, NextWork DEF Update_definition, IInv
  <2>2. Head(work).of \in Instrument
    BY <2>1 DEF Work
  <2>3. CASE UNCHANGED m_md_book_states
    BY <2>1, <2>3 DEF IInv, GoodBooks
  <2>4. CASE m_md_book_states' =
               Create_or_shrink(m_md_book_states, Head(work).of.inst,
                                Head(work).of.depth)
    BY <2>1, <2>2, <2>4, CreateOrShrink DEF IInv, Instrument
  <2> QED
    BY <1>1, <2>3, <2>4 DEF Update_definition
<1>2. CASE Recover_book
  <2>1. Head(work) \in Work /\ Head(work).kind = "recovery"
        /\ work' \in Seq(Work)
    BY <1>2, NextWork DEF Recover_book, IInv
  <2>2. Head(work).of \in Book
    BY <2>1 DEF Work
  <2> QED
    BY <1>2, <2>1, <2>2, ModifyState DEF Recover_book, IInv
<1>3. CASE Send_recovery
  <2>1. work' \in Seq(Work)
    BY <1>3, NextWork DEF Send_recovery, IInv
  <2> QED
    BY <1>3, <2>1 DEF Send_recovery, IInv, GoodBooks
<1>4. CASE Increment_book
  <2>1. Head(work) \in Work /\ Head(work).kind = "increment"
        /\ work' \in Seq(Work)
    BY <1>4, NextWork DEF Increment_book, IInv
  <2>2. Head(work).of \in Book
    BY <2>1 DEF Work
  <2> QED
    BY <1>4, <2>1, <2>2, ModifyState DEF Increment_book, IInv
<1>5. CASE Past_book
  <2>1. work' \in Seq(Work)
    BY <1>5, NextWork DEF Past_book, IInv
  <2> QED
    BY <1>5, <2>1 DEF Past_book, IInv, GoodBooks
<1> QED
  BY <1>1, <1>2, <1>3, <1>4, <1>5 DEF BookStep

\* The books stay well formed and within their depth, whatever arrives.
THEOREM GoodAlways == BookSpec => []IInv
<1>1. BookInit => IInv
  BY InitGood
<1>2. IInv /\ [BookNext]_bookVars => IInv'
  <2> SUFFICES ASSUME IInv, [BookNext]_bookVars PROVE IInv'
    OBVIOUS
  <2>1. CASE BookNext
    BY <2>1, CallGood, StepGood DEF BookNext
  <2>2. CASE UNCHANGED bookVars
    BY <2>2 DEF bookVars, IInv, GoodBooks
  <2> QED
    BY <2>1, <2>2
<1> QED
  BY <1>1, <1>2, PTL DEF BookSpec

\* The books stay within the depth of their definition, whatever arrives.
THEOREM Fit == BookSpec => []BooksFit
<1>1. IInv => BooksFit
  BY DEF IInv, GoodBooks, Fits, BooksFit, Sides
<1> QED
  BY <1>1, GoodAlways, PTL

-----------------------------------------------------------------------------
(* The types of the book manager.                                          *)

\* Merge_position is the place of an entry, or the one after the last.
LEMMA MergePosition ==
  ASSUME BookTypeOK, NEW at \in Nat
  PROVE  /\ Merge_position(at) \in m_recovery_wait_merge
                                     .. Len(m_recovery_books) + 1
         /\ \A n \in m_recovery_wait_merge .. Len(m_recovery_books) :
              n < Merge_position(at) => m_recovery_books[n].seq < at
         /\ Merge_position(at) <= Len(m_recovery_books) =>
              m_recovery_books[Merge_position(at)].seq >= at
<1> DEFINE L == Len(m_recovery_books)
           places == {n \in m_recovery_wait_merge .. L :
                        m_recovery_books[n].seq >= at}
           all == places \cup {L + 1}
<1>1. /\ L \in Nat /\ m_recovery_wait_merge \in Nat
      /\ m_recovery_wait_merge >= 1 /\ m_recovery_wait_merge <= L + 1
      /\ \A n \in 1 .. L : m_recovery_books[n].seq \in Nat
  <2>1. m_recovery_books \in Seq(Book) /\ m_recovery_wait_merge \in 1 .. L + 1
    BY DEF BookTypeOK
  <2>2. L \in Nat /\ \A n \in 1 .. L : m_recovery_books[n] \in Book
    BY <2>1, LenProperties, ElementOfSeq
  <2> HIDE DEF L
  <2> QED
    BY <2>1, <2>2 DEF Book
<1>2. all \in SUBSET Nat /\ all # {}
  BY <1>1
<1>3. PICK x \in all : \A y \in all : ~ (y < x)
  <2> HIDE DEF all
  <2> QED
    BY <1>2, Minimum
<1>4. \A y \in all : x <= y
  BY <1>2, <1>3
<1>5. Merge_position(at) \in all /\ \A y \in all : Merge_position(at) <= y
  <2>1. Merge_position(at) = CHOOSE z \in all : \A y \in all : z =< y
    BY DEF Merge_position, Min
  <2> HIDE DEF all
  <2> QED
    BY <1>4, <2>1
<1> DEFINE m == Merge_position(at)
<1> HIDE DEF m
<1>6. m \in all /\ \A y \in all : m <= y
  BY <1>5 DEF m
<1>7. m \in m_recovery_wait_merge .. L + 1
  BY <1>1, <1>6
<1>8. m <= L => m_recovery_books[m].seq >= at
  BY <1>1, <1>6
<1>9. ASSUME NEW n \in m_recovery_wait_merge .. L, n < m
      PROVE  m_recovery_books[n].seq < at
  <2>1. n \notin places
    <3>1. n \in all => m <= n
      BY <1>6
    <3> HIDE DEF places
    <3> QED
      BY <1>1, <1>7, <1>9, <3>1
  <2>2. n \in 1 .. L
    BY <1>1
  <2> QED
    BY <1>1, <2>1, <2>2
<1> QED
  BY <1>7, <1>8, <1>9 DEF m

\* The rows on top of a side, NoSide when it is empty.
LEMMA BestType ==
  ASSUME NEW rows \in Seq(Nat)
  PROVE  Best(rows) \in Nat
BY HeadTailProperties DEF Best, NoSide

\* What is sent of a book.
LEMMA SendType ==
  ASSUME NEW last \in [bid : Nat, ask : Nat], NEW bs \in BookState
  PROVE  Send_bbo(last, bs) \in [bid : Nat, ask : Nat]
<1>1. Best(bs.bid) \in Nat /\ Best(bs.ask) \in Nat
  BY BestType DEF BookState
<1> QED
  BY <1>1 DEF Send_bbo

\* The book manager starts well formed.
LEMMA InitTypes == BookInit => BookTypeOK
<1> SUFFICES ASSUME BookInit PROVE BookTypeOK
  OBVIOUS
<1>1. m_recovery_books \in Seq(Book) /\ Len(m_recovery_books) = 0
  BY EmptySeq DEF BookInit
<1>2. work \in Seq(Work) /\ DOMAIN m_md_book_states = {}
  BY EmptySeq DEF BookInit
<1> QED
  BY <1>1, <1>2 DEF BookInit, BookTypeOK, NoSide

\* A call of the saver keeps the types.
LEMMA CallTypes ==
  ASSUME IInv', BookTypeOK,
         \/ \E ds \in Seq(Instrument), books \in Seq(Book),
               at \in Nat : Process_recovery_data(ds, books, at)
         \/ \E message \in Message : Convert_message(message)
  PROVE  BookTypeOK'
<1>1. work' \in Seq(Work)
  BY DEF IInv
<1>2. ASSUME NEW ds \in Seq(Instrument), NEW books \in Seq(Book),
             NEW at \in Nat, Process_recovery_data(ds, books, at)
      PROVE  BookTypeOK'
  <2>1. /\ m_recovery_books' = books /\ m_recovery_wait_merge' = 1
        /\ m_recovery_first_seq' = at
        /\ UNCHANGED <<m_instruments, m_md_book_states, state_will_sent, told>>
    BY <1>2 DEF Process_recovery_data
  <2>2. 1 \in 1 .. Len(books) + 1
    BY LenProperties
  <2> QED
    BY <1>1, <2>1, <2>2 DEF BookTypeOK
<1>3. ASSUME NEW message \in Message, Convert_message(message)
      PROVE  BookTypeOK'
  <2>1. UNCHANGED <<m_instruments, m_md_book_states, m_recovery_books,
                    m_recovery_first_seq, state_will_sent, told>>
    BY <1>3 DEF Convert_message
  <2>2. message.seq \in Nat
    BY DEF Message
  <2>3. m_recovery_wait_merge' \in 1 .. Len(m_recovery_books) + 1
    <3>1. m_recovery_wait_merge' \in {m_recovery_wait_merge,
                                      Merge_position(message.seq)}
      BY <1>3 DEF Convert_message
    <3>2. m_recovery_wait_merge \in 1 .. Len(m_recovery_books) + 1
      BY DEF BookTypeOK
    <3>3. Len(m_recovery_books) \in Nat
      BY LenProperties DEF BookTypeOK
    <3>4. Merge_position(message.seq) \in 1 .. Len(m_recovery_books) + 1
      <4>1. Merge_position(message.seq)
              \in m_recovery_wait_merge .. Len(m_recovery_books) + 1
        BY <2>2, MergePosition
      <4> QED
        BY <3>2, <3>3, <4>1
    <3> QED
      BY <3>1, <3>2, <3>4
  <2> QED
    BY <1>1, <2>1, <2>3 DEF BookTypeOK
<1> QED
  BY <1>2, <1>3

\* One iteration keeps the types.
LEMMA StepTypes ==
  ASSUME IInv, IInv', BookTypeOK, BookStep
  PROVE  BookTypeOK'
<1>1. /\ work' \in Seq(Work)
      /\ DOMAIN m_md_book_states' \subseteq Instruments
      /\ \A i \in DOMAIN m_md_book_states' : m_md_book_states'[i] \in BookState
  BY DEF IInv, GoodBooks
<1>2. UNCHANGED <<m_recovery_books, m_recovery_wait_merge, m_recovery_first_seq>>
  BY DEF BookStep, Update_definition, Recover_book, Send_recovery,
         Increment_book, Past_book, Iterate
<1> SUFFICES /\ m_instruments' \subseteq Instruments
             /\ state_will_sent' \subseteq DOMAIN m_md_book_states'
             /\ told' \in [Instruments -> [bid : Nat, ask : Nat]]
  BY <1>1, <1>2 DEF BookTypeOK
<1>3. CASE Update_definition
  <2>1. /\ Head(work) \in Work /\ Head(work).kind = "definition"
    BY <1>3, NextWork DEF Update_definition, IInv
  <2>2. Head(work).of.inst \in Instruments
    BY <2>1 DEF Work, Instrument
  <2>3. DOMAIN m_md_book_states \subseteq DOMAIN m_md_book_states'
    BY <1>3 DEF Update_definition, Create_or_shrink
  <2> QED
    BY <1>3, <2>2, <2>3 DEF Update_definition, BookTypeOK
<1>4. CASE Recover_book
  <2>1. Head(work) \in Work /\ Head(work).kind = "recovery"
    BY <1>4, NextWork DEF Recover_book, IInv
  <2>2. Head(work).of \in Book
    BY <2>1 DEF Work
  <2>3. DOMAIN m_md_book_states' = DOMAIN m_md_book_states
    BY <1>4, <2>2, ModifyState DEF Recover_book, IInv
  <2> QED
    BY <1>4, <2>3 DEF Recover_book, BookTypeOK, Changes
<1>5. CASE Send_recovery
  <2>1. \A i \in Instruments :
          i \in state_will_sent =>
            Send_bbo(told[i], m_md_book_states[i]) \in [bid : Nat, ask : Nat]
    BY SendType DEF BookTypeOK
  <2> QED
    BY <1>5, <2>1 DEF Send_recovery, BookTypeOK
<1>6. CASE Increment_book
  <2>1. Head(work) \in Work /\ Head(work).kind = "increment"
    BY <1>6, NextWork DEF Increment_book, IInv
  <2> DEFINE b == Head(work).of
  <2>2. b \in Book
    BY <2>1 DEF Work
  <2>3. DOMAIN m_md_book_states' = DOMAIN m_md_book_states
    BY <1>6, <2>2, ModifyState DEF Increment_book, IInv
  <2>4. Changes(m_md_book_states, b) =>
          /\ b.inst \in Instruments
          /\ Send_bbo(told[b.inst], m_md_book_states'[b.inst])
               \in [bid : Nat, ask : Nat]
    BY <1>1, <2>3, SendType DEF BookTypeOK, Changes
  <2>5. told' \in [Instruments -> [bid : Nat, ask : Nat]]
    BY <1>6, <2>4 DEF Increment_book, BookTypeOK
  <2> QED
    BY <1>6, <2>3, <2>5 DEF Increment_book, BookTypeOK
<1>7. CASE Past_book
  BY <1>7 DEF Past_book, BookTypeOK
<1> QED
  BY <1>3, <1>4, <1>5, <1>6, <1>7 DEF BookStep

\* The state of the book manager keeps its type, whatever arrives.
THEOREM BookTypes == BookSpec => []BookTypeOK
<1>1. BookInit => BookTypeOK
  BY InitTypes
<1>2. IInv /\ IInv' /\ BookTypeOK /\ [BookNext]_bookVars => BookTypeOK'
  <2> SUFFICES ASSUME IInv, IInv', BookTypeOK, [BookNext]_bookVars
               PROVE  BookTypeOK'
    OBVIOUS
  <2>1. CASE BookNext
    BY <2>1, CallTypes, StepTypes DEF BookNext
  <2>2. CASE UNCHANGED bookVars
    BY <2>2 DEF bookVars, BookTypeOK
  <2> QED
    BY <2>1, <2>2
<1> QED
  BY <1>1, <1>2, GoodAlways, PTL DEF BookSpec

-----------------------------------------------------------------------------
(* The best prices.  A book whose top is known, and which is not waiting to *)
(* be sent at the end of the snapshot, is as last told: an entry of which   *)
(* Is_BBO_changed says nothing leaves the top, or makes it a filler.        *)

\* The best prices of a book.
Tops(bs) == [bid |-> Best(bs.bid), ask |-> Best(bs.ask)]

\* A book whose best prices the strategies have to know.
TopKnown(bs) ==
  /\ HasRows(bs)
  /\ \A side \in Sides : bs[side] # <<>> => Head(bs[side]) # Filler

\* They were told, unless the end of the snapshot will tell them.
TopTold ==
  \A i \in DOMAIN m_md_book_states :
    i \notin state_will_sent /\ TopKnown(m_md_book_states[i]) =>
      told[i] = Tops(m_md_book_states[i])

\* A book that waits to be sent will be: the sending is the last thing to do.
SendAhead ==
  state_will_sent # {} \/ (\E n \in DOMAIN work : work[n].kind = "recovery") =>
    work # <<>> /\ work[Len(work)].kind = "send"

\* A row below the top leaves the top; in a book that was empty it makes the
\* top a filler.
LEMMA TopKept ==
  ASSUME NEW rows \in Seq(Nat), NEW limit \in Nat, Len(rows) <= limit,
         NEW b \in Book, ~Is_BBO_changed(b),
         Check_price_level(rows, limit, EffectiveAction(b), b.level)
  PROVE  LET after == RowsAfter(b, rows, limit)
         IN  /\ after \in Seq(Nat) /\ after # <<>>
             /\ rows = <<>> => Head(after) = Filler
             /\ rows # <<>> => Head(after) = Head(rows)
<1> DEFINE after == RowsAfter(b, rows, limit)
<1>1. /\ b.level \in Nat /\ b.row \in Nat /\ Len(rows) \in Nat
      /\ EffectiveAction(b) \in {"New", "Change", "Delete"} /\ b.level # 1
  BY LenProperties DEF Book, EffectiveAction, Actions, Is_BBO_changed
<1>2. b.level \in 2 .. limit
  BY <1>1 DEF Check_price_level
<1>3. rows # <<>> => Len(rows) >= 1 /\ Head(rows) = rows[1]
  BY <1>1, EmptySeq
<1>4. rows = <<>> => Len(rows) = 0
  BY EmptySeq
<1>5. after \in Seq(Nat)
  BY UpdateSide
<1>6. /\ Len(after) >= 1
      /\ rows # <<>> => after[1] = rows[1]
      /\ rows = <<>> => after[1] = Filler
  <2>1. CASE EffectiveAction(b) = "New"
    <3> DEFINE size == IF b.level <= Len(rows) + 1 THEN Len(rows) + 1 ELSE b.level
    <3>1. after = New_price(rows, b.level, b.row, limit)
      BY <2>1 DEF RowsAfter
    <3>2. b.level \in 1 .. limit
      BY <1>2
    <3> HIDE DEF after
    <3>3. /\ Len(after) = IF size > limit THEN limit ELSE size
          /\ \A n \in 1 .. Len(after) :
               after[n] = IF n < b.level
                            THEN IF n <= Len(rows) THEN rows[n] ELSE Filler
                            ELSE IF n = b.level THEN b.row ELSE rows[n - 1]
      BY <1>1, <3>1, <3>2, NewPrice, SMTT(40)
    <3>4. 1 \in 1 .. Len(after) /\ 1 < b.level
      BY <1>1, <1>2, <3>3
    <3>5. after[1] = IF 1 <= Len(rows) THEN rows[1] ELSE Filler
      BY <3>3, <3>4
    <3> QED
      BY <1>1, <1>3, <1>4, <3>4, <3>5
  <2>2. CASE EffectiveAction(b) = "Change"
    <3>1. b.level \in 1 .. Len(rows) /\ after = [rows EXCEPT ![b.level] = b.row]
      BY <1>1, <1>2, <2>2
         DEF RowsAfter, Check_price_level, Change_price, ReplaceAt
    <3> HIDE DEF after
    <3>2. Len(after) = Len(rows) /\ after[1] = rows[1]
      BY <1>1, <1>2, <3>1, ExceptSeq
    <3> QED
      BY <1>1, <1>2, <1>4, <3>1, <3>2
  <2>3. CASE EffectiveAction(b) = "Delete"
    <3>1. b.level \in 1 .. Len(rows) /\ after = RemoveAt(rows, b.level)
      BY <1>1, <1>2, <2>3 DEF RowsAfter, Check_price_level, Delete_price
    <3> HIDE DEF after
    <3>2. /\ Len(after) = Len(rows) - 1
          /\ \A n \in 1 .. Len(rows) - 1 :
               after[n] = IF n < b.level THEN rows[n] ELSE rows[n + 1]
      BY <3>1, RemoveOne
    <3>3. 1 \in 1 .. Len(rows) - 1 /\ 1 < b.level
      BY <1>1, <1>2, <3>1
    <3> QED
      BY <1>1, <1>4, <3>2, <3>3
  <2> QED
    BY <1>1, <2>1, <2>2, <2>3
<1> HIDE DEF after
<1>7. after # <<>> /\ Head(after) = after[1]
  BY <1>5, <1>6, EmptySeq
<1> QED
  BY <1>3, <1>5, <1>6, <1>7 DEF after

\* So the top of a book that is known afterwards was known before.
LEMMA UpdateTop ==
  ASSUME NEW bs \in BookState, Fits(bs), NEW b \in Book, b.entry \in Sides,
         ~Is_BBO_changed(b), TopKnown(Update_price(b, bs)),
         Check_price_level(bs[b.entry], bs.marketDepth, EffectiveAction(b),
                           b.level)
  PROVE  TopKnown(bs) /\ Tops(Update_price(b, bs)) = Tops(bs)
<1> DEFINE rows == bs[b.entry]
           after == RowsAfter(b, rows, bs.marketDepth)
           new == Update_price(b, bs)
<1>1. /\ bs.marketDepth \in Nat
      /\ rows \in Seq(Nat)
      /\ Len(rows) <= bs.marketDepth
  BY DEF BookState, Sides, Fits
<1>2. /\ after # <<>>
      /\ rows = <<>> => Head(after) = Filler
      /\ rows # <<>> => Head(after) = Head(rows)
  BY <1>1, TopKept
<1>3. new = [bs EXCEPT ![b.entry] = after]
  BY DEF Update_price
<1> HIDE DEF after, new
<1>4. new[b.entry] = after /\ \A side \in Sides : side # b.entry => new[side] = bs[side]
  BY <1>3 DEF BookState, Sides
<1>5. Head(after) # Filler
  BY <1>2, <1>4 DEF TopKnown, new
<1>6. rows # <<>> /\ Head(after) = Head(rows)
  BY <1>2, <1>5
<1>7. TopKnown(bs)
  <2>1. HasRows(bs)
    BY <1>6 DEF HasRows, Sides
  <2>2. \A side \in Sides : bs[side] # <<>> => Head(bs[side]) # Filler
    BY <1>4, <1>5, <1>6 DEF TopKnown, new
  <2> QED
    BY <2>1, <2>2 DEF TopKnown
<1>8. \A side \in Sides : Best(new[side]) = Best(bs[side])
  BY <1>2, <1>4, <1>6 DEF Best
<1>9. Tops(new) = Tops(bs)
  BY <1>8 DEF Tops, Sides
<1> QED
  BY <1>7, <1>9 DEF new

\* Cutting a book leaves its top.
LEMMA ShrinkTop ==
  ASSUME NEW bs \in BookState, NEW limit \in Nat \ {0}
  PROVE  /\ TopKnown(Shrink(bs, limit)) <=> TopKnown(bs)
         /\ Tops(Shrink(bs, limit)) = Tops(bs)
<1> DEFINE new == Shrink(bs, limit)
<1>1. ASSUME NEW rows \in Seq(Nat)
      PROVE  /\ Trim(rows, limit) = <<>> <=> rows = <<>>
             /\ rows # <<>> => Head(Trim(rows, limit)) = Head(rows)
             /\ Best(Trim(rows, limit)) = Best(rows)
  <2> DEFINE cut == Trim(rows, limit)
             wide == Resize(rows, limit)
  <2>1. cut = IF Len(rows) > limit THEN wide ELSE rows
    BY DEF Trim
  <2>2. /\ wide \in Seq(Nat) /\ Len(wide) = limit
        /\ wide[1] = IF 1 <= Len(rows) THEN rows[1] ELSE Filler
    BY ResizeRows
  <2> HIDE DEF wide, cut
  <2>3. CASE Len(rows) > limit
    <3>1. rows # <<>> /\ wide # <<>> /\ 1 <= Len(rows)
      BY <2>2, <2>3, EmptySeq
    <3>2. Head(wide) = wide[1] /\ Head(rows) = rows[1]
      BY <2>2, <3>1
    <3> QED
      BY <2>1, <2>2, <2>3, <3>1, <3>2 DEF cut, Best
  <2>4. CASE ~(Len(rows) > limit)
    BY <2>1, <2>4 DEF cut
  <2> QED
    BY <2>3, <2>4
<1>2. bs.bid \in Seq(Nat) /\ bs.ask \in Seq(Nat)
  BY DEF BookState
<1>3. new.bid = Trim(bs.bid, limit) /\ new.ask = Trim(bs.ask, limit)
  BY DEF Shrink
<1> HIDE DEF new
<1>4. /\ TopKnown(new) <=> TopKnown(bs)
      /\ Tops(new) = Tops(bs)
  BY <1>1, <1>2, <1>3 DEF TopKnown, HasRows, Tops, Sides
<1> QED
  BY <1>4 DEF new

\* A book that is told is told as it is.
LEMMA SendsTops ==
  ASSUME NEW bs, TopKnown(bs), NEW last
  PROVE  Send_bbo(last, bs) = Tops(bs)
BY DEF Send_bbo, TopKnown, HasRows, Tops

\* A reset leaves no book with a top; an entry changes one book at most.
LEMMA ModifyTop ==
  ASSUME NEW states, GoodBooks(states), NEW b \in Book,
         NEW i \in DOMAIN states, TopKnown(Modify_state(states, b)[i])
  PROVE  /\ b.entry # "reset"
         /\ Changes(states, b) /\ i = b.inst =>
              /\ Modify_state(states, b)[i] = Update_price(b, states[i])
              /\ ~Is_BBO_changed(b) =>
                   /\ TopKnown(states[i])
                   /\ Tops(Modify_state(states, b)[i]) = Tops(states[i])
         /\ ~(Changes(states, b) /\ i = b.inst) =>
              Modify_state(states, b)[i] = states[i]
<1>1. b.entry # "reset"
  <2> SUFFICES ASSUME b.entry = "reset" PROVE FALSE
    OBVIOUS
  <2>1. Modify_state(states, b)[i] = [states[i] EXCEPT !.bid = <<>>, !.ask = <<>>]
    BY DEF Modify_state, Reset_state
  <2>2. states[i] \in BookState
    BY DEF GoodBooks
  <2>3. /\ Modify_state(states, b)[i].bid = <<>>
        /\ Modify_state(states, b)[i].ask = <<>>
    BY <2>1, <2>2 DEF BookState
  <2> QED
    BY <2>3 DEF TopKnown, HasRows
<1>2. CASE Changes(states, b) /\ i = b.inst
  <2>1. /\ states[i] \in BookState /\ Fits(states[i]) /\ b.entry \in Sides
        /\ Check_price_level(states[i][b.entry], states[i].marketDepth,
                             EffectiveAction(b), b.level)
    BY <1>2 DEF GoodBooks, Changes
  <2>2. Modify_state(states, b)[i] = Update_price(b, states[i])
    BY <1>1, <1>2 DEF Modify_state
  <2> QED
    BY <1>1, <1>2, <2>1, <2>2, UpdateTop
<1>3. CASE ~(Changes(states, b) /\ i = b.inst)
  BY <1>1, <1>3 DEF Modify_state
<1> QED
  BY <1>1, <1>2, <1>3

\* The inductive invariant of what the strategies know.
TopInv == TopTold /\ SendAhead

\* There is no book to tell of.
LEMMA InitTop == BookInit => TopInv
BY DEF BookInit, TopInv, TopTold, SendAhead

\* A call finds nothing waiting to be sent, and changes no book.
LEMMA CallTop ==
  ASSUME IInv', BookTypeOK, TopInv,
         \/ \E ds \in Seq(Instrument), books \in Seq(Book),
               at \in Nat : Process_recovery_data(ds, books, at)
         \/ \E message \in Message : Convert_message(message)
  PROVE  TopInv'
<1>1. /\ work = <<>>
      /\ UNCHANGED <<m_md_book_states, state_will_sent, told>>
  BY DEF Process_recovery_data, Convert_message, Idle
<1>2. state_will_sent = {}
  BY <1>1 DEF TopInv, SendAhead
<1>3. TopTold'
  BY <1>1 DEF TopInv, TopTold
<1>4. ASSUME NEW ds \in Seq(Instrument), NEW books \in Seq(Book),
             NEW at \in Nat, Process_recovery_data(ds, books, at)
      PROVE  SendAhead'
  <2> DEFINE a == Definitions(ds) \o Recoveries(books)
             z == << [kind |-> "send"] >>
  <2>1. a \in Seq(Work) /\ z \in Seq(Work) /\ Len(z) = 1
    BY NewWork, ConcatProperties
  <2>2. work' = a \o z
    BY <1>4 DEF Process_recovery_data
  <2> HIDE DEF a
  <2>3. Len(a) \in Nat
    BY <2>1, LenProperties
  <2>4. Len(a \o z) = Len(a) + 1 /\ (a \o z)[Len(a) + 1] = z[1]
    BY <2>1, <2>3, ConcatProperties
  <2>5. a \o z # <<>>
    BY <2>3, <2>4, EmptySeq
  <2> QED
    BY <2>2, <2>4, <2>5 DEF SendAhead
<1>5. ASSUME NEW message \in Message, Convert_message(message)
      PROVE  SendAhead'
  <2>1. /\ message.instruments \in Seq(Instrument)
        /\ message.books \in Seq(Book)
    BY DEF Message
  <2>2. \A n \in DOMAIN work' : work'[n].kind # "recovery"
    <3>1. CASE UNCHANGED work
      BY <1>1, <3>1
    <3>2. CASE work' = Definitions(message.instruments)
      BY <3>2 DEF Definitions
    <3>3. CASE work' = Increments(message.books, Ahead(message.seq))
      BY <3>3 DEF Increments
    <3> QED
      BY <1>5, <3>1, <3>2, <3>3 DEF Convert_message
  <2> QED
    BY <1>1, <1>2, <2>2 DEF SendAhead
<1> QED
  BY <1>3, <1>4, <1>5 DEF TopInv

\* The sending stays ahead while the snapshot is loaded.
LEMMA StepAhead ==
  ASSUME work \in Seq(Work), SendAhead, NEW kind, Iterate(kind),
         \/ state_will_sent' = {}
         \/ state_will_sent' = state_will_sent /\ kind # "send"
         \/ kind = "recovery"
  PROVE  SendAhead'
<1>1. work # <<>> /\ work' = Tail(work) /\ Head(work).kind = kind
  BY DEF Iterate
<1>2. /\ Len(work) \in Nat /\ Len(work) >= 1 /\ Head(work) = work[1]
      /\ work' \in Seq(Work) /\ Len(work') = Len(work) - 1
      /\ \A n \in 1 .. Len(work') : work'[n] = work[n + 1]
      /\ DOMAIN work = 1 .. Len(work) /\ DOMAIN work' = 1 .. Len(work')
  BY <1>1, HeadTailProperties, LenProperties, EmptySeq
<1> SUFFICES ASSUME state_will_sent' # {}
                       \/ (\E n \in DOMAIN work' : work'[n].kind = "recovery")
             PROVE  work' # <<>> /\ work'[Len(work')].kind = "send"
  BY DEF SendAhead
<1>3. \/ state_will_sent # {} /\ kind # "send"
      \/ \E n \in DOMAIN work : work[n].kind = "recovery"
  <2>1. CASE \E n \in DOMAIN work' : work'[n].kind = "recovery"
    <3>1. PICK n \in 1 .. Len(work') : work'[n].kind = "recovery"
      BY <1>2, <2>1
    <3>2. n + 1 \in 1 .. Len(work) /\ work[n + 1].kind = "recovery"
      BY <1>2, <3>1
    <3> QED
      BY <1>2, <3>2
  <2>2. CASE kind = "recovery"
    BY <1>1, <1>2, <2>2
  <2>3. CASE state_will_sent' # {} /\ kind # "recovery"
    BY <2>3
  <2> QED
    BY <2>1, <2>2, <2>3
<1>4. work[Len(work)].kind = "send"
  BY <1>3 DEF SendAhead
<1>5. Len(work) # 1
  <2> SUFFICES ASSUME Len(work) = 1 PROVE FALSE
    OBVIOUS
  <2>1. kind = "send"
    BY <1>1, <1>2, <1>4
  <2>2. Len(work') = 0 /\ DOMAIN work' = {}
    BY <1>2
  <2>3. \A n \in DOMAIN work : n = 1
    BY <1>2
  <2> QED
    BY <1>1, <1>2, <1>3, <2>1, <2>2, <2>3
<1>6. Len(work') \in 1 .. Len(work') /\ work'[Len(work')] = work[Len(work)]
  BY <1>2, <1>5
<1> QED
  BY <1>2, <1>4, <1>6, EmptySeq

\* One iteration keeps the strategies informed.
LEMMA StepTop ==
  ASSUME IInv, BookTypeOK, TopInv, BookStep
  PROVE  TopInv'
<1>1. /\ work \in Seq(Work) /\ GoodBooks(m_md_book_states)
      /\ TopTold /\ SendAhead
  BY DEF IInv, TopInv
<1>2. CASE Update_definition
  <2>1. /\ Head(work) \in Work /\ Head(work).kind = "definition"
    BY <1>2, NextWork DEF Update_definition, IInv
  <2> DEFINE d == Head(work).of
  <2>2. d \in Instrument
    BY <2>1 DEF Work
  <2>3. d.depth \in Nat \ {0}
    BY <2>2, BookAssumption DEF Instrument
  <2> HIDE DEF d
  <2>4. TopTold'
    <3> SUFFICES ASSUME NEW i \in DOMAIN m_md_book_states',
                        i \notin state_will_sent,
                        TopKnown(m_md_book_states'[i])
                 PROVE  told[i] = Tops(m_md_book_states'[i])
      BY <1>2 DEF Update_definition, TopTold
    <3>1. CASE m_md_book_states' = m_md_book_states
      BY <1>1, <3>1 DEF TopTold
    <3>2. CASE m_md_book_states' =
                 Create_or_shrink(m_md_book_states, d.inst, d.depth)
      <4>1. CASE i # d.inst
        <5>1. i \in DOMAIN m_md_book_states
              /\ m_md_book_states'[i] = m_md_book_states[i]
          BY <3>2, <4>1 DEF Create_or_shrink
        <5> QED
          BY <1>1, <5>1 DEF TopTold
      <4>2. CASE i = d.inst /\ i \in DOMAIN m_md_book_states
        <5>1. m_md_book_states'[i] = Shrink(m_md_book_states[i], d.depth)
          BY <3>2, <4>2 DEF Create_or_shrink
        <5>2. m_md_book_states[i] \in BookState
          BY <1>1, <4>2 DEF GoodBooks
        <5> QED
          BY <1>1, <2>3, <4>2, <5>1, <5>2, ShrinkTop DEF TopTold
      <4>3. CASE i = d.inst /\ i \notin DOMAIN m_md_book_states
        <5>1. m_md_book_states'[i] = Create(d.depth)
          BY <3>2, <4>3 DEF Create_or_shrink
        <5> QED
          BY <5>1 DEF Create, TopKnown, HasRows
      <4> QED
        BY <4>1, <4>2, <4>3
    <3> QED
      BY <1>2, <3>1, <3>2 DEF Update_definition, d
  <2>5. SendAhead'
    BY <1>1, <1>2, StepAhead DEF Update_definition
  <2> QED
    BY <2>4, <2>5 DEF TopInv
<1>3. CASE Recover_book
  <2>1. /\ Head(work) \in Work /\ Head(work).kind = "recovery"
    BY <1>3, NextWork DEF Recover_book, IInv
  <2> DEFINE b == Head(work).of
  <2>2. b \in Book
    BY <2>1 DEF Work
  <2> HIDE DEF b
  <2>3. /\ m_md_book_states' = Modify_state(m_md_book_states, b)
        /\ state_will_sent' = IF Changes(m_md_book_states, b)
                                THEN state_will_sent \cup {b.inst}
                                ELSE state_will_sent
        /\ told' = told
    BY <1>3 DEF Recover_book, b
  <2>4. DOMAIN m_md_book_states' = DOMAIN m_md_book_states
    BY <1>1, <2>2, <2>3, ModifyState
  <2>5. TopTold'
    <3> SUFFICES ASSUME NEW i \in DOMAIN m_md_book_states',
                        i \notin state_will_sent',
                        TopKnown(m_md_book_states'[i])
                 PROVE  told[i] = Tops(m_md_book_states'[i])
      BY <2>3 DEF TopTold
    <3>1. ~(Changes(m_md_book_states, b) /\ i = b.inst)
          /\ i \notin state_will_sent
      BY <2>3
    <3>2. m_md_book_states'[i] = m_md_book_states[i]
      BY <1>1, <2>2, <2>3, <2>4, <3>1, ModifyTop
    <3> QED
      BY <1>1, <2>4, <3>1, <3>2 DEF TopTold
  <2>6. SendAhead'
    BY <1>1, <1>3, StepAhead DEF Recover_book
  <2> QED
    BY <2>5, <2>6 DEF TopInv
<1>4. CASE Send_recovery
  <2>1. TopTold'
    <3> SUFFICES ASSUME NEW i \in DOMAIN m_md_book_states,
                        TopKnown(m_md_book_states[i])
                 PROVE  told'[i] = Tops(m_md_book_states[i])
      BY <1>4 DEF Send_recovery, TopTold
    <3>1. i \in Instruments
      BY DEF BookTypeOK
    <3>2. told'[i] = IF i \in state_will_sent
                       THEN Send_bbo(told[i], m_md_book_states[i]) ELSE told[i]
      BY <1>4, <3>1 DEF Send_recovery
    <3> QED
      BY <1>1, <3>2, SendsTops DEF TopTold
  <2>2. SendAhead'
    BY <1>1, <1>4, StepAhead DEF Send_recovery
  <2> QED
    BY <2>1, <2>2 DEF TopInv
<1>5. CASE Increment_book
  <2>1. /\ Head(work) \in Work /\ Head(work).kind = "increment"
    BY <1>5, NextWork DEF Increment_book, IInv
  <2> DEFINE b == Head(work).of
  <2>2. b \in Book
    BY <2>1 DEF Work
  <2> HIDE DEF b
  <2>3. /\ m_md_book_states' = Modify_state(m_md_book_states, b)
        /\ state_will_sent' = state_will_sent
        /\ told' = IF Changes(m_md_book_states, b) /\ Is_BBO_changed(b)
                     THEN [told EXCEPT ![b.inst] =
                             Send_bbo(@, m_md_book_states'[b.inst])]
                     ELSE told
    BY <1>5 DEF Increment_book, b
  <2>4. DOMAIN m_md_book_states' = DOMAIN m_md_book_states
    BY <1>1, <2>2, <2>3, ModifyState
  <2>5. TopTold'
    <3> SUFFICES ASSUME NEW i \in DOMAIN m_md_book_states,
                        i \notin state_will_sent,
                        TopKnown(m_md_book_states'[i])
                 PROVE  told'[i] = Tops(m_md_book_states'[i])
      BY <2>3, <2>4 DEF TopTold
    <3>1. i \in Instruments /\ told \in [Instruments -> [bid : Nat, ask : Nat]]
      BY DEF BookTypeOK
    <3>2. CASE Changes(m_md_book_states, b) /\ i = b.inst /\ Is_BBO_changed(b)
      <4>1. told'[i] = Send_bbo(told[i], m_md_book_states'[i])
        BY <2>3, <3>1, <3>2
      <4> QED
        BY <4>1, SendsTops
    <3>3. CASE Changes(m_md_book_states, b) /\ i = b.inst /\ ~Is_BBO_changed(b)
      <4>1. told'[i] = told[i]
        BY <2>3, <3>3
      <4>2. /\ TopKnown(m_md_book_states[i])
            /\ Tops(m_md_book_states'[i]) = Tops(m_md_book_states[i])
        BY <1>1, <2>2, <2>3, <3>3, ModifyTop
      <4> QED
        BY <1>1, <4>1, <4>2 DEF TopTold
    <3>4. CASE ~(Changes(m_md_book_states, b) /\ i = b.inst)
      <4>1. told'[i] = told[i]
        BY <2>3, <3>1, <3>4
      <4>2. m_md_book_states'[i] = m_md_book_states[i]
        BY <1>1, <2>2, <2>3, <3>4, ModifyTop
      <4> QED
        BY <1>1, <4>1, <4>2 DEF TopTold
    <3> QED
      BY <3>2, <3>3, <3>4
  <2>6. SendAhead'
    BY <1>1, <1>5, StepAhead DEF Increment_book
  <2> QED
    BY <2>5, <2>6 DEF TopInv
<1>6. CASE Past_book
  <2>1. TopTold'
    BY <1>1, <1>6 DEF Past_book, TopTold
  <2>2. SendAhead'
    BY <1>1, <1>6, StepAhead DEF Past_book
  <2> QED
    BY <2>1, <2>2 DEF TopInv
<1> QED
  BY <1>2, <1>3, <1>4, <1>5, <1>6 DEF BookStep

\* Whatever definitions, snapshots and increments arrive, between two calls the
\* strategies have been told the best prices of every book: no change of them
\* escapes Is_BBO_changed, and what a snapshot changed is sent at its end.
THEOREM TopTrue == BookSpec => []TopToldToStrategies
<1>1. BookInit => TopInv
  BY InitTop
<1>2. IInv /\ IInv' /\ BookTypeOK /\ TopInv /\ [BookNext]_bookVars => TopInv'
  <2> SUFFICES ASSUME IInv, IInv', BookTypeOK, TopInv, [BookNext]_bookVars
               PROVE  TopInv'
    OBVIOUS
  <2>1. CASE BookNext
    BY <2>1, CallTop, StepTop DEF BookNext
  <2>2. CASE UNCHANGED bookVars
    BY <2>2 DEF bookVars, TopInv, TopTold, SendAhead
  <2> QED
    BY <2>1, <2>2
<1>3. TopInv => TopToldToStrategies
  <2> SUFFICES ASSUME TopInv, Idle, NEW i \in DOMAIN m_md_book_states,
                      TopKnown(m_md_book_states[i])
               PROVE  told[i] = Tops(m_md_book_states[i])
    BY DEF TopToldToStrategies, TopKnown, HasRows, Tops
  <2>1. state_will_sent = {}
    BY DEF TopInv, SendAhead, Idle
  <2> QED
    BY <2>1 DEF TopInv, TopTold
<1> QED
  BY <1>1, <1>2, <1>3, GoodAlways, BookTypes, PTL DEF BookSpec

-----------------------------------------------------------------------------
(* The types of the channel.                                               *)

\* Books of the exchange, views of them, snapshots, and queued messages.
Side     == [bid : Seq(Nat), ask : Seq(Nat)]
ViewType == {bs \in [marketDepth : 0 .. MaxDepth, bid : Seq(Nat), ask : Seq(Nat)] :
               Fits(bs)}
Snapshot == [inst : Instruments, seq : Nat, view : ViewType]
Held     == [message : Message, view : [Instruments -> ViewType]]

\* The types of the exchange and of the queue of DatSaver; no message in it
\* is newer than the last one published.
MarketTypes ==
  /\ events \in 0 .. MaxEvents /\ seq \in 0 .. events
  /\ full \in [Instruments -> Side]
  /\ depth \in [Instruments -> 0 .. MaxDepth]
  /\ gone \subseteq Instruments /\ changed \subseteq Instruments
  /\ first \in 0 .. MaxEvents + 1
  /\ definitions \in Seq(Instrument)
  /\ snapshots \in Seq(Snapshot)
  /\ queue \in Seq(Held)
  /\ \A n \in DOMAIN queue : queue[n].message.seq <= seq
  /\ done \in 0 .. seq
  /\ view \in [Instruments -> ViewType]
  /\ right_from \in [Instruments -> 0 .. Never]

\* FlattenSeq puts the sequences one behind the other.
LEMMA FlattenDef ==
  ASSUME NEW E, NEW ss \in Seq(Seq(E))
  PROVE  \E f :
           /\ FlattenSeq(ss) = f[Len(ss)]
           /\ f[0] = <<>>
           /\ \A n \in 1 .. Len(ss) : f[n] = f[n - 1] \o ss[n]
           /\ \A n \in 0 .. Len(ss) : f[n] \in Seq(E)
<1> DEFINE Step(f, n) == IF n = 1 THEN ss[n] ELSE f[n - 1] \o ss[n]
           Upto == {k \in Nat : \E f : f = [n \in 1 .. k |-> Step(f, n)]}
<1>1. 0 \in Upto
  <2>1. <<>> = [n \in 1 .. 0 |-> Step(<<>>, n)]
    <3> HIDE DEF Step
    <3> QED OBVIOUS
  <2> HIDE DEF Step
  <2> QED BY <2>1
<1>2. ASSUME NEW k \in Nat, k \in Upto PROVE k + 1 \in Upto
  <2>1. PICK f : f = [n \in 1 .. k |-> Step(f, n)]
    BY <1>2
  <2> DEFINE g == [n \in 1 .. k + 1 |-> IF n <= k THEN f[n] ELSE Step(f, n)]
             h == [n \in 1 .. k + 1 |-> Step(g, n)]
  <2>2. \A n \in 1 .. k + 1 : g[n] = Step(g, n)
    <3> TAKE n \in 1 .. k + 1
    <3>1. n # 1 => g[n - 1] = f[n - 1]
      OBVIOUS
    <3>2. n <= k => f[n] = Step(f, n)
      <4>1. n <= k => n \in 1 .. k
        OBVIOUS
      <4> HIDE DEF Step
      <4> QED BY <2>1, <4>1
    <3> QED BY <3>1, <3>2
  <2>3. \A n \in 1 .. k + 1 : h[n] = Step(g, n)
    <3> HIDE DEF Step, g
    <3> QED OBVIOUS
  <2>4. g = h
    <3>1. \A n \in 1 .. k + 1 : g[n] = h[n]
      BY <2>2, <2>3
    <3>2. g = [n \in 1 .. k + 1 |-> g[n]]
      <4> HIDE DEF Step
      <4> QED OBVIOUS
    <3>3. h = [n \in 1 .. k + 1 |-> h[n]]
      <4> HIDE DEF Step, g
      <4> QED OBVIOUS
    <3> HIDE DEF g, h
    <3> QED BY <3>1, <3>2, <3>3
  <2>5. g = [n \in 1 .. k + 1 |-> Step(g, n)]
    BY <2>4
  <2> HIDE DEF g, h, Step
  <2> QED BY <2>5
<1>3. Len(ss) \in Upto
  <2>1. \A k \in Nat : k \in Upto => k + 1 \in Upto
    BY <1>2
  <2>2. Len(ss) \in Nat
    OBVIOUS
  <2> HIDE DEF Upto
  <2> QED BY <1>1, <2>1, <2>2, Induction
<1> DEFINE flat == CHOOSE f : f = [n \in 1 .. Len(ss) |-> Step(f, n)]
<1>4. flat = [n \in 1 .. Len(ss) |-> Step(flat, n)]
  <2>1. \E f : f = [n \in 1 .. Len(ss) |-> Step(f, n)]
    BY <1>3
  <2> HIDE DEF Step
  <2> QED BY <2>1
<1>5. FlattenSeq(ss) = IF Len(ss) = 0 THEN ss ELSE flat[Len(ss)]
  BY DEF FlattenSeq
<1> DEFINE all == [n \in 0 .. Len(ss) |-> IF n = 0 THEN <<>> ELSE flat[n]]
<1>6. all[0] = <<>> /\ Len(ss) \in Nat
  OBVIOUS
<1>7. \A n \in 1 .. Len(ss) : all[n] = flat[n] /\ flat[n] = Step(flat, n)
  <2>1. \A n \in 1 .. Len(ss) : flat[n] = Step(flat, n)
    <3> HIDE DEF flat, Step
    <3> QED BY <1>4, Zenon
  <2>2. \A n \in 1 .. Len(ss) : n \in 0 .. Len(ss) /\ n # 0
    OBVIOUS
  <2> HIDE DEF flat, Step
  <2> QED BY <2>1, <2>2
<1> HIDE DEF all, flat, Step, Upto
<1>8. \A n \in 1 .. Len(ss) : ss[n] \in Seq(E)
  OBVIOUS
<1>9. \A n \in 1 .. Len(ss) : all[n] = all[n - 1] \o ss[n]
  <2> SUFFICES ASSUME NEW n \in 1 .. Len(ss) PROVE all[n] = all[n - 1] \o ss[n]
    BY Zenon
  <2>1. CASE n = 1
    <3>1. <<>> \o ss[1] = ss[1]
      BY <1>8, <2>1, ConcatEmptySeq
    <3>2. all[n] = ss[1] /\ all[n - 1] = <<>>
      <4>1. all[n] = Step(flat, n)
        BY <1>7
      <4>2. Step(flat, n) = ss[1]
        BY <2>1 DEF Step
      <4> QED BY <1>6, <2>1, <4>1, <4>2
    <3> QED BY <2>1, <3>1, <3>2
  <2>2. CASE n # 1
    <3>1. n - 1 \in 1 .. Len(ss)
      BY <2>2
    <3>2. all[n] = flat[n - 1] \o ss[n] /\ all[n - 1] = flat[n - 1]
      BY <1>7, <2>2, <3>1 DEF Step
    <3> QED BY <3>2
  <2> QED BY <2>1, <2>2, Zenon
<1>10. FlattenSeq(ss) = all[Len(ss)]
  <2>1. Len(ss) = 0 => ss = <<>>
    BY EmptySeq
  <2> HIDE DEF flat
  <2> QED BY <1>5, <1>6, <1>7, <2>1
<1> HIDE DEF all
<1>11. \A n \in 0 .. Len(ss) : all[n] \in Seq(E)
  <2> DEFINE T == {n \in Nat : n <= Len(ss) => all[n] \in Seq(E)}
  <2>1. 0 \in T
    BY <1>6, EmptySeq
  <2>2. ASSUME NEW n \in Nat, n \in T PROVE n + 1 \in T
    <3> SUFFICES ASSUME n + 1 <= Len(ss) PROVE all[n + 1] \in Seq(E)
      OBVIOUS
    <3>1. all[n] \in Seq(E) /\ ss[n + 1] \in Seq(E)
      BY <1>6, <1>8, <2>2
    <3>2. all[n + 1] = all[n] \o ss[n + 1]
      <4>1. n + 1 \in 1 .. Len(ss) /\ (n + 1) - 1 = n
        BY <1>6
      <4> QED BY <1>9, <4>1
    <3> QED BY <3>1, <3>2, ConcatProperties
  <2>3. \A n \in Nat : n \in T => n + 1 \in T
    BY <2>2
  <2>4. Nat \subseteq T
    <3> HIDE DEF T
    <3> QED BY <2>1, <2>3, Induction
  <2> QED BY <1>6, <2>4
<1> QED BY <1>6, <1>9, <1>10, <1>11

\* The best rows of a side.
LEMMA ViewRows ==
  ASSUME NEW rows \in Seq(Nat), NEW levels \in Nat
  PROVE  /\ View(rows, levels) \in Seq(Nat)
         /\ Len(View(rows, levels)) = IF Len(rows) < levels THEN Len(rows)
                                                            ELSE levels
         /\ \A n \in 1 .. Len(View(rows, levels)) :
              View(rows, levels)[n] = rows[n]
<1> DEFINE last == IF Len(rows) < levels THEN Len(rows) ELSE levels
<1>1. last \in Nat /\ last <= Len(rows) /\ Len(rows) \in Nat
  BY LenProperties
<1>2. \A n \in 1 .. last : rows[n] \in Nat
  BY <1>1, LenProperties, ElementOfSeq
<1> HIDE DEF last
<1>3. /\ SubSeq(rows, 1, last) \in Seq(Nat)
      /\ Len(SubSeq(rows, 1, last)) = IF 1 <= last THEN last - 1 + 1 ELSE 0
      /\ \A n \in 1 .. last - 1 + 1 : SubSeq(rows, 1, last)[n] = rows[1 + n - 1]
  BY <1>1, <1>2, SubSeqProperties
<1>4. Len(SubSeq(rows, 1, last)) = last
  BY <1>1, <1>3
<1>5. \A n \in 1 .. last : SubSeq(rows, 1, last)[n] = rows[n]
  BY <1>1, <1>3
<1>6. View(rows, levels) = SubSeq(rows, 1, last)
  BY DEF View, last
<1> QED
  BY <1>3, <1>4, <1>5, <1>6 DEF last

\* Market depths are natural numbers.
LEMMA LevelsAreNumbers == 0 .. MaxDepth \subseteq Nat /\ MaxDepth \in Nat
BY BookAssumption

\* What the exchange shows of an instrument is a view.
LEMMA ShownType ==
  ASSUME NEW fs \in [Instruments -> Side], NEW ds \in [Instruments -> 0 .. MaxDepth]
  PROVE  \A i \in Instruments : Shown(fs, ds, i) \in ViewType
<1> TAKE i \in Instruments
<1>1. /\ ds[i] \in 0 .. MaxDepth /\ ds[i] \in Nat
      /\ fs[i].bid \in Seq(Nat) /\ fs[i].ask \in Seq(Nat)
  BY LevelsAreNumbers DEF Side
<1>2. ASSUME NEW rows \in Seq(Nat)
      PROVE  View(rows, ds[i]) \in Seq(Nat) /\ Len(View(rows, ds[i])) <= ds[i]
  <2>1. Len(rows) \in Nat
    BY LenProperties
  <2> QED
    BY <1>1, <2>1, ViewRows
<1> QED
  BY <1>1, <1>2 DEF Shown, ViewType, Fits

\* The views shown now, and after a step, are well formed.
LEMMA ShownTypes ==
  ASSUME full \in [Instruments -> Side], depth \in [Instruments -> 0 .. MaxDepth]
  PROVE  ShownNow \in [Instruments -> ViewType]
BY ShownType DEF ShownNow

\* ... as they are after a step.
LEMMA ShownTypesNext ==
  ASSUME full' \in [Instruments -> Side], depth' \in [Instruments -> 0 .. MaxDepth]
  PROVE  ShownNow' \in [Instruments -> ViewType]
BY ShownType DEF ShownNow

\* An entry that the exchange publishes.
LEMMA EntryType ==
  ASSUME MarketTypes,
         NEW i \in Instruments \cup {"none"}, NEW entry \in Sides \cup {"trade", "reset"},
         NEW action \in Actions, NEW level \in Nat, NEW row \in Nat
  PROVE  Entry(i, entry, action, level, row) \in Book
<1>1. seq + 1 \in Nat
  BY MarketAssumption DEF MarketTypes
<1> QED
  BY <1>1 DEF Entry, Book

\* The entries for the rows that come into view, one for each.
LEMMA RevealedType ==
  ASSUME MarketTypes, full' \in [Instruments -> Side],
         NEW i \in Instruments, NEW side \in Sides, NEW level \in Nat, level >= 1
  PROVE  LET shown == View(full[i][side]', depth[i])
         IN  /\ Revealed(i, side, level) \in Seq(Book)
             /\ Len(Revealed(i, side, level))
                  = IF level <= Len(shown) THEN Len(shown) - level + 1 ELSE 0
             /\ \A n \in 1 .. Len(Revealed(i, side, level)) :
                  Revealed(i, side, level)[n]
                    = Entry(i, side, "New", level + n - 1, shown[level + n - 1])
<1> DEFINE shown == View(full[i][side]', depth[i])
           last == IF level <= Len(shown) THEN Len(shown) - level + 1 ELSE 0
<1>1. full[i][side]' \in Seq(Nat) /\ depth[i] \in Nat
  BY LevelsAreNumbers DEF MarketTypes, Side, Sides
<1>2. shown \in Seq(Nat) /\ Len(shown) \in Nat
  BY <1>1, ViewRows, LenProperties
<1> HIDE DEF shown
<1>3. 1 .. Len(shown) - level + 1 = 1 .. last /\ last \in Nat
  BY <1>2
<1> DEFINE at(n) == Entry(i, side, "New", level + n - 1, shown[level + n - 1])
<1>4. \A n \in 1 .. last : at(n) \in Book
  <2> TAKE n \in 1 .. last
  <2>1. level + n - 1 \in Nat /\ level + n - 1 \in 1 .. Len(shown)
    BY <1>2
  <2>2. shown[level + n - 1] \in Nat
    BY <1>2, <2>1, ElementOfSeq
  <2>3. "New" \in Actions
    BY DEF Actions
  <2> QED
    BY <2>1, <2>2, <2>3, EntryType
<1>5. Revealed(i, side, level) = [n \in 1 .. last |-> at(n)]
  BY <1>3 DEF Revealed, shown
<1> HIDE DEF at, last
<1>6. Revealed(i, side, level) \in [1 .. last -> Book]
  BY <1>4, <1>5
<1>7. Revealed(i, side, level) \in Seq(Book) /\ Len(Revealed(i, side, level)) = last
  BY <1>3, <1>6, SeqDef, LenProperties
<1>8. \A n \in 1 .. last : Revealed(i, side, level)[n] = at(n)
  BY <1>5
<1> QED
  BY <1>7, <1>8 DEF at, last, shown

\* One side of a full book changes.
LEMMA FullChanges ==
  ASSUME NEW fs \in [Instruments -> Side], NEW i \in Instruments,
         NEW side \in Sides, NEW rows \in Seq(Nat)
  PROVE  [fs EXCEPT ![i][side] = rows] \in [Instruments -> Side]
BY DEF Side, Sides

\* A message with entries, or with one definition.
LEMMA BooksMessageType ==
  ASSUME MarketTypes, NEW books \in Seq(Book)
  PROVE  /\ BooksMessage(books) \in Message
         /\ BooksMessage(books).seq = seq + 1
<1>1. seq + 1 \in Nat
  BY MarketAssumption DEF MarketTypes
<1> QED
  BY <1>1, EmptySeq DEF BooksMessage, Message

\* What is published keeps the types.
LEMMA PublishTypes ==
  ASSUME MarketTypes, Event, NEW message \in Message, message.seq = seq + 1,
         Publish(message),
         full' \in [Instruments -> Side], depth' \in [Instruments -> 0 .. MaxDepth],
         gone' \subseteq Instruments, changed' \subseteq Instruments,
         right_from' \in [Instruments -> 0 .. Never]
  PROVE  MarketTypes'
<1>1. /\ events' = events + 1 /\ events' \in 0 .. MaxEvents
      /\ seq' = seq + 1 /\ seq' \in 0 .. events' /\ seq \in Nat
      /\ UNCHANGED <<first, definitions, snapshots, done, view>>
  BY MarketAssumption DEF Event, Publish, MarketTypes
<1>2. done \in 0 .. seq + 1
  BY <1>1 DEF MarketTypes
<1>3. queue' \in Seq(Held) /\ \A n \in DOMAIN queue' : queue'[n].message.seq <= seq'
  <2>1. CASE queue' = queue
    <3>1. \A n \in DOMAIN queue : queue[n] \in Held
      BY ElementOfSeq, LenProperties DEF MarketTypes
    <3>2. \A n \in DOMAIN queue : queue[n].message.seq \in Nat
      BY <3>1 DEF Held, Message
    <3> QED
      BY <1>1, <2>1, <3>2 DEF MarketTypes
  <2>2. CASE queue' = Append(queue, [message |-> message, view |-> ShownNow'])
    <3> DEFINE e == [message |-> message, view |-> ShownNow']
    <3>1. e \in Held /\ e.message.seq = seq + 1
      BY ShownTypesNext DEF Held
    <3> HIDE DEF e
    <3>2. /\ queue' \in Seq(Held) /\ Len(queue') = Len(queue) + 1
          /\ \A n \in 1 .. Len(queue) : queue'[n] = queue[n]
          /\ queue'[Len(queue) + 1] = e
      BY <2>2, <3>1, AppendProperties DEF MarketTypes, e
    <3>3. /\ DOMAIN queue = 1 .. Len(queue) /\ Len(queue) \in Nat
          /\ DOMAIN queue' = 1 .. Len(queue) + 1
      BY <3>2, LenProperties DEF MarketTypes
    <3>4. \A n \in DOMAIN queue : queue[n] \in Held
      BY ElementOfSeq, <3>3 DEF MarketTypes
    <3>5. \A n \in DOMAIN queue : queue[n].message.seq \in Nat
                                   /\ queue[n].message.seq <= seq
      BY <3>4 DEF Held, Message, MarketTypes
    <3> QED
      BY <1>1, <3>1, <3>2, <3>3, <3>5
  <2> QED
    BY <2>1, <2>2 DEF Publish
<1> QED
  BY <1>1, <1>2, <1>3 DEF MarketTypes

\* The full books stay lists of rows.
LEMMA FullTypes ==
  ASSUME MarketTypes, Exchange
  PROVE  full' \in [Instruments -> Side]
<1>1. events + 1 \in Nat
  BY MarketAssumption DEF MarketTypes
<1>2. ASSUME NEW i \in Instruments, NEW side \in Sides
      PROVE  full[i][side] \in Seq(Nat) /\ Len(full[i][side]) \in Nat
  BY LenProperties DEF MarketTypes, Side, Sides
<1>3. <<>> \in Seq(Nat) /\ Empty \in Side
  BY EmptySeq DEF Empty, Side
<1>4. ASSUME NEW i \in Instruments, NEW side \in Sides, NEW level \in 1 .. MaxRows
      PROVE  AddRow(i, side, level) \/ AmendRow(i, side, level)
               \/ RemoveRow(i, side, level) \/ SweepRows(i, side, level)
               => full' \in [Instruments -> Side]
  <2>1. /\ full \in [Instruments -> Side] /\ full[i][side] \in Seq(Nat)
        /\ Len(full[i][side]) \in Nat /\ level \in Nat /\ level >= 1
    BY <1>2, MarketAssumption DEF MarketTypes
  <2>2. CASE AddRow(i, side, level)
    <3> DEFINE rows == InsertAt(full[i][side], level, events + 1)
    <3>1. level \in 1 .. Len(full[i][side]) + 1
      BY <2>1, <2>2 DEF AddRow
    <3>2. rows \in Seq(Nat)
      BY <1>1, <2>1, <3>1, InsertRow
    <3>3. full' = [full EXCEPT ![i][side] = rows]
      BY <2>2 DEF AddRow
    <3> HIDE DEF rows
    <3> QED BY <2>1, <3>2, <3>3, FullChanges
  <2>3. CASE AmendRow(i, side, level)
    <3> DEFINE rows == [full[i][side] EXCEPT ![level] = events + 1]
    <3>1. level \in 1 .. Len(full[i][side])
      BY <2>1, <2>3 DEF AmendRow
    <3>2. rows \in Seq(Nat)
      BY <1>1, <2>1, <3>1, ExceptSeq
    <3>3. full' = [full EXCEPT ![i][side] = rows]
      BY <2>3 DEF AmendRow
    <3> HIDE DEF rows
    <3> QED BY <2>1, <3>2, <3>3, FullChanges
  <2>4. CASE RemoveRow(i, side, level)
    <3> DEFINE rows == RemoveAt(full[i][side], level)
    <3>1. level \in 1 .. Len(full[i][side])
      BY <2>1, <2>4 DEF RemoveRow
    <3>2. rows \in Seq(Nat)
      BY <2>1, <3>1, RemoveOne
    <3>3. full' = [full EXCEPT ![i][side] = rows]
      BY <2>4 DEF RemoveRow
    <3> HIDE DEF rows
    <3> QED BY <2>1, <3>2, <3>3, FullChanges
  <2>5. CASE SweepRows(i, side, level)
    <3> DEFINE rows == SubSeq(full[i][side], level + 1, Len(full[i][side]))
    <3>1. rows \in Seq(Nat)
      BY <2>1, RemoveTop
    <3>2. full' = [full EXCEPT ![i][side] = rows]
      BY <2>5 DEF SweepRows
    <3> HIDE DEF rows
    <3> QED BY <2>1, <3>1, <3>2, FullChanges
  <2> QED BY <2>2, <2>3, <2>4, <2>5
<1>5. ASSUME NEW i \in Instruments, NEW side \in Sides, ClearSide(i, side)
      PROVE  full' \in [Instruments -> Side]
  BY <1>3, <1>5, FullChanges DEF ClearSide, MarketTypes
<1>6. ASSUME NEW i \in Instruments, NEW side \in Sides, NEW j \in Instruments,
             TradeAndQuote(i, j, side)
      PROVE  full' \in [Instruments -> Side]
  <2> DEFINE one == <<events + 1>> \o full[i][side]
             two == <<events + 1>> \o full[j][side]
  <2>1. <<events + 1>> \in Seq(Nat)
    BY <1>1
  <2>2. one \in Seq(Nat) /\ two \in Seq(Nat)
    BY <1>2, <2>1, ConcatProperties
  <2>3. i # j /\ full' = [full EXCEPT ![i][side] = one, ![j][side] = two]
    BY <1>6 DEF TradeAndQuote
  <2> HIDE DEF one, two
  <2> QED BY <2>2, <2>3 DEF MarketTypes, Side, Sides
<1>7. CASE ResetChannel
  BY <1>3, <1>7 DEF ResetChannel
<1>8. ASSUME NEW i \in Instruments, NEW levels \in 1 .. MaxDepth,
             Define(i, levels)
      PROVE  full' \in [Instruments -> Side]
  BY <1>8 DEF Define, MarketTypes
<1>9. ASSUME NEW i \in Instruments, Delist(i)
      PROVE  full' \in [Instruments -> Side]
  BY <1>3, <1>9 DEF Delist, MarketTypes
<1> QED
  BY <1>4, <1>5, <1>6, <1>7, <1>8, <1>9 DEF Exchange

\* The messages that the exchange publishes are messages.
LEMMA MessageTypes ==
  ASSUME MarketTypes, Exchange
  PROVE  \/ UNCHANGED <<seq, queue, depth, gone, changed, right_from>>
         \/ \E message \in Message :
              message.seq = seq + 1 /\ Publish(message)
<1> DEFINE Good == \/ UNCHANGED <<seq, queue, depth, gone, changed, right_from>>
                   \/ \E message \in Message :
                        message.seq = seq + 1 /\ Publish(message)
<1> SUFFICES Good
  OBVIOUS
<1>1. events + 1 \in Nat /\ seq + 1 \in Nat /\ Filler \in Nat
      /\ full' \in [Instruments -> Side] /\ 0 \in Nat /\ 1 \in Nat
  BY MarketAssumption, FullTypes DEF MarketTypes, Filler
<1>2. ASSUME NEW books \in Seq(Book), PublishBooks(books) PROVE Good
  BY <1>2, BooksMessageType DEF PublishBooks
<1>3. ASSUME NEW i \in Instruments, NEW side \in Sides
      PROVE  /\ full[i][side] \in Seq(Nat) /\ Len(full[i][side]) \in Nat
             /\ depth[i] \in Nat
             /\ Len(View(full[i][side], depth[i])) \in Nat
             /\ Len(View(full[i][side], depth[i])) <= depth[i]
             /\ Len(View(full[i][side], depth[i])) <= Len(full[i][side])
  <2>1. /\ full[i][side] \in Seq(Nat) /\ Len(full[i][side]) \in Nat
        /\ depth[i] \in Nat
    BY LenProperties, LevelsAreNumbers DEF MarketTypes, Side, Sides
  <2> QED BY <2>1, ViewRows
<1>4. /\ "New" \in Actions /\ "Change" \in Actions /\ "Delete" \in Actions
      /\ "DeleteFrom" \in Actions /\ "DeleteThru" \in Actions
  BY DEF Actions
<1>5. ASSUME NEW i \in Instruments, NEW entry \in Sides \cup {"trade"},
             NEW action \in Actions, NEW level \in Nat, NEW row \in Nat
      PROVE  /\ Entry(i, entry, action, level, row) \in Book
             /\ <<Entry(i, entry, action, level, row)>> \in Seq(Book)
  <2>1. Entry(i, entry, action, level, row) \in Book
    BY EntryType
  <2> QED BY <2>1
<1> HIDE DEF Good
<1>6. ASSUME NEW i \in Instruments, NEW side \in Sides, NEW level \in 1 .. MaxRows
      PROVE  AddRow(i, side, level) \/ AmendRow(i, side, level)
               \/ RemoveRow(i, side, level) \/ SweepRows(i, side, level) => Good
  <2>1. level \in Nat /\ level >= 1
    BY MarketAssumption
  <2>2. CASE AddRow(i, side, level)
    <3>1. CASE level <= depth[i]
      <4>1. <<Entry(i, side, "New", level, events + 1)>> \in Seq(Book)
        BY <1>1, <1>4, <1>5, <2>1
      <4> QED BY <1>2, <2>2, <3>1, <4>1 DEF AddRow
    <3>2. CASE ~(level <= depth[i])
      BY <2>2, <3>2 DEF AddRow, Good
    <3> QED BY <3>1, <3>2
  <2>3. CASE AmendRow(i, side, level)
    <3>1. <<Entry(i, side, "Change", level, events + 1)>> \in Seq(Book)
      BY <1>1, <1>4, <1>5, <2>1
    <3> QED BY <1>2, <2>3, <3>1 DEF AmendRow
  <2>4. CASE RemoveRow(i, side, level)
    <3>1. <<Entry(i, side, "Delete", level, Filler)>> \in Seq(Book)
      BY <1>1, <1>4, <1>5, <2>1
    <3>2. depth[i] >= 1 /\ depth[i] \in Nat
      BY <1>3, <2>1, <2>4 DEF RemoveRow
    <3>3. Revealed(i, side, depth[i]) \in Seq(Book) /\ <<>> \in Seq(Book)
      BY <1>1, <3>2, RevealedType, EmptySeq
    <3> DEFINE rest == IF Len(full[i][side]) > depth[i]
                         THEN Revealed(i, side, depth[i]) ELSE <<>>
    <3>4. rest \in Seq(Book)
      BY <3>3
    <3>5. PublishBooks(<<Entry(i, side, "Delete", level, Filler)>> \o rest)
      BY <2>4 DEF RemoveRow
    <3> HIDE DEF rest
    <3> QED BY <1>2, <3>1, <3>4, <3>5, ConcatProperties
  <2>5. CASE SweepRows(i, side, level)
    <3> DEFINE from == Len(View(full[i][side], depth[i])) - level + 1
               rest == Revealed(i, side, from)
    <3>1. <<Entry(i, side, "DeleteFrom", level, Filler)>> \in Seq(Book)
      BY <1>1, <1>4, <1>5, <2>1
    <3>2. from \in Nat /\ from >= 1
      <4>1. level <= Len(full[i][side]) /\ level <= depth[i]
        BY <2>5 DEF SweepRows
      <4>2. Len(View(full[i][side], depth[i]))
              = IF Len(full[i][side]) < depth[i] THEN Len(full[i][side])
                                                 ELSE depth[i]
        BY <1>3, ViewRows
      <4> QED BY <1>3, <2>1, <4>1, <4>2, SMTT(40)
    <3> HIDE DEF from
    <3>3. rest \in Seq(Book)
      BY <1>1, <3>2, RevealedType
    <3>4. PublishBooks(<<Entry(i, side, "DeleteFrom", level, Filler)>> \o rest)
      BY <2>5 DEF SweepRows, from
    <3> HIDE DEF rest
    <3> QED BY <1>2, <3>1, <3>3, <3>4, ConcatProperties
  <2> QED BY <2>2, <2>3, <2>4, <2>5
<1>7. ASSUME NEW i \in Instruments, NEW side \in Sides, ClearSide(i, side)
      PROVE  Good
  <2>1. <<Entry(i, side, "DeleteThru", 1, Filler)>> \in Seq(Book)
    BY <1>1, <1>4, <1>5
  <2> QED BY <1>2, <1>7, <2>1 DEF ClearSide
<1>8. ASSUME NEW i \in Instruments, NEW side \in Sides, NEW j \in Instruments,
             TradeAndQuote(i, j, side)
      PROVE  Good
  <2>1. /\ Entry(i, "trade", "New", 1, events + 1) \in Book
        /\ Entry(i, side, "New", 1, events + 1) \in Book
        /\ Entry(j, side, "New", 1, events + 1) \in Book
    BY <1>1, <1>4, <1>5
  <2>2. <<Entry(i, "trade", "New", 1, events + 1),
          Entry(i, side, "New", 1, events + 1),
          Entry(j, side, "New", 1, events + 1)>> \in Seq(Book)
    BY <2>1
  <2> QED BY <1>2, <1>8, <2>2 DEF TradeAndQuote
<1>9. CASE ResetChannel
  <2>1. Entry("none", "reset", "New", 0, Filler) \in Book
    BY <1>1, <1>4, EntryType
  <2>2. <<Entry("none", "reset", "New", 0, Filler)>> \in Seq(Book)
    BY <2>1
  <2> QED BY <1>9, <2>2, BooksMessageType DEF ResetChannel, Good
<1>10. ASSUME NEW i \in Instruments, NEW levels \in 1 .. MaxDepth,
              NEW update \in {"A", "M", "D"}
       PROVE  LET m == [seq |-> seq + 1, type |-> "d", books |-> <<>>,
                        instruments |-> <<[inst |-> i, depth |-> levels,
                                           update |-> update]>>]
              IN  m \in Message /\ m.seq = seq + 1
  <2>1. [inst |-> i, depth |-> levels, update |-> update] \in Instrument
    BY DEF Instrument
  <2>2. <<[inst |-> i, depth |-> levels, update |-> update]>> \in Seq(Instrument)
    BY <2>1
  <2> QED BY <1>1, <2>2, EmptySeq DEF Message
<1>11. ASSUME NEW i \in Instruments, NEW levels \in 1 .. MaxDepth,
              Define(i, levels)
       PROVE  Good
  <2> DEFINE update == IF i \in Listed THEN "M" ELSE "A"
             m == [seq |-> seq + 1, type |-> "d", books |-> <<>>,
                   instruments |-> <<[inst |-> i, depth |-> levels,
                                      update |-> update]>>]
  <2>1. Publish(m)
    BY <1>11 DEF Define
  <2>2. update \in {"A", "M", "D"}
    OBVIOUS
  <2> HIDE DEF update
  <2>3. m \in Message /\ m.seq = seq + 1
    BY <1>10, <2>2
  <2> QED BY <2>1, <2>3 DEF Good
<1>12. ASSUME NEW i \in Instruments, Delist(i)
       PROVE  Good
  <2>1. 1 \in 1 .. MaxDepth
    BY BookAssumption
  <2> QED BY <1>10, <1>12, <2>1 DEF Delist, Good
<1> QED
  BY <1>6, <1>7, <1>8, <1>9, <1>11, <1>12 DEF Exchange

\* What else the exchange changes keeps its type.
LEMMA ExchangeRest ==
  ASSUME MarketTypes, Exchange
  PROVE  /\ Event
         /\ depth' \in [Instruments -> 0 .. MaxDepth]
         /\ gone' \subseteq Instruments /\ changed' \subseteq Instruments
         /\ right_from' \in [Instruments -> 0 .. Never]
<1> DEFINE Quotes == Event /\ UNCHANGED <<depth, gone, changed, right_from>>
<1>8. ASSUME NEW i \in Instruments, NEW side \in Sides, NEW level \in 1 .. MaxRows
      PROVE  /\ AddRow(i, side, level) => Quotes
             /\ AmendRow(i, side, level) => Quotes
             /\ RemoveRow(i, side, level) => Quotes
             /\ SweepRows(i, side, level) => Quotes
  <2>1. AddRow(i, side, level) => Quotes
    BY DEF AddRow, PublishBooks
  <2>2. AmendRow(i, side, level) => Quotes
    BY DEF AmendRow, PublishBooks
  <2>3. RemoveRow(i, side, level) => Quotes
    BY DEF RemoveRow, PublishBooks
  <2>4. SweepRows(i, side, level) => Quotes
    BY DEF SweepRows, PublishBooks
  <2> HIDE DEF Quotes
  <2> QED BY <2>1, <2>2, <2>3, <2>4
<1>9. ASSUME NEW i \in Instruments, NEW side \in Sides
      PROVE  /\ ClearSide(i, side) => Quotes
             /\ \A j \in Instruments : TradeAndQuote(i, j, side) => Quotes
  BY DEF ClearSide, TradeAndQuote, PublishBooks
<1>7. \/ Quotes
      \/ ResetChannel
      \/ \E i \in Instruments : \/ \E levels \in 1 .. MaxDepth : Define(i, levels)
                                \/ Delist(i)
  <2> HIDE DEF Quotes
  <2> QED BY <1>8, <1>9 DEF Exchange
<1>1. Event
  BY <1>7 DEF ResetChannel, Define, Delist
<1>2. seq + 1 \in 0 .. Never /\ 0 \in 0 .. MaxDepth /\ 1 .. MaxDepth \subseteq 0 .. MaxDepth
  BY <1>1, MarketAssumption, LevelsAreNumbers DEF Event, MarketTypes, Never
<1>3. CASE UNCHANGED <<depth, gone, changed, right_from>>
  BY <1>1, <1>3 DEF MarketTypes
<1>4. CASE ResetChannel
  BY <1>1, <1>4 DEF ResetChannel, MarketTypes
<1>5. ASSUME NEW i \in Instruments, NEW levels \in 1 .. MaxDepth,
             Define(i, levels)
      PROVE  /\ depth' \in [Instruments -> 0 .. MaxDepth]
             /\ gone' \subseteq Instruments /\ changed' \subseteq Instruments
             /\ right_from' \in [Instruments -> 0 .. Never]
  BY <1>2, <1>5 DEF Define, MarketTypes
<1>6. ASSUME NEW i \in Instruments, Delist(i)
      PROVE  /\ depth' \in [Instruments -> 0 .. MaxDepth]
             /\ gone' \subseteq Instruments /\ changed' \subseteq Instruments
             /\ right_from' \in [Instruments -> 0 .. Never]
  BY <1>2, <1>6 DEF Delist, MarketTypes, Unlisted
<1> QED
  BY <1>1, <1>3, <1>4, <1>5, <1>6, <1>7

\* A step of the exchange keeps the types.
LEMMA ExchangeTypes ==
  ASSUME MarketTypes, Exchange
  PROVE  MarketTypes'
<1>1. full' \in [Instruments -> Side]
  BY FullTypes
<1>2. CASE UNCHANGED <<seq, queue, depth, gone, changed, right_from>>
  <2>1. /\ events' \in 0 .. MaxEvents /\ seq \in 0 .. events'
        /\ UNCHANGED <<first, definitions, snapshots, done, view>>
    BY ExchangeRest, MarketAssumption DEF Event, MarketTypes
  <2> QED BY <1>1, <1>2, <2>1 DEF MarketTypes
<1>3. ASSUME NEW message \in Message, message.seq = seq + 1, Publish(message)
      PROVE  MarketTypes'
  BY <1>1, <1>3, ExchangeRest, PublishTypes
<1> QED
  BY <1>2, <1>3, MessageTypes

\* The definitions of the listed instruments, each once.
LEMMA DefinitionsType ==
  ASSUME MarketTypes,
         NEW ds \in SetToSeqs({[inst |-> i, depth |-> depth[i], update |-> "A"]
                                : i \in Listed})
  PROVE  /\ ds \in Seq(Instrument)
         /\ {ds[n] : n \in DOMAIN ds}
              = {[inst |-> i, depth |-> depth[i], update |-> "A"] : i \in Listed}
         /\ \A m, n \in DOMAIN ds : m # n => ds[m].inst # ds[n].inst
<1> DEFINE one(i) == [inst |-> i, depth |-> depth[i], update |-> "A"]
           S == {one(i) : i \in Listed}
           N == Cardinality(S)
<1>1. IsFiniteSet(Listed)
  BY MarketAssumption, FS_Subset DEF Listed
<1>2. IsFiniteSet(S) /\ N \in Nat
  <2> DEFINE f == [i \in Listed |-> one(i)]
  <2>1. f \in Surjection(Listed, S)
    BY DEF Surjection
  <2> HIDE DEF S, f
  <2>2. IsFiniteSet(S)
    BY <1>1, <2>1, FS_Surjection
  <2> QED BY <2>2, FS_CardinalityType
<1>3. ds \in [1 .. N -> S] /\ \A m, n \in 1 .. N : m # n => ds[m] # ds[n]
  BY DEF SetToSeqs
<1>4. S \subseteq Instrument
  <2>1. \A i \in Listed : i \in Instruments /\ depth[i] \in 1 .. MaxDepth
    BY LevelsAreNumbers DEF Listed, Unlisted, MarketTypes
  <2> QED BY <2>1 DEF Instrument
<1>5. {ds[n] : n \in 1 .. N} = S
  <2>1. ds \in Injection(1 .. N, S)
    <3> HIDE DEF S, N
    <3> QED BY <1>3 DEF Injection, IsInjective
  <2>2. IsFiniteSet(1 .. N) /\ Cardinality(1 .. N) = N
    <3> HIDE DEF N
    <3> QED BY <1>2, FS_Interval
  <2> HIDE DEF S
  <2>3. ds \in Surjection(1 .. N, S)
    BY <1>2, <2>1, <2>2, FS_Injection
  <2> QED BY <1>3, <2>3 DEF Surjection
<1>6. ds \in Seq(Instrument) /\ DOMAIN ds = 1 .. N
  <2> HIDE DEF S, N
  <2>1. ds \in [1 .. N -> Instrument] /\ N \in Nat
    BY <1>2, <1>3, <1>4
  <2> QED BY <2>1, SeqDef
<1>7. \A i, j \in Listed : one(i).inst = one(j).inst => one(i) = one(j)
  OBVIOUS
<1>8. \A m, n \in 1 .. N : m # n => ds[m].inst # ds[n].inst
  <2> SUFFICES ASSUME NEW m \in 1 .. N, NEW n \in 1 .. N, m # n
               PROVE  ds[m].inst # ds[n].inst
    OBVIOUS
  <2>1. ds[m] \in S /\ ds[n] \in S /\ ds[m] # ds[n]
    <3> HIDE DEF S, N
    <3> QED BY <1>3
  <2> HIDE DEF N
  <2> QED BY <2>1, <1>7
<1> QED
  BY <1>5, <1>6, <1>8

\* The entries of the rows of a snapshot, one side.
LEMMA SnapshotRowsType ==
  ASSUME NEW s \in Snapshot, NEW side \in Sides
  PROVE  /\ SnapshotRows(s, side) \in Seq(Book)
         /\ Len(SnapshotRows(s, side)) = Len(s.view[side])
         /\ \A n \in 1 .. Len(s.view[side]) :
              SnapshotRows(s, side)[n]
                = [type |-> "W", seq |-> s.seq, inst |-> s.inst, entry |-> side,
                   action |-> "New", level |-> n, row |-> s.view[side][n]]
<1> DEFINE rows == s.view[side]
           one(n) == [type |-> "W", seq |-> s.seq, inst |-> s.inst,
                      entry |-> side, action |-> "New", level |-> n,
                      row |-> rows[n]]
<1>1. rows \in Seq(Nat) /\ s.seq \in Nat /\ s.inst \in Instruments
  BY DEF Snapshot, ViewType, Sides
<1> HIDE DEF rows
<1>2. DOMAIN rows = 1 .. Len(rows) /\ Len(rows) \in Nat
      /\ \A n \in 1 .. Len(rows) : rows[n] \in Nat
  BY <1>1, LenProperties, ElementOfSeq
<1>3. \A n \in 1 .. Len(rows) : one(n) \in Book
  BY <1>1, <1>2 DEF Book, Actions
<1>4. SnapshotRows(s, side) = [n \in 1 .. Len(rows) |-> one(n)]
  BY <1>2 DEF SnapshotRows, rows
<1> HIDE DEF one
<1>5. SnapshotRows(s, side) \in [1 .. Len(rows) -> Book]
  BY <1>3, <1>4
<1>6. SnapshotRows(s, side) \in Seq(Book) /\ Len(SnapshotRows(s, side)) = Len(rows)
  BY <1>2, <1>5, SeqDef, LenProperties
<1>7. \A n \in 1 .. Len(rows) : SnapshotRows(s, side)[n] = one(n)
  BY <1>4
<1> QED
  BY <1>6, <1>7 DEF one, rows

\* The entries of all snapshots, one snapshot behind the other.
SnapshotLists ==
  [n \in DOMAIN snapshots |-> SnapshotRows(snapshots[n], "bid")
                                \o SnapshotRows(snapshots[n], "ask")]

\* The entries of the snapshots, one list for each.
LEMMA SnapshotListsType ==
  ASSUME MarketTypes
  PROVE  /\ SnapshotLists \in Seq(Seq(Book))
         /\ Len(SnapshotLists) = Len(snapshots) /\ Len(snapshots) \in Nat
         /\ SnapshotBooks = FlattenSeq(SnapshotLists)
         /\ \A n \in 1 .. Len(snapshots) : snapshots[n] \in Snapshot
<1>1. /\ DOMAIN snapshots = 1 .. Len(snapshots) /\ Len(snapshots) \in Nat
      /\ \A n \in 1 .. Len(snapshots) : snapshots[n] \in Snapshot
  BY LenProperties, ElementOfSeq DEF MarketTypes
<1>2. \A n \in 1 .. Len(snapshots) :
        SnapshotRows(snapshots[n], "bid") \o SnapshotRows(snapshots[n], "ask")
          \in Seq(Book)
  BY <1>1, SnapshotRowsType, ConcatProperties DEF Sides
<1>3. SnapshotLists \in [1 .. Len(snapshots) -> Seq(Book)]
  BY <1>1, <1>2 DEF SnapshotLists
<1>4. SnapshotLists \in Seq(Seq(Book)) /\ Len(SnapshotLists) = Len(snapshots)
  BY <1>1, <1>3, SeqDef, LenProperties
<1>5. SnapshotBooks = FlattenSeq(SnapshotLists)
  BY DEF SnapshotBooks, SnapshotLists
<1> QED
  BY <1>1, <1>4, <1>5

\* The entries of all snapshots are entries.
LEMMA SnapshotBooksType ==
  ASSUME MarketTypes
  PROVE  SnapshotBooks \in Seq(Book)
<1>1. SnapshotLists \in Seq(Seq(Book)) /\ Len(SnapshotLists) \in Nat
  BY SnapshotListsType, LenProperties
<1>2. FlattenSeq(SnapshotLists) \in Seq(Book)
  <2> HIDE DEF SnapshotLists
  <2>1. PICK f : /\ FlattenSeq(SnapshotLists) = f[Len(SnapshotLists)]
                 /\ \A n \in 0 .. Len(SnapshotLists) : f[n] \in Seq(Book)
    BY <1>1, FlattenDef
  <2>2. Len(SnapshotLists) \in 0 .. Len(SnapshotLists)
    BY <1>1
  <2> QED BY <2>1, <2>2
<1> QED
  BY <1>2, SnapshotListsType

\* The message that Handle takes is well formed, and not newer than the last.
LEMMA HeadOfQueue ==
  ASSUME MarketTypes, queue # <<>>
  PROVE  /\ Head(queue) \in Held /\ Head(queue) = queue[1]
         /\ Head(queue).message \in Message
         /\ Head(queue).message.seq \in 0 .. seq
         /\ Tail(queue) \in Seq(Held) /\ Len(Tail(queue)) = Len(queue) - 1
         /\ Len(queue) \in Nat /\ Len(queue) >= 1
         /\ \A n \in 1 .. Len(queue) - 1 : Tail(queue)[n] = queue[n + 1]
<1>1. /\ Head(queue) \in Held /\ Tail(queue) \in Seq(Held)
      /\ Len(Tail(queue)) = Len(queue) - 1
      /\ \A n \in 1 .. Len(queue) - 1 : Tail(queue)[n] = queue[n + 1]
  BY HeadTailProperties DEF MarketTypes
<1>2. /\ DOMAIN queue = 1 .. Len(queue) /\ Len(queue) \in Nat /\ Len(queue) # 0
      /\ Head(queue) = queue[1]
  BY EmptySeq, LenProperties DEF MarketTypes
<1>3. Head(queue).message \in Message
  BY <1>1 DEF Held
<1>4. Head(queue).message.seq \in 0 .. seq
  <2>1. Head(queue).message.seq \in Nat /\ 1 \in DOMAIN queue
    BY <1>2, <1>3 DEF Message
  <2>2. queue[1].message.seq <= seq
    BY <2>1 DEF MarketTypes
  <2> QED BY <1>2, <2>1, <2>2, MarketAssumption DEF MarketTypes
<1> QED
  BY <1>1, <1>2, <1>3, <1>4

\* A step of the program keeps the types.
LEMMA ProgramTypes ==
  ASSUME MarketTypes, Program
  PROVE  MarketTypes'
<1>1. CASE Connect
  <2>1. PICK ds \in SetToSeqs({[inst |-> i, depth |-> depth[i], update |-> "A"]
                                : i \in Listed}) : definitions' = ds
    BY <1>1 DEF Connect
  <2>2. definitions' \in Seq(Instrument)
    BY <2>1, DefinitionsType
  <2>3. ShownNow \in [Instruments -> ViewType]
    BY ShownTypes DEF MarketTypes
  <2>4. seq + 1 \in 0 .. MaxEvents + 1 /\ seq \in 0 .. seq
    BY MarketAssumption DEF MarketTypes
  <2> QED BY <1>1, <2>2, <2>3, <2>4 DEF Connect, marketVars, MarketTypes
<1>2. ASSUME NEW i \in Instruments, ReceiveSnapshot(i) PROVE MarketTypes'
  <2> DEFINE s == [inst |-> i, seq |-> seq, view |-> Shown(full, depth, i)]
  <2>1. seq \in Nat /\ seq \in 0 .. Never /\ Never \in 0 .. Never
    BY MarketAssumption DEF MarketTypes, Never
  <2>2. s \in Snapshot
    BY <2>1, ShownType DEF MarketTypes, Snapshot
  <2> HIDE DEF s
  <2>3. snapshots' \in Seq(Snapshot)
    BY <1>2, <2>2, AppendProperties DEF ReceiveSnapshot, MarketTypes, s
  <2>4. right_from' \in [Instruments -> 0 .. Never]
    BY <1>2, <2>1 DEF ReceiveSnapshot, MarketTypes
  <2> QED BY <1>2, <2>3, <2>4 DEF ReceiveSnapshot, marketVars, MarketTypes
<1>3. CASE UNCHANGED <<marketVars, clientVars>>
  BY <1>3 DEF marketVars, clientVars, MarketTypes
<1>4. CASE Handle
  <2>1. queue # <<>>
    BY <1>4 DEF Handle
  <2>2. /\ Tail(queue) \in Seq(Held) /\ Len(Tail(queue)) = Len(queue) - 1
        /\ Len(queue) \in Nat /\ DOMAIN queue = 1 .. Len(queue)
        /\ DOMAIN Tail(queue) = 1 .. Len(queue) - 1
        /\ \A n \in 1 .. Len(queue) - 1 : Tail(queue)[n] = queue[n + 1]
    BY <2>1, HeadOfQueue, LenProperties DEF MarketTypes
  <2>3. \A n \in DOMAIN Tail(queue) : Tail(queue)[n].message.seq <= seq
    BY <2>2 DEF MarketTypes
  <2>4. Head(queue).view \in [Instruments -> ViewType]
        /\ Head(queue).message.seq \in 0 .. seq
    BY <2>1, HeadOfQueue DEF Held
  <2> QED BY <1>4, <2>2, <2>3, <2>4 DEF Handle, marketVars, MarketTypes
<1> QED
  BY <1>1, <1>2, <1>3, <1>4 DEF Program, Recover

\* The channel starts well formed.
LEMMA MarketInit == Init => MarketTypes
<1> SUFFICES ASSUME Init PROVE MarketTypes
  OBVIOUS
<1>1. /\ full \in [Instruments -> Side] /\ depth \in [Instruments -> 0 .. MaxDepth]
  BY EmptySeq DEF Init, Side, Empty, Unlisted
<1>2. view \in [Instruments -> ViewType]
  BY <1>1, ShownTypes DEF Init
<1>3. 0 \in 0 .. MaxEvents /\ 0 \in 0 .. MaxEvents + 1 /\ Never \in 0 .. Never
      /\ 0 \in 0 .. 0
  BY MarketAssumption DEF Never
<1>4. <<>> \in Seq(Instrument) /\ <<>> \in Seq(Snapshot) /\ <<>> \in Seq(Held)
      /\ DOMAIN <<>> = {}
  BY EmptySeq
<1> QED
  BY <1>1, <1>2, <1>3, <1>4 DEF Init, MarketTypes

\* The types of the exchange and of what is on the way, for all inputs.
THEOREM ChannelTypes == Spec => []MarketTypes
<1>1. Init => MarketTypes
  BY MarketInit
<1>2. MarketTypes /\ [Next]_vars => MarketTypes'
  <2> SUFFICES ASSUME MarketTypes, [Next]_vars PROVE MarketTypes'
    OBVIOUS
  <2>1. CASE Next
    BY <2>1, ExchangeTypes, ProgramTypes DEF Next
  <2>2. CASE UNCHANGED vars
    BY <2>2 DEF vars, marketVars, clientVars, MarketTypes
  <2> QED BY <2>1, <2>2
<1> QED BY <1>1, <1>2, PTL DEF Spec

\* What a channel does to its saver is among what the saver is proved for: the
\* channel is a refinement of the saver under any input.
THEOREM AnyInput == Spec => BookSpec
<1>1. Init => BookInit
  BY DEF Init
<1>2. MarketTypes /\ [Next]_vars => [BookNext]_bookVars
  <2> SUFFICES ASSUME MarketTypes, [Next]_vars PROVE [BookNext]_bookVars
    OBVIOUS
  <2>1. CASE Exchange
    BY <2>1, ExchangeRest DEF Event
  <2>2. CASE Connect
    BY <2>2 DEF Connect
  <2>3. ASSUME NEW i \in Instruments, ReceiveSnapshot(i)
        PROVE  UNCHANGED bookVars
    BY <2>3 DEF ReceiveSnapshot
  <2>4. CASE Recover
    <3>1. definitions \in Seq(Instrument) /\ SnapshotBooks \in Seq(Book)
      BY SnapshotBooksType DEF MarketTypes
    <3>2. snapshots[1].seq \in Nat
      <4>1. 1 \in 1 .. Len(snapshots)
        BY <2>4, EmptySeq, LenProperties DEF Recover, MarketTypes
      <4> QED BY <4>1, SnapshotListsType DEF Snapshot
    <3>3. Process_recovery_data(definitions, SnapshotBooks, snapshots[1].seq)
      BY <2>4 DEF Recover
    <3> QED BY <3>1, <3>2, <3>3 DEF BookNext
  <2>5. CASE Handle
    <3>1. Head(queue).message \in Message
      BY <2>5, HeadOfQueue DEF Handle
    <3> QED BY <2>5, <3>1 DEF Handle, BookNext
  <2>6. CASE BookStep
    BY <2>6 DEF BookNext
  <2>7. CASE UNCHANGED vars
    BY <2>7 DEF vars
  <2> QED BY <2>1, <2>2, <2>3, <2>4, <2>5, <2>6, <2>7 DEF Next, Program
<1> QED BY <1>1, <1>2, ChannelTypes, PTL DEF Spec, BookSpec

\* The type invariant of the channel and its books.
THEOREM TypesHold == Spec => []TypeOK
<1>1. MarketTypes /\ BookTypeOK => TypeOK
  <2> SUFFICES ASSUME MarketTypes, BookTypeOK PROVE TypeOK
    OBVIOUS
  <2>1. \A n \in DOMAIN queue : queue[n].message \in Message
    <3>1. queue \in Seq(Held) /\ DOMAIN queue = 1 .. Len(queue)
      BY LenProperties DEF MarketTypes
    <3>2. \A n \in DOMAIN queue : queue[n] \in Held
      BY <3>1, ElementOfSeq
    <3> QED BY <3>2 DEF Held
  <2> QED BY <2>1 DEF MarketTypes, TypeOK
<1> QED BY <1>1, ChannelTypes, AnyInput, BookTypes, PTL

\* The books of a channel stay within the depth of their definition.
THEOREM ChannelFit == Spec => []BooksFit
BY AnyInput, Fit, PTL

\* The strategies of a channel know the best prices.
THEOREM ChannelTop == Spec => []TopToldToStrategies
BY AnyInput, TopTrue, PTL

-----------------------------------------------------------------------------
(* One book and the work on it.                                            *)

\* The book of an instrument that has none.
NoBook == [marketDepth |-> Unlisted, bid |-> <<>>, ask |-> <<>>]

\* The book of an instrument, or none.
BookOf(i) ==
  IF i \in DOMAIN m_md_book_states THEN m_md_book_states[i] ELSE NoBook

\* What an entry, and an iteration, make of the book of an instrument.
AfterEntry(i, b, bs) ==
  IF b.entry = "reset" THEN [bs EXCEPT !.bid = <<>>, !.ask = <<>>]
  ELSE IF /\ b.entry \in Sides /\ b.inst = i /\ bs.marketDepth # Unlisted
          /\ Check_price_level(bs[b.entry], bs.marketDepth, EffectiveAction(b),
                               b.level)
    THEN Update_price(b, bs) ELSE bs

\* ... what Create_or_shrink makes of it; a deletion leaves it.
AfterDefinition(i, d, bs) ==
  IF d.inst # i \/ d.update = "D" THEN bs
  ELSE IF bs.marketDepth = Unlisted THEN Create(d.depth)
  ELSE Shrink(bs, d.depth)

\* ... what an iteration makes of it: a past entry and the sending leave it.
AfterWork(i, w, bs) ==
  IF w.kind = "definition" THEN AfterDefinition(i, w.of, bs)
  ELSE IF w.kind \in {"recovery", "increment"} THEN AfterEntry(i, w.of, bs)
  ELSE bs

\* The iterations ws lead the book of an instrument from one to another.
Leads(i, ws, from, to) ==
  \E t \in [0 .. Len(ws) -> ViewType] :
    /\ t[0] = from /\ t[Len(ws)] = to
    /\ \A n \in 1 .. Len(ws) : t[n] = AfterWork(i, ws[n], t[n - 1])

\* A book that is the same, but for rows that are still missing or fillers.
Below(o, b) ==
  /\ o.marketDepth = b.marketDepth
  /\ \A side \in Sides :
       /\ Len(o[side]) <= Len(b[side])
       /\ \A n \in 1 .. Len(o[side]) : o[side][n] \in {b[side][n], Filler}

\* No book is the only view of depth 0.
LEMMA NoBookType ==
  /\ NoBook \in ViewType
  /\ \A bs \in ViewType : bs.marketDepth = Unlisted => bs = NoBook
  /\ BookState \subseteq [marketDepth : 0 .. MaxDepth, bid : Seq(Nat), ask : Seq(Nat)]
<1>1. <<>> \in Seq(Nat) /\ Len(<<>>) = 0 /\ 0 \in 0 .. MaxDepth
      /\ 1 .. MaxDepth \subseteq 0 .. MaxDepth
  BY EmptySeq, LevelsAreNumbers
<1>2. ASSUME NEW bs \in ViewType, bs.marketDepth = Unlisted
      PROVE  bs = NoBook
  <2>1. /\ bs.bid \in Seq(Nat) /\ bs.ask \in Seq(Nat)
        /\ Len(bs.bid) <= 0 /\ Len(bs.ask) <= 0
    BY <1>2 DEF ViewType, Fits, Unlisted
  <2>2. bs.bid = <<>> /\ bs.ask = <<>>
    <3>1. Len(bs.bid) \in Nat /\ Len(bs.ask) \in Nat
      BY <2>1, LenProperties
    <3>2. Len(bs.bid) = 0 /\ Len(bs.ask) = 0
      BY <2>1, <3>1
    <3> QED BY <2>1, <3>2, EmptySeq
  <2> QED BY <1>2, <2>2 DEF ViewType, NoBook
<1>3. NoBook \in ViewType
  BY <1>1 DEF NoBook, ViewType, Fits, Unlisted
<1> QED BY <1>1, <1>2, <1>3 DEF BookState

\* One side of a view is replaced.
LEMMA ViewSide ==
  ASSUME NEW bs \in ViewType, NEW side \in Sides, NEW rows \in Seq(Nat),
         Len(rows) <= bs.marketDepth,
         NEW new, new = [bs EXCEPT ![side] = rows]
  PROVE  /\ new \in ViewType /\ new.marketDepth = bs.marketDepth
         /\ new[side] = rows
         /\ \A other \in Sides : other # side => new[other] = bs[other]
BY DEF ViewType, Fits, Sides

\* The parts of a view.
LEMMA ViewFacts ==
  ASSUME NEW bs \in ViewType
  PROVE  /\ bs.marketDepth \in Nat /\ bs.marketDepth \in 0 .. MaxDepth
         /\ \A side \in Sides : /\ bs[side] \in Seq(Nat) /\ Len(bs[side]) \in Nat
                                /\ Len(bs[side]) <= bs.marketDepth
BY LevelsAreNumbers, LenProperties DEF ViewType, Fits, Sides

\* Two views of the same depth and with the same rows are the same.
LEMMA SameView ==
  ASSUME NEW a \in ViewType, NEW b \in ViewType,
         a.marketDepth = b.marketDepth, a.bid = b.bid, a.ask = b.ask
  PROVE  a = b
BY DEF ViewType

\* A reset empties both sides and keeps the depth.
LEMMA ResetView ==
  ASSUME NEW bs \in ViewType
  PROVE  /\ [bs EXCEPT !.bid = <<>>, !.ask = <<>>] \in ViewType
         /\ [bs EXCEPT !.bid = <<>>, !.ask = <<>>].marketDepth = bs.marketDepth
         /\ [bs EXCEPT !.bid = <<>>, !.ask = <<>>].bid = <<>>
         /\ [bs EXCEPT !.bid = <<>>, !.ask = <<>>].ask = <<>>
<1>1. <<>> \in Seq(Nat) /\ Len(<<>>) = 0 /\ bs.marketDepth \in Nat
  BY EmptySeq, ViewFacts
<1>2. ASSUME NEW none \in Seq(Nat), Len(none) = 0
      PROVE  LET r == [bs EXCEPT !.bid = none, !.ask = none]
             IN  /\ r \in ViewType /\ r.marketDepth = bs.marketDepth
                 /\ r.bid = none /\ r.ask = none
  <2> DEFINE r == [bs EXCEPT !.bid = none, !.ask = none]
  <2>1. bs \in [marketDepth : 0 .. MaxDepth, bid : Seq(Nat), ask : Seq(Nat)]
    BY DEF ViewType
  <2>2. r \in [marketDepth : 0 .. MaxDepth, bid : Seq(Nat), ask : Seq(Nat)]
    BY <2>1
  <2>3. r.marketDepth = bs.marketDepth /\ r.bid = none /\ r.ask = none
    BY <2>1
  <2> HIDE DEF r
  <2>4. r \in ViewType
    BY <1>1, <1>2, <2>2, <2>3 DEF ViewType, Fits
  <2> QED BY <2>3, <2>4 DEF r
<1> QED BY <1>1, <1>2

\* Trim keeps the first rows.
LEMMA TrimRows ==
  ASSUME NEW rows \in Seq(Nat), NEW limit \in Nat
  PROVE  /\ Trim(rows, limit) \in Seq(Nat)
         /\ Len(Trim(rows, limit)) = IF Len(rows) > limit THEN limit ELSE Len(rows)
         /\ \A n \in 1 .. Len(Trim(rows, limit)) : Trim(rows, limit)[n] = rows[n]
<1>1. Len(rows) \in Nat
  BY LenProperties
<1>2. CASE Len(rows) > limit
  <2>1. Trim(rows, limit) = Resize(rows, limit)
    BY <1>2 DEF Trim
  <2>2. /\ Resize(rows, limit) \in Seq(Nat) /\ Len(Resize(rows, limit)) = limit
        /\ \A n \in 1 .. limit :
             Resize(rows, limit)[n] = IF n <= Len(rows) THEN rows[n] ELSE Filler
    BY ResizeRows
  <2>3. \A n \in 1 .. limit : n <= Len(rows)
    BY <1>1, <1>2
  <2> QED BY <1>2, <2>1, <2>2, <2>3
<1>3. CASE ~(Len(rows) > limit)
  BY <1>3 DEF Trim
<1> QED BY <1>2, <1>3

\* Shrink and Create make a book of the new depth.
LEMMA ShrinkView ==
  ASSUME NEW bs \in ViewType, NEW limit \in 1 .. MaxDepth
  PROVE  /\ Shrink(bs, limit) \in ViewType /\ Create(limit) \in ViewType
         /\ Shrink(bs, limit).marketDepth = limit
         /\ Shrink(bs, limit).bid = Trim(bs.bid, limit)
         /\ Shrink(bs, limit).ask = Trim(bs.ask, limit)
<1>1. limit \in Nat /\ limit \in 0 .. MaxDepth /\ <<>> \in Seq(Nat) /\ Len(<<>>) = 0
  BY EmptySeq, LevelsAreNumbers
<1>2. ASSUME NEW rows \in Seq(Nat)
      PROVE  Trim(rows, limit) \in Seq(Nat) /\ Len(Trim(rows, limit)) <= limit
  <2>1. Len(rows) \in Nat
    BY LenProperties
  <2> QED BY <1>1, <2>1, TrimRows
<1>3. bs.bid \in Seq(Nat) /\ bs.ask \in Seq(Nat)
  BY DEF ViewType
<1> QED BY <1>1, <1>2, <1>3 DEF Shrink, Create, ViewType, Fits

\* An iteration makes a view of a view.
LEMMA AfterWorkType ==
  ASSUME NEW i \in Instruments, NEW w \in Work, NEW bs \in ViewType
  PROVE  AfterWork(i, w, bs) \in ViewType
<1>1. ASSUME w.kind = "definition" PROVE AfterDefinition(i, w.of, bs) \in ViewType
  <2>1. w.of.depth \in 1 .. MaxDepth
    BY <1>1 DEF Work, Instrument
  <2> QED BY <2>1, ShrinkView DEF AfterDefinition
<1>2. ASSUME w.kind \in {"recovery", "increment"}
      PROVE  AfterEntry(i, w.of, bs) \in ViewType
  <2> DEFINE b == w.of
  <2>1. b \in Book
    BY <1>2 DEF Work
  <2> HIDE DEF b
  <2>2. ASSUME b.entry \in Sides,
               Check_price_level(bs[b.entry], bs.marketDepth, EffectiveAction(b),
                                 b.level)
        PROVE  Update_price(b, bs) \in ViewType
    <3> DEFINE rows == bs[b.entry]
               after == RowsAfter(b, rows, bs.marketDepth)
    <3>1. rows \in Seq(Nat) /\ bs.marketDepth \in Nat /\ Len(rows) <= bs.marketDepth
      BY <2>2, ViewFacts
    <3>2. after \in Seq(Nat) /\ Len(after) <= bs.marketDepth
      BY <2>1, <2>2, <3>1, UpdateSide
    <3>3. Update_price(b, bs) = [bs EXCEPT ![b.entry] = after]
      BY DEF Update_price
    <3> HIDE DEF after, rows
    <3>4. [bs EXCEPT ![b.entry] = after] \in ViewType
      BY <2>2, <3>2, ViewSide
    <3> QED BY <3>3, <3>4
  <2>3. AfterEntry(i, b, bs) \in ViewType
    BY <2>2, ResetView, Zenon DEF AfterEntry
  <2> QED BY <2>3 DEF b
<1> QED BY <1>1, <1>2 DEF AfterWork

\* The head of the work is done.
LEMMA LeadsTail ==
  ASSUME NEW i \in Instruments, NEW ws \in Seq(Work), ws # <<>>,
         NEW from, NEW to, Leads(i, ws, from, to)
  PROVE  Leads(i, Tail(ws), AfterWork(i, Head(ws), from), to)
<1>1. PICK t \in [0 .. Len(ws) -> ViewType] :
        /\ t[0] = from /\ t[Len(ws)] = to
        /\ \A n \in 1 .. Len(ws) : t[n] = AfterWork(i, ws[n], t[n - 1])
  BY DEF Leads
<1>2. /\ Len(Tail(ws)) = Len(ws) - 1 /\ Len(ws) \in Nat /\ Len(ws) >= 1
      /\ Head(ws) = ws[1]
      /\ \A n \in 1 .. Len(ws) - 1 : Tail(ws)[n] = ws[n + 1]
  <2>1. /\ Len(Tail(ws)) = Len(ws) - 1
        /\ \A n \in 1 .. Len(Tail(ws)) : Tail(ws)[n] = ws[n + 1]
    BY HeadTailProperties
  <2>2. Len(ws) \in Nat /\ Len(ws) # 0 /\ Head(ws) = ws[1]
    BY LenProperties, EmptySeq
  <2> QED BY <2>1, <2>2
<1> DEFINE u == [n \in 0 .. Len(ws) - 1 |-> t[n + 1]]
<1>3. /\ u \in [0 .. Len(Tail(ws)) -> ViewType]
      /\ u[0] = t[1] /\ u[Len(Tail(ws))] = to
  BY <1>1, <1>2
<1>4. t[1] = AfterWork(i, Head(ws), from)
  BY <1>1, <1>2
<1>5. ASSUME NEW n \in 1 .. Len(Tail(ws))
      PROVE  u[n] = AfterWork(i, Tail(ws)[n], u[n - 1])
  <2>1. n \in 1 .. Len(ws) - 1 /\ n + 1 \in 1 .. Len(ws) /\ (n + 1) - 1 = n
    BY <1>2
  <2>2. t[n + 1] = AfterWork(i, ws[n + 1], t[n])
    BY <1>1, <2>1
  <2>3. u[n] = t[n + 1] /\ u[n - 1] = t[n]
    BY <2>1
  <2>4. Tail(ws)[n] = ws[n + 1]
    BY <1>2, <2>1
  <2> HIDE DEF u
  <2> QED BY <2>2, <2>3, <2>4
<1> HIDE DEF u
<1> QED BY <1>3, <1>4, <1>5 DEF Leads

\* No work, no change.
LEMMA LeadsNowhere ==
  ASSUME NEW i, NEW from \in ViewType, NEW to
  PROVE  Leads(i, <<>>, from, to) <=> from = to
<1>1. Len(<<>>) = 0 /\ 0 .. 0 = {0} /\ 1 .. 0 = {}
  BY EmptySeq
<1>2. ASSUME Leads(i, <<>>, from, to) PROVE from = to
  BY <1>1, <1>2 DEF Leads
<1>3. ASSUME from = to PROVE Leads(i, <<>>, from, to)
  <2> DEFINE t == [n \in 0 .. 0 |-> from]
  <2>1. /\ t \in [0 .. Len(<<>>) -> ViewType]
        /\ t[0] = from /\ t[Len(<<>>)] = to
        /\ \A n \in 1 .. Len(<<>>) : t[n] = AfterWork(i, <<>>[n], t[n - 1])
    BY <1>1, <1>3
  <2> HIDE DEF t
  <2> QED BY <2>1 DEF Leads
<1> QED BY <1>2, <1>3

\* Work that leaves the book alone.
LEMMA LeadsBack ==
  ASSUME NEW i, NEW ws, Len(ws) \in Nat, NEW bs \in ViewType,
         \A n \in 1 .. Len(ws) : AfterWork(i, ws[n], bs) = bs
  PROVE  Leads(i, ws, bs, bs)
<1> DEFINE t == [n \in 0 .. Len(ws) |-> bs]
<1>1. /\ t \in [0 .. Len(ws) -> ViewType]
      /\ t[0] = bs /\ t[Len(ws)] = bs
      /\ \A n \in 1 .. Len(ws) : t[n] = bs /\ t[n - 1] = bs
  OBVIOUS
<1> HIDE DEF t
<1> QED BY <1>1 DEF Leads

\* One iteration.
LEMMA LeadsOne ==
  ASSUME NEW i \in Instruments, NEW w \in Work, NEW from \in ViewType
  PROVE  Leads(i, <<w>>, from, AfterWork(i, w, from))
<1> DEFINE to == AfterWork(i, w, from)
           t == [n \in 0 .. 1 |-> IF n = 0 THEN from ELSE to]
<1>1. to \in ViewType
  BY AfterWorkType
<1> HIDE DEF to
<1>2. /\ t \in [0 .. Len(<<w>>) -> ViewType] /\ t[0] = from /\ t[1] = to
      /\ Len(<<w>>) = 1 /\ <<w>>[1] = w
  BY <1>1
<1> HIDE DEF t
<1>3. \A n \in 1 .. 1 : t[n] = AfterWork(i, <<w>>[n], t[n - 1])
  <2>1. \A n \in 1 .. 1 : n = 1 /\ n - 1 = 0
    OBVIOUS
  <2> QED BY <1>2, <2>1 DEF to
<1> QED BY <1>2, <1>3 DEF Leads, to

\* Two pieces of work, one behind the other.
LEMMA LeadsOn ==
  ASSUME NEW i, NEW ws \in Seq(Work), NEW vs \in Seq(Work), NEW from, NEW mid,
         NEW to, Leads(i, ws, from, mid), Leads(i, vs, mid, to)
  PROVE  Leads(i, ws \o vs, from, to)
<1>1. PICK t \in [0 .. Len(ws) -> ViewType] :
        /\ t[0] = from /\ t[Len(ws)] = mid
        /\ \A n \in 1 .. Len(ws) : t[n] = AfterWork(i, ws[n], t[n - 1])
  BY DEF Leads
<1>2. PICK u \in [0 .. Len(vs) -> ViewType] :
        /\ u[0] = mid /\ u[Len(vs)] = to
        /\ \A n \in 1 .. Len(vs) : u[n] = AfterWork(i, vs[n], u[n - 1])
  BY DEF Leads
<1> DEFINE L == Len(ws)
           M == Len(vs)
<1>3. /\ L \in Nat /\ M \in Nat /\ Len(ws \o vs) = L + M
      /\ \A n \in 1 .. L + M : (ws \o vs)[n] = IF n <= L THEN ws[n] ELSE vs[n - L]
  BY ConcatProperties, LenProperties
<1> HIDE DEF L, M
<1> DEFINE r == [n \in 0 .. L + M |-> IF n <= L THEN t[n] ELSE u[n - L]]
<1>4. /\ r \in [0 .. L + M -> ViewType]
      /\ \A n \in 0 .. L + M : r[n] = IF n <= L THEN t[n] ELSE u[n - L]
  BY <1>1, <1>2, <1>3 DEF L, M
<1> HIDE DEF r
<1>5. r[0] = from /\ r[L + M] = to
  <2>1. r[0] = t[0]
    BY <1>3, <1>4
  <2>2. CASE M = 0
    <3>1. r[L + M] = t[L]
      BY <1>3, <1>4, <2>2
    <3> QED BY <1>1, <1>2, <2>1, <2>2, <3>1 DEF L, M
  <2>3. CASE M # 0
    <3>1. r[L + M] = u[M]
      <4>1. ~(L + M <= L) /\ (L + M) - L = M /\ L + M \in 0 .. L + M
        BY <1>3, <2>3
      <4> QED BY <1>4, <4>1
    <3> QED BY <1>1, <1>2, <2>1, <3>1 DEF M
  <2> QED BY <2>2, <2>3
<1>6. ASSUME NEW n \in 1 .. L + M
      PROVE  r[n] = AfterWork(i, (ws \o vs)[n], r[n - 1])
  <2>1. CASE n <= L
    <3>1. /\ n \in 1 .. L /\ r[n] = t[n] /\ r[n - 1] = t[n - 1]
          /\ (ws \o vs)[n] = ws[n]
      BY <1>3, <1>4, <2>1
    <3> QED BY <1>1, <3>1 DEF L
  <2>2. CASE ~(n <= L)
    <3>1. /\ n - L \in 1 .. M /\ r[n] = u[n - L] /\ (ws \o vs)[n] = vs[n - L]
          /\ n - 1 \in 0 .. L + M /\ (n - 1) - L = (n - L) - 1
      BY <1>3, <1>4, <2>2
    <3>2. r[n - 1] = u[(n - L) - 1]
      <4>1. CASE n = L + 1
        <5>1. n - 1 = L /\ (n - L) - 1 = 0
          BY <1>3, <4>1
        <5>2. r[n - 1] = t[L]
          BY <1>3, <1>4, <3>1, <5>1
        <5> QED BY <1>1, <1>2, <5>1, <5>2 DEF L
      <4>2. CASE n # L + 1
        <5>1. ~(n - 1 <= L)
          BY <1>3, <2>2, <4>2
        <5> QED BY <1>4, <3>1, <5>1
      <4> QED BY <4>1, <4>2
    <3> QED BY <1>2, <3>1, <3>2 DEF M
  <2> QED BY <2>1, <2>2
<1> QED BY <1>3, <1>4, <1>5, <1>6 DEF Leads

\* Work that does the same to this book.
LEMMA LeadsSame ==
  ASSUME NEW i, NEW ws, NEW vs, Len(ws) = Len(vs), NEW from, NEW to,
         Len(ws) \in Nat, Leads(i, ws, from, to),
         \A n \in 1 .. Len(ws) : \A bs \in ViewType :
           AfterWork(i, vs[n], bs) = AfterWork(i, ws[n], bs)
  PROVE  Leads(i, vs, from, to)
<1>1. PICK t \in [0 .. Len(ws) -> ViewType] :
        /\ t[0] = from /\ t[Len(ws)] = to
        /\ \A n \in 1 .. Len(ws) : t[n] = AfterWork(i, ws[n], t[n - 1])
  BY DEF Leads
<1>2. \A n \in 1 .. Len(ws) : t[n - 1] \in ViewType
  BY <1>1
<1>3. \A n \in 1 .. Len(vs) : t[n] = AfterWork(i, vs[n], t[n - 1])
  BY <1>1, <1>2
<1> QED BY <1>1, <1>3 DEF Leads

-----------------------------------------------------------------------------
(* What an entry does to the rows of its side, row by row.                 *)

\* What an entry makes of the rows of its side: nothing, if
\* Check_price_level refuses it.
SideAfter(b, rows, limit) ==
  IF Check_price_level(rows, limit, EffectiveAction(b), b.level)
    THEN RowsAfter(b, rows, limit) ELSE rows

\* The rows of a side stay within the depth.
LEMMA SideType ==
  ASSUME NEW rows \in Seq(Nat), NEW limit \in Nat, Len(rows) <= limit,
         NEW b \in Book
  PROVE  /\ SideAfter(b, rows, limit) \in Seq(Nat)
         /\ Len(SideAfter(b, rows, limit)) \in Nat
         /\ Len(SideAfter(b, rows, limit)) <= limit
<1>1. SideAfter(b, rows, limit) \in Seq(Nat) /\ Len(SideAfter(b, rows, limit)) <= limit
  BY UpdateSide DEF SideAfter
<1> QED BY <1>1, LenProperties

\* New_price inserts a row, and fills the gap above one that is too far down.
LEMMA SideNew ==
  ASSUME NEW rows \in Seq(Nat), NEW limit \in Nat, Len(rows) <= limit,
         NEW b \in Book, EffectiveAction(b) = "New", b.level \in 1 .. limit,
         NEW z, z = SideAfter(b, rows, limit)
  PROVE  LET size == IF b.level <= Len(rows) + 1 THEN Len(rows) + 1 ELSE b.level
         IN  /\ Len(z) = IF size > limit THEN limit ELSE size
             /\ \A n \in 1 .. Len(z) :
                  z[n] = IF n < b.level
                           THEN IF n <= Len(rows) THEN rows[n] ELSE Filler
                           ELSE IF n = b.level THEN b.row ELSE rows[n - 1]
<1>1. b.level \in Nat /\ b.row \in Nat
  BY DEF Book
<1>2. z = New_price(rows, b.level, b.row, limit)
  BY <1>1 DEF SideAfter, RowsAfter, Check_price_level
<1> QED BY <1>1, <1>2, NewPrice, SMTT(40)

\* Change_price replaces one row.
LEMMA SideChange ==
  ASSUME NEW rows \in Seq(Nat), NEW limit \in Nat, Len(rows) <= limit,
         NEW b \in Book, EffectiveAction(b) = "Change",
         NEW z, z = SideAfter(b, rows, limit)
  PROVE  /\ Len(z) = Len(rows)
         /\ \A n \in 1 .. Len(rows) : z[n] = IF n = b.level THEN b.row ELSE rows[n]
<1>1. b.level \in Nat /\ b.row \in Nat /\ Len(rows) \in Nat
  BY LenProperties DEF Book
<1>2. CASE b.level \in 1 .. Len(rows)
  <2>1. z = [rows EXCEPT ![b.level] = b.row]
    BY <1>1, <1>2 DEF SideAfter, RowsAfter, Check_price_level, Change_price, ReplaceAt
  <2> QED BY <1>1, <1>2, <2>1, ExceptSeq
<1>3. CASE b.level \notin 1 .. Len(rows)
  <2>1. z = rows
    BY <1>1, <1>3 DEF SideAfter, Check_price_level
  <2> QED BY <1>3, <2>1
<1> QED BY <1>2, <1>3

\* Delete_price takes one row out.
LEMMA SideDelete ==
  ASSUME NEW rows \in Seq(Nat), NEW limit \in Nat, Len(rows) <= limit,
         NEW b \in Book, EffectiveAction(b) = "Delete",
         NEW z, z = SideAfter(b, rows, limit)
  PROVE  /\ b.level \in 1 .. Len(rows) =>
              /\ Len(z) = Len(rows) - 1
              /\ \A n \in 1 .. Len(z) :
                   z[n] = IF n < b.level THEN rows[n] ELSE rows[n + 1]
         /\ b.level \notin 1 .. Len(rows) => z = rows
<1>1. b.level \in Nat /\ Len(rows) \in Nat
  BY LenProperties DEF Book
<1>2. CASE b.level \in 1 .. Len(rows)
  <2>1. z = RemoveAt(rows, b.level)
    BY <1>1, <1>2 DEF SideAfter, RowsAfter, Check_price_level, Delete_price
  <2> QED BY <1>1, <1>2, <2>1, RemoveOne
<1>3. CASE b.level \notin 1 .. Len(rows)
  BY <1>1, <1>3 DEF SideAfter, Check_price_level
<1> QED BY <1>2, <1>3

\* Delete_top_price takes the first rows out.
LEMMA SideFrom ==
  ASSUME NEW rows \in Seq(Nat), NEW limit \in Nat, Len(rows) <= limit,
         NEW b \in Book, EffectiveAction(b) = "DeleteFrom", b.level \in 1 .. limit,
         NEW z, z = SideAfter(b, rows, limit)
  PROVE  /\ Len(z) = IF b.level <= Len(rows) THEN Len(rows) - b.level ELSE 0
         /\ \A n \in 1 .. Len(z) : z[n] = rows[n + b.level]
<1>1. b.level \in Nat
  BY DEF Book
<1> DEFINE left == SubSeq(rows, b.level + 1, Len(rows))
<1>2. Check_price_level(rows, limit, EffectiveAction(b), b.level)
  BY <1>1 DEF Check_price_level
<1>3. RowsAfter(b, rows, limit) = left
  BY DEF RowsAfter, Delete_top_price
<1>4. /\ Len(left) = IF b.level <= Len(rows) THEN Len(rows) - b.level ELSE 0
      /\ \A n \in 1 .. Len(left) : left[n] = rows[n + b.level]
  BY <1>1, RemoveTop
<1> HIDE DEF left
<1>5. z = left
  BY <1>2, <1>3 DEF SideAfter
<1> QED BY <1>4, <1>5

\* Delete_all_price takes all rows out.
LEMMA SideThru ==
  ASSUME NEW rows \in Seq(Nat), NEW limit \in Nat,
         NEW b \in Book, EffectiveAction(b) = "DeleteThru"
  PROVE  SideAfter(b, rows, limit) = <<>>
BY DEF SideAfter, RowsAfter, Check_price_level, Delete_all_price

\* An entry of a level outside the depth changes nothing.
LEMMA SideIgnored ==
  ASSUME NEW rows, NEW limit \in Nat, NEW b \in Book,
         EffectiveAction(b) \in {"New", "DeleteFrom"}, b.level \notin 1 .. limit
  PROVE  SideAfter(b, rows, limit) = rows
<1>1. b.level \in Nat
  BY DEF Book
<1> QED BY <1>1 DEF SideAfter, Check_price_level

\* The book bs with other rows on one side.
WithSide(bs, side, rows) ==
  [marketDepth |-> bs.marketDepth, bid |-> IF side = "bid" THEN rows ELSE bs.bid,
   ask |-> IF side = "ask" THEN rows ELSE bs.ask]

\* The two ways to say that a side is replaced.
LEMMA SideReplaced ==
  ASSUME NEW bs \in ViewType, NEW side \in Sides, NEW rows
  PROVE  [bs EXCEPT ![side] = rows] = WithSide(bs, side, rows)
<1>1. bs = [marketDepth |-> bs.marketDepth, bid |-> bs.bid, ask |-> bs.ask]
  BY DEF ViewType
<1>2. CASE side = "bid"
  <2>1. [bs EXCEPT !.bid = rows] = WithSide(bs, "bid", rows)
    BY <1>1 DEF WithSide
  <2> QED BY <1>2, <2>1
<1>3. CASE side = "ask"
  <2>1. [bs EXCEPT !.ask = rows] = WithSide(bs, "ask", rows)
    BY <1>1 DEF WithSide
  <2> QED BY <1>3, <2>1
<1> QED BY <1>2, <1>3 DEF Sides

\* A side is replaced, and the other one stays.
LEMMA WithSideFacts ==
  ASSUME NEW bs \in ViewType, NEW side \in Sides, NEW rows \in Seq(Nat),
         Len(rows) <= bs.marketDepth
  PROVE  /\ WithSide(bs, side, rows) \in ViewType
         /\ WithSide(bs, side, rows).marketDepth = bs.marketDepth
         /\ WithSide(bs, side, rows)[side] = rows
         /\ \A other \in Sides : other # side =>
              WithSide(bs, side, rows)[other] = bs[other]
         /\ \A later :
              WithSide(WithSide(bs, side, rows), side, later) = WithSide(bs, side, later)
         /\ WithSide(bs, side, bs[side]) = bs
BY DEF ViewType, Fits, Sides, WithSide

\* What an entry makes of the book of an instrument.
LEMMA EntrySide ==
  ASSUME NEW i \in Instruments, NEW b \in Book, NEW bs \in ViewType
  PROVE  /\ \A side \in Sides :
              b.entry = side /\ b.inst = i /\ bs.marketDepth # Unlisted =>
                AfterEntry(i, b, bs)
                  = WithSide(bs, side, SideAfter(b, bs[side], bs.marketDepth))
         /\ b.entry # "reset"
              /\ ~(b.entry \in Sides /\ b.inst = i /\ bs.marketDepth # Unlisted) =>
              AfterEntry(i, b, bs) = bs
<1>1. b.entry \in Sides => b.entry # "reset"
  BY DEF Sides
<1>2. ASSUME NEW side \in Sides
      PROVE  /\ [bs EXCEPT ![side] = bs[side]] = bs
             /\ \A rows : [bs EXCEPT ![side] = rows] = WithSide(bs, side, rows)
  BY SideReplaced DEF ViewType, Sides
<1>3. ASSUME NEW side \in Sides, b.entry = side, b.inst = i,
             bs.marketDepth # Unlisted
      PROVE  AfterEntry(i, b, bs)
               = WithSide(bs, side, SideAfter(b, bs[side], bs.marketDepth))
  <2>1. CASE Check_price_level(bs[side], bs.marketDepth, EffectiveAction(b), b.level)
    <3>1. AfterEntry(i, b, bs)
            = [bs EXCEPT ![side] = RowsAfter(b, bs[side], bs.marketDepth)]
      BY <1>1, <1>3, <2>1 DEF AfterEntry, Update_price
    <3> QED BY <1>2, <2>1, <3>1 DEF SideAfter
  <2>2. CASE ~Check_price_level(bs[side], bs.marketDepth, EffectiveAction(b), b.level)
    <3>1. AfterEntry(i, b, bs) = bs
      BY <1>1, <1>3, <2>2 DEF AfterEntry
    <3> QED BY <1>2, <2>2, <3>1 DEF SideAfter
  <2> QED BY <2>1, <2>2
<1>4. b.entry # "reset"
        /\ ~(b.entry \in Sides /\ b.inst = i /\ bs.marketDepth # Unlisted) =>
        AfterEntry(i, b, bs) = bs
  BY DEF AfterEntry
<1> QED BY <1>3, <1>4

\* An entry changes the side it names.
LEMMA EntryView ==
  ASSUME NEW i \in Instruments, NEW b \in Book, NEW bs \in ViewType,
         NEW side \in Sides, b.entry = side, b.inst = i, bs.marketDepth # Unlisted,
         NEW new, new = AfterEntry(i, b, bs)
  PROVE  /\ new \in ViewType /\ new.marketDepth = bs.marketDepth
         /\ new[side] = SideAfter(b, bs[side], bs.marketDepth)
         /\ \A other \in Sides : other # side => new[other] = bs[other]
<1> DEFINE rows == SideAfter(b, bs[side], bs.marketDepth)
<1>1. new = WithSide(bs, side, rows)
  BY EntrySide
<1>2. rows \in Seq(Nat) /\ Len(rows) <= bs.marketDepth
  BY ViewFacts, SideType
<1> HIDE DEF rows
<1>3. /\ new \in ViewType /\ new.marketDepth = bs.marketDepth
      /\ new[side] = rows
      /\ \A other \in Sides : other # side => new[other] = bs[other]
  BY <1>1, <1>2, WithSideFacts
<1> QED BY <1>3 DEF rows

\* An entry does to the rows of the one book what it does to the other, as far
\* as the rows are there.
RowsBelow(p, r) ==
  Len(p) <= Len(r) /\ \A n \in 1 .. Len(p) : p[n] \in {r[n], Filler}

\* Rows that are missing, or fillers, stay so when the same entry is taken.
LEMMA SideBelow ==
  ASSUME NEW p \in Seq(Nat), NEW r \in Seq(Nat), NEW limit \in Nat,
         RowsBelow(p, r), Len(r) <= limit, NEW b \in Book
  PROVE  RowsBelow(SideAfter(b, p, limit), SideAfter(b, r, limit))
<1> DEFINE x == SideAfter(b, p, limit)
           y == SideAfter(b, r, limit)
           P == Len(p)
           R == Len(r)
<1>1. /\ P \in Nat /\ R \in Nat /\ b.level \in Nat /\ limit \in Nat
      /\ P <= R /\ R <= limit /\ P <= limit
      /\ EffectiveAction(b) \in {"New", "Change", "Delete", "DeleteThru", "DeleteFrom"}
  BY LenProperties DEF RowsBelow, Book, EffectiveAction, Actions
<1>2. \A n \in 1 .. P : p[n] \in {r[n], Filler}
  BY DEF RowsBelow
<1>3. Len(x) \in Nat /\ Len(y) \in Nat
  BY <1>1, SideType
<1>4. CASE EffectiveAction(b) = "New" /\ b.level \in 1 .. limit
  <2> DEFINE sp == IF b.level <= P + 1 THEN P + 1 ELSE b.level
             sr == IF b.level <= R + 1 THEN R + 1 ELSE b.level
  <2>1. /\ Len(x) = IF sp > limit THEN limit ELSE sp
        /\ \A n \in 1 .. Len(x) :
             x[n] = IF n < b.level THEN IF n <= P THEN p[n] ELSE Filler
                    ELSE IF n = b.level THEN b.row ELSE p[n - 1]
    BY <1>1, <1>4, SideNew
  <2>2. /\ Len(y) = IF sr > limit THEN limit ELSE sr
        /\ \A n \in 1 .. Len(y) :
             y[n] = IF n < b.level THEN IF n <= R THEN r[n] ELSE Filler
                    ELSE IF n = b.level THEN b.row ELSE r[n - 1]
    BY <1>1, <1>4, SideNew
  <2> HIDE DEF x, y, P, R
  <2>3. Len(x) <= Len(y) /\ Len(x) <= sp /\ sp \in Nat
    BY <1>1, <2>1, <2>2
  <2>4. ASSUME NEW n \in 1 .. Len(x) PROVE x[n] \in {y[n], Filler}
    <3>1. n \in 1 .. Len(y) /\ n \in Nat /\ n >= 1 /\ n <= sp
      BY <1>3, <2>3
    <3>2. x[n] = IF n < b.level THEN IF n <= P THEN p[n] ELSE Filler
                 ELSE IF n = b.level THEN b.row ELSE p[n - 1]
      BY <2>1
    <3>3. y[n] = IF n < b.level THEN IF n <= R THEN r[n] ELSE Filler
                 ELSE IF n = b.level THEN b.row ELSE r[n - 1]
      BY <2>2, <3>1
    <3>4. CASE n < b.level
      <4>1. n <= P => n \in 1 .. P /\ n <= R
        BY <1>1, <3>1
      <4> QED BY <1>2, <3>2, <3>3, <3>4, <4>1
    <3>5. CASE n = b.level
      BY <1>1, <3>2, <3>3, <3>5
    <3>6. CASE n > b.level
      <4>1. n - 1 \in 1 .. P /\ ~(n < b.level) /\ n # b.level
        BY <1>1, <1>4, <3>1, <3>6
      <4> QED BY <1>2, <3>2, <3>3, <4>1
    <3> QED BY <1>1, <3>1, <3>4, <3>5, <3>6
  <2> QED BY <2>3, <2>4 DEF RowsBelow, x, y
<1>5. CASE EffectiveAction(b) = "DeleteFrom" /\ b.level \in 1 .. limit
  <2>1. /\ Len(x) = IF b.level <= P THEN P - b.level ELSE 0
        /\ \A n \in 1 .. Len(x) : x[n] = p[n + b.level]
    BY <1>1, <1>5, SideFrom
  <2>2. /\ Len(y) = IF b.level <= R THEN R - b.level ELSE 0
        /\ \A n \in 1 .. Len(y) : y[n] = r[n + b.level]
    BY <1>1, <1>5, SideFrom
  <2> HIDE DEF x, y, P, R
  <2>3. Len(x) <= Len(y)
    BY <1>1, <2>1, <2>2
  <2>4. ASSUME NEW n \in 1 .. Len(x) PROVE x[n] \in {y[n], Filler}
    <3>1. n \in 1 .. Len(y) /\ n + b.level \in 1 .. P
      BY <1>1, <1>3, <2>1, <2>3
    <3>2. x[n] = p[n + b.level] /\ y[n] = r[n + b.level]
      BY <2>1, <2>2, <3>1
    <3> QED BY <1>2, <3>1, <3>2
  <2> QED BY <2>3, <2>4 DEF RowsBelow, x, y
<1>6. CASE EffectiveAction(b) = "Change"
  <2>1. Len(x) = P /\ \A n \in 1 .. P : x[n] = IF n = b.level THEN b.row ELSE p[n]
    BY <1>1, <1>6, SideChange
  <2>2. Len(y) = R /\ \A n \in 1 .. R : y[n] = IF n = b.level THEN b.row ELSE r[n]
    BY <1>1, <1>6, SideChange
  <2> HIDE DEF x, y, P, R
  <2>3. \A n \in 1 .. P : n \in 1 .. R
    BY <1>1
  <2>4. \A n \in 1 .. P : x[n] \in {y[n], Filler}
    BY <1>2, <2>1, <2>2, <2>3
  <2> QED BY <1>1, <2>1, <2>2, <2>4 DEF RowsBelow, x, y
<1>7. CASE EffectiveAction(b) = "Delete"
  <2>1. /\ b.level \in 1 .. P =>
             /\ Len(x) = P - 1
             /\ \A n \in 1 .. Len(x) : x[n] = IF n < b.level THEN p[n] ELSE p[n + 1]
        /\ b.level \notin 1 .. P => x = p
    BY <1>1, <1>7, SideDelete
  <2>2. /\ b.level \in 1 .. R =>
             /\ Len(y) = R - 1
             /\ \A n \in 1 .. Len(y) : y[n] = IF n < b.level THEN r[n] ELSE r[n + 1]
        /\ b.level \notin 1 .. R => y = r
    BY <1>1, <1>7, SideDelete
  <2> HIDE DEF x, y
  <2>3. CASE b.level \in 1 .. P
    <3>1. b.level \in 1 .. R
      BY <1>1, <2>3
    <3> HIDE DEF P, R
    <3>2. ASSUME NEW n \in 1 .. Len(x) PROVE x[n] \in {y[n], Filler}
      <4>1. n \in 1 .. Len(y) /\ n \in 1 .. P /\ n + 1 \in 1 .. P
        BY <1>1, <2>1, <2>2, <2>3, <3>1
      <4> QED BY <1>2, <2>1, <2>2, <2>3, <3>1, <4>1
    <3>3. Len(x) <= Len(y)
      BY <1>1, <2>1, <2>2, <2>3, <3>1
    <3> QED BY <3>2, <3>3 DEF RowsBelow, x, y
  <2>4. CASE b.level \notin 1 .. P /\ b.level \in 1 .. R
    <3>1. x = p
      BY <2>1, <2>4
    <3> HIDE DEF R
    <3>2. ASSUME NEW n \in 1 .. P PROVE x[n] = p[n] /\ y[n] = r[n]
      <4>1. n < b.level /\ n \in 1 .. Len(y)
        BY <1>1, <2>2, <2>4
      <4> QED BY <2>2, <2>4, <3>1, <4>1
    <3>3. Len(x) = P
      BY <3>1
    <3>4. Len(x) <= Len(y)
      <4> HIDE DEF P
      <4> QED BY <1>1, <2>2, <2>4, <3>3
    <3> QED BY <1>2, <3>2, <3>3, <3>4 DEF RowsBelow, x, y
  <2>5. CASE b.level \notin 1 .. P /\ b.level \notin 1 .. R
    BY <2>1, <2>2, <2>5 DEF x, y
  <2> QED BY <2>3, <2>4, <2>5
<1>8. CASE EffectiveAction(b) = "DeleteThru"
  <2>1. x = <<>> /\ y = <<>>
    BY <1>1, <1>8, SideThru
  <2> HIDE DEF x, y
  <2>2. RowsBelow(x, y)
    BY <2>1, EmptySeq DEF RowsBelow
  <2> QED BY <2>2 DEF x, y
<1>9. CASE EffectiveAction(b) \in {"New", "DeleteFrom"} /\ b.level \notin 1 .. limit
  BY <1>9, SideIgnored
<1> QED BY <1>1, <1>4, <1>5, <1>6, <1>7, <1>8, <1>9

\* ... and when both are trimmed.
LEMMA TrimBelow ==
  ASSUME NEW p \in Seq(Nat), NEW r \in Seq(Nat), NEW limit \in Nat, RowsBelow(p, r)
  PROVE  RowsBelow(Trim(p, limit), Trim(r, limit))
<1> DEFINE x == Trim(p, limit)
           y == Trim(r, limit)
<1>1. Len(p) \in Nat /\ Len(r) \in Nat /\ Len(p) <= Len(r)
  BY LenProperties DEF RowsBelow
<1>2. /\ Len(x) = IF Len(p) > limit THEN limit ELSE Len(p)
      /\ \A n \in 1 .. Len(x) : x[n] = p[n]
  BY TrimRows
<1>3. /\ Len(y) = IF Len(r) > limit THEN limit ELSE Len(r)
      /\ \A n \in 1 .. Len(y) : y[n] = r[n]
  BY TrimRows
<1> HIDE DEF x, y
<1>4. Len(x) <= Len(y) /\ Len(x) <= Len(p) /\ Len(x) \in Nat /\ Len(y) \in Nat
  BY <1>1, <1>2, <1>3
<1>5. ASSUME NEW n \in 1 .. Len(x) PROVE x[n] \in {y[n], Filler}
  <2>1. n \in 1 .. Len(p) /\ n \in 1 .. Len(y)
    BY <1>1, <1>4
  <2> QED BY <1>2, <1>3, <2>1 DEF RowsBelow
<1> QED BY <1>4, <1>5 DEF RowsBelow, x, y

\* A book that is the same but for missing rows and fillers stays so.
LEMMA BelowKept ==
  ASSUME NEW i \in Instruments, NEW w \in Work, NEW o \in ViewType,
         NEW b \in ViewType, Below(o, b)
  PROVE  Below(AfterWork(i, w, o), AfterWork(i, w, b))
<1>1. /\ o.marketDepth = b.marketDepth
      /\ \A side \in Sides : RowsBelow(o[side], b[side])
  BY DEF Below, RowsBelow
<1>2. \A x, y \in ViewType :
        x.marketDepth = y.marketDepth /\ (\A side \in Sides : RowsBelow(x[side], y[side]))
          => Below(x, y)
  BY DEF Below, RowsBelow
<1>3. AfterWork(i, w, o) \in ViewType /\ AfterWork(i, w, b) \in ViewType
  BY AfterWorkType
<1>4. CASE w.kind = "definition"
  <2> DEFINE d == w.of.depth
  <2>1. d \in 1 .. MaxDepth /\ d \in Nat
    BY <1>4, LevelsAreNumbers DEF Work, Instrument
  <2> HIDE DEF d
  <2>2. Below(Shrink(o, d), Shrink(b, d))
    <3>1. /\ Shrink(o, d) \in ViewType /\ Shrink(b, d) \in ViewType
          /\ Shrink(o, d).marketDepth = d /\ Shrink(b, d).marketDepth = d
          /\ Shrink(o, d).bid = Trim(o.bid, d) /\ Shrink(b, d).bid = Trim(b.bid, d)
          /\ Shrink(o, d).ask = Trim(o.ask, d) /\ Shrink(b, d).ask = Trim(b.ask, d)
      BY <2>1, ShrinkView
    <3>2. \A side \in Sides : o[side] \in Seq(Nat) /\ b[side] \in Seq(Nat)
      BY ViewFacts
    <3>3. \A side \in Sides : RowsBelow(Trim(o[side], d), Trim(b[side], d))
      BY <1>1, <2>1, <3>2, TrimBelow
    <3>4. \A side \in Sides : RowsBelow(Shrink(o, d)[side], Shrink(b, d)[side])
      BY <3>1, <3>3 DEF Sides
    <3> QED BY <1>2, <3>1, <3>4
  <2>3. Below(Create(d), Create(d))
    BY EmptySeq DEF Below, Create, Sides
  <2> QED BY <1>1, <1>4, <2>2, <2>3 DEF AfterWork, AfterDefinition, d
<1>5. CASE w.kind \in {"recovery", "increment"}
  <2> DEFINE e == w.of
  <2>1. e \in Book
    BY <1>5 DEF Work
  <2>2. AfterWork(i, w, o) = AfterEntry(i, e, o) /\ AfterWork(i, w, b) = AfterEntry(i, e, b)
    BY <1>5 DEF AfterWork
  <2> HIDE DEF e
  <2>3. CASE e.entry = "reset"
    <3> DEFINE ro == [o EXCEPT !.bid = <<>>, !.ask = <<>>]
               rb == [b EXCEPT !.bid = <<>>, !.ask = <<>>]
    <3>1. /\ ro.marketDepth = o.marketDepth /\ ro.bid = <<>> /\ ro.ask = <<>>
          /\ rb.marketDepth = b.marketDepth /\ rb.bid = <<>> /\ rb.ask = <<>>
          /\ ro \in ViewType /\ rb \in ViewType
      BY ResetView, Zenon
    <3>2. AfterEntry(i, e, o) = ro /\ AfterEntry(i, e, b) = rb
      BY <2>3 DEF AfterEntry
    <3> HIDE DEF ro, rb
    <3>3. Below(ro, rb)
      BY <1>1, <3>1, EmptySeq DEF Below, Sides
    <3> QED BY <2>2, <3>2, <3>3
  <2>4. CASE e.entry # "reset"
               /\ ~(e.entry \in Sides /\ e.inst = i /\ o.marketDepth # Unlisted)
    <3>1. AfterEntry(i, e, o) = o /\ AfterEntry(i, e, b) = b
      BY <1>1, <2>1, <2>4, EntrySide
    <3> QED BY <2>2, <3>1
  <2>5. CASE e.entry \in Sides /\ e.inst = i /\ o.marketDepth # Unlisted
    <3> DEFINE D == o.marketDepth
               x == SideAfter(e, o[e.entry], D)
               y == SideAfter(e, b[e.entry], D)
    <3>2. /\ D \in Nat /\ o[e.entry] \in Seq(Nat) /\ b[e.entry] \in Seq(Nat)
          /\ Len(o[e.entry]) <= D /\ Len(b[e.entry]) <= D
      BY <1>1, <2>5, ViewFacts
    <3>3. RowsBelow(x, y) /\ x \in Seq(Nat) /\ y \in Seq(Nat) /\ Len(x) <= D /\ Len(y) <= D
      <4>1. RowsBelow(o[e.entry], b[e.entry])
        BY <1>1, <2>5
      <4> HIDE DEF D
      <4> QED BY <2>1, <3>2, <4>1, SideBelow, SideType
    <3> HIDE DEF x, y
    <3> DEFINE X == AfterEntry(i, e, o)
               Y == AfterEntry(i, e, b)
    <3>4. /\ X \in ViewType /\ X.marketDepth = D /\ X[e.entry] = x
          /\ \A side \in Sides : side # e.entry => X[side] = o[side]
      BY <2>1, <2>5, EntryView DEF x
    <3>5. /\ Y \in ViewType /\ Y.marketDepth = D /\ Y[e.entry] = y
          /\ \A side \in Sides : side # e.entry => Y[side] = b[side]
      BY <1>1, <2>1, <2>5, EntryView DEF y
    <3> HIDE DEF D, X, Y
    <3>6. Below(X, Y)
      BY <1>1, <1>2, <3>3, <3>4, <3>5
    <3> QED BY <2>2, <3>6 DEF X, Y
  <2> QED BY <2>3, <2>4, <2>5
<1>6. CASE ~(w.kind \in {"definition", "recovery", "increment"})
  BY <1>6 DEF AfterWork
<1> QED BY <1>4, <1>5, <1>6

-----------------------------------------------------------------------------
(* What the exchange publishes leads from what it showed to what it shows.  *)

\* A message leads from the views v to the views w.
Carries(m, v, w) ==
  IF m.type = "X" THEN
    \A i \in Instruments :
      /\ w[i].marketDepth = v[i].marketDepth
      /\ Leads(i, Increments(m.books, {}), v[i], w[i])
  ELSE
    \E d \in Instrument :
      /\ m.instruments = <<d>>
      /\ \A i \in Instruments \ {d.inst} : w[i] = v[i]
      /\ \/ d.update = "A" /\ v[d.inst] = NoBook /\ w[d.inst] = Create(d.depth)
         \/ /\ d.update = "M" /\ v[d.inst].marketDepth # Unlisted
            /\ d.depth # v[d.inst].marketDepth
            /\ w[d.inst] = Shrink(v[d.inst], d.depth)
         \/ d.update = "D" /\ v[d.inst].marketDepth # Unlisted /\ w[d.inst] = NoBook

\* Rows that agree at every level are the same.
LEMMA SameRows ==
  ASSUME NEW p \in Seq(Nat), NEW r \in Seq(Nat), Len(p) = Len(r),
         \A n \in 1 .. Len(p) : p[n] = r[n]
  PROVE  p = r
BY SeqEqual

\* The iterations of Parse_to_send, one for each entry.
LEMMA IncrementsType ==
  ASSUME NEW books \in Seq(Book), NEW past
  PROVE  /\ Increments(books, past) \in Seq(Work)
         /\ Len(Increments(books, past)) = Len(books) /\ Len(books) \in Nat
         /\ \A n \in 1 .. Len(books) :
              /\ Increments(books, past)[n].of = books[n] /\ books[n] \in Book
              /\ Increments(books, past)[n].kind
                   = IF books[n].inst \in past THEN "past" ELSE "increment"
<1> DEFINE one(n) == [kind |-> IF books[n].inst \in past THEN "past" ELSE "increment",
                      of |-> books[n]]
<1>1. DOMAIN books = 1 .. Len(books) /\ Len(books) \in Nat
  BY LenProperties
<1>2. \A n \in 1 .. Len(books) : books[n] \in Book
  BY <1>1, ElementOfSeq
<1>3. Increments(books, past) = [n \in 1 .. Len(books) |-> one(n)]
  BY <1>1 DEF Increments
<1>4. \A n \in 1 .. Len(books) : one(n) \in Work
  BY <1>2 DEF Work
<1>5. \A n \in 1 .. Len(books) :
        /\ one(n).of = books[n]
        /\ one(n).kind = IF books[n].inst \in past THEN "past" ELSE "increment"
  OBVIOUS
<1> HIDE DEF one
<1>6. /\ Increments(books, past) \in Seq(Work)
      /\ Len(Increments(books, past)) = Len(books)
  BY <1>1, <1>3, <1>4, IsASeq
<1> QED BY <1>1, <1>2, <1>3, <1>5, <1>6

\* The entries of a message, one after the other.
LEMMA EntriesLead ==
  ASSUME NEW i \in Instruments, NEW books \in Seq(Book),
         NEW t \in [0 .. Len(books) -> ViewType],
         \A n \in 1 .. Len(books) : t[n] = AfterEntry(i, books[n], t[n - 1])
  PROVE  Leads(i, Increments(books, {}), t[0], t[Len(books)])
<1> DEFINE ws == Increments(books, {})
<1>1. /\ Len(ws) = Len(books) /\ Len(books) \in Nat
      /\ \A n \in 1 .. Len(books) : ws[n].of = books[n] /\ ws[n].kind = "increment"
  BY IncrementsType
<1> HIDE DEF ws
<1>2. \A n \in 1 .. Len(ws) : t[n] = AfterWork(i, ws[n], t[n - 1])
  BY <1>1 DEF AfterWork
<1>3. Leads(i, ws, t[0], t[Len(ws)])
  BY <1>1, <1>2 DEF Leads
<1> QED BY <1>1, <1>3 DEF ws

\* Entries about other books.
LEMMA OthersLead ==
  ASSUME NEW k \in Instruments, NEW books \in Seq(Book),
         \A n \in 1 .. Len(books) : books[n].entry # "reset" /\ books[n].inst # k,
         NEW x \in ViewType
  PROVE  Leads(k, Increments(books, {}), x, x)
<1> DEFINE L == Len(books)
           c == [n \in 0 .. L |-> x]
<1>1. L \in Nat /\ \A n \in 1 .. L : books[n] \in Book
  BY LenProperties, ElementOfSeq
<1>2. c \in [0 .. L -> ViewType] /\ \A n \in 0 .. L : c[n] = x
  OBVIOUS
<1> HIDE DEF c
<1>3. ASSUME NEW n \in 1 .. L PROVE c[n] = AfterEntry(k, books[n], c[n - 1])
  <2>1. n \in 0 .. L /\ n - 1 \in 0 .. L
    BY <1>1
  <2>2. AfterEntry(k, books[n], x) = x
    <3>1. /\ books[n] \in Book /\ books[n].entry # "reset" /\ books[n].inst # k
      BY <1>1
    <3> QED BY <3>1, EntrySide
  <2> QED BY <1>2, <2>1, <2>2
<1>4. Leads(k, Increments(books, {}), c[0], c[L])
  BY <1>2, <1>3, EntriesLead
<1> QED BY <1>1, <1>2, <1>4

\* The entries are all about one side of one book.
LEMMA SideLeads ==
  ASSUME NEW i \in Instruments, NEW side \in Sides, NEW books \in Seq(Book),
         \A n \in 1 .. Len(books) : books[n].entry = side /\ books[n].inst = i,
         NEW bs \in ViewType, bs.marketDepth # Unlisted,
         NEW t \in [0 .. Len(books) -> Seq(Nat)], t[0] = bs[side],
         \A n \in 0 .. Len(books) : Len(t[n]) <= bs.marketDepth,
         \A n \in 1 .. Len(books) :
           t[n] = SideAfter(books[n], t[n - 1], bs.marketDepth),
         NEW new, new = WithSide(bs, side, t[Len(books)])
  PROVE  Leads(i, Increments(books, {}), bs, new)
<1> DEFINE L == Len(books)
           u == [n \in 0 .. L |-> WithSide(bs, side, t[n])]
<1>1. L \in Nat /\ \A n \in 1 .. L : books[n] \in Book
  BY LenProperties, ElementOfSeq
<1>2. \A n \in 0 .. L : t[n] \in Seq(Nat)
  OBVIOUS
<1>3. ASSUME NEW n \in 0 .. L
      PROVE  /\ u[n] \in ViewType /\ u[n].marketDepth = bs.marketDepth
             /\ u[n][side] = t[n] /\ u[n] = WithSide(bs, side, t[n])
             /\ \A later : WithSide(u[n], side, later) = WithSide(bs, side, later)
  <2>1. u[n] = WithSide(bs, side, t[n])
    OBVIOUS
  <2> HIDE DEF u
  <2> QED BY <1>2, <2>1, WithSideFacts
<1>4. u[0] = bs
  <2>1. u[0] = WithSide(bs, side, bs[side])
    BY <1>1
  <2> HIDE DEF u
  <2>2. bs[side] \in Seq(Nat) /\ Len(bs[side]) <= bs.marketDepth
    BY ViewFacts
  <2> QED BY <2>1, <2>2, WithSideFacts
<1>5. u[L] = new
  BY <1>1
<1>6. u \in [0 .. L -> ViewType]
  <2>1. u = [n \in 0 .. L |-> u[n]]
    OBVIOUS
  <2> HIDE DEF u
  <2> QED BY <1>3, <2>1
<1>7. ASSUME NEW n \in 1 .. L
      PROVE  u[n] = AfterEntry(i, books[n], u[n - 1])
  <2>1. n - 1 \in 0 .. L /\ n \in 0 .. L
    BY <1>1
  <2> HIDE DEF u
  <2>2. AfterEntry(i, books[n], u[n - 1])
          = WithSide(u[n - 1], side, SideAfter(books[n], t[n - 1], bs.marketDepth))
    <3>1. /\ books[n] \in Book /\ books[n].entry = side /\ books[n].inst = i
          /\ u[n - 1] \in ViewType /\ u[n - 1].marketDepth = bs.marketDepth
          /\ u[n - 1][side] = t[n - 1]
      BY <1>1, <1>3, <2>1
    <3> QED BY <3>1, EntrySide
  <2> QED BY <1>3, <2>1, <2>2
<1> HIDE DEF u
<1>8. Leads(i, Increments(books, {}), bs, new)
  BY <1>4, <1>5, <1>6, <1>7, EntriesLead
<1> QED BY <1>8

\* One side of one full book changes: what is shown of it.
LEMMA ShownSide ==
  ASSUME NEW fs \in [Instruments -> Side], NEW ds,
         NEW i \in Instruments, NEW side \in Sides, NEW rows, NEW gs,
         gs[i][side] = rows,
         \A other \in Sides : other # side => gs[i][other] = fs[i][other],
         \A k \in Instruments \ {i} : gs[k] = fs[k]
  PROVE  /\ Shown(gs, ds, i) = WithSide(Shown(fs, ds, i), side, View(rows, ds[i]))
         /\ \A k \in Instruments \ {i} : Shown(gs, ds, k) = Shown(fs, ds, k)
         /\ Shown(fs, ds, i)[side] = View(fs[i][side], ds[i])
<1>1. CASE side = "bid"
  <2>1. gs[i].bid = rows /\ gs[i].ask = fs[i].ask
    BY <1>1 DEF Sides
  <2> QED BY <1>1, <2>1 DEF Shown, WithSide
<1>2. CASE side = "ask"
  <2>1. gs[i].ask = rows /\ gs[i].bid = fs[i].bid
    BY <1>2 DEF Sides
  <2> QED BY <1>2, <2>1 DEF Shown, WithSide
<1> QED BY <1>1, <1>2 DEF Sides

\* What is shown when one side of a full book changes.
LEMMA ShownNext ==
  ASSUME MarketTypes, NEW i \in Instruments, NEW side \in Sides, NEW rows,
         full'[i][side] = rows,
         \A other \in Sides : other # side => full'[i][other] = full[i][other],
         \A k \in Instruments \ {i} : full'[k] = full[k],
         depth' = depth
  PROVE  /\ ShownNow'[i] = WithSide(ShownNow[i], side, View(rows, depth[i]))
         /\ \A k \in Instruments \ {i} : ShownNow'[k] = ShownNow[k]
         /\ ShownNow[i][side] = View(full[i][side], depth[i])
         /\ ShownNow[i].marketDepth = depth[i]
         /\ \A k \in Instruments : ShownNow[k] \in ViewType
<1>1. /\ full \in [Instruments -> Side] /\ depth \in [Instruments -> 0 .. MaxDepth]
      /\ \A k \in Instruments : /\ ShownNow[k] = Shown(full, depth, k)
                                /\ ShownNow'[k] = Shown(full', depth, k)
  BY DEF MarketTypes, ShownNow
<1> DEFINE gs == full'
<1>2. /\ gs[i][side] = rows
      /\ \A other \in Sides : other # side => gs[i][other] = full[i][other]
      /\ \A k \in Instruments \ {i} : gs[k] = full[k]
  OBVIOUS
<1> HIDE DEF gs
<1>3. Shown(gs, depth, i) = WithSide(Shown(full, depth, i), side, View(rows, depth[i]))
  BY <1>1, <1>2, ShownSide
<1>4. \A k \in Instruments \ {i} : Shown(gs, depth, k) = Shown(full, depth, k)
  BY <1>1, <1>2, ShownSide, SMTT(60)
<1>5. Shown(full, depth, i)[side] = View(full[i][side], depth[i])
  BY <1>1, <1>2, ShownSide
<1>6. \A k \in Instruments : Shown(full, depth, k) \in ViewType
  BY <1>1, ShownType
<1>7. Shown(full, depth, i).marketDepth = depth[i]
  BY DEF Shown
<1> QED BY <1>1, <1>3, <1>4, <1>5, <1>6, <1>7 DEF gs

\* A row inserted into a side without a gap.
LEMMA SideInserted ==
  ASSUME NEW v \in Seq(Nat), NEW limit \in Nat, Len(v) <= limit,
         NEW b \in Book, EffectiveAction(b) = "New", NEW level \in 1 .. limit,
         b.level = level, level <= Len(v) + 1, NEW row, b.row = row,
         NEW z, z = SideAfter(b, v, limit)
  PROVE  /\ Len(z) = IF Len(v) + 1 > limit THEN limit ELSE Len(v) + 1
         /\ \A n \in 1 .. Len(z) :
              z[n] = IF n < level THEN IF n <= Len(v) THEN v[n] ELSE Filler
                     ELSE IF n = level THEN row ELSE v[n - 1]
<1>1. b.level \in 1 .. limit
  OBVIOUS
<1>2. LET size == IF b.level <= Len(v) + 1 THEN Len(v) + 1 ELSE b.level
      IN  Len(z) = IF size > limit THEN limit ELSE size
  BY <1>1, SideNew
<1>3. \A n \in 1 .. Len(z) :
         z[n] = IF n < b.level THEN IF n <= Len(v) THEN v[n] ELSE Filler
                ELSE IF n = b.level THEN b.row ELSE v[n - 1]
  BY <1>1, SideNew
<1> QED BY <1>2, <1>3

\* What the actions of the exchange make of the rows of a side.
Inserts(all, rows, level, row) ==
  /\ Len(all) = Len(rows) + 1
  /\ \A n \in 1 .. Len(rows) + 1 :
       all[n] = IF n < level THEN rows[n] ELSE IF n = level THEN row ELSE rows[n - 1]

\* ... one row is another one
Amends(all, rows, level, row) ==
  /\ Len(all) = Len(rows)
  /\ \A n \in 1 .. Len(rows) : all[n] = IF n = level THEN row ELSE rows[n]

\* ... one row is gone
Removes(all, rows, level) ==
  /\ Len(all) = Len(rows) - 1
  /\ \A n \in 1 .. Len(rows) - 1 : all[n] = IF n < level THEN rows[n] ELSE rows[n + 1]

\* ... the first rows are gone
Sweeps(all, rows, level) ==
  /\ Len(all) = Len(rows) - level
  /\ \A n \in 1 .. Len(all) : all[n] = rows[n + level]

\* A new row, as it is shown.
LEMMA NewShown ==
  ASSUME NEW rows \in Seq(Nat), NEW all \in Seq(Nat), NEW limit \in Nat,
         NEW level \in Nat, level >= 1, level <= Len(rows) + 1, level <= limit,
         NEW row \in Nat, Inserts(all, rows, level, row),
         NEW b \in Book, EffectiveAction(b) = "New", b.level = level, b.row = row
  PROVE  SideAfter(b, View(rows, limit), limit) = View(all, limit)
<1>0. /\ Len(all) = Len(rows) + 1
      /\ \A n \in 1 .. Len(rows) + 1 :
           all[n] = IF n < level THEN rows[n] ELSE IF n = level THEN row
                                                   ELSE rows[n - 1]
  BY DEF Inserts
<1> USE <1>0
<1> DEFINE v == View(rows, limit)
           w == View(all, limit)
           z == SideAfter(b, v, limit)
<1>1. /\ v \in Seq(Nat) /\ Len(v) = IF Len(rows) < limit THEN Len(rows) ELSE limit
      /\ \A n \in 1 .. Len(v) : v[n] = rows[n]
  BY ViewRows
<1>2. /\ w \in Seq(Nat) /\ Len(w) = IF Len(all) < limit THEN Len(all) ELSE limit
      /\ \A n \in 1 .. Len(w) : w[n] = all[n]
  BY ViewRows
<1> HIDE DEF v, w
<1>3. Len(rows) \in Nat /\ Len(v) \in Nat /\ Len(v) <= limit
  BY <1>1, LenProperties
<1>4. z \in Seq(Nat)
  BY <1>1, <1>3, SideType
<1>5. b.level <= Len(v) + 1
  BY <1>1, <1>3
<1>6. /\ Len(z) = IF Len(v) + 1 > limit THEN limit ELSE Len(v) + 1
      /\ \A n \in 1 .. Len(z) :
           z[n] = IF n < level THEN IF n <= Len(v) THEN v[n] ELSE Filler
                  ELSE IF n = level THEN row ELSE v[n - 1]
  <2> HIDE DEF z
  <2>1. /\ v \in Seq(Nat) /\ Len(v) <= limit /\ level \in 1 .. limit
        /\ level <= Len(v) + 1 /\ z = SideAfter(b, v, limit)
    BY <1>1, <1>3, <1>5 DEF z
  <2>2. Len(z) = IF Len(v) + 1 > limit THEN limit ELSE Len(v) + 1
    BY <2>1, SideInserted
  <2>3. \A n \in 1 .. Len(z) :
          z[n] = IF n < level THEN IF n <= Len(v) THEN v[n] ELSE Filler
                 ELSE IF n = level THEN row ELSE v[n - 1]
    BY <2>1, SideInserted, SMTT(60)
  <2> QED BY <2>2, <2>3
<1> HIDE DEF z
<1>7. Len(z) = Len(w) /\ Len(z) \in Nat /\ Len(z) <= Len(v) + 1 /\ Len(z) <= Len(rows) + 1
  <2>1. /\ Len(v) = IF Len(rows) < limit THEN Len(rows) ELSE limit
        /\ Len(w) = IF Len(all) < limit THEN Len(all) ELSE limit
        /\ Len(z) = IF Len(v) + 1 > limit THEN limit ELSE Len(v) + 1
        /\ Len(all) = Len(rows) + 1 /\ limit \in Nat
    BY <1>1, <1>2, <1>6
  <2> QED BY ONLY <1>3, <2>1
<1>8. ASSUME NEW n \in 1 .. Len(z) PROVE z[n] = w[n]
  <2>1. n \in 1 .. Len(w) /\ n \in 1 .. Len(rows) + 1
    BY <1>3, <1>7
  <2>2. w[n] = IF n < level THEN rows[n] ELSE IF n = level THEN row ELSE rows[n - 1]
    BY <1>2, <2>1
  <2>3. n < level => n \in 1 .. Len(v)
    BY <1>3, <1>5, <2>1
  <2>4. ~(n < level) /\ n # level => n - 1 \in 1 .. Len(v)
    BY <1>3, <1>7, <2>1
  <2> QED BY <1>1, <1>6, <2>2, <2>3, <2>4, SMTT(40)
<1>9. z = w
  BY <1>2, <1>4, <1>7, <1>8, SameRows
<1> QED BY <1>9 DEF v, w, z

\* The iterations of two lists of entries, one behind the other.
LEMMA IncrementsOn ==
  ASSUME NEW a \in Seq(Book), NEW b \in Seq(Book), NEW past
  PROVE  Increments(a \o b, past) = Increments(a, past) \o Increments(b, past)
<1> DEFINE x == Increments(a \o b, past)
           p == Increments(a, past)
           q == Increments(b, past)
           one(e) == [kind |-> IF e.inst \in past THEN "past" ELSE "increment", of |-> e]
<1>1. /\ a \o b \in Seq(Book) /\ Len(a) \in Nat /\ Len(b) \in Nat
      /\ Len(a \o b) = Len(a) + Len(b)
      /\ \A n \in 1 .. Len(a) + Len(b) :
           (a \o b)[n] = IF n <= Len(a) THEN a[n] ELSE b[n - Len(a)]
  BY ConcatProperties, LenProperties
<1>2. \A s \in Seq(Book) :
        /\ Increments(s, past) \in Seq(Work) /\ Len(Increments(s, past)) = Len(s)
        /\ \A n \in 1 .. Len(s) : Increments(s, past)[n] = one(s[n])
  <2> SUFFICES ASSUME NEW s \in Seq(Book)
               PROVE  /\ Increments(s, past) \in Seq(Work)
                      /\ Len(Increments(s, past)) = Len(s)
                      /\ \A n \in 1 .. Len(s) : Increments(s, past)[n] = one(s[n])
    OBVIOUS
  <2>1. \A n \in DOMAIN s : Increments(s, past)[n] = one(s[n])
    BY DEF Increments
  <2>2. DOMAIN s = 1 .. Len(s)
    BY LenProperties
  <2> QED BY <2>1, <2>2, IncrementsType
<1>3. x \in Seq(Work) /\ p \in Seq(Work) /\ q \in Seq(Work)
      /\ Len(x) = Len(a) + Len(b) /\ Len(p) = Len(a) /\ Len(q) = Len(b)
  BY <1>1, <1>2
<1>4. /\ p \o q \in Seq(Work) /\ Len(p \o q) = Len(a) + Len(b)
      /\ \A n \in 1 .. Len(a) + Len(b) :
           (p \o q)[n] = IF n <= Len(a) THEN p[n] ELSE q[n - Len(a)]
  BY <1>3, ConcatProperties
<1>5. ASSUME NEW n \in 1 .. Len(a) + Len(b) PROVE x[n] = (p \o q)[n]
  <2>1. x[n] = one((a \o b)[n])
    BY <1>1, <1>2
  <2>2. CASE n <= Len(a)
    <3>1. n \in 1 .. Len(a)
      BY <1>1, <2>2
    <3>2. p[n] = one(a[n])
      BY <1>2, <3>1
    <3> HIDE DEF p, q, x, one
    <3> QED BY <1>1, <1>4, <2>1, <2>2, <3>2
  <2>3. CASE ~(n <= Len(a))
    <3>1. n - Len(a) \in 1 .. Len(b)
      BY <1>1, <2>3
    <3>2. q[n - Len(a)] = one(b[n - Len(a)])
      BY <1>2, <3>1
    <3> HIDE DEF p, q, x, one
    <3> QED BY <1>1, <1>4, <2>1, <2>3, <3>2
  <2> QED BY <2>2, <2>3
<1> HIDE DEF x, p, q
<1>6. x = p \o q
  BY <1>3, <1>4, <1>5, SeqEqual
<1> QED BY <1>6 DEF x, p, q

\* A message of two parts.
LEMMA PartsLead ==
  ASSUME NEW i \in Instruments, NEW a \in Seq(Book), NEW b \in Seq(Book),
         NEW from, NEW mid, NEW to,
         Leads(i, Increments(a, {}), from, mid), Leads(i, Increments(b, {}), mid, to)
  PROVE  Leads(i, Increments(a \o b, {}), from, to)
<1>1. Increments(a, {}) \in Seq(Work) /\ Increments(b, {}) \in Seq(Work)
  BY IncrementsType
<1>2. Increments(a \o b, {}) = Increments(a, {}) \o Increments(b, {})
  BY IncrementsOn
<1> QED BY <1>1, <1>2, LeadsOn

\* A message of one entry.
LEMMA OneLeads ==
  ASSUME NEW i \in Instruments, NEW b \in Book, NEW bs \in ViewType
  PROVE  Leads(i, Increments(<<b>>, {}), bs, AfterEntry(i, b, bs))
<1> DEFINE w == [kind |-> "increment", of |-> b]
<1>1. w \in Work
  BY DEF Work
<1>2. Increments(<<b>>, {}) = <<w>>
  BY DEF Increments
<1>3. AfterWork(i, w, bs) = AfterEntry(i, b, bs)
  BY DEF AfterWork
<1> HIDE DEF w
<1> QED BY <1>1, <1>2, <1>3, LeadsOne

\* The next row comes into view.
LEMMA RowRevealed ==
  ASSUME NEW rows \in Seq(Nat), NEW next \in Seq(Nat), NEW limit \in Nat,
         NEW k \in Nat, k >= 1, k <= limit, Len(rows) = k - 1, Len(next) = k,
         \A j \in 1 .. k - 1 : next[j] = rows[j],
         NEW b \in Book, EffectiveAction(b) = "New", b.level = k, b.row = next[k]
  PROVE  SideAfter(b, rows, limit) = next
<1> SUFFICES ASSUME NEW z, z = SideAfter(b, rows, limit) PROVE z = next
  OBVIOUS
<1>1. Len(rows) <= limit /\ b.level \in 1 .. limit /\ b.level <= Len(rows) + 1
  OBVIOUS
<1>2. z \in Seq(Nat)
  BY <1>1, SideType
<1>3. LET size == IF b.level <= Len(rows) + 1 THEN Len(rows) + 1 ELSE b.level
      IN  Len(z) = IF size > limit THEN limit ELSE size
  BY <1>1, SideNew
<1>4. \A n \in 1 .. Len(z) :
        z[n] = IF n < b.level THEN IF n <= Len(rows) THEN rows[n] ELSE Filler
               ELSE IF n = b.level THEN b.row ELSE rows[n - 1]
  BY <1>1, SideNew, SMTT(40)
<1>5. Len(z) = k
  BY <1>1, <1>3
<1>6. \A n \in 1 .. k : z[n] = next[n]
  BY <1>4, <1>5
<1> QED BY <1>2, <1>5, <1>6, SameRows

\* The entries of the rows that come into view, from a level on.
Reveals(books, i, side, w, from) ==
  /\ Len(books) = Len(w) + 1 - from
  /\ \A n \in 1 .. Len(books) :
       /\ books[n].entry = side /\ books[n].inst = i
       /\ EffectiveAction(books[n]) = "New"
       /\ books[n].level = from - 1 + n /\ books[n].row = w[from - 1 + n]

\* Entries that reveal the rows from a level on fill the side up.
LEMMA RowsLead ==
  ASSUME NEW i \in Instruments, NEW side \in Sides, NEW w \in Seq(Nat),
         NEW bs \in ViewType, bs.marketDepth # Unlisted, Len(w) <= bs.marketDepth,
         NEW from \in Nat, from >= 1, from <= Len(w) + 1,
         NEW books \in Seq(Book), Reveals(books, i, side, w, from)
  PROVE  Leads(i, Increments(books, {}), WithSide(bs, side, View(w, from - 1)),
               WithSide(bs, side, w))
<1> DEFINE D == bs.marketDepth
           L == Len(books)
           t == [n \in 0 .. L |-> View(w, from - 1 + n)]
           old == WithSide(bs, side, View(w, from - 1))
           new == WithSide(bs, side, w)
<1>1. Len(w) \in Nat /\ D \in Nat /\ L \in Nat /\ Len(w) <= D /\ L = Len(w) + 1 - from
  BY LenProperties, ViewFacts DEF Reveals
<1> HIDE DEF D, L
<1>2. ASSUME NEW k \in Nat, k <= Len(w)
      PROVE  /\ View(w, k) \in Seq(Nat) /\ Len(View(w, k)) = k
             /\ \A n \in 1 .. k : View(w, k)[n] = w[n]
  <2> DEFINE x == View(w, k)
  <2>1. /\ x \in Seq(Nat)
        /\ Len(x) = IF Len(w) < k THEN Len(w) ELSE k
        /\ \A n \in 1 .. Len(x) : x[n] = w[n]
    BY ViewRows
  <2> HIDE DEF x
  <2>2. Len(x) = k
    BY <1>1, <1>2, <2>1
  <2> QED BY <2>1, <2>2 DEF x
<1>3. ASSUME NEW n \in 0 .. L
      PROVE  /\ from - 1 + n \in Nat /\ from - 1 + n <= Len(w)
             /\ from - 1 + n <= D
  BY <1>1
<1>4. ASSUME NEW n \in 0 .. L
      PROVE  t[n] = View(w, from - 1 + n) /\ t[n] \in Seq(Nat)
             /\ Len(t[n]) = from - 1 + n
  <2>1. t[n] = View(w, from - 1 + n)
    OBVIOUS
  <2> HIDE DEF t
  <2> QED BY <1>2, <1>3, <2>1
<1>5. t[L] = w
  <2>1. from - 1 + L = Len(w) /\ L \in 0 .. L
    BY <1>1
  <2>2. t[L] = View(w, Len(w))
    BY <1>4, <2>1
  <2>3. Len(w) <= Len(w)
    BY <1>1
  <2>4. /\ View(w, Len(w)) \in Seq(Nat) /\ Len(View(w, Len(w))) = Len(w)
        /\ \A n \in 1 .. Len(w) : View(w, Len(w))[n] = w[n]
    BY <1>1, <1>2, <2>3
  <2>5. View(w, Len(w)) = w
    BY <2>4, SameRows
  <2> QED BY <2>2, <2>5
<1>6. t[0] = View(w, from - 1)
  <2>1. 0 \in 0 .. L /\ from - 1 + 0 = from - 1
    BY <1>1
  <2> QED BY <1>4, <2>1
<1>7. t \in [0 .. L -> Seq(Nat)]
  <2>1. t = [n \in 0 .. L |-> t[n]]
    OBVIOUS
  <2> HIDE DEF t
  <2> QED BY <1>4, <2>1
<1> HIDE DEF t
<1>8. ASSUME NEW n \in 1 .. L
      PROVE  t[n] = SideAfter(books[n], t[n - 1], D)
  <2> DEFINE k == from - 1 + n
             rows == t[n - 1]
             b == books[n]
  <2>1. /\ k \in 1 .. Len(w) /\ k - 1 \in Nat /\ k \in Nat /\ k - 1 <= Len(w)
        /\ from - 1 + (n - 1) = k - 1 /\ n - 1 \in 0 .. L /\ n \in 0 .. L
        /\ k <= D
    BY <1>1
  <2>2. b \in Book
    BY ElementOfSeq DEF L
  <2>3. EffectiveAction(b) = "New" /\ b.level = k /\ b.row = w[k]
    BY DEF L, Reveals
  <2>4. rows = View(w, k - 1) /\ t[n] = View(w, k)
    <3> HIDE DEF k
    <3> QED BY <1>4, <2>1 DEF k
  <2> HIDE DEF k, b, rows
  <2>5. /\ rows \in Seq(Nat) /\ Len(rows) = k - 1
        /\ \A j \in 1 .. k - 1 : rows[j] = w[j]
    BY <1>2, <2>1, <2>4
  <2> DEFINE next == t[n]
  <2>6. /\ next \in Seq(Nat) /\ Len(next) = k
        /\ \A j \in 1 .. k : next[j] = w[j]
    BY <1>2, <2>1, <2>4
  <2> HIDE DEF next
  <2>7. /\ \A j \in 1 .. k - 1 : next[j] = rows[j]
        /\ b.row = next[k] /\ k >= 1
    <3>1. k >= 1 /\ k \in 1 .. k /\ \A j \in 1 .. k - 1 : j \in 1 .. k
      BY <1>1, <2>1
    <3>2. \A j \in 1 .. k - 1 : next[j] = rows[j]
      BY <2>5, <2>6, <3>1
    <3> QED BY <2>3, <2>6, <3>1, <3>2
  <2>8. SideAfter(b, rows, D) = next
    <3>1. rows \in Seq(Nat) /\ next \in Seq(Nat) /\ D \in Nat /\ b \in Book
      BY <1>1, <2>2, <2>5, <2>6
    <3>2. k \in Nat /\ k >= 1 /\ k <= D /\ Len(rows) = k - 1 /\ Len(next) = k
      BY <2>1, <2>5, <2>6, <2>7
    <3>3. EffectiveAction(b) = "New" /\ b.level = k /\ b.row = next[k]
      BY <2>3, <2>7
    <3> QED BY ONLY <2>7, <3>1, <3>2, <3>3, RowRevealed, SMTT(40)
  <2> QED BY <2>8 DEF next, rows, b
<1>9. /\ old \in ViewType /\ old.marketDepth = D /\ old[side] = View(w, from - 1)
      /\ WithSide(old, side, w) = new
  <2>1. from - 1 \in Nat /\ from - 1 <= Len(w)
    BY <1>1
  <2>2. View(w, from - 1) \in Seq(Nat) /\ Len(View(w, from - 1)) = from - 1
    BY <1>2, <2>1
  <2>3. Len(View(w, from - 1)) <= bs.marketDepth
    BY <1>1, <2>1, <2>2 DEF D
  <2> QED BY <2>2, <2>3, WithSideFacts DEF D
<1>10. \A n \in 0 .. L : Len(t[n]) <= D
  BY <1>3, <1>4
<1> HIDE DEF old, new
<1>11. old.marketDepth # Unlisted
  BY <1>9 DEF D
<1>12. Leads(i, Increments(books, {}), old, new)
  <2>1. /\ t \in [0 .. Len(books) -> Seq(Nat)] /\ t[0] = old[side]
        /\ \A n \in 0 .. Len(books) : Len(t[n]) <= old.marketDepth
        /\ \A n \in 1 .. Len(books) : t[n] = SideAfter(books[n], t[n - 1], old.marketDepth)
        /\ new = WithSide(old, side, t[Len(books)])
    BY <1>5, <1>6, <1>7, <1>8, <1>9, <1>10 DEF L
  <2>2. \A n \in 1 .. Len(books) : books[n].entry = side /\ books[n].inst = i
    BY DEF Reveals
  <2> QED BY <1>9, <1>11, <2>1, <2>2, SideLeads, ZenonT(60)
<1> QED BY <1>12 DEF old, new

\* A message that is about one book.
LEMMA OneBook ==
  ASSUME NEW i \in Instruments, NEW v, NEW w,
         \A k \in Instruments : v[k] \in ViewType,
         \A k \in Instruments \ {i} : w[k] = v[k],
         w[i].marketDepth = v[i].marketDepth,
         NEW books \in Seq(Book),
         \A n \in 1 .. Len(books) : books[n].entry # "reset" /\ books[n].inst = i,
         Leads(i, Increments(books, {}), v[i], w[i]),
         NEW m, m.type = "X", m.books = books
  PROVE  Carries(m, v, w)
<1>1. ASSUME NEW k \in Instruments
      PROVE  /\ w[k].marketDepth = v[k].marketDepth
             /\ Leads(k, Increments(m.books, {}), v[k], w[k])
  <2>1. CASE k = i
    BY <2>1
  <2>2. CASE k # i
    <3>1. \A n \in 1 .. Len(books) : books[n].entry # "reset" /\ books[n].inst # k
      BY <2>2
    <3>2. Leads(k, Increments(books, {}), v[k], v[k])
      BY <3>1, OthersLead
    <3> QED BY <2>2, <3>2
  <2> QED BY <2>1, <2>2
<1> QED BY <1>1 DEF Carries

\* A message that empties the books of all instruments.
IsReset(m) == m.type = "X" /\ \E n \in DOMAIN m.books : m.books[n].entry = "reset"

\* A row that is changed, as it is shown.
LEMMA ChangeShown ==
  ASSUME NEW rows \in Seq(Nat), NEW limit \in Nat, NEW level \in 1 .. Len(rows),
         level <= limit, NEW row \in Nat, NEW all \in Seq(Nat),
         Amends(all, rows, level, row),
         NEW b \in Book, EffectiveAction(b) = "Change", b.level = level, b.row = row
  PROVE  SideAfter(b, View(rows, limit), limit) = View(all, limit)
<1>0. /\ Len(all) = Len(rows)
      /\ \A n \in 1 .. Len(rows) : all[n] = IF n = level THEN row ELSE rows[n]
  BY DEF Amends
<1> USE <1>0
<1> SUFFICES ASSUME NEW v, v = View(rows, limit), NEW w, w = View(all, limit),
                    NEW z, z = SideAfter(b, v, limit)
             PROVE  z = w
  OBVIOUS
<1>1. /\ v \in Seq(Nat) /\ Len(v) = IF Len(rows) < limit THEN Len(rows) ELSE limit
      /\ \A n \in 1 .. Len(v) : v[n] = rows[n]
  BY ViewRows
<1>2. /\ w \in Seq(Nat) /\ Len(w) = IF Len(all) < limit THEN Len(all) ELSE limit
      /\ \A n \in 1 .. Len(w) : w[n] = all[n]
  BY ViewRows
<1>3. Len(rows) \in Nat /\ Len(v) <= limit
  BY <1>1, LenProperties
<1>4. z \in Seq(Nat)
  BY <1>1, <1>3, SideType
<1>5. /\ Len(z) = Len(v)
      /\ \A n \in 1 .. Len(v) : z[n] = IF n = b.level THEN b.row ELSE v[n]
  <2>1. /\ EffectiveAction(b) = "Change" /\ z = SideAfter(b, v, limit)
        /\ v \in Seq(Nat) /\ Len(v) <= limit
    BY <1>1, <1>3
  <2>2. Len(z) = Len(v)
    BY ONLY <2>1, SideChange
  <2>3. \A n \in 1 .. Len(v) : z[n] = IF n = b.level THEN b.row ELSE v[n]
    BY ONLY <2>1, SideChange
  <2> QED BY <2>2, <2>3
<1>6. Len(z) = Len(w)
  BY <1>1, <1>2, <1>5
<1>7. \A n \in 1 .. Len(v) : n \in 1 .. Len(rows)
  BY <1>1, <1>3
<1>8. \A n \in 1 .. Len(z) : z[n] = w[n]
  <2> SUFFICES ASSUME NEW n \in 1 .. Len(z) PROVE z[n] = w[n]
    OBVIOUS
  <2>1. n \in 1 .. Len(v) /\ n \in 1 .. Len(w) /\ n \in 1 .. Len(rows)
    BY ONLY <1>5, <1>6, <1>7, n \in 1 .. Len(z)
  <2>2. z[n] = IF n = b.level THEN b.row ELSE v[n]
    BY ONLY <1>5, <2>1
  <2>3. v[n] = rows[n] /\ w[n] = all[n]
    BY ONLY <1>1, <1>2, <2>1
  <2>4. all[n] = IF n = level THEN row ELSE rows[n]
    BY ONLY <1>0, <2>1
  <2> QED BY ONLY <2>2, <2>3, <2>4, b.level = level, b.row = row
<1> QED BY <1>2, <1>4, <1>6, <1>8, SameRows

\* A row that is removed: the one that comes into view is still missing.
LEMMA RemoveShown ==
  ASSUME NEW rows \in Seq(Nat), NEW limit \in Nat, NEW level \in 1 .. Len(rows),
         level <= limit, NEW all \in Seq(Nat), Removes(all, rows, level),
         NEW b \in Book, EffectiveAction(b) = "Delete", b.level = level
  PROVE  /\ Len(rows) <= limit =>
              SideAfter(b, View(rows, limit), limit) = View(all, limit)
         /\ Len(rows) > limit =>
              /\ SideAfter(b, View(rows, limit), limit) = View(View(all, limit), limit - 1)
              /\ Len(View(all, limit)) = limit
<1>0. /\ Len(all) = Len(rows) - 1
      /\ \A n \in 1 .. Len(rows) - 1 :
           all[n] = IF n < level THEN rows[n] ELSE rows[n + 1]
  BY DEF Removes
<1> USE <1>0
<1> SUFFICES ASSUME NEW v, v = View(rows, limit), NEW w, w = View(all, limit),
                    NEW z, z = SideAfter(b, v, limit)
             PROVE  /\ Len(rows) <= limit => z = w
                    /\ Len(rows) > limit => z = View(w, limit - 1) /\ Len(w) = limit
  OBVIOUS
<1>1. /\ v \in Seq(Nat) /\ Len(v) = IF Len(rows) < limit THEN Len(rows) ELSE limit
      /\ \A n \in 1 .. Len(v) : v[n] = rows[n]
  BY ViewRows
<1>2. /\ w \in Seq(Nat) /\ Len(w) = IF Len(all) < limit THEN Len(all) ELSE limit
      /\ \A n \in 1 .. Len(w) : w[n] = all[n]
  BY ViewRows
<1>3. Len(rows) \in Nat /\ Len(v) <= limit /\ Len(v) \in Nat /\ limit - 1 \in Nat
      /\ b.level \in 1 .. Len(v)
  BY <1>1, LenProperties
<1>4. z \in Seq(Nat)
  BY <1>1, <1>3, SideType
<1>5. /\ Len(z) = Len(v) - 1
      /\ \A n \in 1 .. Len(z) : z[n] = IF n < b.level THEN v[n] ELSE v[n + 1]
  <2>1. /\ EffectiveAction(b) = "Delete" /\ z = SideAfter(b, v, limit)
        /\ v \in Seq(Nat) /\ Len(v) <= limit /\ b.level \in 1 .. Len(v)
    BY <1>1, <1>3
  <2>2. Len(z) = Len(v) - 1
    BY ONLY <2>1, SideDelete, SMTT(40)
  <2>3. \A n \in 1 .. Len(z) : z[n] = IF n < b.level THEN v[n] ELSE v[n + 1]
    BY ONLY <2>1, SideDelete, SMTT(40)
  <2> QED BY <2>2, <2>3
<1>6. \A n \in 1 .. Len(z) :
        /\ n \in 1 .. Len(v) /\ n + 1 \in 1 .. Len(v) /\ n \in 1 .. Len(w)
        /\ n \in 1 .. Len(rows) - 1 /\ n <= limit - 1
  <2> SUFFICES ASSUME NEW n \in 1 .. Len(z)
               PROVE  /\ n \in 1 .. Len(v) /\ n + 1 \in 1 .. Len(v) /\ n \in 1 .. Len(w)
                      /\ n \in 1 .. Len(rows) - 1 /\ n <= limit - 1
    OBVIOUS
  <2>1. /\ Len(v) = IF Len(rows) < limit THEN Len(rows) ELSE limit
        /\ Len(w) = IF Len(all) < limit THEN Len(all) ELSE limit
        /\ Len(all) = Len(rows) - 1 /\ Len(z) = Len(v) - 1
        /\ Len(rows) \in Nat /\ limit \in Nat
    BY ONLY <1>0, <1>1, <1>2, <1>3, <1>5, limit \in Nat
  <2> QED BY ONLY <2>1, n \in 1 .. Len(z)
<1>7. \A n \in 1 .. Len(z) : z[n] = w[n]
  <2> SUFFICES ASSUME NEW n \in 1 .. Len(z) PROVE z[n] = w[n]
    OBVIOUS
  <2>1. /\ n \in 1 .. Len(v) /\ n + 1 \in 1 .. Len(v) /\ n \in 1 .. Len(w)
        /\ n \in 1 .. Len(rows) - 1
    BY ONLY <1>6, n \in 1 .. Len(z)
  <2>2. z[n] = IF n < b.level THEN v[n] ELSE v[n + 1]
    BY ONLY <1>5, n \in 1 .. Len(z)
  <2>3. v[n] = rows[n] /\ v[n + 1] = rows[n + 1] /\ w[n] = all[n]
    BY ONLY <1>1, <1>2, <2>1
  <2>4. all[n] = IF n < level THEN rows[n] ELSE rows[n + 1]
    BY ONLY <1>0, <2>1
  <2> QED BY ONLY <2>2, <2>3, <2>4, b.level = level
<1>8. CASE Len(rows) <= limit
  <2>1. Len(z) = Len(w)
    BY <1>1, <1>2, <1>3, <1>5, <1>8
  <2>2. z = w
    BY ONLY <1>2, <1>4, <1>7, <2>1, SameRows
  <2> QED BY ONLY <1>3, <1>8, <2>2, limit \in Nat
<1>9. CASE Len(rows) > limit
  <2>1. Len(w) = limit /\ Len(z) = limit - 1
    BY <1>1, <1>2, <1>3, <1>5, <1>9
  <2> SUFFICES ASSUME NEW y, y = View(w, limit - 1) PROVE z = y
    BY <1>3, <1>9, <2>1
  <2>2. /\ y \in Seq(Nat) /\ Len(y) = IF Len(w) < limit - 1 THEN Len(w) ELSE limit - 1
        /\ \A n \in 1 .. Len(y) : y[n] = w[n]
    BY <1>2, <1>3, ViewRows
  <2>3. Len(y) = limit - 1
    BY <2>1, <2>2
  <2>4. \A n \in 1 .. Len(z) : z[n] = y[n]
    BY <1>7, <2>1, <2>2, <2>3
  <2> QED BY <1>4, <2>1, <2>2, <2>3, <2>4, SameRows
<1> QED BY <1>3, <1>8, <1>9

\* The best rows are removed: those that come into view are still missing.
LEMMA SweepShown ==
  ASSUME NEW rows \in Seq(Nat), NEW limit \in Nat, NEW level \in 1 .. Len(rows),
         level <= limit, NEW all \in Seq(Nat), Sweeps(all, rows, level),
         NEW b \in Book, EffectiveAction(b) = "DeleteFrom", b.level = level,
         NEW kept, kept = Len(View(rows, limit)) - level
  PROVE  /\ SideAfter(b, View(rows, limit), limit) = View(View(all, limit), kept)
         /\ kept \in Nat /\ kept <= Len(View(all, limit))
<1>0. /\ Len(all) = Len(rows) - level
      /\ \A n \in 1 .. Len(all) : all[n] = rows[n + level]
  BY DEF Sweeps
<1> USE <1>0
<1> SUFFICES ASSUME NEW v, v = View(rows, limit), NEW w, w = View(all, limit),
                    NEW z, z = SideAfter(b, v, limit)
             PROVE  z = View(w, kept) /\ kept \in Nat /\ kept <= Len(w)
  OBVIOUS
<1>1. /\ v \in Seq(Nat) /\ Len(v) = IF Len(rows) < limit THEN Len(rows) ELSE limit
      /\ \A n \in 1 .. Len(v) : v[n] = rows[n]
  BY ViewRows
<1>2. /\ w \in Seq(Nat) /\ Len(w) = IF Len(all) < limit THEN Len(all) ELSE limit
      /\ \A n \in 1 .. Len(w) : w[n] = all[n]
  BY ViewRows
<1>3. Len(rows) \in Nat /\ Len(v) <= limit /\ Len(v) \in Nat /\ level \in Nat
      /\ b.level \in 1 .. Len(v) /\ b.level \in 1 .. limit /\ kept = Len(v) - level
  BY <1>1, LenProperties
<1>4. z \in Seq(Nat)
  BY <1>1, <1>3, SideType
<1>5. Len(z) = IF b.level <= Len(v) THEN Len(v) - b.level ELSE 0
  BY <1>1, <1>3, SideFrom
<1>6. \A n \in 1 .. Len(z) : z[n] = v[n + b.level]
  <2>1. /\ EffectiveAction(b) = "DeleteFrom" /\ z = SideAfter(b, v, limit)
        /\ v \in Seq(Nat) /\ Len(v) <= limit /\ b.level \in 1 .. limit
    BY <1>1, <1>3
  <2> QED BY ONLY <2>1, SideFrom, SMTT(60)
<1>7. Len(z) = kept /\ kept \in Nat /\ kept <= Len(w)
  <2>1. /\ Len(v) = IF Len(rows) < limit THEN Len(rows) ELSE limit
        /\ Len(w) = IF Len(all) < limit THEN Len(all) ELSE limit
        /\ Len(all) = Len(rows) - level /\ level \in 1 .. Len(v) /\ kept = Len(v) - level
        /\ Len(z) = IF level <= Len(v) THEN Len(v) - level ELSE 0
        /\ Len(rows) \in Nat /\ limit \in Nat /\ Len(v) \in Nat
    BY ONLY <1>0, <1>1, <1>2, <1>3, <1>5, limit \in Nat, b.level = level
  <2> QED BY ONLY <2>1
<1>8. \A n \in 1 .. Len(z) :
        n + level \in 1 .. Len(v) /\ n \in 1 .. Len(w) /\ n \in 1 .. Len(all)
  <2> SUFFICES ASSUME NEW n \in 1 .. Len(z)
               PROVE  n + level \in 1 .. Len(v) /\ n \in 1 .. Len(w) /\ n \in 1 .. Len(all)
    OBVIOUS
  <2>1. /\ Len(v) = IF Len(rows) < limit THEN Len(rows) ELSE limit
        /\ Len(w) = IF Len(all) < limit THEN Len(all) ELSE limit
        /\ Len(all) = Len(rows) - level /\ Len(z) = Len(v) - level
        /\ Len(rows) \in Nat /\ level \in Nat /\ limit \in Nat
    BY ONLY <1>0, <1>1, <1>2, <1>3, <1>7, limit \in Nat
  <2> QED BY ONLY <2>1, n \in 1 .. Len(z)
<1>9. \A n \in 1 .. Len(z) : z[n] = w[n]
  <2> SUFFICES ASSUME NEW n \in 1 .. Len(z) PROVE z[n] = w[n]
    OBVIOUS
  <2>1. n + level \in 1 .. Len(v) /\ n \in 1 .. Len(w) /\ n \in 1 .. Len(all)
    BY ONLY <1>8, n \in 1 .. Len(z)
  <2>2. z[n] = v[n + level]
    BY ONLY <1>6, n \in 1 .. Len(z), b.level = level
  <2>3. v[n + level] = rows[n + level] /\ w[n] = all[n] /\ all[n] = rows[n + level]
    BY ONLY <1>0, <1>1, <1>2, <2>1
  <2> QED BY ONLY <2>2, <2>3
<1> SUFFICES ASSUME NEW y, y = View(w, kept) PROVE z = y
  BY <1>7
<1>10. /\ y \in Seq(Nat) /\ Len(y) = IF Len(w) < kept THEN Len(w) ELSE kept
       /\ \A n \in 1 .. Len(y) : y[n] = w[n]
  BY <1>2, <1>7, ViewRows
<1>11. Len(y) = Len(z)
  BY ONLY <1>2, <1>7, <1>10, SMTT(60)
<1>12. \A n \in 1 .. Len(z) : z[n] = y[n]
  BY <1>9, <1>10, <1>11
<1> QED BY <1>4, <1>10, <1>11, <1>12, SameRows

\* One side of one full book changes: what is shown of it, and of the others.
LEMMA SideEffects ==
  ASSUME MarketTypes, NEW i \in Instruments, NEW side \in Sides,
         NEW rows \in Seq(Nat), full' = [full EXCEPT ![i][side] = rows],
         depth' = depth
  PROVE  /\ ShownNow'[i] = WithSide(ShownNow[i], side, View(rows, depth[i]))
         /\ \A k \in Instruments \ {i} : ShownNow'[k] = ShownNow[k]
         /\ ShownNow[i][side] = View(full[i][side], depth[i])
         /\ ShownNow[i].marketDepth = depth[i]
         /\ \A k \in Instruments : ShownNow[k] \in ViewType
<1>1. full \in [Instruments -> Side]
  BY DEF MarketTypes
<1>2. /\ full'[i][side] = rows
      /\ \A other \in Sides : other # side => full'[i][other] = full[i][other]
      /\ \A k \in Instruments \ {i} : full'[k] = full[k]
  <2>1. \A k \in Instruments \ {i} : full'[k] = full[k]
    BY <1>1
  <2>2. full'[i] = [full[i] EXCEPT ![side] = rows]
    BY <1>1
  <2>3. full[i] \in Side
    BY <1>1
  <2>4. [full[i] EXCEPT ![side] = rows][side] = rows
    BY <2>3 DEF Side, Sides
  <2>5. \A other \in Sides : other # side =>
          [full[i] EXCEPT ![side] = rows][other] = full[i][other]
    BY <2>3 DEF Side, Sides
  <2> QED BY <2>1, <2>2, <2>4, <2>5
<1> QED BY <1>2, ShownNext

\* One entry tells of the change.
LEMMA EntryCarries ==
  ASSUME MarketTypes, NEW i \in Instruments, NEW side \in Sides,
         NEW rows \in Seq(Nat), full' = [full EXCEPT ![i][side] = rows],
         depth' = depth, depth[i] # Unlisted,
         NEW b \in Book, b.entry = side, b.inst = i,
         SideAfter(b, View(full[i][side], depth[i]), depth[i]) = View(rows, depth[i]),
         NEW m, m.type = "X", m.books = <<b>>
  PROVE  Carries(m, ShownNow, ShownNow') /\ ~IsReset(m)
<1> DEFINE v == ShownNow
           w == ShownNow'
           books == <<b>>
<1>1. /\ w[i] = WithSide(v[i], side, View(rows, depth[i]))
      /\ \A k \in Instruments \ {i} : w[k] = v[k]
      /\ v[i][side] = View(full[i][side], depth[i])
      /\ v[i].marketDepth = depth[i]
      /\ \A k \in Instruments : v[k] \in ViewType
  BY SideEffects
<1> HIDE DEF v, w
<1>2. AfterEntry(i, b, v[i]) = w[i]
  <2>1. v[i] \in ViewType /\ v[i].marketDepth # Unlisted
    BY <1>1
  <2>2. AfterEntry(i, b, v[i])
          = WithSide(v[i], side, SideAfter(b, v[i][side], v[i].marketDepth))
    BY <2>1, EntrySide
  <2> QED BY <1>1, <2>2
<1>3. Leads(i, Increments(books, {}), v[i], w[i])
  BY <1>1, <1>2, OneLeads
<1>4. books \in Seq(Book) /\ \A n \in 1 .. Len(books) : books[n].entry # "reset" /\ books[n].inst = i
  <2>1. \A n \in 1 .. Len(books) : books[n] = b
    OBVIOUS
  <2> HIDE DEF books
  <2>2. b.entry # "reset"
    BY DEF Sides
  <2> QED BY <2>1, <2>2 DEF books
<1>5. w[i].marketDepth = v[i].marketDepth
  BY <1>1 DEF WithSide
<1>6. m.books = books
  OBVIOUS
<1> HIDE DEF books
<1>7. Carries(m, v, w)
  BY <1>1, <1>3, <1>4, <1>5, <1>6, OneBook
<1>8. ~IsReset(m)
  <2>1. DOMAIN m.books = 1 .. Len(books)
    BY <1>4, <1>6, LenProperties
  <2> QED BY <1>4, <1>6, <2>1 DEF IsReset
<1> QED BY <1>7, <1>8 DEF v, w

\* One entry tells of the change, others of the rows that come into view.
LEMMA RowsCarry ==
  ASSUME MarketTypes, NEW i \in Instruments, NEW side \in Sides,
         NEW rows \in Seq(Nat), full' = [full EXCEPT ![i][side] = rows],
         depth' = depth, depth[i] # Unlisted,
         NEW b \in Book, b.entry = side, b.inst = i,
         NEW shown, shown = View(rows, depth[i]),
         NEW from \in Nat, from >= 1, from <= Len(shown) + 1,
         SideAfter(b, View(full[i][side], depth[i]), depth[i]) = View(shown, from - 1),
         NEW rest \in Seq(Book), Reveals(rest, i, side, shown, from),
         NEW m, m.type = "X", m.books = <<b>> \o rest
  PROVE  Carries(m, ShownNow, ShownNow') /\ ~IsReset(m)
<1> DEFINE v == ShownNow
           w == ShownNow'
           one == <<b>>
           mid == WithSide(v[i], side, View(shown, from - 1))
<1>1. /\ w[i] = WithSide(v[i], side, shown)
      /\ \A k \in Instruments \ {i} : w[k] = v[k]
      /\ v[i][side] = View(full[i][side], depth[i])
      /\ v[i].marketDepth = depth[i]
      /\ \A k \in Instruments : v[k] \in ViewType
  BY SideEffects
<1> HIDE DEF v, w
<1>2. AfterEntry(i, b, v[i]) = mid
  <2>1. v[i] \in ViewType /\ v[i].marketDepth # Unlisted
    BY <1>1
  <2>2. AfterEntry(i, b, v[i])
          = WithSide(v[i], side, SideAfter(b, v[i][side], v[i].marketDepth))
    BY <2>1, EntrySide, ZenonT(60)
  <2> QED BY <1>1, <2>2
<1>3. Leads(i, Increments(one, {}), v[i], mid)
  <2> HIDE DEF mid
  <2> QED BY <1>1, <1>2, OneLeads
<1>4. Leads(i, Increments(rest, {}), mid, w[i])
  <2>1. depth[i] \in Nat /\ shown \in Seq(Nat) /\ Len(shown) <= depth[i]
    <3>1. depth[i] \in Nat
      BY LevelsAreNumbers DEF MarketTypes
    <3> QED BY <3>1, ViewRows, LenProperties, SMTT(40)
  <2>2. v[i] \in ViewType /\ v[i].marketDepth # Unlisted /\ Len(shown) <= v[i].marketDepth
    BY <1>1, <2>1
  <2> QED BY <1>1, <2>1, <2>2, RowsLead
<1>5. one \in Seq(Book) /\ \A n \in 1 .. Len(one) : one[n].entry # "reset" /\ one[n].inst = i
  <2>1. \A n \in 1 .. Len(one) : one[n] = b
    OBVIOUS
  <2> HIDE DEF one
  <2>2. b.entry # "reset"
    BY DEF Sides
  <2> QED BY <2>1, <2>2 DEF one
<1>6. \A n \in 1 .. Len(rest) : rest[n].entry # "reset" /\ rest[n].inst = i
  BY DEF Reveals, Sides
<1>7. m.books = one \o rest
  OBVIOUS
<1> HIDE DEF one, mid
<1>8. Leads(i, Increments(m.books, {}), v[i], w[i])
  BY <1>3, <1>4, <1>5, <1>7, PartsLead
<1>9. /\ m.books \in Seq(Book)
      /\ \A n \in 1 .. Len(m.books) : m.books[n].entry # "reset" /\ m.books[n].inst = i
  <2> DEFINE L == Len(one)
             M == Len(rest)
  <2>1. /\ m.books \in Seq(Book) /\ Len(m.books) = L + M /\ L \in Nat /\ M \in Nat
        /\ \A n \in 1 .. L + M : m.books[n] = IF n <= L THEN one[n] ELSE rest[n - L]
    BY ONLY <1>5, <1>7, rest \in Seq(Book), ConcatProperties, LenProperties
  <2> HIDE DEF L, M
  <2>2. ASSUME NEW n \in 1 .. L + M
        PROVE  m.books[n].entry # "reset" /\ m.books[n].inst = i
    <3>1. n <= L => n \in 1 .. L
      BY <2>1
    <3>2. ~(n <= L) => n - L \in 1 .. M
      BY <2>1
    <3> QED BY <1>5, <1>6, <2>1, <3>1, <3>2 DEF L, M
  <2> QED BY <2>1, <2>2
<1>10. w[i].marketDepth = v[i].marketDepth
  BY <1>1 DEF WithSide
<1>11. Carries(m, v, w)
  BY <1>1, <1>8, <1>9, <1>10, OneBook
<1>12. ~IsReset(m)
  <2>1. DOMAIN m.books = 1 .. Len(m.books)
    BY <1>9, LenProperties
  <2> QED BY <1>9, <2>1 DEF IsReset
<1> QED BY <1>11, <1>12 DEF v, w

\* The rows that come into view are those the exchange publishes.
LEMMA RevealedRows ==
  ASSUME MarketTypes, NEW i \in Instruments, NEW side \in Sides,
         NEW rows \in Seq(Nat), full' = [full EXCEPT ![i][side] = rows],
         full' \in [Instruments -> Side],
         NEW shown, shown = View(rows, depth[i]),
         NEW from \in Nat, from >= 1, from <= Len(shown) + 1
  PROVE  /\ Revealed(i, side, from) \in Seq(Book)
         /\ Reveals(Revealed(i, side, from), i, side, shown, from)
<1> DEFINE R == Revealed(i, side, from)
<1>1. full[i][side]' = rows
  BY DEF MarketTypes, Side, Sides
<1>2. View(full[i][side]', depth[i]) = shown
  BY <1>1
<1>3. /\ R \in Seq(Book)
      /\ Len(R) = IF from <= Len(shown) THEN Len(shown) - from + 1 ELSE 0
      /\ \A n \in 1 .. Len(R) : R[n] = Entry(i, side, "New", from + n - 1, shown[from + n - 1])
  <2>1. /\ R \in Seq(Book)
        /\ Len(R) = IF from <= Len(View(full[i][side]', depth[i]))
                      THEN Len(View(full[i][side]', depth[i])) - from + 1 ELSE 0
        /\ \A n \in 1 .. Len(R) :
             R[n] = Entry(i, side, "New", from + n - 1,
                          View(full[i][side]', depth[i])[from + n - 1])
    <3>1. MarketTypes /\ full' \in [Instruments -> Side] /\ from >= 1
      OBVIOUS
    <3> QED BY ONLY <3>1, RevealedType
  <2> HIDE DEF R
  <2> QED BY ONLY <1>2, <2>1
<1> HIDE DEF R
<1>4. Len(shown) \in Nat
  <2>1. depth[i] \in Nat
    BY LevelsAreNumbers DEF MarketTypes
  <2> QED BY <2>1, ViewRows, LenProperties
<1>5. Len(R) = Len(shown) + 1 - from /\ Len(R) \in Nat
  BY <1>3, <1>4, SMTT(40)
<1>6. ASSUME NEW n \in 1 .. Len(R)
      PROVE  /\ R[n].entry = side /\ R[n].inst = i
             /\ EffectiveAction(R[n]) = "New"
             /\ R[n].level = from - 1 + n /\ R[n].row = shown[from - 1 + n]
  <2>1. from + n - 1 = from - 1 + n
    BY <1>5
  <2>2. R[n] = Entry(i, side, "New", from - 1 + n, shown[from - 1 + n])
    BY <1>3, <2>1
  <2> QED BY <2>2 DEF Entry, EffectiveAction
<1> QED BY <1>3, <1>5, <1>6 DEF Reveals, R

\* The parts of a full book.
LEMMA FullFacts ==
  ASSUME MarketTypes, NEW i \in Instruments, NEW side \in Sides
  PROVE  /\ full[i][side] \in Seq(Nat) /\ Len(full[i][side]) \in Nat
         /\ depth[i] \in Nat /\ events + 1 \in Nat
         /\ ("New" \in Actions /\ "Change" \in Actions /\ "Delete" \in Actions
               /\ "DeleteFrom" \in Actions /\ "DeleteThru" \in Actions)
<1>1. full[i][side] \in Seq(Nat) /\ Len(full[i][side]) \in Nat
  BY LenProperties DEF MarketTypes, Side, Sides
<1>2. depth[i] \in Nat /\ events + 1 \in Nat
  BY LevelsAreNumbers, MarketAssumption DEF MarketTypes
<1> QED BY <1>1, <1>2 DEF Actions

\* The parts of a published entry.
LEMMA EntryFacts ==
  ASSUME MarketTypes, NEW i \in Instruments, NEW side \in Sides,
         NEW action \in Actions, NEW level \in Nat, NEW row \in Nat,
         NEW b, b = Entry(i, side, action, level, row)
  PROVE  /\ b \in Book /\ b.entry = side /\ b.inst = i /\ EffectiveAction(b) = action
         /\ b.level = level /\ b.row = row
<1>1. b \in Book
  BY EntryType
<1> QED BY <1>1 DEF Entry, EffectiveAction

\* InsertAt inserts.
LEMMA RowInserted ==
  ASSUME NEW rows \in Seq(Nat), NEW level \in 1 .. Len(rows) + 1, NEW row \in Nat
  PROVE  Inserts(InsertAt(rows, level, row), rows, level, row)
BY InsertRow, SMTT(40) DEF Inserts

\* New, on what is shown of a side, gives what is shown of it afterwards.
LEMMA InsertedShown ==
  ASSUME NEW rows \in Seq(Nat), NEW limit \in Nat, NEW level \in 1 .. Len(rows) + 1,
         level <= limit, NEW row \in Nat,
         NEW b \in Book, EffectiveAction(b) = "New", b.level = level, b.row = row
  PROVE  /\ InsertAt(rows, level, row) \in Seq(Nat)
         /\ SideAfter(b, View(rows, limit), limit)
              = View(InsertAt(rows, level, row), limit)
<1>1. /\ InsertAt(rows, level, row) \in Seq(Nat)
      /\ Inserts(InsertAt(rows, level, row), rows, level, row)
  BY InsertRow, RowInserted
<1>2. level \in Nat /\ level >= 1 /\ level <= Len(rows) + 1
  BY LenProperties
<1>3. ASSUME NEW all \in Seq(Nat), Inserts(all, rows, level, row)
      PROVE  SideAfter(b, View(rows, limit), limit) = View(all, limit)
  BY <1>2, <1>3, NewShown
<1> QED BY <1>1, <1>3

\* So does Change.
LEMMA ChangedShown ==
  ASSUME NEW rows \in Seq(Nat), NEW limit \in Nat, NEW level \in 1 .. Len(rows),
         level <= limit, NEW row \in Nat,
         NEW b \in Book, EffectiveAction(b) = "Change", b.level = level, b.row = row
  PROVE  /\ [rows EXCEPT ![level] = row] \in Seq(Nat)
         /\ SideAfter(b, View(rows, limit), limit)
              = View([rows EXCEPT ![level] = row], limit)
<1> SUFFICES ASSUME NEW all, all = [rows EXCEPT ![level] = row]
             PROVE  /\ all \in Seq(Nat)
                    /\ SideAfter(b, View(rows, limit), limit) = View(all, limit)
  OBVIOUS
<1>1. all \in Seq(Nat) /\ Amends(all, rows, level, row)
  BY LenProperties, ExceptSeq DEF Amends
<1>3. EffectiveAction(b) = "Change" /\ b.level = level /\ b.row = row /\ level <= limit
  OBVIOUS
<1>4. SideAfter(b, View(rows, limit), limit) = View(all, limit)
  BY ONLY <1>1, <1>3, ChangeShown
<1> QED BY <1>1, <1>4

\* So does Delete, up to the row that comes into view at the bottom.
LEMMA RemovedShown ==
  ASSUME NEW rows \in Seq(Nat), NEW limit \in Nat, NEW level \in 1 .. Len(rows),
         level <= limit,
         NEW b \in Book, EffectiveAction(b) = "Delete", b.level = level
  PROVE  /\ RemoveAt(rows, level) \in Seq(Nat)
         /\ Len(rows) <= limit =>
              SideAfter(b, View(rows, limit), limit) = View(RemoveAt(rows, level), limit)
         /\ Len(rows) > limit =>
              /\ SideAfter(b, View(rows, limit), limit)
                   = View(View(RemoveAt(rows, level), limit), limit - 1)
              /\ Len(View(RemoveAt(rows, level), limit)) = limit
<1> SUFFICES ASSUME NEW all, all = RemoveAt(rows, level)
             PROVE  /\ all \in Seq(Nat)
                    /\ Len(rows) <= limit =>
                         SideAfter(b, View(rows, limit), limit) = View(all, limit)
                    /\ Len(rows) > limit =>
                         /\ SideAfter(b, View(rows, limit), limit)
                              = View(View(all, limit), limit - 1)
                         /\ Len(View(all, limit)) = limit
  OBVIOUS
<1>1. all \in Seq(Nat) /\ Removes(all, rows, level)
  BY RemoveOne DEF Removes
<1>3. EffectiveAction(b) = "Delete" /\ b.level = level /\ level <= limit
  OBVIOUS
<1>4. /\ Len(rows) <= limit =>
           SideAfter(b, View(rows, limit), limit) = View(all, limit)
      /\ Len(rows) > limit =>
           /\ SideAfter(b, View(rows, limit), limit) = View(View(all, limit), limit - 1)
           /\ Len(View(all, limit)) = limit
  BY ONLY <1>1, <1>3, RemoveShown
<1> QED BY <1>1, <1>4

\* SubSeq sweeps.
LEMMA RowsSwept ==
  ASSUME NEW rows \in Seq(Nat), NEW level \in 1 .. Len(rows),
         NEW all, all = SubSeq(rows, level + 1, Len(rows))
  PROVE  all \in Seq(Nat) /\ Sweeps(all, rows, level)
<1>1. level \in Nat /\ Len(rows) \in Nat /\ level <= Len(rows)
  BY LenProperties
<1>2. /\ all \in Seq(Nat)
      /\ Len(all) = IF level <= Len(rows) THEN Len(rows) - level ELSE 0
      /\ \A n \in 1 .. Len(all) : all[n] = rows[n + level]
  BY <1>1, RemoveTop
<1> QED BY <1>1, <1>2 DEF Sweeps

\* The message of a new row carries the views on.
LEMMA AddCarries ==
  ASSUME MarketTypes, NEW i \in Instruments, NEW side \in Sides,
         NEW level \in 1 .. MaxRows, AddRow(i, side, level), level <= depth[i],
         NEW m, m.type = "X", m.books = <<Entry(i, side, "New", level, events + 1)>>
  PROVE  Carries(m, ShownNow, ShownNow') /\ ~IsReset(m)
<1> DEFINE rows == full[i][side]
           all == InsertAt(rows, level, events + 1)
           b == Entry(i, side, "New", level, events + 1)
<1>1. /\ rows \in Seq(Nat) /\ Len(rows) \in Nat /\ depth[i] \in Nat
      /\ events + 1 \in Nat /\ level \in Nat /\ level >= 1
      /\ "New" \in Actions
  BY FullFacts, MarketAssumption
<1>2. level \in 1 .. Len(rows) + 1 /\ depth' = depth /\ depth[i] # Unlisted
  BY <1>1 DEF AddRow, PublishBooks, Listed
<1>3. full' = [full EXCEPT ![i][side] = all]
  BY DEF AddRow
<1>4. /\ b \in Book /\ b.entry = side /\ b.inst = i /\ EffectiveAction(b) = "New"
      /\ b.level = level /\ b.row = events + 1
  BY <1>1, EntryFacts
<1>5. m.books = <<b>>
  OBVIOUS
<1> HIDE DEF b
<1>6. MarketTypes /\ m.type = "X" /\ level <= depth[i]
  OBVIOUS
<1>7. /\ all \in Seq(Nat)
      /\ SideAfter(b, View(rows, depth[i]), depth[i]) = View(all, depth[i])
  <2> SUFFICES ASSUME NEW r, r = rows, NEW limit, limit = depth[i],
                      NEW row, row = events + 1, NEW x, x = all
               PROVE  x \in Seq(Nat) /\ SideAfter(b, View(r, limit), limit) = View(x, limit)
    OBVIOUS
  <2>1. /\ r \in Seq(Nat) /\ limit \in Nat /\ level \in 1 .. Len(r) + 1 /\ level <= limit
        /\ row \in Nat /\ x = InsertAt(r, level, row)
        /\ b \in Book /\ EffectiveAction(b) = "New" /\ b.level = level /\ b.row = row
    BY <1>1, <1>2, <1>4, <1>6
  <2> QED BY ONLY <2>1, InsertedShown
<1> HIDE DEF all
<1> QED BY ONLY <1>2, <1>3, <1>4, <1>5, <1>6, <1>7, EntryCarries

\* So does that of a changed row, ...
LEMMA AmendCarries ==
  ASSUME MarketTypes, NEW i \in Instruments, NEW side \in Sides,
         NEW level \in 1 .. MaxRows, AmendRow(i, side, level),
         NEW m, m.type = "X",
         m.books = <<Entry(i, side, "Change", level, events + 1)>>
  PROVE  Carries(m, ShownNow, ShownNow') /\ ~IsReset(m)
<1> DEFINE rows == full[i][side]
           all == [rows EXCEPT ![level] = events + 1]
           b == Entry(i, side, "Change", level, events + 1)
<1>1. /\ rows \in Seq(Nat) /\ Len(rows) \in Nat /\ depth[i] \in Nat
      /\ events + 1 \in Nat /\ level \in Nat /\ level >= 1
      /\ "Change" \in Actions
  BY FullFacts, MarketAssumption
<1>2. /\ level \in 1 .. Len(rows) /\ level <= depth[i] /\ depth' = depth
      /\ depth[i] # Unlisted
  BY <1>1 DEF AmendRow, PublishBooks, Listed
<1>3. full' = [full EXCEPT ![i][side] = all]
  BY DEF AmendRow
<1>4. /\ b \in Book /\ b.entry = side /\ b.inst = i /\ EffectiveAction(b) = "Change"
      /\ b.level = level /\ b.row = events + 1
  BY <1>1, EntryFacts
<1>5. m.books = <<b>>
  OBVIOUS
<1> HIDE DEF b
<1>6. MarketTypes /\ m.type = "X"
  OBVIOUS
<1>7. /\ all \in Seq(Nat)
      /\ SideAfter(b, View(rows, depth[i]), depth[i]) = View(all, depth[i])
  <2>1. ASSUME NEW r \in Seq(Nat), level \in 1 .. Len(r), NEW limit \in Nat,
               level <= limit, NEW row \in Nat, b.row = row
        PROVE  /\ [r EXCEPT ![level] = row] \in Seq(Nat)
               /\ SideAfter(b, View(r, limit), limit)
                    = View([r EXCEPT ![level] = row], limit)
    BY ONLY <1>4, <2>1, ChangedShown
  <2> QED BY <1>1, <1>2, <1>4, <2>1
<1> HIDE DEF all
<1> QED BY ONLY <1>2, <1>3, <1>4, <1>5, <1>6, <1>7, EntryCarries

\* ... of a side that is cleared, ...
LEMMA ClearCarries ==
  ASSUME MarketTypes, NEW i \in Instruments, NEW side \in Sides,
         ClearSide(i, side), i \in Listed,
         NEW m, m.type = "X", m.books = <<Entry(i, side, "DeleteThru", 1, Filler)>>
  PROVE  Carries(m, ShownNow, ShownNow') /\ ~IsReset(m)
<1> DEFINE all == <<>>
           b == Entry(i, side, "DeleteThru", 1, Filler)
<1>1. /\ full[i][side] \in Seq(Nat) /\ depth[i] \in Nat /\ 1 \in Nat /\ Filler \in Nat
      /\ "DeleteThru" \in Actions
  BY FullFacts DEF Filler
<1>2. depth' = depth /\ depth[i] # Unlisted
  BY DEF ClearSide, PublishBooks, Listed
<1>3. full' = [full EXCEPT ![i][side] = all]
  BY DEF ClearSide
<1>4. /\ b \in Book /\ b.entry = side /\ b.inst = i /\ EffectiveAction(b) = "DeleteThru"
  BY <1>1, EntryFacts
<1>5. m.books = <<b>>
  OBVIOUS
<1> HIDE DEF b
<1>6. all \in Seq(Nat) /\ Len(all) = 0
  BY EmptySeq
<1>7. SideAfter(b, View(full[i][side], depth[i]), depth[i]) = View(all, depth[i])
  <2>1. View(full[i][side], depth[i]) \in Seq(Nat)
    BY <1>1, ViewRows
  <2>2. SideAfter(b, View(full[i][side], depth[i]), depth[i]) = <<>>
    BY <1>1, <1>4, <2>1, SideThru
  <2>3. View(all, depth[i]) = <<>>
    <3> HIDE DEF all
    <3>2. /\ View(all, depth[i]) \in Seq(Nat)
          /\ Len(View(all, depth[i])) = IF Len(all) < depth[i] THEN Len(all) ELSE depth[i]
      BY ONLY <1>1, <1>6, ViewRows
    <3>1. View(all, depth[i]) \in Seq(Nat) /\ Len(View(all, depth[i])) = 0
      BY ONLY <1>1, <1>6, <3>2
    <3> QED BY <3>1, EmptySeq
  <2> QED BY <2>2, <2>3
<1> HIDE DEF all
<1>8. MarketTypes /\ m.type = "X"
  OBVIOUS
<1> QED BY <1>2, <1>3, <1>4, <1>5, <1>6, <1>7, <1>8, EntryCarries

\* ... of a removed row, with the row that it reveals, ...
LEMMA RemoveCarries ==
  ASSUME MarketTypes, NEW i \in Instruments, NEW side \in Sides,
         NEW level \in 1 .. MaxRows, RemoveRow(i, side, level),
         full' \in [Instruments -> Side], NEW m, m.type = "X",
         Len(full[i][side]) > depth[i] =>
           m.books = <<Entry(i, side, "Delete", level, Filler)>>
                       \o Revealed(i, side, depth[i]),
         ~(Len(full[i][side]) > depth[i]) =>
           m.books = <<Entry(i, side, "Delete", level, Filler)>> \o <<>>
  PROVE  Carries(m, ShownNow, ShownNow') /\ ~IsReset(m)
<1> DEFINE rows == full[i][side]
           all == RemoveAt(rows, level)
           b == Entry(i, side, "Delete", level, Filler)
           w == View(all, depth[i])
<1>1. /\ rows \in Seq(Nat) /\ Len(rows) \in Nat /\ depth[i] \in Nat
      /\ level \in Nat /\ level >= 1 /\ "Delete" \in Actions /\ Filler \in Nat
  BY FullFacts, MarketAssumption DEF Filler
<1>2. /\ level \in 1 .. Len(rows) /\ level <= depth[i] /\ depth' = depth
      /\ depth[i] # Unlisted
  BY <1>1 DEF RemoveRow, PublishBooks, Listed
<1>3. full' = [full EXCEPT ![i][side] = all]
  BY DEF RemoveRow
<1>4. /\ b \in Book /\ b.entry = side /\ b.inst = i /\ EffectiveAction(b) = "Delete"
      /\ b.level = level
  BY <1>1, EntryFacts
<1>8. MarketTypes /\ m.type = "X" /\ full' \in [Instruments -> Side]
  OBVIOUS
<1>5. /\ Len(rows) > depth[i] => m.books = <<b>> \o Revealed(i, side, depth[i])
      /\ ~(Len(rows) > depth[i]) => m.books = <<b>> \o <<>>
  OBVIOUS
<1>12. w = View(all, depth[i])
  OBVIOUS
<1> HIDE DEF b
<1>7. /\ all \in Seq(Nat)
      /\ Len(rows) <= depth[i] =>
           SideAfter(b, View(rows, depth[i]), depth[i]) = w
      /\ Len(rows) > depth[i] =>
           /\ SideAfter(b, View(rows, depth[i]), depth[i]) = View(w, depth[i] - 1)
           /\ Len(w) = depth[i]
  BY ONLY <1>1, <1>2, <1>4, RemovedShown, SMTT(40)
<1> HIDE DEF all, w
<1>9. CASE ~(Len(rows) > depth[i])
  <2>1. m.books = <<b>>
    <3>1. <<b>> \in Seq(Book)
      BY <1>4
    <3>2. <<b>> \o <<>> = <<b>>
      BY <3>1, ConcatEmptySeq
    <3> QED BY <1>5, <1>9, <3>2
  <2>2. SideAfter(b, View(rows, depth[i]), depth[i]) = View(all, depth[i])
    BY <1>1, <1>7, <1>9, <1>12
  <2> QED BY ONLY <1>2, <1>3, <1>4, <1>7, <1>8, <2>1, <2>2, EntryCarries
<1>10. CASE Len(rows) > depth[i]
  <2> DEFINE from == depth[i]
             rest == Revealed(i, side, from)
  <2>1. from \in Nat /\ from >= 1 /\ from <= Len(w) + 1
    BY <1>1, <1>2, <1>7, <1>10
  <2>2. rest \in Seq(Book) /\ Reveals(rest, i, side, w, from)
    BY <1>3, <1>7, <1>8, <1>12, <2>1, RevealedRows
  <2>3. m.books = <<b>> \o rest
    BY <1>5, <1>10
  <2>4. SideAfter(b, View(rows, depth[i]), depth[i]) = View(w, from - 1)
    BY <1>7, <1>10
  <2> HIDE DEF rest, from
  <2> QED BY ONLY <1>2, <1>3, <1>4, <1>7, <1>8, <1>12, <2>1, <2>2, <2>3, <2>4, RowsCarry
<1> QED BY <1>9, <1>10

\* ... of the first rows swept away, with the rows that they reveal, ...
LEMMA SweepCarries ==
  ASSUME MarketTypes, NEW i \in Instruments, NEW side \in Sides,
         NEW level \in 1 .. MaxRows, SweepRows(i, side, level),
         full' \in [Instruments -> Side], NEW m, m.type = "X",
         m.books = <<Entry(i, side, "DeleteFrom", level, Filler)>>
                     \o Revealed(i, side,
                          Len(View(full[i][side], depth[i])) - level + 1)
  PROVE  Carries(m, ShownNow, ShownNow') /\ ~IsReset(m)
<1> DEFINE rows == full[i][side]
           all == SubSeq(rows, level + 1, Len(rows))
           b == Entry(i, side, "DeleteFrom", level, Filler)
           w == View(all, depth[i])
           kept == Len(View(rows, depth[i])) - level
           from == kept + 1
           rest == Revealed(i, side, from)
<1>1. /\ rows \in Seq(Nat) /\ Len(rows) \in Nat /\ depth[i] \in Nat
      /\ level \in Nat /\ level >= 1 /\ "DeleteFrom" \in Actions /\ Filler \in Nat
  BY FullFacts, MarketAssumption DEF Filler
<1>2. /\ level \in 1 .. Len(rows) /\ level <= depth[i] /\ depth' = depth
      /\ depth[i] # Unlisted
  BY <1>1 DEF SweepRows, PublishBooks, Listed
<1>3. full' = [full EXCEPT ![i][side] = all]
  BY DEF SweepRows
<1>4. /\ b \in Book /\ b.entry = side /\ b.inst = i /\ EffectiveAction(b) = "DeleteFrom"
      /\ b.level = level
  <2>1. ASSUME NEW x, x = Entry(i, side, "DeleteFrom", level, Filler)
        PROVE  /\ x \in Book /\ x.entry = side /\ x.inst = i
               /\ EffectiveAction(x) = "DeleteFrom" /\ x.level = level
    BY ONLY MarketTypes, <1>1, <2>1, EntryFacts, SMTT(40)
  <2> QED BY <2>1
<1>5. m.books = <<b>> \o rest
  OBVIOUS
<1>8. MarketTypes /\ m.type = "X" /\ full' \in [Instruments -> Side]
  OBVIOUS
<1>9. w = View(all, depth[i]) /\ kept = Len(View(rows, depth[i])) - level
      /\ all = SubSeq(rows, level + 1, Len(rows))
  OBVIOUS
<1> HIDE DEF b, all, kept, rest
<1>7. /\ all \in Seq(Nat)
      /\ SideAfter(b, View(rows, depth[i]), depth[i]) = View(w, kept)
      /\ kept \in Nat /\ kept <= Len(w)
  <2>1. ASSUME NEW r \in Seq(Nat), NEW limit \in Nat, level \in 1 .. Len(r),
               level <= limit, NEW x \in Seq(Nat), Sweeps(x, r, level),
               NEW k, k = Len(View(r, limit)) - level
        PROVE  /\ SideAfter(b, View(r, limit), limit) = View(View(x, limit), k)
               /\ k \in Nat /\ k <= Len(View(x, limit))
    BY ONLY <1>4, <2>1, SweepShown, SMTT(40)
  <2>2. all \in Seq(Nat) /\ Sweeps(all, rows, level)
    BY <1>1, <1>2, <1>9, RowsSwept
  <2>3. /\ SideAfter(b, View(rows, depth[i]), depth[i]) = View(View(all, depth[i]), kept)
        /\ kept \in Nat /\ kept <= Len(View(all, depth[i]))
    <3> HIDE DEF rows
    <3>1. \A x \in Seq(Nat) : Sweeps(x, rows, level) =>
            \A k : k = Len(View(rows, depth[i])) - level =>
              /\ SideAfter(b, View(rows, depth[i]), depth[i]) = View(View(x, depth[i]), k)
              /\ k \in Nat /\ k <= Len(View(x, depth[i]))
      BY ONLY <1>1, <1>2, <2>1
    <3> QED BY ONLY <1>9, <2>2, <3>1
  <2> QED BY <1>9, <2>2, <2>3
<1> HIDE DEF w
<1>11. from \in Nat /\ from >= 1 /\ from <= Len(w) + 1 /\ from - 1 = kept
  <2>1. Len(w) \in Nat
    BY <1>1, <1>7, <1>9, ViewRows, LenProperties
  <2> QED BY <1>7, <2>1
<1>12. rest \in Seq(Book) /\ Reveals(rest, i, side, w, from)
  <2> HIDE DEF from
  <2> QED BY ONLY <1>3, <1>7, <1>8, <1>9, <1>11, RevealedRows DEF rest
<1>13. SideAfter(b, View(rows, depth[i]), depth[i]) = View(w, from - 1)
  BY <1>7, <1>11
<1> HIDE DEF from
<1> QED BY ONLY <1>2, <1>3, <1>4, <1>5, <1>7, <1>8, <1>9, <1>11, <1>12, <1>13, RowsCarry

\* What is shown of one side of one book.
LEMMA SideShown ==
  ASSUME MarketTypes, NEW i \in Instruments, NEW side \in Sides, NEW rows,
         full'[i][side] = rows,
         \A other \in Sides : other # side => full'[i][other] = full[i][other],
         depth' = depth
  PROVE  /\ ShownNow'[i] = WithSide(ShownNow[i], side, View(rows, depth[i]))
         /\ ShownNow[i][side] = View(full[i][side], depth[i])
         /\ ShownNow[i].marketDepth = depth[i]
         /\ ShownNow[i] \in ViewType
<1>1. /\ full \in [Instruments -> Side] /\ depth \in [Instruments -> 0 .. MaxDepth]
      /\ ShownNow[i] = Shown(full, depth, i)
      /\ ShownNow'[i] = Shown(full', depth, i)
  BY DEF MarketTypes, ShownNow
<1> DEFINE gs == [full EXCEPT ![i] = full'[i]]
<1>2. /\ gs[i] = full'[i] /\ \A k \in Instruments \ {i} : gs[k] = full[k]
  BY <1>1
<1>3. Shown(full', depth, i) = Shown(gs, depth, i)
  BY <1>2 DEF Shown
<1> HIDE DEF gs
<1>4. /\ gs[i][side] = rows
      /\ \A other \in Sides : other # side => gs[i][other] = full[i][other]
  BY <1>2
<1>5. Shown(gs, depth, i) = WithSide(Shown(full, depth, i), side, View(rows, depth[i]))
  BY <1>1, <1>2, <1>4, ShownSide
<1>6. Shown(full, depth, i)[side] = View(full[i][side], depth[i])
  BY <1>1, <1>2, <1>4, ShownSide
<1>7. Shown(full, depth, i) \in ViewType /\ Shown(full, depth, i).marketDepth = depth[i]
  <2>1. Shown(full, depth, i).marketDepth = depth[i]
    BY DEF Shown
  <2> QED BY <1>1, <2>1, ShownType
<1> QED BY <1>1, <1>3, <1>5, <1>6, <1>7

\* A new best price.
LEMMA TopAdded ==
  ASSUME MarketTypes, NEW i \in Instruments, NEW side \in Sides,
         NEW e \in Nat, full'[i][side] = <<e>> \o full[i][side],
         \A other \in Sides : other # side => full'[i][other] = full[i][other],
         depth' = depth, depth[i] # Unlisted,
         NEW b \in Book, b.entry = side, b.inst = i, EffectiveAction(b) = "New",
         b.level = 1, b.row = e
  PROVE  AfterEntry(i, b, ShownNow[i]) = ShownNow'[i]
<1> DEFINE rows == full[i][side]
           all == <<e>> \o rows
<1>1. rows \in Seq(Nat) /\ Len(rows) \in Nat /\ depth[i] \in Nat
  BY FullFacts
<1>2. all \in Seq(Nat) /\ Inserts(all, rows, 1, e)
  <2> HIDE DEF rows
  <2>1. /\ all \in Seq(Nat) /\ Len(all) = 1 + Len(rows)
        /\ \A n \in 1 .. 1 + Len(rows) : all[n] = IF n <= 1 THEN <<e>>[n] ELSE rows[n - 1]
    <3>1. <<e>> \in Seq(Nat) /\ Len(<<e>>) = 1
      OBVIOUS
    <3> QED BY <1>1, <3>1, ConcatProperties
  <2>2. \A n \in 1 .. Len(rows) + 1 :
          all[n] = IF n < 1 THEN rows[n] ELSE IF n = 1 THEN e ELSE rows[n - 1]
    <3> HIDE DEF all
    <3>1. <<e>>[1] = e
      OBVIOUS
    <3> QED BY <1>1, <2>1, <3>1
  <2> QED BY <1>1, <2>1, <2>2 DEF Inserts
<1>3. /\ ShownNow'[i] = WithSide(ShownNow[i], side, View(all, depth[i]))
      /\ ShownNow[i][side] = View(rows, depth[i])
      /\ ShownNow[i].marketDepth = depth[i]
      /\ ShownNow[i] \in ViewType
  BY SideShown, ZenonT(60)
<1>4. 1 <= depth[i] /\ 1 <= Len(rows) + 1 /\ 1 \in Nat /\ 1 >= 1
  BY <1>1 DEF Unlisted
<1>5. EffectiveAction(b) = "New" /\ b.level = 1 /\ b.row = e
  OBVIOUS
<1> HIDE DEF rows, all
<1>6. SideAfter(b, View(rows, depth[i]), depth[i]) = View(all, depth[i])
  BY ONLY <1>1, <1>2, <1>4, <1>5, NewShown
<1>7. AfterEntry(i, b, ShownNow[i])
        = WithSide(ShownNow[i], side, SideAfter(b, ShownNow[i][side], ShownNow[i].marketDepth))
  BY <1>3, EntrySide
<1> QED BY <1>3, <1>6, <1>7

\* A row that is added below the best levels does not show.
LEMMA HiddenAdd ==
  ASSUME MarketTypes, NEW i \in Instruments, NEW side \in Sides,
         NEW level \in 1 .. MaxRows, AddRow(i, side, level), ~(level <= depth[i])
  PROVE  ShownNow' = ShownNow
<1> DEFINE rows == full[i][side]
           all == InsertAt(rows, level, events + 1)
<1>1. /\ rows \in Seq(Nat) /\ Len(rows) \in Nat /\ depth[i] \in Nat
      /\ events + 1 \in Nat /\ level \in Nat /\ level >= 1
  BY FullFacts, MarketAssumption
<1>2. level \in 1 .. Len(rows) + 1 /\ depth' = depth /\ level > depth[i]
  BY <1>1 DEF AddRow
<1>3. full' = [full EXCEPT ![i][side] = all]
  BY DEF AddRow
<1>4. all \in Seq(Nat) /\ Inserts(all, rows, level, events + 1)
  BY <1>1, <1>2, InsertRow, RowInserted
<1> HIDE DEF all
<1>5. /\ ShownNow'[i] = WithSide(ShownNow[i], side, View(all, depth[i]))
      /\ \A k \in Instruments \ {i} : ShownNow'[k] = ShownNow[k]
      /\ ShownNow[i][side] = View(rows, depth[i])
      /\ ShownNow[i] \in ViewType
  BY <1>2, <1>3, <1>4, SideEffects
<1>6. View(all, depth[i]) = View(rows, depth[i])
  <2> HIDE DEF rows
  <2> DEFINE D == depth[i]
  <2> SUFFICES ASSUME NEW x, x = View(all, D), NEW y, y = View(rows, D) PROVE x = y
    OBVIOUS
  <2>1. D \in Nat /\ D < level
    BY <1>1, <1>2
  <2> HIDE DEF D
  <2>2. /\ x \in Seq(Nat) /\ Len(x) = IF Len(all) < D THEN Len(all) ELSE D
        /\ \A n \in 1 .. Len(x) : x[n] = all[n]
    BY <1>4, <2>1, ViewRows
  <2>3. /\ y \in Seq(Nat) /\ Len(y) = IF Len(rows) < D THEN Len(rows) ELSE D
        /\ \A n \in 1 .. Len(y) : y[n] = rows[n]
    BY <1>1, <2>1, ViewRows
  <2>4. Len(all) = Len(rows) + 1 /\ D <= Len(rows)
    BY <1>1, <1>2, <1>4, <2>1 DEF Inserts
  <2>5. Len(x) = D /\ Len(y) = D
    BY ONLY <1>1, <2>1, <2>2, <2>3, <2>4
  <2>6. \A n \in 1 .. D : n < level /\ n \in 1 .. Len(rows) + 1
    BY ONLY <1>1, <2>1, <2>4
  <2>7. \A n \in 1 .. D : all[n] = rows[n]
    BY <1>4, <2>6 DEF Inserts
  <2> QED BY <2>2, <2>3, <2>5, <2>7, SameRows
<1>7. ShownNow'[i] = ShownNow[i]
  <2>1. ASSUME NEW bs \in ViewType PROVE WithSide(bs, side, bs[side]) = bs
    BY ViewFacts, WithSideFacts
  <2> QED BY <1>5, <1>6, <2>1
<1> QED BY <1>5, <1>7 DEF ShownNow

\* A trade, and a new best price of two instruments.
LEMMA TradeCarries ==
  ASSUME MarketTypes, NEW i \in Instruments, NEW j \in Instruments, NEW side \in Sides,
         TradeAndQuote(i, j, side), NEW m, m.type = "X",
         m.books = <<Entry(i, "trade", "New", 1, events + 1),
                     Entry(i, side, "New", 1, events + 1),
                     Entry(j, side, "New", 1, events + 1)>>
  PROVE  Carries(m, ShownNow, ShownNow') /\ ~IsReset(m)
<1> DEFINE e == events + 1
           v == ShownNow
           w == ShownNow'
           one == Entry(i, "trade", "New", 1, e)
           two == Entry(i, side, "New", 1, e)
           three == Entry(j, side, "New", 1, e)
           books == <<one, two, three>>
<1>1. e \in Nat /\ "New" \in Actions /\ 1 \in Nat
  BY FullFacts
<1>2. /\ one \in Book /\ one.entry = "trade"
      /\ two \in Book /\ two.entry = side /\ two.inst = i
      /\ EffectiveAction(two) = "New" /\ two.level = 1 /\ two.row = e
      /\ three \in Book /\ three.entry = side /\ three.inst = j
      /\ EffectiveAction(three) = "New" /\ three.level = 1 /\ three.row = e
  <2>1. one \in Book /\ one.entry = "trade"
    BY <1>1, EntryType DEF Entry
  <2>2. ASSUME NEW k \in Instruments, NEW b, b = Entry(k, side, "New", 1, e)
        PROVE  /\ b \in Book /\ b.entry = side /\ b.inst = k
               /\ EffectiveAction(b) = "New" /\ b.level = 1 /\ b.row = e
    <3> HIDE DEF e
    <3> QED BY <1>1, <2>2, EntryFacts
  <2> QED BY <2>1, <2>2
<1>3. /\ depth' = depth /\ depth[i] # Unlisted /\ depth[j] # Unlisted /\ i # j
      /\ full' = [full EXCEPT ![i][side] = <<e>> \o @, ![j][side] = <<e>> \o @]
  BY DEF TradeAndQuote, PublishBooks, Listed
<1>4. m.books = books
  OBVIOUS
<1> HIDE DEF one, two, three
<1>5. /\ full'[i][side] = <<e>> \o full[i][side]
      /\ \A other \in Sides : other # side => full'[i][other] = full[i][other]
      /\ full'[j][side] = <<e>> \o full[j][side]
      /\ \A other \in Sides : other # side => full'[j][other] = full[j][other]
      /\ \A k \in Instruments \ {i, j} : full'[k] = full[k]
  <2> HIDE DEF e
  <2>1. /\ full \in [Instruments -> Side] /\ \A k \in Instruments : full[k] \in Side
    BY DEF MarketTypes
  <2>2. /\ full'[i] = [full[i] EXCEPT ![side] = <<e>> \o full[i][side]]
        /\ full'[j] = [full[j] EXCEPT ![side] = <<e>> \o full[j][side]]
        /\ \A k \in Instruments \ {i, j} : full'[k] = full[k]
    BY <1>3, <2>1
  <2>3. ASSUME NEW f \in Side, NEW rows, NEW g, g = [f EXCEPT ![side] = rows]
        PROVE  /\ g[side] = rows
               /\ \A other \in Sides : other # side => g[other] = f[other]
    BY <2>3 DEF Side, Sides
  <2>4. /\ full'[i][side] = <<e>> \o full[i][side]
        /\ \A other \in Sides : other # side => full'[i][other] = full[i][other]
    <3> DEFINE f == full[i]
               g == full'[i]
               r == <<e>> \o full[i][side]
    <3>1. f \in Side /\ g = [f EXCEPT ![side] = r]
      BY <2>1, <2>2
    <3> HIDE DEF f, g, r
    <3>2. g[side] = r /\ \A other \in Sides : other # side => g[other] = f[other]
      BY <2>3, <3>1, SMTT(40)
    <3> QED BY <3>2 DEF f, g, r
  <2>5. /\ full'[j][side] = <<e>> \o full[j][side]
        /\ \A other \in Sides : other # side => full'[j][other] = full[j][other]
    <3> DEFINE f == full[j]
               g == full'[j]
               r == <<e>> \o full[j][side]
    <3>1. f \in Side /\ g = [f EXCEPT ![side] = r]
      BY <2>1, <2>2
    <3> HIDE DEF f, g, r
    <3>2. g[side] = r /\ \A other \in Sides : other # side => g[other] = f[other]
      BY <2>3, <3>1, SMTT(40)
    <3> QED BY <3>2 DEF f, g, r
  <2> QED BY <2>2, <2>4, <2>5
<1>6. AfterEntry(i, two, v[i]) = w[i]
  BY <1>1, <1>2, <1>3, <1>5, TopAdded, ZenonT(60)
<1>7. AfterEntry(j, three, v[j]) = w[j]
  BY <1>1, <1>2, <1>3, <1>5, TopAdded, ZenonT(60)
<1>8. \A k \in Instruments : v[k] \in ViewType
  BY ShownTypes, SMTT(40) DEF MarketTypes
<1>9. \A k \in Instruments \ {i, j} : w[k] = v[k]
  BY <1>3, <1>5 DEF ShownNow, Shown
<1>10. /\ w[i].marketDepth = v[i].marketDepth /\ w[j].marketDepth = v[j].marketDepth
  BY <1>3 DEF ShownNow, Shown
<1> HIDE DEF v, w, e, books
<1>11. /\ books \in Seq(Book) /\ Len(books) = 3
       /\ books[1] = one /\ books[2] = two /\ books[3] = three
  BY <1>2 DEF books
<1>12. ASSUME NEW k \in Instruments
       PROVE  /\ w[k].marketDepth = v[k].marketDepth
              /\ Leads(k, Increments(m.books, {}), v[k], w[k])
  <2>1. w[k].marketDepth = v[k].marketDepth
    BY <1>9, <1>10
  <2> DEFINE mid == IF k = i THEN w[k] ELSE v[k]
             t == [n \in 0 .. 3 |-> IF n < 2 THEN v[k] ELSE IF n = 2 THEN mid ELSE w[k]]
  <2>2. AfterEntry(k, one, v[k]) = v[k]
    <3>1. one.entry # "reset" /\ one.entry \notin Sides
      BY <1>2 DEF Sides
    <3> QED BY <1>2, <1>8, <3>1, EntrySide
  <2>3. \A b \in Book, bs \in ViewType :
          b.entry = side /\ b.inst # k => AfterEntry(k, b, bs) = bs
    <3>1. side # "reset"
      BY DEF Sides
    <3> QED BY <3>1 DEF AfterEntry
  <2>4. AfterEntry(k, two, v[k]) = mid
    BY <1>2, <1>6, <1>8, <2>3
  <2>5. v[k] \in ViewType /\ mid \in ViewType /\ w[k] \in ViewType
    <3>1. full' \in [Instruments -> Side] /\ depth' \in [Instruments -> 0 .. MaxDepth]
      <4>1. Exchange
        BY DEF Exchange
      <4> QED BY <4>1, FullTypes, ExchangeRest
    <3>2. w[k] \in ViewType
      BY <3>1, ShownTypesNext DEF w
    <3> QED BY <1>8, <3>2
  <2>6. AfterEntry(k, three, mid) = w[k]
    <3>1. CASE k = j
      BY <1>3, <1>7, <3>1
    <3>2. CASE k # j
      <4>1. AfterEntry(k, three, mid) = mid
        BY <1>2, <2>3, <2>5, <3>2
      <4>2. mid = w[k]
        BY <1>9, <3>2
      <4> QED BY <4>1, <4>2
    <3> QED BY <3>1, <3>2
  <2> HIDE DEF mid
  <2>7. /\ t \in [0 .. Len(books) -> ViewType]
        /\ t[0] = v[k] /\ t[1] = v[k] /\ t[2] = mid /\ t[3] = w[k]
    BY <1>11, <2>5
  <2> HIDE DEF t
  <2>8. \A n \in 1 .. Len(books) : t[n] = AfterEntry(k, books[n], t[n - 1])
    <3>1. \A n \in 1 .. 3 : (n = 1 /\ n - 1 = 0) \/ (n = 2 /\ n - 1 = 1) \/ (n = 3 /\ n - 1 = 2)
      OBVIOUS
    <3> QED BY <1>11, <2>2, <2>4, <2>6, <2>7, <3>1
  <2>9. Leads(k, Increments(books, {}), t[0], t[Len(books)])
    BY <1>11, <2>7, <2>8, EntriesLead
  <2> QED BY <1>4, <1>11, <2>1, <2>7, <2>9
<1>13. Carries(m, v, w)
  BY <1>12 DEF Carries
<1>14. ~IsReset(m)
  <2>1. DOMAIN m.books = {1, 2, 3}
    BY <1>4, <1>11, LenProperties
  <2>2. side # "reset"
    BY DEF Sides
  <2> QED BY <1>2, <1>4, <1>11, <2>1, <2>2 DEF IsReset
<1> QED BY <1>13, <1>14 DEF v, w

\* All books are emptied.
LEMMA ResetCarries ==
  ASSUME MarketTypes, ResetChannel, NEW m, m.type = "X",
         m.books = <<Entry("none", "reset", "New", 0, Filler)>>
  PROVE  Carries(m, ShownNow, ShownNow')
<1> DEFINE b == Entry("none", "reset", "New", 0, Filler)
           v == ShownNow
           w == ShownNow'
<1>1. b \in Book /\ b.entry = "reset"
  <2>1. "New" \in Actions /\ 0 \in Nat /\ Filler \in Nat
    BY DEF Actions, Filler
  <2> QED BY <2>1, EntryType DEF Entry
<1>2. m.books = <<b>>
  OBVIOUS
<1> HIDE DEF b
<1>3. ASSUME NEW k \in Instruments
      PROVE  /\ w[k].marketDepth = v[k].marketDepth
             /\ Leads(k, Increments(m.books, {}), v[k], w[k])
  <2>1. v[k] \in ViewType /\ depth[k] \in Nat
    BY ShownTypes, LevelsAreNumbers DEF MarketTypes
  <2>2. View(<<>>, depth[k]) = <<>>
    <3>1. ASSUME NEW z, z = View(<<>>, depth[k]) PROVE z = <<>>
      <4>1. <<>> \in Seq(Nat) /\ Len(<<>>) = 0
        BY EmptySeq
      <4>2. z \in Seq(Nat) /\ Len(z) = IF Len(<<>>) < depth[k] THEN Len(<<>>) ELSE depth[k]
        BY <2>1, <3>1, <4>1, ViewRows
      <4>3. Len(z) = 0
        BY <2>1, <4>1, <4>2
      <4> QED BY <4>2, <4>3, EmptySeq
    <3> QED BY <3>1
  <2>3. v[k].marketDepth = depth[k]
    BY DEF ShownNow, Shown
  <2>4. w[k] = [marketDepth |-> depth[k], bid |-> <<>>, ask |-> <<>>]
    BY <2>2 DEF ResetChannel, ShownNow, Shown, Empty
  <2> HIDE DEF v, w
  <2>5. w[k] = [v[k] EXCEPT !.bid = <<>>, !.ask = <<>>]
    <3>1. ASSUME NEW bs \in ViewType, NEW y,
                 y = [marketDepth |-> bs.marketDepth, bid |-> <<>>, ask |-> <<>>],
                 NEW x, x = [bs EXCEPT !.bid = <<>>, !.ask = <<>>]
          PROVE  x = y
      <4>1. /\ x \in ViewType /\ x.marketDepth = bs.marketDepth
            /\ x.bid = <<>> /\ x.ask = <<>>
        BY <3>1, ResetView, Zenon
      <4>2. <<>> \in Seq(Nat) /\ Len(<<>>) = 0 /\ bs.marketDepth \in Nat
            /\ bs.marketDepth \in 0 .. MaxDepth
        BY EmptySeq, ViewFacts
      <4>3. y \in ViewType
        BY <3>1, <4>2 DEF ViewType, Fits
      <4> QED BY <3>1, <4>1, <4>3, SameView
    <3> QED BY ONLY <2>1, <2>3, <2>4, <3>1, ZenonT(60)
  <2>6. AfterEntry(k, b, v[k]) = w[k]
    BY <1>1, <2>5 DEF AfterEntry
  <2>7. Leads(k, Increments(<<b>>, {}), v[k], AfterEntry(k, b, v[k]))
    BY <1>1, <2>1, OneLeads
  <2> QED BY <1>2, <2>3, <2>4, <2>6, <2>7
<1> QED BY <1>3 DEF Carries

\* Instruments that are not listed have no rows.
Unseen == \A i \in Instruments : depth[i] = Unlisted => full[i] = Empty

\* What a less deep book shows is what is left of a deeper one.
LEMMA ViewTrim ==
  ASSUME NEW rows \in Seq(Nat), NEW old \in Nat, NEW new \in Nat,
         Len(rows) > old => new < old
  PROVE  View(rows, new) = Trim(View(rows, old), new)
<1> SUFFICES ASSUME NEW v, v = View(rows, old), NEW x, x = View(rows, new),
                    NEW z, z = Trim(v, new)
             PROVE  x = z
  OBVIOUS
<1>1. /\ v \in Seq(Nat) /\ Len(v) = IF Len(rows) < old THEN Len(rows) ELSE old
      /\ \A n \in 1 .. Len(v) : v[n] = rows[n]
  BY ViewRows
<1>2. /\ x \in Seq(Nat) /\ Len(x) = IF Len(rows) < new THEN Len(rows) ELSE new
      /\ \A n \in 1 .. Len(x) : x[n] = rows[n]
  BY ViewRows
<1>3. /\ z \in Seq(Nat) /\ Len(z) = IF Len(v) > new THEN new ELSE Len(v)
      /\ \A n \in 1 .. Len(z) : z[n] = v[n]
  BY <1>1, TrimRows
<1>4. Len(rows) \in Nat
  BY LenProperties
<1>5. Len(x) = Len(z)
  <2>1. /\ Len(v) = IF Len(rows) < old THEN Len(rows) ELSE old
        /\ Len(x) = IF Len(rows) < new THEN Len(rows) ELSE new
        /\ Len(z) = IF Len(v) > new THEN new ELSE Len(v)
        /\ Len(rows) > old => new < old
    BY <1>1, <1>2, <1>3
  <2> QED BY ONLY <1>4, <2>1
<1>6. \A n \in 1 .. Len(z) : n \in 1 .. Len(v) /\ n \in 1 .. Len(x)
  <2>1. Len(v) \in Nat /\ Len(z) = IF Len(v) > new THEN new ELSE Len(v)
    BY <1>1, <1>3, LenProperties
  <2> QED BY ONLY <1>5, <2>1
<1>7. \A n \in 1 .. Len(z) : x[n] = z[n]
  BY <1>1, <1>2, <1>3, <1>6
<1> QED BY <1>2, <1>3, <1>5, <1>7, SameRows

\* ... of an instrument that is added or whose depth changes, ...
LEMMA DefineCarries ==
  ASSUME MarketTypes, Unseen, NEW i \in Instruments, NEW levels \in 1 .. MaxDepth,
         Define(i, levels), NEW m, m.type = "d",
         m.instruments = <<[inst |-> i, depth |-> levels,
                            update |-> IF i \in Listed THEN "M" ELSE "A"]>>
  PROVE  Carries(m, ShownNow, ShownNow')
<1> DEFINE d == [inst |-> i, depth |-> levels,
                 update |-> IF i \in Listed THEN "M" ELSE "A"]
           v == ShownNow
           w == ShownNow'
<1>1. d \in Instrument /\ m.instruments = <<d>>
  BY DEF Instrument
<1>2. /\ full' = full /\ depth' = [depth EXCEPT ![i] = levels] /\ levels # depth[i]
      /\ full \in [Instruments -> Side] /\ depth \in [Instruments -> 0 .. MaxDepth]
  BY DEF Define, MarketTypes
<1>3. \A k \in Instruments \ {i} : w[k] = v[k]
  BY <1>2 DEF ShownNow, Shown
<1>4. /\ v[i] = [marketDepth |-> depth[i], bid |-> View(full[i].bid, depth[i]),
                 ask |-> View(full[i].ask, depth[i])]
      /\ w[i] = [marketDepth |-> levels, bid |-> View(full[i].bid, levels),
                 ask |-> View(full[i].ask, levels)]
      /\ v[i] \in ViewType
  <2>1. v[i] \in ViewType
    BY ShownTypes DEF MarketTypes
  <2> QED BY <1>2, <2>1 DEF ShownNow, Shown
<1>5. /\ full[i].bid \in Seq(Nat) /\ full[i].ask \in Seq(Nat) /\ depth[i] \in Nat
      /\ levels \in Nat
  BY <1>2, LevelsAreNumbers DEF Side
<1> HIDE DEF v, w
<1>6. CASE i \in Listed
  <2>1. d.update = "M" /\ v[i].marketDepth # Unlisted /\ d.depth # v[i].marketDepth
        /\ d.inst = i /\ d.depth = levels
    BY <1>2, <1>4, <1>6 DEF Listed
  <2>2. /\ Len(full[i].bid) > depth[i] => levels < depth[i]
        /\ Len(full[i].ask) > depth[i] => levels < depth[i]
    BY <1>6 DEF Define, Sides, Listed
  <2>3. View(full[i].bid, levels) = Trim(View(full[i].bid, depth[i]), levels)
    BY <1>5, <2>2, ViewTrim
  <2>4. View(full[i].ask, levels) = Trim(View(full[i].ask, depth[i]), levels)
    BY <1>5, <2>2, ViewTrim
  <2>5. w[i] = Shrink(v[i], levels)
    BY <1>4, <2>3, <2>4 DEF Shrink
  <2> HIDE DEF d
  <2>6. m.type # "X"
    OBVIOUS
  <2>7. Carries(m, v, w)
    BY <1>1, <1>3, <2>1, <2>5, <2>6 DEF Carries
  <2> QED BY <2>7 DEF v, w
<1>7. CASE i \notin Listed
  <2>1. depth[i] = Unlisted /\ d.update = "A" /\ d.inst = i /\ d.depth = levels
    BY <1>7 DEF Listed
  <2>2. v[i] = NoBook
    BY <1>4, <2>1, NoBookType
  <2>3. full[i].bid = <<>> /\ full[i].ask = <<>>
    BY <2>1 DEF Unseen, Empty
  <2>4. View(<<>>, levels) = <<>>
    <3>1. <<>> \in Seq(Nat) /\ Len(<<>>) = 0
      BY EmptySeq
    <3>2. ASSUME NEW z, z = View(<<>>, levels) PROVE z = <<>>
      <4>1. z \in Seq(Nat) /\ Len(z) = IF Len(<<>>) < levels THEN Len(<<>>) ELSE levels
        BY <1>5, <3>1, <3>2, ViewRows
      <4>2. Len(z) = 0
        BY <1>5, <3>1, <4>1
      <4> QED BY <4>1, <4>2, EmptySeq
    <3> QED BY <3>2
  <2>5. w[i] = Create(levels)
    BY <1>4, <2>3, <2>4 DEF Create
  <2> HIDE DEF d
  <2>6. m.type # "X"
    OBVIOUS
  <2>7. Carries(m, v, w)
    BY <1>1, <1>3, <2>1, <2>2, <2>5, <2>6 DEF Carries
  <2> QED BY <2>7 DEF v, w
<1> QED BY <1>6, <1>7

\* ... and of one that is deleted.
LEMMA DelistCarries ==
  ASSUME MarketTypes, NEW i \in Instruments, Delist(i), NEW m, m.type = "d",
         m.instruments = <<[inst |-> i, depth |-> 1, update |-> "D"]>>
  PROVE  Carries(m, ShownNow, ShownNow')
<1> DEFINE d == [inst |-> i, depth |-> 1, update |-> "D"]
           v == ShownNow
           w == ShownNow'
<1>1. d \in Instrument /\ m.instruments = <<d>>
  BY BookAssumption DEF Instrument
<1>2. /\ full' = [full EXCEPT ![i] = Empty] /\ depth' = [depth EXCEPT ![i] = Unlisted]
      /\ full \in [Instruments -> Side] /\ depth \in [Instruments -> 0 .. MaxDepth]
      /\ depth[i] # Unlisted
  BY DEF Delist, MarketTypes, Listed
<1>3. \A k \in Instruments \ {i} : w[k] = v[k]
  BY <1>2 DEF ShownNow, Shown
<1>4. v[i].marketDepth = depth[i]
  BY DEF ShownNow, Shown
<1>5. w[i] = NoBook
  <2>1. full' \in [Instruments -> Side] /\ depth' \in [Instruments -> 0 .. MaxDepth]
    <3>1. Exchange
      BY DEF Exchange
    <3> QED BY <3>1, FullTypes, ExchangeRest
  <2>2. w[i] \in ViewType
    BY <2>1, ShownTypesNext
  <2>3. w[i].marketDepth = Unlisted
    BY <1>2 DEF ShownNow, Shown
  <2> HIDE DEF w
  <2> QED BY <2>2, <2>3, NoBookType
<1>6. d.update = "D" /\ d.inst = i /\ m.type # "X"
  OBVIOUS
<1> HIDE DEF v, w, d
<1>7. Carries(m, v, w)
  BY <1>1, <1>2, <1>3, <1>4, <1>5, <1>6 DEF Carries
<1> QED BY <1>7 DEF v, w

\* What the exchange does: nothing that shows, or a message that tells of it.
Quotes(m) == ~IsReset(m) /\ m.type = "X" /\ UNCHANGED <<depth, gone, changed, right_from>>

\* A message of a definition.
Defines(m) ==
  \E i \in Instruments :
    \/ \E levels \in 1 .. MaxDepth :
         /\ Define(i, levels)
         /\ m.instruments = <<[inst |-> i, depth |-> levels,
                               update |-> IF i \in Listed THEN "M" ELSE "A"]>>
    \/ /\ Delist(i)
       /\ m.instruments = <<[inst |-> i, depth |-> 1, update |-> "D"]>>

\* A message that carries the views on is published.
Tells(m) ==
  /\ m.seq = seq + 1 /\ Publish(m)
  /\ Carries(m, ShownNow, ShownNow')
  /\ Quotes(m) \/ (m.type = "X" /\ ResetChannel) \/ (m.type = "d" /\ Defines(m))

\* Nothing is published, and nothing that is shown changes.
Silent == ShownNow' = ShownNow
            /\ UNCHANGED <<seq, queue, depth, gone, changed, right_from>>

\* An event at the exchange is published, or is below what is shown.
LEMMA ExchangeStep ==
  ASSUME MarketTypes, Unseen, Exchange
  PROVE  Silent \/ \E m : Tells(m)
<1> DEFINE Good == Silent \/ \E m : Tells(m)
<1> SUFFICES Good
  OBVIOUS
<1>1. ASSUME NEW books, PublishBooks(books),
             \A m : m.type = "X" /\ m.books = books =>
                      Carries(m, ShownNow, ShownNow') /\ ~IsReset(m)
      PROVE  Good
  <2> DEFINE m == BooksMessage(books)
  <2>1. /\ m.type = "X" /\ m.books = books /\ m.seq = seq + 1 /\ Publish(m)
        /\ UNCHANGED <<depth, gone, changed, right_from>>
    BY <1>1 DEF BooksMessage, PublishBooks
  <2> HIDE DEF m
  <2>2. Carries(m, ShownNow, ShownNow') /\ ~IsReset(m)
    BY <1>1, <2>1
  <2> QED BY <2>1, <2>2 DEF Tells, Quotes
<1> HIDE DEF Good
<1>2. ASSUME NEW i \in Instruments, NEW side \in Sides, NEW level \in 1 .. MaxRows,
             AddRow(i, side, level)
      PROVE  Good
  <2>1. CASE level <= depth[i]
    <3>1. PublishBooks(<<Entry(i, side, "New", level, events + 1)>>)
      BY <1>2, <2>1 DEF AddRow
    <3> QED BY <1>1, <1>2, <2>1, <3>1, AddCarries
  <2>2. CASE ~(level <= depth[i])
    <3>1. ShownNow' = ShownNow
      BY <1>2, <2>2, HiddenAdd
    <3>2. UNCHANGED <<seq, queue, depth, gone, changed, right_from>>
      BY <1>2, <2>2 DEF AddRow
    <3> QED BY <3>1, <3>2 DEF Good, Silent
  <2> QED BY <2>1, <2>2
<1>3. ASSUME NEW i \in Instruments, NEW side \in Sides, NEW level \in 1 .. MaxRows,
             AmendRow(i, side, level)
      PROVE  Good
  <2>1. PublishBooks(<<Entry(i, side, "Change", level, events + 1)>>)
    BY <1>3 DEF AmendRow
  <2> QED BY <1>1, <1>3, <2>1, AmendCarries
<1>4. full' \in [Instruments -> Side]
  BY FullTypes
<1>5. ASSUME NEW i \in Instruments, NEW side \in Sides, NEW level \in 1 .. MaxRows,
             RemoveRow(i, side, level)
      PROVE  Good
  <2> DEFINE one == <<Entry(i, side, "Delete", level, Filler)>>
  <2>1. CASE Len(full[i][side]) > depth[i]
    <3>1. PublishBooks(one \o Revealed(i, side, depth[i]))
      BY <1>5, <2>1 DEF RemoveRow
    <3>2. ASSUME NEW m, m.type = "X", m.books = one \o Revealed(i, side, depth[i])
          PROVE  Carries(m, ShownNow, ShownNow') /\ ~IsReset(m)
      BY <1>4, <1>5, <2>1, <3>2, RemoveCarries
    <3> HIDE DEF one
    <3> QED BY <1>1, <3>1, <3>2
  <2>2. CASE ~(Len(full[i][side]) > depth[i])
    <3>1. PublishBooks(one \o <<>>)
      BY <1>5, <2>2 DEF RemoveRow
    <3>2. ASSUME NEW m, m.type = "X", m.books = one \o <<>>
          PROVE  Carries(m, ShownNow, ShownNow') /\ ~IsReset(m)
      BY <1>4, <1>5, <2>2, <3>2, RemoveCarries
    <3> HIDE DEF one
    <3> QED BY <1>1, <3>1, <3>2
  <2> QED BY <2>1, <2>2
<1>6. ASSUME NEW i \in Instruments, NEW side \in Sides, NEW level \in 1 .. MaxRows,
             SweepRows(i, side, level)
      PROVE  Good
  <2>1. PublishBooks(<<Entry(i, side, "DeleteFrom", level, Filler)>>
                       \o Revealed(i, side, Len(View(full[i][side], depth[i])) - level + 1))
    BY <1>6 DEF SweepRows
  <2>2. \A m : m.type = "X" /\ m.books = <<Entry(i, side, "DeleteFrom", level, Filler)>>
                                           \o Revealed(i, side,
                                                Len(View(full[i][side], depth[i])) - level + 1)
                 => Carries(m, ShownNow, ShownNow') /\ ~IsReset(m)
    BY <1>4, <1>6, SweepCarries
  <2> QED BY <1>1, <2>1, <2>2
<1>7. ASSUME NEW i \in Instruments, NEW side \in Sides, ClearSide(i, side)
      PROVE  Good
  <2>1. PublishBooks(<<Entry(i, side, "DeleteThru", 1, Filler)>>)
    BY <1>7 DEF ClearSide
  <2>2. i \in Listed
    <3>1. full[i][side] # <<>>
      BY <1>7 DEF ClearSide
    <3>2. full[i] # Empty
      BY <3>1 DEF Empty, Sides
    <3> QED BY <3>2 DEF Unseen, Listed
  <2> QED BY <1>1, <1>7, <2>1, <2>2, ClearCarries
<1>8. ASSUME NEW i \in Instruments, NEW j \in Instruments, NEW side \in Sides,
             TradeAndQuote(i, j, side)
      PROVE  Good
  <2>1. PublishBooks(<<Entry(i, "trade", "New", 1, events + 1),
                       Entry(i, side, "New", 1, events + 1),
                       Entry(j, side, "New", 1, events + 1)>>)
    BY <1>8 DEF TradeAndQuote
  <2> QED BY <1>1, <1>8, <2>1, TradeCarries
<1>9. CASE ResetChannel
  <2> DEFINE m == BooksMessage(<<Entry("none", "reset", "New", 0, Filler)>>)
  <2>1. /\ m.type = "X" /\ m.books = <<Entry("none", "reset", "New", 0, Filler)>>
        /\ m.seq = seq + 1 /\ Publish(m)
    BY <1>9 DEF BooksMessage, ResetChannel
  <2> HIDE DEF m
  <2>2. Carries(m, ShownNow, ShownNow')
    BY <1>9, <2>1, ResetCarries
  <2> QED BY <1>9, <2>1, <2>2 DEF Tells, Good
<1>10. ASSUME NEW i \in Instruments, NEW levels \in 1 .. MaxDepth, Define(i, levels)
       PROVE  Good
  <2> DEFINE m == [seq |-> seq + 1, type |-> "d", books |-> <<>>,
                   instruments |-> <<[inst |-> i, depth |-> levels,
                                      update |-> IF i \in Listed THEN "M" ELSE "A"]>>]
  <2>1. /\ m.type = "d" /\ m.seq = seq + 1 /\ Publish(m)
        /\ m.instruments = <<[inst |-> i, depth |-> levels,
                              update |-> IF i \in Listed THEN "M" ELSE "A"]>>
    BY <1>10 DEF Define
  <2> HIDE DEF m
  <2>2. Carries(m, ShownNow, ShownNow')
    BY <1>10, <2>1, DefineCarries
  <2>3. Defines(m)
    BY <1>10, <2>1 DEF Defines
  <2> QED BY <2>1, <2>2, <2>3 DEF Tells, Good
<1>11. ASSUME NEW i \in Instruments, Delist(i)
       PROVE  Good
  <2> DEFINE m == [seq |-> seq + 1, type |-> "d", books |-> <<>>,
                   instruments |-> <<[inst |-> i, depth |-> 1, update |-> "D"]>>]
  <2>1. /\ m.type = "d" /\ m.seq = seq + 1 /\ Publish(m)
        /\ m.instruments = <<[inst |-> i, depth |-> 1, update |-> "D"]>>
    BY <1>11 DEF Delist
  <2> HIDE DEF m
  <2>2. Carries(m, ShownNow, ShownNow')
    BY <1>11, <2>1, DelistCarries
  <2>3. Defines(m)
    BY <1>11, <2>1 DEF Defines
  <2> QED BY <2>1, <2>2, <2>3 DEF Tells, Good
<1>12. Good
  BY <1>2, <1>3, <1>5, <1>6, <1>7, <1>8, <1>9, <1>10, <1>11 DEF Exchange
<1> QED BY <1>12 DEF Good

-----------------------------------------------------------------------------
(* The messages on the way, by their sequence.                             *)

\* The books shown when packet q had been published, and its message.
At(q)  == IF q = done THEN view ELSE queue[q - done].view
Msg(q) == queue[q - done].message

\* A reset is an entry about no instrument.
ForAll(m) ==
  m.type = "X" =>
    \A n \in DOMAIN m.books : m.books[n].entry = "reset" => m.books[n].inst = "none"

\* Nothing is lost on the way to the program.
Chained ==
  Connected =>
    /\ Len(queue) = seq - done
    /\ At(seq) = ShownNow
    /\ \A q \in done + 1 .. seq :
         /\ Msg(q).seq = q /\ ForAll(Msg(q))
         /\ Carries(Msg(q), At(q - 1), At(q))

\* What the exchange leaves alone.
Apart == UNCHANGED <<bookVars, first, definitions, snapshots, done, view>>

\* Sequences are natural numbers.
LEMMA SeqFacts ==
  ASSUME MarketTypes
  PROVE  seq \in Nat /\ done \in Nat /\ done <= seq /\ done .. seq \subseteq Nat
BY MarketAssumption DEF MarketTypes

\* The queue holds the packets from the one after done up to the last.
LEMMA QueueFacts ==
  ASSUME MarketTypes, Connected, Chained
  PROVE  /\ Len(queue) = seq - done
         /\ \A q \in done .. seq : At(q) \in [Instruments -> ViewType]
         /\ \A q \in done + 1 .. seq :
              /\ q - done \in 1 .. Len(queue) /\ q - 1 \in done .. seq
              /\ q \in done .. seq /\ q \in Nat
              /\ Msg(q) \in Message
<1>1. seq \in Nat /\ done \in Nat /\ done <= seq /\ Len(queue) = seq - done
  BY SeqFacts DEF Chained
<1>2. \A n \in 1 .. Len(queue) : queue[n] \in Held
  BY ElementOfSeq DEF MarketTypes
<1>3. \A n \in 1 .. Len(queue) :
        queue[n].message \in Message /\ queue[n].view \in [Instruments -> ViewType]
  BY <1>2 DEF Held
<1>4. \A q \in done + 1 .. seq :
        /\ q - done \in 1 .. Len(queue) /\ q - 1 \in done .. seq
        /\ q \in done .. seq /\ q # done /\ q \in Nat
  BY <1>1
<1>5. ASSUME NEW q \in done .. seq PROVE At(q) \in [Instruments -> ViewType]
  <2>1. CASE q = done
    BY <2>1 DEF At, MarketTypes
  <2>2. CASE q # done
    <3>1. q \in done + 1 .. seq
      BY <1>1, <2>2
    <3> QED BY <1>3, <1>4, <2>2, <3>1 DEF At
  <2> QED BY <2>1, <2>2
<1> QED BY <1>1, <1>3, <1>4, <1>5 DEF Msg

\* A packet is put behind those on the way.
LEMMA PublishKeeps ==
  ASSUME MarketTypes, Connected, Chained, Apart, NEW m, Publish(m)
  PROVE  /\ seq' = seq + 1 /\ done' = done /\ Connected'
         /\ Len(queue') = seq' - done'
         /\ \A q \in done .. seq : At(q)' = At(q)
         /\ \A q \in done + 1 .. seq : Msg(q)' = Msg(q)
         /\ \A q : q = seq + 1 => At(q)' = ShownNow' /\ Msg(q)' = m
<1> DEFINE e == [message |-> m, view |-> ShownNow']
<1>1. seq \in Nat /\ done \in Nat /\ done <= seq /\ Len(queue) = seq - done
  BY SeqFacts DEF Chained
<1>2. /\ seq' = seq + 1 /\ done' = done /\ view' = view /\ Connected'
      /\ queue' = Append(queue, e)
  BY DEF Apart, Publish, Connected
<1>3. e.message = m /\ e.view = ShownNow'
  OBVIOUS
<1>4. queue \in Seq(Held)
  BY DEF MarketTypes
<1> HIDE DEF e
<1>5. /\ Len(Append(queue, e)) = Len(queue) + 1
      /\ \A n \in 1 .. Len(queue) : Append(queue, e)[n] = queue[n]
      /\ Append(queue, e)[Len(queue) + 1] = e
  <2>1. queue \in Seq(Held \cup {e}) /\ e \in Held \cup {e}
    BY <1>4
  <2> QED BY <2>1, AppendProperties
<1>6. ASSUME NEW q \in done + 1 .. seq
      PROVE  queue'[q - done] = queue[q - done] /\ q # done
  BY <1>1, <1>2, <1>5
<1>7. ASSUME NEW q \in done .. seq PROVE At(q)' = At(q)
  <2>1. CASE q = done
    BY <1>2, <2>1 DEF At
  <2>2. CASE q # done
    <3>1. q \in done + 1 .. seq
      BY <1>1, <2>2
    <3> QED BY <1>2, <1>6, <2>2, <3>1 DEF At
  <2> QED BY <2>1, <2>2
<1>8. \A q \in done + 1 .. seq : Msg(q)' = Msg(q)
  BY <1>2, <1>6 DEF Msg
<1>9. ASSUME NEW q, q = seq + 1 PROVE At(q)' = ShownNow' /\ Msg(q)' = m
  <2>1. q # done /\ q - done = Len(queue) + 1
    BY <1>1, <1>9
  <2> QED BY <1>2, <1>3, <1>5, <2>1 DEF At, Msg
<1>10. Len(queue') = seq' - done'
  BY <1>1, <1>2, <1>5
<1> QED BY <1>2, <1>7, <1>8, <1>9, <1>10

\* A reset is told as one.
LEMMA TellsForAll ==
  ASSUME MarketTypes, Connected, NEW m, Tells(m)
  PROVE  ForAll(m)
<1>1. CASE Quotes(m)
  BY <1>1 DEF Quotes, IsReset, ForAll
<1>2. CASE m.type = "d"
  BY <1>2 DEF ForAll
<1>3. CASE ResetChannel
  <2> DEFINE b == BooksMessage(<<Entry("none", "reset", "New", 0, Filler)>>)
             e == [message |-> m, view |-> ShownNow']
             g == [message |-> b, view |-> ShownNow']
  <2>1. queue' = Append(queue, e) /\ queue' = Append(queue, g) /\ queue \in Seq(Held)
    <3>1. Publish(b) /\ Publish(m)
      BY <1>3 DEF ResetChannel, Tells
    <3> QED BY <3>1 DEF Publish, MarketTypes
  <2>2. ASSUME NEW x, NEW y, Append(queue, x) = Append(queue, y)
        PROVE  x = y
    <3>1. queue \in Seq(Held \cup {x, y}) /\ x \in Held \cup {x, y} /\ y \in Held \cup {x, y}
      BY <2>1
    <3>2. Append(queue, x)[Len(queue) + 1] = x /\ Append(queue, y)[Len(queue) + 1] = y
      BY <3>1, AppendProperties
    <3> QED BY <2>2, <3>2
  <2>3. e = g
    BY <2>1, <2>2
  <2>4. m = b
    <3>1. e.message = m /\ g.message = b
      OBVIOUS
    <3> QED BY <2>3, <3>1
  <2>5. b.books = <<Entry("none", "reset", "New", 0, Filler)>>
    BY DEF BooksMessage
  <2>6. \A n \in DOMAIN b.books : b.books[n].inst = "none"
    BY <2>5 DEF Entry
  <2> QED BY <2>4, <2>6 DEF ForAll
<1> QED BY <1>1, <1>2, <1>3 DEF Tells

\* A published packet extends the chain.
LEMMA ChainPublish ==
  ASSUME MarketTypes, Connected, Chained, Apart, NEW m, Tells(m)
  PROVE  Chained'
<1>1. Publish(m) /\ m.seq = seq + 1 /\ Carries(m, ShownNow, ShownNow') /\ ForAll(m)
  BY TellsForAll DEF Tells
<1>2. /\ seq' = seq + 1 /\ done' = done
      /\ Len(queue') = seq' - done'
      /\ \A q \in done .. seq : At(q)' = At(q)
      /\ \A q \in done + 1 .. seq : Msg(q)' = Msg(q)
      /\ \A q : q = seq + 1 => At(q)' = ShownNow' /\ Msg(q)' = m
  BY <1>1, PublishKeeps
<1>3. seq \in Nat /\ done \in Nat /\ done <= seq /\ At(seq) = ShownNow
  BY SeqFacts DEF Chained
<1>4. ASSUME NEW q \in done' + 1 .. seq'
      PROVE  /\ Msg(q)'.seq = q /\ ForAll(Msg(q)')
             /\ Carries(Msg(q)', At(q - 1)', At(q)')
  <2>1. CASE q = seq + 1
    <3>1. At(q)' = ShownNow' /\ Msg(q)' = m
      BY <1>2, <2>1
    <3>2. q - 1 = seq /\ seq \in done .. seq
      BY <1>3, <2>1
    <3>3. At(q - 1)' = ShownNow
      BY <1>2, <1>3, <3>2
    <3> QED BY <1>1, <2>1, <3>1, <3>3
  <2>2. CASE q # seq + 1
    <3>1. q \in done + 1 .. seq /\ q - 1 \in done .. seq /\ q \in done .. seq
      BY <1>2, <1>3, <2>2
    <3>2. At(q)' = At(q) /\ At(q - 1)' = At(q - 1) /\ Msg(q)' = Msg(q)
      BY <1>2, <3>1
    <3> QED BY <3>1, <3>2 DEF Chained
  <2> QED BY <2>1, <2>2
<1>5. At(seq)' = ShownNow'
  <2>1. ASSUME NEW q, q = seq + 1 PROVE At(q)' = At(seq)'
    BY <1>2, <2>1 DEF At
  <2> QED BY <1>2, <2>1
<1>6. ASSUME NEW q \in done' + 1 .. seq' PROVE ForAll(Msg(q))' /\ Carries(Msg(q), At(q - 1), At(q))'
  BY <1>4 DEF ForAll, Carries, Leads, AfterWork
<1> QED BY <1>2, <1>4, <1>5, <1>6 DEF Chained

\* As long as the queue stays, so do its packets.
LEMMA QueueStays ==
  ASSUME UNCHANGED <<queue, done, view>>
  PROVE  \A q : At(q)' = At(q) /\ Msg(q)' = Msg(q)
BY DEF At, Msg

\* The packet that was waited for longest is taken.
LEMMA HandleKeeps ==
  ASSUME MarketTypes, Connected, Chained, Handle
  PROVE  /\ done + 1 \in done + 1 .. seq /\ seq' = seq /\ done' = done + 1
         /\ Len(queue') = seq' - done'
         /\ Head(queue).message = Msg(done + 1)
         /\ view' = At(done + 1) /\ view = At(done)
         /\ \A q \in done' .. seq : At(q)' = At(q)
         /\ \A q \in done' + 1 .. seq : Msg(q)' = Msg(q)
<1>1. /\ seq \in Nat /\ done \in Nat /\ done <= seq /\ Len(queue) = seq - done
      /\ \A q \in done + 1 .. seq : Msg(q).seq = q
  BY SeqFacts DEF Chained
<1>2. /\ queue # <<>> /\ queue' = Tail(queue) /\ done' = Head(queue).message.seq
      /\ view' = Head(queue).view /\ seq' = seq
  BY DEF Handle, marketVars
<1>3. /\ Head(queue) = queue[1] /\ Len(Tail(queue)) = Len(queue) - 1
      /\ Len(queue) >= 1
      /\ \A n \in 1 .. Len(queue) - 1 : Tail(queue)[n] = queue[n + 1]
  BY <1>2, HeadOfQueue
<1>4. done + 1 \in done + 1 .. seq /\ (done + 1) - done = 1 /\ done + 1 # done
  BY <1>1, <1>3
<1>5. Msg(done + 1) = queue[1].message /\ At(done + 1) = queue[1].view
  BY <1>4 DEF Msg, At
<1>6. done' = done + 1 /\ view' = At(done + 1)
  BY <1>1, <1>2, <1>3, <1>4, <1>5
<1>7. ASSUME NEW q \in done' + 1 .. seq
      PROVE  queue'[q - done'] = queue[q - done] /\ q # done' /\ q # done
  <2>1. q - done' \in 1 .. Len(queue) - 1 /\ (q - done') + 1 = q - done
    BY <1>1, <1>6
  <2> QED BY <1>1, <1>2, <1>3, <1>6, <2>1, SMTT(40)
<1>8. ASSUME NEW q \in done' .. seq PROVE At(q)' = At(q)
  <2>1. CASE q = done'
    <3>1. At(q)' = view'
      BY <2>1 DEF At
    <3> QED BY <1>6, <2>1, <3>1
  <2>2. CASE q # done'
    <3>1. q \in done' + 1 .. seq
      BY <1>1, <1>6, <2>2
    <3>2. queue'[q - done'] = queue[q - done] /\ q # done' /\ q # done
      BY <1>7, <3>1
    <3> QED BY <3>2 DEF At
  <2> QED BY <2>1, <2>2
<1>9. \A q \in done' + 1 .. seq : Msg(q)' = Msg(q)
  BY <1>7 DEF Msg
<1>10. Len(queue') = seq' - done'
  BY <1>1, <1>2, <1>3, <1>6
<1>11. view = At(done)
  BY DEF At
<1> QED BY <1>2, <1>3, <1>4, <1>5, <1>6, <1>8, <1>9, <1>10, <1>11

\* Handling a packet takes the first one off the chain.
LEMMA ChainHandle ==
  ASSUME MarketTypes, Connected, Chained, Handle
  PROVE  Chained'
<1>1. /\ done + 1 \in done + 1 .. seq /\ seq' = seq /\ done' = done + 1
      /\ Len(queue') = seq' - done'
      /\ \A q \in done' .. seq : At(q)' = At(q)
      /\ \A q \in done' + 1 .. seq : Msg(q)' = Msg(q)
  BY HandleKeeps
<1>2. seq \in Nat /\ done \in Nat
  BY SeqFacts
<1>3. At(seq)' = ShownNow'
  <2>1. ShownNow' = ShownNow
    BY DEF Handle, marketVars, ShownNow, Shown
  <2>2. ASSUME NEW q, q = seq PROVE At(q)' = ShownNow
    <3>1. q \in done' .. seq
      BY <1>1, <1>2, <2>2
    <3> QED BY <1>1, <2>2, <3>1 DEF Chained
  <2>3. ASSUME NEW q, q = seq PROVE At(q)' = At(seq)'
    BY <1>1, <2>3 DEF At
  <2> QED BY <2>1, <2>2, <2>3
<1>4. ASSUME NEW q \in done' + 1 .. seq'
      PROVE  /\ Msg(q)'.seq = q /\ ForAll(Msg(q))'
             /\ Carries(Msg(q), At(q - 1), At(q))'
  <2>1. q \in done + 1 .. seq /\ q \in done' .. seq /\ q - 1 \in done' .. seq
    BY <1>1, <1>2
  <2>2. At(q)' = At(q) /\ At(q - 1)' = At(q - 1) /\ Msg(q)' = Msg(q)
    BY <1>1, <2>1
  <2>3. Msg(q).seq = q /\ ForAll(Msg(q)) /\ Carries(Msg(q), At(q - 1), At(q))
    BY <2>1 DEF Chained
  <2> QED BY <2>2, <2>3
<1> QED BY <1>1, <1>3, <1>4 DEF Chained

\* Before the program is started there is nothing of it.
Before ==
  ~Connected =>
    /\ queue = <<>> /\ snapshots = <<>> /\ definitions = <<>> /\ changed = {}
    /\ \A i \in Instruments : right_from[i] = Never

\* Before the recovery data is there, nothing is loaded or handled.
NotLoaded ==
  m_recovery_first_seq = 0 =>
    /\ m_recovery_books = <<>>
    /\ first # 1 =>
         /\ DOMAIN m_md_book_states = {} /\ m_instruments = {} /\ work = <<>>
         /\ first > 1 => done = first - 1

\* The snapshots received.
Snaps == {snapshots[n] : n \in 1 .. Len(snapshots)}

\* A snapshot is of a moment after the start, and shows what was shown then.
Taken(s) ==
  /\ s.seq \in first - 1 .. seq
  /\ s.seq >= done => At(s.seq)[s.inst] = s.view

\* The snapshots come one after the other, and what is recovered is theirs.
Collected ==
  /\ first <= 1 => snapshots = <<>> /\ m_recovery_first_seq = 0
  /\ m_recovery_first_seq # 0 =>
       /\ snapshots # <<>> /\ m_recovery_first_seq = snapshots[1].seq
       /\ m_recovery_books = SnapshotBooks
  /\ \A m, n \in 1 .. Len(snapshots) :
       m < n => snapshots[m].seq <= snapshots[n].seq /\ snapshots[m].inst # snapshots[n].inst
  /\ \A s \in Snaps : Taken(s)

\* Snapshots are well formed, one for an instrument, the first the oldest.
LEMMA SnapFacts ==
  ASSUME MarketTypes, Collected
  PROVE  /\ \A s \in Snaps : /\ s \in Snapshot /\ s.seq \in Nat /\ s.inst \in Instruments
                             /\ s.view \in ViewType /\ InSnapshot(s.inst)
                             /\ snapshots # <<>> /\ snapshots[1].seq <= s.seq
         /\ \A i : InSnapshot(i) => \E s \in Snaps : s.inst = i
         /\ \A s, r \in Snaps : s.inst = r.inst => s = r
         /\ snapshots # <<>> => snapshots[1] \in Snaps
<1>1. /\ DOMAIN snapshots = 1 .. Len(snapshots) /\ Len(snapshots) \in Nat
      /\ \A n \in 1 .. Len(snapshots) : snapshots[n] \in Snapshot
  BY LenProperties, SnapshotListsType DEF MarketTypes
<1>2. snapshots # <<>> <=> Len(snapshots) # 0
  BY EmptySeq DEF MarketTypes
<1>3. ASSUME NEW n \in 1 .. Len(snapshots)
      PROVE  /\ snapshots[n] \in Snapshot /\ snapshots[n].seq \in Nat
             /\ snapshots[n].inst \in Instruments /\ snapshots[n].view \in ViewType
             /\ InSnapshot(snapshots[n].inst) /\ snapshots # <<>>
             /\ snapshots[1].seq <= snapshots[n].seq
  <2>1. /\ snapshots[n] \in Snapshot /\ snapshots[n].seq \in Nat
        /\ snapshots[n].inst \in Instruments /\ snapshots[n].view \in ViewType
    BY <1>1 DEF Snapshot
  <2>2. InSnapshot(snapshots[n].inst) /\ snapshots # <<>>
    BY <1>1, <1>2 DEF InSnapshot
  <2>3. CASE n = 1
    BY <2>1, <2>2, <2>3
  <2>4. CASE n # 1
    <3>1. 1 < n /\ 1 \in 1 .. Len(snapshots)
      BY <1>1, <2>4
    <3> QED BY <2>1, <2>2, <3>1 DEF Collected
  <2> QED BY <2>3, <2>4
<1>4. ASSUME NEW m \in 1 .. Len(snapshots), NEW n \in 1 .. Len(snapshots),
             snapshots[m].inst = snapshots[n].inst
      PROVE  m = n
  <2>1. ~(m < n) /\ ~(n < m)
    BY <1>4 DEF Collected
  <2> QED BY <1>1, <2>1
<1>5. \A i : InSnapshot(i) => \E s \in Snaps : s.inst = i
  BY <1>1 DEF InSnapshot, Snaps
<1>6. snapshots # <<>> => snapshots[1] \in Snaps
  <2>1. snapshots # <<>> => 1 \in 1 .. Len(snapshots)
    BY <1>1, <1>2
  <2> QED BY <2>1 DEF Snaps
<1>7. ASSUME NEW s \in Snaps
      PROVE  /\ s \in Snapshot /\ s.seq \in Nat /\ s.inst \in Instruments
             /\ s.view \in ViewType /\ InSnapshot(s.inst)
             /\ snapshots # <<>> /\ snapshots[1].seq <= s.seq
  <2>1. PICK n \in 1 .. Len(snapshots) : s = snapshots[n]
    BY DEF Snaps
  <2> QED BY <1>3, <2>1
<1>8. ASSUME NEW s \in Snaps, NEW r \in Snaps, s.inst = r.inst PROVE s = r
  <2>1. PICK m \in 1 .. Len(snapshots) : s = snapshots[m]
    BY DEF Snaps
  <2>2. PICK n \in 1 .. Len(snapshots) : r = snapshots[n]
    BY DEF Snaps
  <2>3. m = n
    BY <1>4, <1>8, <2>1, <2>2
  <2> QED BY <2>1, <2>2, <2>3
<1> QED BY <1>5, <1>6, <1>7, <1>8

\* An instrument that is not listed has no rows.
LEMMA UnseenKept ==
  ASSUME MarketTypes, Unseen, Exchange
  PROVE  Unseen'
<1>1. /\ full \in [Instruments -> Side] /\ depth \in [Instruments -> 0 .. MaxDepth]
  BY DEF MarketTypes
<1>2. ASSUME NEW i \in Instruments, i \in Listed, depth' = depth,
             \A k \in Instruments : k # i => full'[k] = full[k]
      PROVE  Unseen'
  BY <1>2 DEF Unseen, Listed
<1>3. ASSUME NEW i \in Instruments, NEW side \in Sides, NEW level \in 1 .. MaxRows,
             \/ AddRow(i, side, level) \/ AmendRow(i, side, level)
             \/ RemoveRow(i, side, level) \/ SweepRows(i, side, level)
      PROVE  Unseen'
  <2>1. i \in Listed /\ depth' = depth
    BY <1>3 DEF AddRow, AmendRow, RemoveRow, SweepRows, PublishBooks
  <2>2. \E x : full' = [full EXCEPT ![i] = x]
    BY <1>3 DEF AddRow, AmendRow, RemoveRow, SweepRows
  <2> QED BY <1>1, <1>2, <2>1, <2>2
<1>4. ASSUME NEW i \in Instruments, NEW side \in Sides, ClearSide(i, side)
      PROVE  Unseen'
  <2>1. depth' = depth /\ full[i][side] # <<>> /\ full' = [full EXCEPT ![i][side] = <<>>]
    BY <1>4 DEF ClearSide, PublishBooks
  <2>2. full[i] # Empty
    BY <2>1 DEF Empty, Sides
  <2>3. i \in Listed
    BY <2>2 DEF Unseen, Listed
  <2>4. \A k \in Instruments : k # i => full'[k] = full[k]
    BY <1>1, <2>1
  <2> QED BY <1>2, <2>1, <2>3, <2>4
<1>5. ASSUME NEW i \in Instruments, NEW j \in Instruments, NEW side \in Sides,
             TradeAndQuote(i, j, side)
      PROVE  Unseen'
  <2>1. /\ depth' = depth /\ i \in Listed /\ j \in Listed
        /\ full' = [full EXCEPT ![i][side] = <<events + 1>> \o @,
                                ![j][side] = <<events + 1>> \o @]
    BY <1>5 DEF TradeAndQuote, PublishBooks
  <2>2. \A k \in Instruments : k # i /\ k # j => full'[k] = full[k]
    BY <1>1, <2>1
  <2> QED BY <2>1, <2>2 DEF Unseen, Listed
<1>6. CASE ResetChannel
  BY <1>6 DEF ResetChannel, Unseen
<1>7. ASSUME NEW i \in Instruments, NEW levels \in 1 .. MaxDepth, Define(i, levels)
      PROVE  Unseen'
  <2>1. depth' = [depth EXCEPT ![i] = levels] /\ full' = full /\ levels # Unlisted
    BY <1>7 DEF Define, Unlisted
  <2> QED BY <1>1, <2>1 DEF Unseen
<1>8. ASSUME NEW i \in Instruments, Delist(i) PROVE Unseen'
  <2>1. depth' = [depth EXCEPT ![i] = Unlisted] /\ full' = [full EXCEPT ![i] = Empty]
    BY <1>8 DEF Delist
  <2> QED BY <1>1, <2>1 DEF Unseen
<1> QED BY <1>3, <1>4, <1>5, <1>6, <1>7, <1>8 DEF Exchange

\* The steps of the channel, as far as the program can tell them apart.
LEMMA StepKinds ==
  ASSUME MarketTypes, Unseen, [Next]_vars
  PROVE  \/ Apart /\ Silent
         \/ Apart /\ \E m : Tells(m)
         \/ Connect
         \/ \E i \in Instruments : ReceiveSnapshot(i)
         \/ Recover
         \/ Handle
         \/ BookStep /\ UNCHANGED <<marketVars, clientVars>>
         \/ UNCHANGED vars
<1>1. CASE Exchange
  <2>1. Apart
    BY <1>1, ExchangeRest DEF Event, Apart
  <2> QED BY <1>1, <2>1, ExchangeStep
<1>2. CASE Program
  BY <1>2 DEF Program
<1>3. CASE UNCHANGED vars
  BY <1>3
<1> QED BY <1>1, <1>2, <1>3 DEF Next

\* Every step keeps the books of unlisted instruments empty.
LEMMA UnseenNext ==
  ASSUME MarketTypes, Unseen, [Next]_vars
  PROVE  Unseen'
<1>1. CASE Exchange
  BY <1>1, UnseenKept
<1>2. CASE UNCHANGED <<full, depth>>
  BY <1>2 DEF Unseen
<1> QED BY <1>1, <1>2 DEF Next, Program, vars, marketVars, Connect, ReceiveSnapshot,
            Recover, Handle

\* What the program leaves alone of the market, and of the messages.
LEMMA ChainNext ==
  ASSUME MarketTypes, Unseen, Before, Chained, [Next]_vars
  PROVE  Chained'
<1>1. ASSUME Apart, ~Connected PROVE Chained'
  BY <1>1 DEF Apart, Connected, Chained
<1>2. ASSUME Connected, UNCHANGED <<queue, done, view, seq, first>>, ShownNow' = ShownNow
      PROVE  Chained'
  <2>1. \A q : At(q)' = At(q) /\ Msg(q)' = Msg(q)
    BY <1>2, QueueStays
  <2>2. At(seq)' = At(seq)
    BY <1>2 DEF At
  <2>3. ASSUME NEW q \in done' + 1 .. seq'
        PROVE  Msg(q)'.seq = q /\ ForAll(Msg(q))' /\ Carries(Msg(q), At(q - 1), At(q))'
    <3>1. Msg(q).seq = q /\ ForAll(Msg(q)) /\ Carries(Msg(q), At(q - 1), At(q))
      BY <1>2, <2>3 DEF Chained
    <3>2. At(q)' = At(q) /\ At(q - 1)' = At(q - 1) /\ Msg(q)' = Msg(q)
      BY <2>1
    <3> QED BY <3>1, <3>2
  <2> QED BY <1>2, <2>2, <2>3 DEF Chained
<1>3. ASSUME UNCHANGED <<queue, done, view, marketVars, first>>
      PROVE  Chained'
  <2>1. ShownNow' = ShownNow /\ seq' = seq
    BY <1>3 DEF marketVars, ShownNow, Shown
  <2>2. CASE Connected
    BY <1>2, <1>3, <2>1, <2>2
  <2>3. CASE ~Connected
    BY <1>3, <2>3 DEF Connected, Chained
  <2> QED BY <2>2, <2>3
<1>4. CASE Apart /\ Silent
  BY <1>1, <1>2, <1>4 DEF Apart, Silent
<1>5. CASE Apart /\ \E m : Tells(m)
  BY <1>1, <1>5, ChainPublish
<1>6. CASE Connect
  <2>1. /\ queue' = <<>> /\ done' = seq /\ seq' = seq /\ view' = ShownNow
        /\ ShownNow' = ShownNow
    BY <1>6 DEF Connect, Before, marketVars, ShownNow, Shown
  <2>2. At(seq)' = view'
    BY <2>1 DEF At
  <2>3. Len(queue') = seq' - done' /\ done' + 1 .. seq' = {}
    BY <2>1, SeqFacts, EmptySeq
  <2> QED BY <2>1, <2>2, <2>3 DEF Chained
<1>7. ASSUME NEW i \in Instruments, ReceiveSnapshot(i) PROVE Chained'
  BY <1>3, <1>7 DEF ReceiveSnapshot
<1>8. CASE Recover
  BY <1>3, <1>8 DEF Recover, clientVars
<1>9. CASE Handle
  <2>1. CASE Connected
    BY <1>9, <2>1, ChainHandle
  <2>2. CASE ~Connected
    BY <1>9, <2>2 DEF Handle, Before
  <2> QED BY <2>1, <2>2
<1>10. CASE BookStep /\ UNCHANGED <<marketVars, clientVars>>
  BY <1>3, <1>10 DEF clientVars
<1>11. CASE UNCHANGED vars
  BY <1>3, <1>11 DEF vars, clientVars
<1> QED BY <1>4, <1>5, <1>6, <1>7, <1>8, <1>9, <1>10, <1>11, StepKinds

\* Only Recover loads the snapshots, only a call and an iteration change work.
LEMMA BookFrames ==
  /\ BookStep => /\ UNCHANGED <<m_recovery_books, m_recovery_wait_merge, m_recovery_first_seq>>
                 /\ work # <<>> /\ work' = Tail(work)
  /\ Handle => UNCHANGED <<m_instruments, m_md_book_states, m_recovery_books,
                           m_recovery_first_seq>>
<1>1. ASSUME BookStep
      PROVE  /\ UNCHANGED <<m_recovery_books, m_recovery_wait_merge, m_recovery_first_seq>>
             /\ work # <<>> /\ work' = Tail(work)
  BY <1>1 DEF BookStep, Iterate, Update_definition, Recover_book, Send_recovery,
              Increment_book, Past_book
<1>2. ASSUME Handle
      PROVE  UNCHANGED <<m_instruments, m_md_book_states, m_recovery_books,
                         m_recovery_first_seq>>
  BY <1>2 DEF Handle, Convert_message
<1> QED BY <1>1, <1>2

\* Nothing is received before the program is started.
LEMMA BeforeNext ==
  ASSUME MarketTypes, Unseen, Before, [Next]_vars
  PROVE  Before'
<1>1. CASE Apart /\ Silent
  BY <1>1 DEF Apart, Silent, Before, Connected
<1>2. ASSUME Apart, NEW m, Tells(m) PROVE Before'
  <2>1. CASE Connected
    BY <1>2, <2>1 DEF Apart, Before, Connected
  <2>2. CASE ~Connected
    <3>1. queue' = queue /\ snapshots' = snapshots /\ definitions' = definitions
      BY <1>2, <2>2 DEF Tells, Publish, Apart
    <3>2. changed' = changed /\ right_from' = right_from
      <4>1. CASE Quotes(m)
        BY <4>1 DEF Quotes
      <4>2. CASE ResetChannel
        BY <2>2, <4>2 DEF ResetChannel, Before
      <4>3. ASSUME NEW i \in Instruments, NEW levels \in 1 .. MaxDepth, Define(i, levels)
            PROVE  changed' = changed /\ right_from' = right_from
        BY <2>2, <4>3 DEF Define, Before, Connected
      <4>4. ASSUME NEW i \in Instruments, Delist(i)
            PROVE  changed' = changed /\ right_from' = right_from
        BY <4>4 DEF Delist
      <4> QED BY <1>2, <4>1, <4>2, <4>3, <4>4 DEF Tells, Defines
    <3> QED BY <2>2, <3>1, <3>2 DEF Before
  <2> QED BY <2>1, <2>2
<1>3. CASE Connect
  BY <1>3, SeqFacts DEF Connect, Before, Connected
<1>4. ASSUME NEW i \in Instruments, ReceiveSnapshot(i) PROVE Before'
  BY <1>4 DEF ReceiveSnapshot, Before, Connected, MarketTypes
<1>5. CASE Recover
  BY <1>5 DEF Recover, clientVars, Before, Connected
<1>6. CASE Handle
  BY <1>6 DEF Handle, Before, Connected
<1>7. CASE BookStep /\ UNCHANGED <<marketVars, clientVars>>
  BY <1>7 DEF clientVars, Before, Connected
<1>8. CASE UNCHANGED vars
  BY <1>8 DEF vars, clientVars, Before, Connected
<1> QED BY <1>1, <1>2, <1>3, <1>4, <1>5, <1>6, <1>7, <1>8, StepKinds

\* Nothing is loaded before the snapshots are.
LEMMA NotLoadedNext ==
  ASSUME MarketTypes, BookTypeOK, Unseen, Before, NotLoaded, Collected, [Next]_vars
  PROVE  NotLoaded'
<1>1. CASE Apart
  BY <1>1 DEF Apart, bookVars, NotLoaded
<1>3. CASE Connect
  <2>1. /\ first' = seq + 1 /\ done' = seq /\ first = 0 /\ UNCHANGED bookVars
        /\ seq \in Nat
    BY <1>3, SeqFacts DEF Connect, Connected
  <2> QED BY <2>1 DEF bookVars, NotLoaded
<1>4. ASSUME NEW i \in Instruments, ReceiveSnapshot(i) PROVE NotLoaded'
  BY <1>4 DEF ReceiveSnapshot, bookVars, NotLoaded
<1>5. CASE Recover
  <2>1. /\ m_recovery_first_seq' = snapshots[1].seq /\ snapshots # <<>> /\ first > 1
    BY <1>5 DEF Recover, Process_recovery_data
  <2>2. first \in Nat
    BY MarketAssumption DEF MarketTypes
  <2>3. snapshots[1].seq \in first - 1 .. seq
    BY <2>1, SnapFacts DEF Collected, Taken
  <2>4. m_recovery_first_seq' # 0
    BY <2>1, <2>2, <2>3, SeqFacts
  <2> QED BY <2>4 DEF NotLoaded
<1>6. CASE Handle
  <2>1. CASE m_recovery_first_seq = 0
    <3>1. first = 1
      BY <1>6, <2>1 DEF Handle, Recovered
    <3>2. first' = 1 /\ m_recovery_books' = m_recovery_books
      BY <1>6, <3>1, BookFrames DEF Handle
    <3> QED BY <2>1, <3>2 DEF NotLoaded
  <2>2. CASE m_recovery_first_seq # 0
    BY <1>6, <2>2, BookFrames DEF NotLoaded
  <2> QED BY <2>1, <2>2
<1>7. CASE BookStep /\ UNCHANGED <<marketVars, clientVars>>
  <2>1. /\ UNCHANGED <<m_recovery_books, m_recovery_first_seq, first>> /\ work # <<>>
    BY <1>7, BookFrames DEF clientVars
  <2> QED BY <2>1 DEF NotLoaded
<1>8. CASE UNCHANGED vars
  BY <1>8 DEF vars, clientVars, bookVars, NotLoaded
<1> QED BY <1>1, <1>3, <1>4, <1>5, <1>6, <1>7, <1>8, StepKinds

\* Steps that collect no snapshot and load none.
LEMMA CollectedStays ==
  ASSUME MarketTypes, Collected,
         UNCHANGED <<first, snapshots, m_recovery_first_seq, m_recovery_books>>,
         seq <= seq', seq' \in Nat, done <= done', done' \in Nat,
         \A q \in done' .. seq : At(q)' = At(q)
  PROVE  Collected'
<1>1. seq \in Nat /\ done \in Nat /\ done <= seq /\ first \in Nat
  BY SeqFacts, MarketAssumption DEF MarketTypes
<1>2. SnapshotBooks' = SnapshotBooks /\ Snaps' = Snaps
  BY DEF SnapshotBooks, SnapshotRows, Snaps
<1>3. ASSUME NEW s \in Snaps PROVE Taken(s)'
  <2>1. s.seq \in Nat /\ s.inst \in Instruments
    BY SnapFacts
  <2>2. s.seq \in first - 1 .. seq /\ (s.seq >= done => At(s.seq)[s.inst] = s.view)
    BY DEF Collected, Taken
  <2>3. s.seq \in first' - 1 .. seq'
    BY <1>1, <2>1, <2>2
  <2>4. ASSUME s.seq >= done' PROVE At(s.seq)'[s.inst] = s.view
    <3>1. s.seq \in done' .. seq /\ s.seq >= done
      BY <1>1, <2>1, <2>2, <2>4
    <3> QED BY <2>2, <3>1
  <2> QED BY <2>3, <2>4 DEF Taken
<1>4. /\ first' <= 1 => snapshots' = <<>> /\ m_recovery_first_seq' = 0
      /\ m_recovery_first_seq' # 0 =>
           /\ snapshots' # <<>> /\ m_recovery_first_seq' = snapshots'[1].seq
           /\ m_recovery_books' = SnapshotBooks'
      /\ \A m, n \in 1 .. Len(snapshots') :
           m < n => snapshots'[m].seq <= snapshots'[n].seq
                    /\ snapshots'[m].inst # snapshots'[n].inst
  BY <1>2 DEF Collected
<1> QED BY <1>2, <1>3, <1>4 DEF Collected

\* One more snapshot is collected.
LEMMA CollectedSnapshot ==
  ASSUME MarketTypes, NotLoaded, Chained, Collected,
         NEW i \in Instruments, ReceiveSnapshot(i)
  PROVE  /\ Collected' /\ Connected /\ done = first - 1
         /\ Snaps' = Snaps \cup {[inst |-> i, seq |-> seq, view |-> Shown(full, depth, i)]}
         /\ \A q : At(q)' = At(q) /\ Msg(q)' = Msg(q)
         /\ snapshots' # <<>>
         /\ snapshots'[1].seq = IF snapshots = <<>> THEN seq ELSE snapshots[1].seq
         /\ \A k : InSnapshot(k)' <=> InSnapshot(k) \/ k = i
<1> DEFINE s == [inst |-> i, seq |-> seq, view |-> Shown(full, depth, i)]
<1>1. seq \in Nat /\ done \in Nat /\ done <= seq /\ first \in Nat /\ Len(snapshots) \in Nat
  BY SeqFacts, MarketAssumption, LenProperties DEF MarketTypes
<1>2. /\ first > 1 /\ m_recovery_first_seq = 0 /\ ~InSnapshot(i)
      /\ snapshots' = Append(snapshots, s)
      /\ UNCHANGED <<first, queue, done, view, m_recovery_first_seq, m_recovery_books, seq>>
  BY DEF ReceiveSnapshot, bookVars, marketVars
<1>3. done = first - 1 /\ Connected
  BY <1>1, <1>2 DEF NotLoaded, Connected
<1>4. s.seq = seq /\ s.inst = i /\ s.view = ShownNow[i]
  BY DEF ShownNow
<1> HIDE DEF s
<1>5. /\ Len(snapshots') = Len(snapshots) + 1
      /\ \A n \in 1 .. Len(snapshots) : snapshots'[n] = snapshots[n]
      /\ snapshots'[Len(snapshots) + 1] = s
      /\ DOMAIN snapshots' = 1 .. Len(snapshots) + 1
      /\ DOMAIN snapshots = 1 .. Len(snapshots)
  <2>1. snapshots \in Seq(Snapshot \cup {s}) /\ s \in Snapshot \cup {s}
    BY DEF MarketTypes
  <2>2. snapshots' \in Seq(Snapshot \cup {s})
    BY <1>2, <2>1, AppendProperties
  <2> QED BY <1>2, <2>1, <2>2, AppendProperties, LenProperties
<1>6. Snaps' = Snaps \cup {s}
  BY <1>1, <1>5 DEF Snaps
<1>7. \A q : At(q)' = At(q) /\ Msg(q)' = Msg(q)
  BY <1>2, QueueStays
<1>8. ASSUME NEW r \in Snaps' PROVE Taken(r)'
  <2>1. CASE r \in Snaps
    BY <1>2, <1>7, <2>1 DEF Collected, Taken
  <2>2. CASE r = s
    <3>1. At(seq) = ShownNow
      BY <1>3 DEF Chained
    <3>2. At(r.seq)[r.inst] = r.view /\ r.seq \in first - 1 .. seq
      BY <1>1, <1>3, <1>4, <2>2, <3>1
    <3> QED BY <1>2, <1>7, <3>2 DEF Taken
  <2> QED BY <1>6, <2>1, <2>2
<1>9. ASSUME NEW m \in 1 .. Len(snapshots'), NEW n \in 1 .. Len(snapshots'), m < n
      PROVE  snapshots'[m].seq <= snapshots'[n].seq /\ snapshots'[m].inst # snapshots'[n].inst
  <2>1. m \in 1 .. Len(snapshots)
    BY <1>1, <1>5, <1>9
  <2>2. CASE n \in 1 .. Len(snapshots)
    BY <1>5, <1>9, <2>1, <2>2 DEF Collected
  <2>3. CASE n \notin 1 .. Len(snapshots)
    <3>1. n = Len(snapshots) + 1
      BY <1>1, <1>5, <2>3
    <3>2. snapshots[m] \in Snaps
      BY <2>1 DEF Snaps
    <3>3. snapshots[m].seq <= seq
      BY <1>1, <3>2 DEF Collected, Taken
    <3>4. snapshots[m].inst # i
      BY <1>2, <3>2, SnapFacts
    <3> QED BY <1>4, <1>5, <2>1, <3>1, <3>3, <3>4
  <2> QED BY <2>2, <2>3
<1>10. ~(first' <= 1) /\ m_recovery_first_seq' = 0
  BY <1>1, <1>2
<1>11. Collected'
  BY <1>8, <1>9, <1>10 DEF Collected
<1>12. snapshots' # <<>> /\ snapshots'[1].seq = IF snapshots = <<>> THEN seq ELSE snapshots[1].seq
  <2>1. snapshots = <<>> <=> Len(snapshots) = 0
    BY EmptySeq DEF MarketTypes
  <2>2. snapshots' # <<>>
    BY <1>1, <1>5, EmptySeq
  <2>3. CASE Len(snapshots) = 0
    BY <1>4, <1>5, <2>1, <2>2, <2>3
  <2>4. CASE Len(snapshots) # 0
    <3>1. 1 \in 1 .. Len(snapshots)
      BY <1>1, <2>4
    <3> QED BY <1>5, <2>1, <2>2, <2>4, <3>1
  <2> QED BY <2>3, <2>4
<1>13. \A k : InSnapshot(k)' <=> InSnapshot(k) \/ k = i
  BY <1>1, <1>4, <1>5 DEF InSnapshot
<1> QED BY <1>3, <1>6, <1>7, <1>11, <1>12, <1>13 DEF s

\* Every step keeps the snapshots collected in order.
LEMMA CollectedNext ==
  ASSUME MarketTypes, BookTypeOK, Unseen, Before, NotLoaded, Chained, Collected, [Next]_vars
  PROVE  Collected'
<1>1. /\ seq \in Nat /\ done \in Nat /\ done <= seq /\ first \in Nat
  BY SeqFacts, MarketAssumption DEF MarketTypes
<1>2. ASSUME ~Connected, UNCHANGED <<snapshots, m_recovery_first_seq>>
      PROVE  Collected'
  <2>1. snapshots' = <<>> /\ m_recovery_first_seq' = 0
    BY <1>1, <1>2 DEF Collected, Connected
  <2>2. Snaps' = {} /\ Len(snapshots') = 0
    BY <2>1, EmptySeq DEF Snaps
  <2> QED BY <2>1, <2>2 DEF Collected
<1>3. ASSUME UNCHANGED <<first, snapshots, m_recovery_first_seq, m_recovery_books, queue,
                         done, view, seq>>
      PROVE  Collected'
  <2>1. \A q : At(q)' = At(q)
    BY <1>3, QueueStays
  <2> QED BY <1>1, <1>3, <2>1, CollectedStays
<1>4. CASE Apart /\ Silent
  BY <1>3, <1>4 DEF Apart, Silent, bookVars
<1>5. ASSUME Apart, NEW m, Tells(m) PROVE Collected'
  <2>1. CASE Connected
    <3>1. /\ seq' = seq + 1 /\ done' = done /\ \A q \in done .. seq : At(q)' = At(q)
      BY <1>5, <2>1, PublishKeeps DEF Tells
    <3> QED BY <1>1, <1>5, <3>1, CollectedStays DEF Apart, bookVars
  <2>2. CASE ~Connected
    BY <1>2, <1>5, <2>2 DEF Apart, bookVars
  <2> QED BY <2>1, <2>2
<1>6. CASE Connect
  BY <1>2, <1>6 DEF Connect, bookVars
<1>7. ASSUME NEW i \in Instruments, ReceiveSnapshot(i) PROVE Collected'
  BY <1>7, CollectedSnapshot
<1>8. CASE Recover
  <2>1. /\ m_recovery_first_seq' = snapshots[1].seq /\ m_recovery_books' = SnapshotBooks
        /\ UNCHANGED <<first, snapshots, queue, done, view, seq>>
        /\ snapshots # <<>> /\ first > 1
    BY <1>8 DEF Recover, Process_recovery_data, clientVars, marketVars
  <2>2. SnapshotBooks' = SnapshotBooks /\ Snaps' = Snaps
    BY <2>1 DEF SnapshotBooks, SnapshotRows, Snaps
  <2>3. \A q : At(q)' = At(q)
    BY <2>1, QueueStays
  <2>4. \A s \in Snaps' : Taken(s)'
    BY <2>1, <2>2, <2>3 DEF Collected, Taken
  <2> QED BY <1>1, <2>1, <2>2, <2>4 DEF Collected
<1>9. CASE Handle
  <2>1. Connected
    BY <1>9 DEF Handle, Before
  <2>2. /\ seq' = seq /\ done' = done + 1 /\ \A q \in done' .. seq : At(q)' = At(q)
        /\ UNCHANGED <<first, snapshots, m_recovery_first_seq, m_recovery_books>>
    BY <1>9, <2>1, HandleKeeps, BookFrames DEF Handle
  <2> QED BY <1>1, <2>2, CollectedStays
<1>10. CASE BookStep /\ UNCHANGED <<marketVars, clientVars>>
  BY <1>3, <1>10, BookFrames DEF clientVars, marketVars
<1>11. CASE UNCHANGED vars
  BY <1>3, <1>11 DEF vars, clientVars, marketVars, bookVars
<1> QED BY <1>4, <1>5, <1>6, <1>7, <1>8, <1>9, <1>10, <1>11, StepKinds

\* The instruments that are or were listed.
Ever == Listed \cup gone

\* The definitions received at the start, one of each instrument.
Defs == {definitions[n] : n \in 1 .. Len(definitions)}

\* Every instrument is defined at most once at the start, and added.
Once ==
  /\ \A m, n \in 1 .. Len(definitions) :
       m # n => definitions[m].inst # definitions[n].inst
  /\ \A d \in Defs : d.update = "A"

\* An iteration of a definition of instrument i.
DefinitionOf(w, i) == w.kind = "definition" /\ w.of.inst = i

\* Such iterations are left.
Defined(i) == \E n \in 1 .. Len(work) : DefinitionOf(work[n], i)

\* The program knows the instrument, has a book of it, or will have.
Loaded(i) == i \in m_instruments \/ i \in DOMAIN m_md_book_states \/ Defined(i)

\* A message m that adds an instrument.
Adds(m, d) == m.type = "d" /\ m.instruments = <<d>> /\ d.update = "A"

\* What the program knows of is, or was, listed.
Known ==
  /\ Listed \cap gone = {}
  /\ Connected => \A q \in done .. seq : \A i \in Instruments :
                    At(q)[i].marketDepth # Unlisted => i \in Ever
  /\ \A d \in Defs : d.inst \in Ever
  /\ \A s \in Snaps : s.inst \in Ever
  /\ \A i \in Instruments : Loaded(i) => i \in Ever
  /\ \A i \in Instruments : right_from[i] # Never => i \in Ever /\ right_from[i] <= seq
  /\ Connected => \A q \in done + 1 .. seq : \A d \in Instrument :
                    Adds(Msg(q), d) /\ right_from[d.inst] # Never => q <= right_from[d.inst]

\* A new instrument is right from the packet that adds it.
Begins(i) ==
  /\ i \notin Ever /\ i \in Ever' /\ depth'[i] # Unlisted
  /\ first = 1 \/ snapshots # <<>>
  /\ right_from'[i] = seq + 1

\* What a published message says about the instruments of the exchange.
LEMMA TellsMarket ==
  ASSUME MarketTypes, Listed \cap gone = {}, NEW m, Tells(m)
  PROVE  /\ Ever \subseteq Ever' /\ Listed' \cap gone' = {}
         /\ \A i \in Instruments : right_from'[i] = right_from[i] \/ Begins(i)
         /\ \A d \in Instrument : Adds(m, d) =>
              /\ d.inst \notin Ever /\ d.inst \in Ever'
              /\ right_from'[d.inst] \in {right_from[d.inst], seq + 1}
         /\ Connected => \A i \in Listed' \ changed' :
                           i \in Listed \ changed /\ depth'[i] = depth[i]
         /\ IsReset(m) /\ snapshots # <<>> =>
              \A i \in Instruments : ~InSnapshot(i) => i \in changed'
<1> DEFINE Goal ==
      /\ Ever \subseteq Ever' /\ Listed' \cap gone' = {}
      /\ \A i \in Instruments : right_from'[i] = right_from[i] \/ Begins(i)
      /\ \A d \in Instrument : Adds(m, d) =>
           /\ d.inst \notin Ever /\ d.inst \in Ever'
           /\ right_from'[d.inst] \in {right_from[d.inst], seq + 1}
      /\ Connected => \A i \in Listed' \ changed' :
                        i \in Listed \ changed /\ depth'[i] = depth[i]
      /\ IsReset(m) /\ snapshots # <<>> =>
           \A i \in Instruments : ~InSnapshot(i) => i \in changed'
<1>1. /\ depth \in [Instruments -> 0 .. MaxDepth] /\ gone \subseteq Instruments
      /\ right_from \in [Instruments -> 0 .. Never] /\ changed \subseteq Instruments
  BY DEF MarketTypes
<1>2. CASE Quotes(m)
  <2>1. Ever' = Ever /\ Listed' = Listed /\ gone' = gone /\ depth' = depth /\ changed' = changed
        /\ right_from' = right_from /\ ~IsReset(m) /\ m.type = "X"
    BY <1>2 DEF Quotes, Ever, Listed
  <2> QED BY <2>1 DEF Adds
<1>3. CASE m.type = "X" /\ ResetChannel
  <2>1. depth' = depth /\ gone' = gone /\ right_from' = right_from
        /\ changed' = IF snapshots = <<>> THEN changed
                      ELSE changed \cup {i \in Instruments : ~InSnapshot(i)}
    BY <1>3 DEF ResetChannel
  <2>2. Ever' = Ever /\ Listed' = Listed
    BY <2>1 DEF Ever, Listed
  <2>3. changed \subseteq changed'
    BY <2>1
  <2> QED BY <1>3, <2>1, <2>2, <2>3 DEF Adds
<1>4. ASSUME NEW i \in Instruments, NEW levels \in 1 .. MaxDepth, Define(i, levels), m.type = "d",
             m.instruments = <<[inst |-> i, depth |-> levels,
                                update |-> IF i \in Listed THEN "M" ELSE "A"]>>
      PROVE  Goal
  <2>1. /\ i \notin gone /\ gone' = gone /\ levels # Unlisted
        /\ depth' = [depth EXCEPT ![i] = levels]
        /\ changed' = IF Connected THEN changed \cup {i} ELSE changed
        /\ right_from' = IF i \notin Listed /\ (first = 1 \/ snapshots # <<>>)
                           THEN [right_from EXCEPT ![i] = seq + 1] ELSE right_from
    BY <1>4 DEF Define, Unlisted
  <2>2. Listed' = Listed \cup {i} /\ Ever' = Ever \cup {i} /\ Listed' \cap gone' = {}
    BY <1>1, <2>1 DEF Listed, Ever
  <2>3. ASSUME NEW k \in Instruments PROVE right_from'[k] = right_from[k] \/ Begins(k)
    <3>1. CASE k = i /\ i \notin Listed /\ (first = 1 \/ snapshots # <<>>)
      <4>1. right_from'[i] = seq + 1 /\ depth'[i] # Unlisted
        BY <1>1, <2>1, <3>1
      <4> QED BY <2>1, <2>2, <3>1, <4>1 DEF Begins, Ever
    <3>2. CASE ~(k = i /\ i \notin Listed /\ (first = 1 \/ snapshots # <<>>))
      BY <1>1, <2>1, <3>2
    <3> QED BY <3>1, <3>2
  <2>4. ASSUME NEW d \in Instrument, Adds(m, d)
        PROVE  /\ d.inst \notin Ever /\ d.inst \in Ever'
               /\ right_from'[d.inst] \in {right_from[d.inst], seq + 1}
    <3>1. d.inst = i /\ i \notin Listed
      BY <1>4, <2>4 DEF Adds
    <3>2. right_from'[i] \in {right_from[i], seq + 1}
      BY <2>3 DEF Begins
    <3> QED BY <2>1, <2>2, <3>1, <3>2 DEF Ever
  <2>5. ASSUME Connected, NEW k \in Listed' \ changed'
        PROVE  k \in Listed \ changed /\ depth'[k] = depth[k]
    <3>1. k # i /\ k \in Listed /\ k \notin changed /\ k \in Instruments
      BY <2>1, <2>2, <2>5 DEF Listed
    <3> QED BY <1>1, <2>1, <3>1
  <2>6. ~IsReset(m)
    BY <1>4 DEF IsReset
  <2> QED BY <2>2, <2>3, <2>4, <2>5, <2>6
<1>5. ASSUME NEW i \in Instruments, Delist(i), m.type = "d",
             m.instruments = <<[inst |-> i, depth |-> 1, update |-> "D"]>>
      PROVE  Goal
  <2>1. /\ i \in Listed /\ gone' = gone \cup {i}
        /\ depth' = [depth EXCEPT ![i] = Unlisted]
        /\ changed' = changed /\ right_from' = right_from
    BY <1>5 DEF Delist
  <2>2. Listed' = Listed \ {i} /\ Ever' = Ever /\ Listed' \cap gone' = {}
    BY <1>1, <2>1 DEF Listed, Ever
  <2>3. \A d : ~Adds(m, d)
    BY <1>5 DEF Adds
  <2>4. ASSUME NEW k \in Listed' \ changed'
        PROVE  k \in Listed \ changed /\ depth'[k] = depth[k]
    <3>1. k # i /\ k \in Listed /\ k \notin changed /\ k \in Instruments
      BY <2>1, <2>2, <2>4 DEF Listed
    <3> QED BY <1>1, <2>1, <3>1
  <2>5. ~IsReset(m)
    BY <1>5 DEF IsReset
  <2> QED BY <2>1, <2>2, <2>3, <2>4, <2>5
<1> HIDE DEF Goal
<1>6. Goal
  BY <1>2, <1>3, <1>4, <1>5 DEF Tells, Defines, Goal
<1> QED BY <1>6 DEF Goal

\* The book of an instrument is a view, and of depth 0 if there is none.
LEMMA BookFacts ==
  ASSUME GoodBooks(m_md_book_states), NEW i \in Instruments
  PROVE  /\ BookOf(i) \in ViewType
         /\ i \in DOMAIN m_md_book_states <=> BookOf(i).marketDepth # Unlisted
         /\ i \in DOMAIN m_md_book_states => BookOf(i) = m_md_book_states[i]
         /\ i \notin DOMAIN m_md_book_states => BookOf(i) = NoBook
<1>1. CASE i \in DOMAIN m_md_book_states
  <2>1. BookOf(i) = m_md_book_states[i] /\ BookOf(i) \in BookState /\ Fits(BookOf(i))
    BY <1>1 DEF BookOf, GoodBooks
  <2>2. BookOf(i) \in [marketDepth : 0 .. MaxDepth, bid : Seq(Nat), ask : Seq(Nat)]
        /\ BookOf(i).marketDepth \in 1 .. MaxDepth
    BY <2>1, NoBookType DEF BookState
  <2>3. BookOf(i) \in ViewType
    BY <2>1, <2>2 DEF ViewType
  <2>4. BookOf(i).marketDepth # Unlisted
    BY <2>2 DEF Unlisted
  <2> QED BY <1>1, <2>1, <2>3, <2>4
<1>2. CASE i \notin DOMAIN m_md_book_states
  <2>1. BookOf(i) = NoBook /\ NoBook.marketDepth = Unlisted
    BY <1>2 DEF BookOf, NoBook
  <2> QED BY <1>2, <2>1, NoBookType
<1> QED BY <1>1, <1>2

\* A book that is not there is not changed by an entry.
LEMMA NoBookEntry ==
  ASSUME NEW i, NEW b
  PROVE  AfterEntry(i, b, NoBook) = NoBook
<1>1. NoBook.marketDepth = Unlisted /\ NoBook \in ViewType
  BY NoBookType DEF NoBook
<1>2. [NoBook EXCEPT !.bid = <<>>, !.ask = <<>>] = NoBook
  BY <1>1, ResetView, NoBookType, Zenon
<1> QED BY <1>1, <1>2 DEF AfterEntry

\* Modify_state changes the book of each instrument as AfterEntry says.
LEMMA ModifyBook ==
  ASSUME GoodBooks(m_md_book_states), NEW b \in Book, NEW i \in Instruments,
         m_md_book_states' = Modify_state(m_md_book_states, b)
  PROVE  /\ BookOf(i)' = AfterEntry(i, b, BookOf(i))
         /\ DOMAIN m_md_book_states' = DOMAIN m_md_book_states
<1> DEFINE S == m_md_book_states
           T == Modify_state(S, b)
<1>1. DOMAIN T = DOMAIN S
  BY ModifyState
<1>2. ASSUME i \in DOMAIN S PROVE T[i] = AfterEntry(i, b, S[i])
  <2>1. S[i].marketDepth # Unlisted
    BY <1>2, BookFacts
  <2>2. CASE b.entry = "reset"
    BY <1>2, <2>2, Zenon DEF Modify_state, Reset_state, AfterEntry
  <2>3. CASE b.entry # "reset" /\ Changes(S, b)
    <3>1. T = [S EXCEPT ![b.inst] = Update_price(b, S[b.inst])]
      BY <2>3 DEF Modify_state
    <3>2. CASE i = b.inst
      <4>1. T[i] = Update_price(b, S[i])
        BY <1>2, <3>1, <3>2
      <4>2. AfterEntry(i, b, S[i]) = Update_price(b, S[i])
        BY <2>1, <2>3, <3>2 DEF AfterEntry, Changes
      <4> QED BY <4>1, <4>2
    <3>3. CASE i # b.inst
      <4>1. T[i] = S[i]
        BY <1>2, <3>1, <3>3
      <4>2. AfterEntry(i, b, S[i]) = S[i]
        BY <2>3, <3>3 DEF AfterEntry
      <4> QED BY <4>1, <4>2
    <3> QED BY <3>2, <3>3
  <2>4. CASE b.entry # "reset" /\ ~Changes(S, b)
    <3>1. T = S
      BY <2>4 DEF Modify_state
    <3>2. AfterEntry(i, b, S[i]) = S[i]
      BY <1>2, <2>4 DEF AfterEntry, Changes
    <3> QED BY <3>1, <3>2
  <2> QED BY <2>2, <2>3, <2>4
<1> HIDE DEF T
<1>3. m_md_book_states' = T
  BY DEF T
<1>4. CASE i \in DOMAIN S
  <2>1. BookOf(i)' = T[i] /\ BookOf(i) = S[i]
    BY <1>1, <1>3, <1>4 DEF BookOf
  <2> QED BY <1>1, <1>2, <1>3, <1>4, <2>1
<1>5. CASE i \notin DOMAIN S
  <2>1. BookOf(i)' = NoBook /\ BookOf(i) = NoBook
    BY <1>1, <1>3, <1>5 DEF BookOf
  <2> QED BY <1>1, <1>3, <2>1, NoBookEntry
<1> QED BY <1>4, <1>5

\* What an iteration does to the book of an instrument and what is known of it.
LEMMA StepBook ==
  ASSUME GoodBooks(m_md_book_states), work \in Seq(Work), BookStep, NEW i \in Instruments
  PROVE  /\ BookOf(i)' = AfterWork(i, Head(work), BookOf(i))
         /\ i \in DOMAIN m_md_book_states' =>
              i \in DOMAIN m_md_book_states \/ DefinitionOf(Head(work), i)
         /\ i \in m_instruments' => i \in m_instruments \/ DefinitionOf(Head(work), i)
         /\ DefinitionOf(Head(work), i) /\ Head(work).of.update = "D" => i \notin m_instruments'
<1> DEFINE S == m_md_book_states
           w == Head(work)
<1>1. work # <<>> /\ w \in Work
  BY BookFrames, HeadTailProperties
<1>2. CASE Update_definition
  <2> DEFINE d == w.of
  <2>1. w.kind = "definition"
    BY <1>2 DEF Update_definition, Iterate
  <2>2. d \in Instrument
    BY <1>1, <2>1 DEF Work
  <2>3. \/ /\ d.update = "D" /\ m_instruments' = m_instruments \ {d.inst} /\ S' = S
        \/ /\ d.update # "D" /\ m_instruments' = m_instruments \cup {d.inst}
           /\ S' = Create_or_shrink(S, d.inst, d.depth)
    BY <1>2 DEF Update_definition
  <2>4. AfterWork(i, w, BookOf(i)) = AfterDefinition(i, d, BookOf(i))
    BY <2>1 DEF AfterWork
  <2> HIDE DEF d
  <2>5. CASE d.update = "D"
    <3>1. S' = S /\ m_instruments' = m_instruments \ {d.inst}
      BY <2>3, <2>5
    <3>2. BookOf(i)' = BookOf(i)
      BY <3>1 DEF BookOf
    <3>3. AfterDefinition(i, d, BookOf(i)) = BookOf(i)
      BY <2>5 DEF AfterDefinition
    <3> QED BY <2>1, <2>4, <3>1, <3>2, <3>3 DEF DefinitionOf, d
  <2>6. CASE d.update # "D"
    <3>1. S' = Create_or_shrink(S, d.inst, d.depth) /\ m_instruments' = m_instruments \cup {d.inst}
      BY <2>3, <2>6
    <3>2. DOMAIN S' = DOMAIN S \cup {d.inst}
          /\ \A k \in DOMAIN S' : S'[k] = IF k # d.inst THEN S[k]
                                         ELSE IF d.inst \in DOMAIN S THEN Shrink(S[d.inst], d.depth)
                                         ELSE Create(d.depth)
      BY <3>1 DEF Create_or_shrink
    <3>3. BookOf(i)' = AfterDefinition(i, d, BookOf(i))
      <4>1. CASE i # d.inst
        <5>1. AfterDefinition(i, d, BookOf(i)) = BookOf(i)
          BY <4>1 DEF AfterDefinition
        <5>2. BookOf(i)' = BookOf(i)
          BY <3>2, <4>1 DEF BookOf
        <5> QED BY <5>1, <5>2
      <4>2. CASE i = d.inst
        <5>1. i \in DOMAIN S' /\ BookOf(i)' = S'[i]
          BY <3>2, <4>2 DEF BookOf
        <5>2. CASE i \in DOMAIN S
          <6>1. BookOf(i)' = Shrink(BookOf(i), d.depth)
            BY <3>2, <4>2, <5>1, <5>2, BookFacts
          <6>2. BookOf(i).marketDepth # Unlisted
            BY <5>2, BookFacts
          <6> QED BY <2>6, <4>2, <6>1, <6>2 DEF AfterDefinition
        <5>3. CASE i \notin DOMAIN S
          <6>1. BookOf(i)' = Create(d.depth)
            BY <3>2, <4>2, <5>1, <5>3
          <6>2. BookOf(i).marketDepth = Unlisted
            BY <5>3, BookFacts
          <6> QED BY <2>6, <4>2, <6>1, <6>2 DEF AfterDefinition
        <5> QED BY <5>2, <5>3
      <4> QED BY <4>1, <4>2
    <3> QED BY <2>1, <2>4, <2>6, <3>1, <3>2, <3>3 DEF DefinitionOf, d
  <2> QED BY <2>5, <2>6
<1>3. CASE Recover_book \/ Increment_book
  <2> DEFINE b == w.of
  <2>1. w.kind \in {"recovery", "increment"} /\ S' = Modify_state(S, b) /\ m_instruments' = m_instruments
    BY <1>3 DEF Recover_book, Increment_book, Iterate
  <2>2. b \in Book
    BY <1>1, <2>1 DEF Work
  <2>3. AfterWork(i, w, BookOf(i)) = AfterEntry(i, b, BookOf(i))
    BY <2>1 DEF AfterWork
  <2> HIDE DEF b
  <2>4. BookOf(i)' = AfterEntry(i, b, BookOf(i)) /\ DOMAIN S' = DOMAIN S
    BY <2>1, <2>2, ModifyBook
  <2>5. ~DefinitionOf(w, i)
    BY <2>1 DEF DefinitionOf
  <2> QED BY <2>1, <2>3, <2>4, <2>5
<1>4. CASE Send_recovery \/ Past_book
  <2>1. w.kind \in {"send", "past"} /\ S' = S /\ m_instruments' = m_instruments
    BY <1>4 DEF Send_recovery, Past_book, Iterate
  <2>2. BookOf(i)' = BookOf(i)
    BY <2>1 DEF BookOf
  <2>3. AfterWork(i, w, BookOf(i)) = BookOf(i) /\ ~DefinitionOf(w, i)
    BY <2>1 DEF AfterWork, DefinitionOf
  <2> QED BY <2>1, <2>2, <2>3
<1> QED BY <1>2, <1>3, <1>4 DEF BookStep

\* One sequence behind another.
LEMMA Joined ==
  ASSUME NEW S, NEW p \in Seq(S), NEW r \in Seq(S)
  PROVE  /\ p \o r \in Seq(S) /\ Len(p \o r) = Len(p) + Len(r)
         /\ Len(p) \in Nat /\ Len(r) \in Nat
         /\ \A n \in 1 .. Len(p) : (p \o r)[n] = p[n] /\ n \in 1 .. Len(p \o r)
         /\ \A n \in 1 .. Len(r) : (p \o r)[Len(p) + n] = r[n]
         /\ \A n \in 1 .. Len(p \o r) : n \in 1 .. Len(p) \/ n - Len(p) \in 1 .. Len(r)
         /\ \A n \in 1 .. Len(p \o r) : n \notin 1 .. Len(p) => (p \o r)[n] = r[n - Len(p)]
<1>1. Len(p) \in Nat /\ Len(r) \in Nat
  BY LenProperties
<1>2. /\ p \o r \in Seq(S) /\ Len(p \o r) = Len(p) + Len(r)
      /\ \A n \in 1 .. Len(p) + Len(r) : (p \o r)[n] = IF n <= Len(p) THEN p[n] ELSE r[n - Len(p)]
  BY ConcatProperties
<1>3. ASSUME NEW n \in 1 .. Len(r) PROVE (p \o r)[Len(p) + n] = r[n]
  <2>1. Len(p) + n \in 1 .. Len(p) + Len(r) /\ ~(Len(p) + n <= Len(p)) /\ (Len(p) + n) - Len(p) = n
    BY <1>1
  <2> QED BY <1>2, <2>1
<1> QED BY <1>1, <1>2, <1>3

\* The iterations of Update_definition, one for each definition.
LEMMA DefinitionsWork ==
  ASSUME NEW ds \in Seq(Instrument)
  PROVE  /\ Definitions(ds) \in Seq(Work) /\ Len(Definitions(ds)) = Len(ds) /\ Len(ds) \in Nat
         /\ \A n \in 1 .. Len(ds) : /\ ds[n] \in Instrument
                                    /\ Definitions(ds)[n] = [kind |-> "definition", of |-> ds[n]]
<1> DEFINE one(n) == [kind |-> "definition", of |-> ds[n]]
<1>1. DOMAIN ds = 1 .. Len(ds) /\ Len(ds) \in Nat /\ \A n \in 1 .. Len(ds) : ds[n] \in Instrument
  BY LenProperties, ElementOfSeq
<1>2. Definitions(ds) = [n \in 1 .. Len(ds) |-> one(n)]
  BY <1>1 DEF Definitions
<1>3. \A n \in 1 .. Len(ds) : one(n) \in Work
  BY <1>1 DEF Work
<1> HIDE DEF one
<1>4. Definitions(ds) \in Seq(Work) /\ Len(Definitions(ds)) = Len(ds)
  BY <1>1, <1>2, <1>3, IsASeq
<1>5. \A n \in 1 .. Len(ds) : Definitions(ds)[n] = one(n)
  BY <1>2
<1> QED BY <1>1, <1>4, <1>5 DEF one

\* The iterations of On_new_recovery, one for each entry.
LEMMA RecoveriesWork ==
  ASSUME NEW books \in Seq(Book)
  PROVE  /\ Recoveries(books) \in Seq(Work) /\ Len(Recoveries(books)) = Len(books)
         /\ Len(books) \in Nat
         /\ \A n \in 1 .. Len(books) : /\ books[n] \in Book
                                       /\ Recoveries(books)[n] = [kind |-> "recovery", of |-> books[n]]
<1> DEFINE one(n) == [kind |-> "recovery", of |-> books[n]]
<1>1. DOMAIN books = 1 .. Len(books) /\ Len(books) \in Nat
      /\ \A n \in 1 .. Len(books) : books[n] \in Book
  BY LenProperties, ElementOfSeq
<1>2. Recoveries(books) = [n \in 1 .. Len(books) |-> one(n)]
  BY <1>1 DEF Recoveries
<1>3. \A n \in 1 .. Len(books) : one(n) \in Work
  BY <1>1 DEF Work
<1> HIDE DEF one
<1>4. Recoveries(books) \in Seq(Work) /\ Len(Recoveries(books)) = Len(books)
  BY <1>1, <1>2, <1>3, IsASeq
<1>5. \A n \in 1 .. Len(books) : Recoveries(books)[n] = one(n)
  BY <1>2
<1> QED BY <1>1, <1>4, <1>5 DEF one

\* What is left of the work, and what is loaded, does not grow.
LEMMA StepLoaded ==
  ASSUME GoodBooks(m_md_book_states), work \in Seq(Work), BookStep, NEW i \in Instruments
  PROVE  /\ Defined(i)' => Defined(i)
         /\ DefinitionOf(Head(work), i) => Defined(i)
         /\ Loaded(i)' => Loaded(i)
<1>1. /\ work # <<>> /\ work' = Tail(work)
      /\ Head(work) = work[1] /\ Len(work) \in Nat /\ Len(work) >= 1
      /\ Len(Tail(work)) = Len(work) - 1
      /\ \A n \in 1 .. Len(Tail(work)) : Tail(work)[n] = work[n + 1]
  <2>1. work # <<>> /\ work' = Tail(work)
    BY BookFrames
  <2>2. Len(Tail(work)) = Len(work) - 1
        /\ \A n \in 1 .. Len(Tail(work)) : Tail(work)[n] = work[n + 1]
    BY <2>1, HeadTailProperties
  <2>3. Len(work) \in Nat /\ Len(work) # 0 /\ Head(work) = work[1]
    BY <2>1, LenProperties, EmptySeq
  <2> QED BY <2>1, <2>2, <2>3
<1>2. Defined(i)' => Defined(i)
  <2>1. ASSUME NEW n \in 1 .. Len(Tail(work)), DefinitionOf(Tail(work)[n], i) PROVE Defined(i)
    <3>1. n + 1 \in 1 .. Len(work) /\ Tail(work)[n] = work[n + 1]
      BY <1>1
    <3> QED BY <2>1, <3>1 DEF Defined
  <2> QED BY <1>1, <2>1 DEF Defined, DefinitionOf
<1>3. DefinitionOf(Head(work), i) => Defined(i)
  <2>1. 1 \in 1 .. Len(work)
    BY <1>1
  <2> QED BY <1>1, <2>1 DEF Defined
<1> QED BY <1>2, <1>3, StepBook DEF Loaded

\* The work of a message.
LEMMA HandleWork ==
  ASSUME MarketTypes, Connected, Chained, Handle
  PROVE  LET m == Msg(done + 1)
         IN  /\ work = <<>> /\ m \in Message
             /\ \/ done + 1 <= m_recovery_first_seq /\ work' = <<>>
                      /\ m_recovery_wait_merge' = m_recovery_wait_merge
                \/ /\ done + 1 > m_recovery_first_seq /\ m.type = "d"
                   /\ work' = Definitions(m.instruments)
                   /\ m_recovery_wait_merge' = m_recovery_wait_merge
                \/ /\ done + 1 > m_recovery_first_seq /\ m.type = "X"
                   /\ work' = Increments(m.books, Ahead(done + 1))
                   /\ m_recovery_wait_merge' \in {m_recovery_wait_merge, Merge_position(done + 1)}
<1>1. /\ Head(queue).message = Msg(done + 1) /\ done + 1 \in done + 1 .. seq
  BY HandleKeeps
<1>2. Msg(done + 1).seq = done + 1 /\ Msg(done + 1) \in Message
  BY <1>1, QueueFacts DEF Chained
<1>3. Convert_message(Msg(done + 1))
  BY <1>1 DEF Handle
<1> QED BY <1>2, <1>3 DEF Convert_message, Idle

\* ... and the instruments it defines.
LEMMA HandleLoaded ==
  ASSUME MarketTypes, Connected, Chained, Handle, NEW i \in Instruments
  PROVE  Defined(i)' => \E d \in Instrument :
           Msg(done + 1).type = "d" /\ Msg(done + 1).instruments = <<d>> /\ d.inst = i
<1> DEFINE m == Msg(done + 1)
<1>1. m \in Message /\ \/ work' = <<>>
                       \/ m.type = "d" /\ work' = Definitions(m.instruments)
                       \/ m.type = "X" /\ \E past : work' = Increments(m.books, past)
  BY HandleWork
<1>2. done + 1 \in done + 1 .. seq /\ Carries(m, At(done), At(done + 1))
  <2>1. done + 1 \in done + 1 .. seq /\ (done + 1) - 1 = done
    BY HandleKeeps, SeqFacts
  <2> QED BY <2>1 DEF Chained
<1> HIDE DEF m
<1>3. m.instruments \in Seq(Instrument) /\ m.books \in Seq(Book)
  BY <1>1 DEF Message
<1>4. ASSUME work' = <<>> PROVE ~Defined(i)'
  BY <1>4, EmptySeq DEF Defined
<1>5. ASSUME NEW past, work' = Increments(m.books, past) PROVE ~Defined(i)'
  <2>1. Len(work') = Len(m.books) /\ \A n \in 1 .. Len(m.books) : work'[n].kind # "definition"
    BY <1>3, <1>5, IncrementsType
  <2> QED BY <2>1 DEF Defined, DefinitionOf
<1>6. ASSUME m.type = "d", work' = Definitions(m.instruments), Defined(i)'
      PROVE  \E d \in Instrument : m.type = "d" /\ m.instruments = <<d>> /\ d.inst = i
  <2>1. PICK d \in Instrument : m.instruments = <<d>>
    BY <1>2, <1>6 DEF Carries
  <2>2. Len(work') = 1 /\ work'[1] = [kind |-> "definition", of |-> d]
    <3>1. Len(m.instruments) = 1 /\ m.instruments[1] = d
      BY <2>1
    <3>2. /\ Len(Definitions(m.instruments)) = Len(m.instruments)
          /\ \A n \in 1 .. Len(m.instruments) :
               Definitions(m.instruments)[n] = [kind |-> "definition", of |-> m.instruments[n]]
      BY ONLY <1>3, DefinitionsWork
    <3> QED BY <1>6, <3>1, <3>2
  <2>3. PICK n \in 1 .. Len(work') : DefinitionOf(work'[n], i)
    BY <1>6 DEF Defined
  <2>4. n = 1
    BY <2>2
  <2>5. d.inst = i
    BY <2>2, <2>3, <2>4 DEF DefinitionOf
  <2> QED BY <1>6, <2>1, <2>5
<1> QED BY <1>1, <1>4, <1>5, <1>6 DEF m

\* The recovery defines what there are definitions of.
LEMMA RecoverWork ==
  ASSUME MarketTypes, Recover
  PROVE  LET defs == Definitions(definitions)
             recs == Recoveries(SnapshotBooks)
             sent == <<[kind |-> "send"]>>
         IN  /\ work' = (defs \o recs) \o sent
             /\ defs \in Seq(Work) /\ recs \in Seq(Work) /\ sent \in Seq(Work)
             /\ defs \o recs \in Seq(Work)
             /\ \A i : Defined(i)' => \E d \in Defs : d.inst = i
             /\ UNCHANGED <<m_instruments, m_md_book_states>>
             /\ m_recovery_first_seq' = snapshots[1].seq /\ m_recovery_first_seq = 0
             /\ m_recovery_wait_merge' = 1
             /\ first > 1 /\ snapshots # <<>> /\ UNCHANGED <<marketVars, clientVars>>
<1> DEFINE defs == Definitions(definitions)
           recs == Recoveries(SnapshotBooks)
           sent == <<[kind |-> "send"]>>
<1>1. /\ work' = defs \o recs \o sent /\ UNCHANGED <<m_instruments, m_md_book_states>>
      /\ m_recovery_first_seq' = snapshots[1].seq /\ m_recovery_first_seq = 0
      /\ m_recovery_wait_merge' = 1
      /\ first > 1 /\ snapshots # <<>> /\ UNCHANGED <<marketVars, clientVars>>
  BY DEF Recover, Process_recovery_data
<1>2. definitions \in Seq(Instrument) /\ SnapshotBooks \in Seq(Book)
  BY SnapshotBooksType DEF MarketTypes
<1>3. /\ defs \in Seq(Work) /\ Len(defs) = Len(definitions) /\ Len(defs) \in Nat
      /\ \A n \in 1 .. Len(defs) : defs[n] = [kind |-> "definition", of |-> definitions[n]]
  BY <1>2, DefinitionsWork
<1>4. /\ recs \in Seq(Work) /\ Len(recs) \in Nat
      /\ \A n \in 1 .. Len(recs) : recs[n].kind = "recovery"
  <2> DEFINE books == SnapshotBooks
  <2>1. books \in Seq(Book)
    BY <1>2
  <2> HIDE DEF books
  <2>2. /\ Recoveries(books) \in Seq(Work) /\ Len(Recoveries(books)) = Len(books)
        /\ Len(books) \in Nat
        /\ \A n \in 1 .. Len(books) : Recoveries(books)[n] = [kind |-> "recovery", of |-> books[n]]
    BY <2>1, RecoveriesWork
  <2>3. ASSUME NEW n \in 1 .. Len(books) PROVE Recoveries(books)[n].kind = "recovery"
    <3> DEFINE z == Recoveries(books)[n]
    <3>1. z = [kind |-> "recovery", of |-> books[n]]
      BY <2>2
    <3> HIDE DEF z
    <3>2. z.kind = "recovery"
      BY ONLY <3>1
    <3> QED BY <3>2 DEF z
  <2> QED BY <2>2, <2>3 DEF books
<1>5. sent \in Seq(Work) /\ Len(sent) = 1 /\ sent[1].kind = "send"
  BY NewWork
<1> HIDE DEF defs, recs, sent
<1>6. /\ defs \o recs \in Seq(Work)
      /\ \A n \in 1 .. Len(defs \o recs) :
           \/ n \in 1 .. Len(defs) /\ (defs \o recs)[n] = defs[n]
           \/ n - Len(defs) \in 1 .. Len(recs) /\ (defs \o recs)[n] = recs[n - Len(defs)]
  BY <1>3, <1>4, Joined
<1>7. \A n \in 1 .. Len(work') :
           \/ n \in 1 .. Len(defs \o recs) /\ work'[n] = (defs \o recs)[n]
           \/ n - Len(defs \o recs) \in 1 .. Len(sent)
                /\ work'[n] = sent[n - Len(defs \o recs)]
  <2> DEFINE front == defs \o recs
  <2>1. front \in Seq(Work) /\ work' = front \o sent /\ sent \in Seq(Work)
    BY <1>1, <1>5, <1>6
  <2> HIDE DEF front
  <2>2. \A n \in 1 .. Len(front \o sent) :
           \/ n \in 1 .. Len(front) /\ (front \o sent)[n] = front[n]
           \/ n - Len(front) \in 1 .. Len(sent) /\ (front \o sent)[n] = sent[n - Len(front)]
    BY ONLY <2>1, Joined
  <2> QED BY <2>1, <2>2 DEF front
<1>8. ASSUME NEW n \in 1 .. Len(work'), work'[n].kind = "definition"
      PROVE  n \in 1 .. Len(definitions) /\ work'[n].of = definitions[n]
  <2>1. work'[n] = (defs \o recs)[n] /\ n \in 1 .. Len(defs \o recs)
    <3>1. ASSUME n - Len(defs \o recs) \in 1 .. Len(sent) PROVE n - Len(defs \o recs) = 1
      BY <1>5, <3>1
    <3> QED BY <1>5, <1>7, <1>8, <3>1
  <2>2. work'[n] = defs[n] /\ n \in 1 .. Len(defs)
    BY <1>4, <1>6, <1>8, <2>1
  <2>3. defs[n] = [kind |-> "definition", of |-> definitions[n]]
    BY <1>3, <2>2
  <2>4. defs[n].of = definitions[n]
    BY <2>3
  <2> QED BY <1>3, <2>2, <2>4
<1>9. ASSUME NEW i, Defined(i)'
      PROVE  \E d \in Defs : d.inst = i
  BY <1>8, <1>9 DEF Defined, DefinitionOf, Defs
<1> QED BY <1>1, <1>3, <1>4, <1>5, <1>6, <1>9 DEF defs, recs, sent

\* What the program starts with.
LEMMA ConnectFacts ==
  ASSUME MarketTypes, Before, Connect
  PROVE  /\ ~Connected /\ Connected' /\ first' = seq + 1 /\ done' = seq /\ seq' = seq
         /\ view' = ShownNow /\ ShownNow' = ShownNow /\ queue' = <<>> /\ snapshots' = <<>>
         /\ changed' = {} /\ \A i \in Instruments : right_from'[i] = Never
         /\ UNCHANGED <<bookVars, marketVars, snapshots, right_from>>
         /\ Defs' = {[inst |-> i, depth |-> depth[i], update |-> "A"] : i \in Listed}
         /\ Once' /\ Snaps' = {}
<1>1. /\ ~Connected /\ first' = seq + 1 /\ done' = seq /\ seq' = seq
      /\ view' = ShownNow /\ ShownNow' = ShownNow /\ queue' = <<>> /\ snapshots' = <<>>
      /\ changed' = {} /\ \A i \in Instruments : right_from'[i] = Never
      /\ UNCHANGED <<bookVars, marketVars, snapshots, right_from>>
  BY DEF Connect, Before, marketVars, ShownNow, Shown
<1>2. PICK ds \in SetToSeqs({[inst |-> i, depth |-> depth[i], update |-> "A"]
                              : i \in Listed}) : definitions' = ds
  BY DEF Connect
<1>3. /\ ds \in Seq(Instrument)
      /\ {ds[n] : n \in DOMAIN ds}
           = {[inst |-> i, depth |-> depth[i], update |-> "A"] : i \in Listed}
      /\ \A m, n \in DOMAIN ds : m # n => ds[m].inst # ds[n].inst
  BY DefinitionsType
<1>4. DOMAIN ds = 1 .. Len(ds)
  BY <1>3, LenProperties
<1>5. Defs' = {[inst |-> i, depth |-> depth[i], update |-> "A"] : i \in Listed}
  BY <1>2, <1>3, <1>4 DEF Defs
<1>6. Once'
  BY <1>2, <1>3, <1>4, <1>5 DEF Once
<1>7. Connected'
  BY <1>1, SeqFacts DEF Connected
<1>8. Snaps' = {}
  BY <1>1, EmptySeq DEF Snaps
<1> QED BY <1>1, <1>5, <1>6, <1>7, <1>8

\* The definitions are received once.
LEMMA OnceNext ==
  ASSUME MarketTypes, Unseen, Before, Once, [Next]_vars
  PROVE  Once'
<1>1. CASE UNCHANGED definitions
  BY <1>1 DEF Once, Defs
<1> QED BY <1>1, ConnectFacts, StepKinds DEF Apart, ReceiveSnapshot, Recover, Handle, clientVars, vars

\* Publishing takes no instrument from those that are, or were, listed.
LEMMA KnownTells ==
  ASSUME MarketTypes, Before, Chained, Known, Apart, NEW m, Tells(m)
  PROVE  Known'
<1>1. /\ Ever \subseteq Ever' /\ Listed' \cap gone' = {}
      /\ \A i \in Instruments : right_from'[i] = right_from[i] \/ Begins(i)
      /\ \A d \in Instrument : Adds(m, d) =>
           /\ d.inst \notin Ever /\ d.inst \in Ever'
           /\ right_from'[d.inst] \in {right_from[d.inst], seq + 1}
  BY TellsMarket DEF Known
<1>2. seq \in Nat /\ done \in Nat /\ done <= seq /\ seq' = seq + 1
      /\ \A i \in Instruments : right_from[i] \in Nat
  BY SeqFacts, MarketAssumption DEF Tells, Publish, MarketTypes, Never
<1>3. Defs' = Defs /\ Snaps' = Snaps /\ \A i : Loaded(i)' <=> Loaded(i)
  BY DEF Apart, bookVars, Defs, Snaps, Loaded, Defined
<1>4. ASSUME NEW i \in Instruments, right_from'[i] # Never
      PROVE  i \in Ever' /\ right_from'[i] <= seq'
  BY <1>1, <1>2, <1>4 DEF Known, Begins
<1>5. ASSUME Connected
      PROVE  /\ done' = done
             /\ \A q \in done .. seq : At(q)' = At(q)
             /\ \A q \in done + 1 .. seq : Msg(q)' = Msg(q)
             /\ \A q : q = seq + 1 => At(q)' = ShownNow' /\ Msg(q)' = m
  BY <1>5, PublishKeeps DEF Tells
<1>6. Connected' <=> Connected
  BY DEF Apart, Connected
<1>7. ASSUME Connected, NEW q \in done' .. seq', NEW i \in Instruments,
             At(q)'[i].marketDepth # Unlisted
      PROVE  i \in Ever'
  <2>1. CASE q = seq + 1
    <3>1. ShownNow'[i].marketDepth = depth'[i]
      BY DEF ShownNow, Shown
    <3> QED BY <1>5, <1>7, <2>1, <3>1 DEF Ever, Listed
  <2>2. CASE q # seq + 1
    <3>1. q \in done .. seq
      BY <1>2, <1>5, <1>7, <2>2
    <3> QED BY <1>1, <1>5, <1>7, <3>1 DEF Known
  <2> QED BY <2>1, <2>2
<1>8. ASSUME Connected, NEW q \in done' + 1 .. seq', NEW d \in Instrument,
             Adds(Msg(q)', d), right_from'[d.inst] # Never
      PROVE  q <= right_from'[d.inst]
  <2>1. d.inst \in Instruments
    BY DEF Instrument
  <2>2. CASE q = seq + 1
    <3>1. Adds(m, d)
      BY <1>5, <1>8, <2>2
    <3>2. right_from[d.inst] = Never
      BY <1>1, <2>1, <3>1 DEF Known
    <3> QED BY <1>1, <1>2, <1>8, <2>1, <2>2, <3>1, <3>2
  <2>3. CASE q # seq + 1
    <3>1. q \in done + 1 .. seq /\ Adds(Msg(q), d)
      BY <1>2, <1>5, <1>8, <2>3
    <3>2. d.inst \in Ever
      <4>1. Carries(Msg(q), At(q - 1), At(q)) /\ q - 1 \in done .. seq /\ q \in done .. seq
        BY <1>2, <1>8, <3>1 DEF Chained
      <4>2. At(q)[d.inst] = Create(d.depth)
        BY <3>1, <4>1 DEF Carries, Adds
      <4>3. At(q)[d.inst].marketDepth # Unlisted
        BY <4>2 DEF Create, Instrument, Unlisted
      <4> QED BY <1>8, <2>1, <4>1, <4>3 DEF Known
    <3>3. right_from'[d.inst] = right_from[d.inst]
      BY <1>1, <2>1, <3>2 DEF Begins
    <3> QED BY <1>8, <3>1, <3>3 DEF Known
  <2> QED BY <2>2, <2>3
<1>9. \A q : \A d : Adds(Msg(q), d)' <=> Adds(Msg(q)', d)
  BY DEF Adds
<1> QED BY <1>1, <1>3, <1>4, <1>6, <1>7, <1>8, <1>9 DEF Known

\* Steps that leave the market and the messages alone.
LEMMA KnownStays ==
  ASSUME Known, UNCHANGED <<depth, gone, seq, first, queue, done, view, right_from>>,
         Defs' = Defs, Snaps' = Snaps,
         \A i \in Instruments : Loaded(i)' => Loaded(i) \/ i \in Ever
  PROVE  Known'
<1>1. Ever' = Ever /\ Listed' = Listed /\ \A q : At(q)' = At(q) /\ Msg(q)' = Msg(q)
  BY QueueStays DEF Ever, Listed
<1>2. \A q : \A d : Adds(Msg(q), d)' <=> Adds(Msg(q), d)
  BY <1>1 DEF Adds
<1> QED BY <1>1, <1>2 DEF Known, Connected

\* Every step keeps what is known of the instruments true.
LEMMA KnownNext ==
  ASSUME MarketTypes, BookTypeOK, GoodBooks(m_md_book_states), Unseen, Before, NotLoaded, Chained,
         Collected, Known, [Next]_vars
  PROVE  Known'
<1>1. /\ seq \in Nat /\ done \in Nat /\ done <= seq
  BY SeqFacts
<1>2. CASE Apart /\ Silent
  <2>1. /\ UNCHANGED <<depth, gone, seq, first, queue, done, view, right_from>>
        /\ Defs' = Defs /\ Snaps' = Snaps /\ \A i : Loaded(i)' = Loaded(i)
    BY <1>2 DEF Apart, Silent, bookVars, Defs, Snaps, Loaded, Defined
  <2> QED BY <2>1, KnownStays
<1>3. ASSUME Apart, NEW m, Tells(m) PROVE Known'
  BY <1>3, KnownTells
<1>4. CASE Connect
  <2>1. /\ done' = seq /\ seq' = seq /\ view' = ShownNow /\ Snaps' = {}
        /\ \A i \in Instruments : right_from'[i] = Never
        /\ Defs' = {[inst |-> i, depth |-> depth[i], update |-> "A"] : i \in Listed}
        /\ UNCHANGED <<bookVars, marketVars>>
    BY <1>4, ConnectFacts
  <2>2. Ever' = Ever /\ Listed' = Listed /\ gone' = gone /\ \A i : Loaded(i)' = Loaded(i)
    BY <2>1 DEF marketVars, bookVars, Ever, Listed, Loaded, Defined
  <2>3. \A d \in Defs' : d.inst \in Ever
    BY <2>1 DEF Ever
  <2>4. ASSUME NEW q \in done' .. seq', NEW i \in Instruments, At(q)'[i].marketDepth # Unlisted
        PROVE  i \in Ever'
    <3>1. q = done'
      BY <1>1, <2>1, <2>4
    <3>2. At(q)' = ShownNow
      BY <2>1, <3>1 DEF At
    <3>3. ShownNow[i].marketDepth = depth[i]
      BY DEF ShownNow, Shown
    <3> QED BY <2>2, <2>4, <3>2, <3>3 DEF Ever, Listed
  <2>5. ASSUME NEW d \in Instrument PROVE right_from'[d.inst] = Never
    BY <2>1 DEF Instrument
  <2>6. \A q \in done' + 1 .. seq' : FALSE
    BY <1>1, <2>1
  <2> QED BY <2>1, <2>2, <2>3, <2>4, <2>6 DEF Known
<1>5. ASSUME NEW i \in Instruments, ReceiveSnapshot(i) PROVE Known'
  <2>1. /\ Connected
        /\ Snaps' = Snaps \cup {[inst |-> i, seq |-> seq, view |-> Shown(full, depth, i)]}
        /\ \A q : At(q)' = At(q) /\ Msg(q)' = Msg(q)
    BY <1>5, CollectedSnapshot
  <2>2. /\ UNCHANGED <<bookVars, marketVars, first, definitions, queue, done, view>> /\ i \in Listed
        /\ right_from' = [right_from EXCEPT ![i] = IF i \in changed THEN Never ELSE seq]
        /\ right_from \in [Instruments -> 0 .. Never]
    BY <1>5 DEF ReceiveSnapshot, MarketTypes
  <2>3. /\ Ever' = Ever /\ Listed' = Listed /\ gone' = gone /\ \A k : Loaded(k)' = Loaded(k)
        /\ Defs' = Defs /\ seq' = seq /\ done' = done
    BY <2>2 DEF marketVars, bookVars, Ever, Listed, Loaded, Defined, Defs
  <2>4. ASSUME NEW k \in Instruments, right_from'[k] # Never
        PROVE  /\ k \in Ever /\ right_from'[k] <= seq
               /\ right_from'[k] = seq \/ right_from'[k] = right_from[k]
    <3>1. CASE k = i
      BY <1>1, <2>2, <2>4, <3>1 DEF Ever
    <3>2. CASE k # i
      BY <2>2, <2>4, <3>2 DEF Known
    <3> QED BY <3>1, <3>2
  <2>5. \A s \in Snaps' : s.inst \in Ever
    BY <2>1, <2>2 DEF Known, Ever
  <2>6. \A q : \A d : Adds(Msg(q), d)' <=> Adds(Msg(q), d)
    BY <2>1 DEF Adds
  <2>7. ASSUME NEW q \in done' + 1 .. seq', NEW d \in Instrument,
               Adds(Msg(q), d), right_from'[d.inst] # Never
        PROVE  q <= right_from'[d.inst]
    <3>1. d.inst \in Instruments /\ q <= seq /\ q \in done + 1 .. seq
      BY <1>1, <2>3, <2>7 DEF Instrument
    <3> QED BY <2>1, <2>4, <2>7, <3>1 DEF Known
  <2> QED BY <2>1, <2>3, <2>4, <2>5, <2>6, <2>7 DEF Known
<1>6. CASE Recover
  <2>1. /\ UNCHANGED <<m_instruments, m_md_book_states, marketVars, clientVars>>
        /\ \A i : Defined(i)' => \E d \in Defs : d.inst = i
    BY <1>6, RecoverWork
  <2>2. /\ UNCHANGED <<depth, gone, seq, first, queue, done, view, right_from>>
        /\ Defs' = Defs /\ Snaps' = Snaps
    BY <2>1 DEF marketVars, clientVars, Defs, Snaps
  <2>3. ASSUME NEW i \in Instruments, Loaded(i)' PROVE Loaded(i) \/ i \in Ever
    BY <2>1, <2>3 DEF Loaded, Known
  <2> QED BY <2>2, <2>3, KnownStays
<1>7. CASE Handle
  <2>1. Connected
    BY <1>7 DEF Handle, Before
  <2>2. /\ done + 1 \in done + 1 .. seq /\ seq' = seq /\ done' = done + 1
        /\ \A q \in done' .. seq : At(q)' = At(q)
        /\ \A q \in done' + 1 .. seq : Msg(q)' = Msg(q)
    BY <1>7, <2>1, HandleKeeps
  <2>3. /\ UNCHANGED <<marketVars, first, definitions, snapshots, right_from,
                       m_instruments, m_md_book_states>>
    BY <1>7, BookFrames DEF Handle
  <2>4. Ever' = Ever /\ Listed' = Listed /\ gone' = gone /\ Defs' = Defs /\ Snaps' = Snaps
    BY <2>3 DEF marketVars, Ever, Listed, Defs, Snaps
  <2>5. ASSUME NEW i \in Instruments, Defined(i)' PROVE i \in Ever
    <3>1. PICK d \in Instrument :
            Msg(done + 1).type = "d" /\ Msg(done + 1).instruments = <<d>> /\ d.inst = i
      BY <1>7, <2>1, <2>5, HandleLoaded
    <3>2. Carries(Msg(done + 1), At(done), At(done + 1))
          /\ done \in done .. seq /\ done + 1 \in done .. seq
      <4>1. (done + 1) - 1 = done /\ done \in done .. seq /\ done + 1 \in done .. seq
        BY <1>1, <2>2
      <4> QED BY <2>1, <2>2, <4>1 DEF Chained
    <3>3. At(done)[i].marketDepth # Unlisted \/ At(done + 1)[i].marketDepth # Unlisted
      <4>1. \/ At(done + 1)[i] = Create(d.depth)
            \/ At(done)[i].marketDepth # Unlisted
        BY <3>1, <3>2 DEF Carries
      <4>2. Create(d.depth).marketDepth # Unlisted
        BY DEF Create, Instrument, Unlisted
      <4> QED BY <4>1, <4>2
    <3> QED BY <2>1, <3>2, <3>3 DEF Known
  <2>6. \A i \in Instruments : Loaded(i)' => i \in Ever
    BY <2>3, <2>5 DEF Loaded, Known
  <2>7. \A q \in done' + 1 .. seq : \A d : Adds(Msg(q), d)' <=> Adds(Msg(q), d)
    BY <2>2 DEF Adds
  <2>8. \A q \in done' .. seq : q \in done .. seq
    BY <1>1, <2>2
  <2>9. \A q \in done' + 1 .. seq : q \in done + 1 .. seq
    BY <1>1, <2>2
  <2> QED BY <2>1, <2>2, <2>3, <2>4, <2>6, <2>7, <2>8, <2>9 DEF Known
<1>8. CASE BookStep /\ UNCHANGED <<marketVars, clientVars>>
  <2>1. /\ UNCHANGED <<depth, gone, seq, first, queue, done, view, right_from>>
        /\ Defs' = Defs /\ Snaps' = Snaps
    BY <1>8 DEF marketVars, clientVars, Defs, Snaps
  <2>2. \A i \in Instruments : Loaded(i)' => Loaded(i)
    BY <1>8, StepLoaded DEF BookTypeOK
  <2> QED BY <2>1, <2>2, KnownStays
<1>9. CASE UNCHANGED vars
  <2>1. /\ UNCHANGED <<depth, gone, seq, first, queue, done, view, right_from>>
        /\ Defs' = Defs /\ Snaps' = Snaps /\ \A i : Loaded(i)' = Loaded(i)
    BY <1>9 DEF vars, bookVars, marketVars, clientVars, Defs, Snaps, Loaded, Defined
  <2> QED BY <2>1, KnownStays
<1> QED BY <1>2, <1>3, <1>4, <1>5, <1>6, <1>7, <1>8, <1>9, StepKinds

\* The definition that adds an instrument.
Added(i, levels) == [inst |-> i, depth |-> levels, update |-> "A"]

\* The book of a snapshot that is right keeps its depth until the snapshot, and
\* no reset comes between the first snapshot and it.
Steady(s) ==
  right_from[s.inst] # Never =>
    /\ right_from[s.inst] = s.seq /\ s.view.marketDepth # Unlisted
    /\ Added(s.inst, s.view.marketDepth) \in Defs
    /\ \A q \in done .. seq :
         q <= s.seq => At(q)[s.inst].marketDepth = s.view.marketDepth
    /\ \A q \in done + 1 .. seq :
         snapshots[1].seq < q /\ q <= s.seq => ~IsReset(Msg(q))

\* While snapshots are collected, so does the book of an instrument that has
\* not changed.
Untouched(i) ==
  /\ Added(i, depth[i]) \in Defs
  /\ \A q \in done .. seq : At(q)[i].marketDepth = depth[i]
  /\ ~InSnapshot(i) /\ snapshots # <<>> =>
       \A q \in done + 1 .. seq : q > snapshots[1].seq => ~IsReset(Msg(q))

\* A book that is right without a snapshot is that of a new instrument.
Begun(i) ==
  right_from[i] # Never /\ ~InSnapshot(i) =>
    /\ \A d \in Defs : d.inst # i
    /\ first > 1 => snapshots # <<>> /\ right_from[i] > snapshots[1].seq
    /\ right_from[i] > done =>
         /\ \A q \in done .. seq : q < right_from[i] => At(q)[i].marketDepth = Unlisted
         /\ \A q \in done .. seq : q = right_from[i] => At(q)[i].marketDepth # Unlisted

\* What was received stays what the exchange meant by it.
Kept ==
  /\ \A s \in Snaps : Steady(s)
  /\ first > 1 /\ m_recovery_first_seq = 0 => \A i \in Listed \ changed : Untouched(i)
  /\ \A i \in Instruments : Begun(i)

\* Steps that publish nothing and take no snapshot.
LEMMA KeptStays ==
  ASSUME MarketTypes, Kept,
         UNCHANGED <<first, definitions, snapshots, depth, changed, right_from, seq>>,
         m_recovery_first_seq' = 0 => m_recovery_first_seq = 0,
         done <= done', done' \in Nat,
         \A q \in done' .. seq : At(q)' = At(q),
         \A q \in done' + 1 .. seq : Msg(q)' = Msg(q)
  PROVE  Kept'
<1>1. /\ seq \in Nat /\ done \in Nat /\ \A i \in Instruments : right_from[i] \in Nat
      /\ \A q \in done' .. seq : q \in done .. seq /\ q \in Nat
      /\ \A q \in done' + 1 .. seq : q \in done + 1 .. seq
  <2>1. seq \in Nat /\ done \in Nat
    BY SeqFacts
  <2>2. \A i \in Instruments : right_from[i] \in Nat
    BY MarketAssumption DEF MarketTypes, Never
  <2>3. ASSUME NEW a \in Nat, NEW b \in Nat, a <= b
        PROVE  /\ \A q \in b .. seq : q \in a .. seq /\ q \in Nat
               /\ \A q \in b + 1 .. seq : q \in a + 1 .. seq
    BY ONLY <2>1, <2>3
  <2>4. done <= done' /\ done' \in Nat
    OBVIOUS
  <2>5. /\ \A q \in done' .. seq : q \in done .. seq /\ q \in Nat
        /\ \A q \in done' + 1 .. seq : q \in done + 1 .. seq
    BY ONLY <2>1, <2>3, <2>4
  <2> QED BY ONLY <2>1, <2>2, <2>5
<1>2. /\ Snaps' = Snaps /\ Defs' = Defs /\ Listed' = Listed /\ \A i : InSnapshot(i)' = InSnapshot(i)
  BY DEF Snaps, Defs, Listed, InSnapshot
<1>3. \A q \in done' + 1 .. seq : IsReset(Msg(q))' = IsReset(Msg(q))
  BY DEF IsReset
<1>4. ASSUME NEW s \in Snaps PROVE Steady(s)'
  BY <1>1, <1>2, <1>3 DEF Kept, Steady
<1>5. ASSUME NEW i \in Instruments, Untouched(i) PROVE Untouched(i)'
  BY <1>1, <1>2, <1>3, <1>5 DEF Untouched
<1>6. ASSUME NEW i \in Instruments PROVE Begun(i)'
  <2>1. right_from[i] > done' => right_from[i] > done
    BY <1>1
  <2> QED BY <1>1, <1>2, <2>1 DEF Kept, Begun
<1>7. first' > 1 /\ m_recovery_first_seq' = 0 => \A i \in Listed' \ changed' : Untouched(i)'
  BY <1>2, <1>5 DEF Kept, Listed
<1> QED BY <1>2, <1>4, <1>6, <1>7 DEF Kept

\* A published message keeps that.
LEMMA KeptTells ==
  ASSUME MarketTypes, Before, Chained, Collected, Known, Kept, Apart, NEW m, Tells(m)
  PROVE  Kept'
<1>1. /\ \A i \in Instruments : right_from'[i] = right_from[i] \/ Begins(i)
      /\ Connected => \A i \in Listed' \ changed' :
                        i \in Listed \ changed /\ depth'[i] = depth[i]
      /\ IsReset(m) /\ snapshots # <<>> =>
           \A i \in Instruments : ~InSnapshot(i) => i \in changed'
  BY TellsMarket DEF Known
<1>2. /\ seq \in Nat /\ done \in Nat /\ done <= seq /\ seq' = seq + 1
      /\ \A i \in Instruments : right_from[i] \in Nat
      /\ first' = first /\ snapshots' = snapshots /\ done' = done
      /\ m_recovery_first_seq' = m_recovery_first_seq
  BY SeqFacts, MarketAssumption DEF Tells, Publish, MarketTypes, Never, Apart, bookVars
<1>3. Defs' = Defs /\ Snaps' = Snaps /\ \A i : InSnapshot(i)' = InSnapshot(i)
  BY DEF Apart, Defs, Snaps, InSnapshot
<1>4. ASSUME Connected
      PROVE  /\ \A q \in done .. seq : At(q)' = At(q)
             /\ \A q \in done + 1 .. seq : Msg(q)' = Msg(q)
             /\ \A q : q = seq + 1 => At(q)' = ShownNow' /\ Msg(q)' = m
  BY <1>4, PublishKeeps DEF Tells
<1>5. ASSUME NEW s \in Snaps PROVE Steady(s)'
  <2>1. s.seq \in Nat /\ s.inst \in Instruments /\ snapshots # <<>>
    BY SnapFacts
  <2>2. Connected /\ s.seq <= seq
    BY <1>2, <2>1 DEF Before, Collected, Taken
  <2>3. right_from'[s.inst] = right_from[s.inst]
    BY <1>1, <2>1 DEF Known, Begins
  <2>4. \A q \in done' .. seq' : q <= s.seq => q \in done .. seq
    BY <1>2, <2>1, <2>2
  <2>5. \A q \in done' + 1 .. seq' : q <= s.seq => q \in done + 1 .. seq
    BY <1>2, <2>1, <2>2
  <2>6. \A q \in done + 1 .. seq : IsReset(Msg(q))' = IsReset(Msg(q))
    BY <1>4, <2>2 DEF IsReset
  <2> QED BY <1>2, <1>3, <1>4, <2>2, <2>3, <2>4, <2>5, <2>6 DEF Kept, Steady
<1>6. ASSUME first > 1, m_recovery_first_seq = 0, NEW i \in Listed' \ changed'
      PROVE  Untouched(i)'
  <2>1. Connected
    BY <1>6 DEF Connected
  <2>2. i \in Listed \ changed /\ depth'[i] = depth[i] /\ i \in Instruments
    BY <1>1, <1>6, <2>1 DEF Listed
  <2>3. Untouched(i)
    BY <1>6, <2>2 DEF Kept
  <2>4. ASSUME NEW q \in done' .. seq' PROVE At(q)'[i].marketDepth = depth'[i]
    <3>1. CASE q = seq + 1
      <4>1. ShownNow'[i].marketDepth = depth'[i]
        BY <2>2 DEF ShownNow, Shown
      <4> QED BY <1>4, <2>1, <3>1, <4>1
    <3>2. CASE q # seq + 1
      <4>1. q \in done .. seq
        BY <1>2, <3>2
      <4> QED BY <1>4, <2>1, <2>2, <2>3, <4>1 DEF Untouched
    <3> QED BY <3>1, <3>2
  <2>5. ASSUME ~InSnapshot(i), snapshots # <<>>, NEW q \in done' + 1 .. seq', q > snapshots[1].seq
        PROVE  ~IsReset(Msg(q))'
    <3>1. CASE q = seq + 1
      <4>1. ~IsReset(m)
        BY <1>1, <1>6, <2>2, <2>5
      <4> QED BY <1>4, <2>1, <3>1, <4>1 DEF IsReset
    <3>2. CASE q # seq + 1
      <4>1. q \in done + 1 .. seq
        BY <1>2, <3>2
      <4>2. ~IsReset(Msg(q)) /\ Msg(q)' = Msg(q)
        BY <1>4, <2>1, <2>3, <2>5, <4>1 DEF Untouched
      <4> QED BY <4>2 DEF IsReset
    <3> QED BY <3>1, <3>2
  <2> QED BY <1>2, <1>3, <2>2, <2>3, <2>4, <2>5 DEF Untouched
<1>7. ASSUME NEW i \in Instruments PROVE Begun(i)'
  <2>1. CASE right_from'[i] = right_from[i]
    <3>1. ASSUME right_from[i] # Never PROVE right_from[i] <= seq /\ Connected
      BY <3>1 DEF Known, Before
    <3>2. ASSUME right_from[i] # Never, NEW q \in done' .. seq', q <= right_from[i]
          PROVE  q \in done .. seq /\ At(q)' = At(q)
      <4>1. q \in done .. seq
        BY <1>2, <3>1, <3>2
      <4> QED BY <1>4, <3>1, <3>2, <4>1
    <3>3. \A q \in done' .. seq' : q \in Int
      BY <1>2
    <3>4. ASSUME right_from'[i] # Never, ~InSnapshot(i)
          PROVE  /\ \A d \in Defs' : d.inst # i
                 /\ first > 1 => snapshots # <<>> /\ right_from[i] > snapshots[1].seq
                 /\ right_from[i] > done =>
                      /\ \A q \in done' .. seq' : q < right_from[i] => At(q)'[i].marketDepth = Unlisted
                      /\ \A q \in done' .. seq' : q = right_from[i] => At(q)'[i].marketDepth # Unlisted
      <4>1. Begun(i) /\ right_from[i] # Never
        BY <2>1, <3>4 DEF Kept
      <4>2. ASSUME right_from[i] > done, NEW q \in done' .. seq', q < right_from[i]
            PROVE  At(q)'[i].marketDepth = Unlisted
        BY <1>2, <3>2, <3>3, <3>4, <4>1, <4>2 DEF Begun
      <4>3. ASSUME right_from[i] > done, NEW q \in done' .. seq', q = right_from[i]
            PROVE  At(q)'[i].marketDepth # Unlisted
        BY <1>2, <3>2, <3>3, <3>4, <4>1, <4>3 DEF Begun
      <4> QED BY <1>3, <3>4, <4>1, <4>2, <4>3 DEF Begun
    <3> QED BY <1>2, <1>3, <2>1, <3>4 DEF Begun
  <2>2. CASE Begins(i)
    <3>1. i \notin Ever /\ right_from'[i] = seq + 1 /\ depth'[i] # Unlisted
          /\ (first = 1 \/ snapshots # <<>>)
      BY <2>2 DEF Begins
    <3>2. \A d \in Defs : d.inst # i
      BY <3>1 DEF Known
    <3>3. snapshots # <<>> => seq + 1 > snapshots[1].seq
      <4>1. snapshots # <<>> => snapshots[1].seq <= seq /\ snapshots[1].seq \in Nat
        BY SnapFacts, <1>2 DEF Collected, Taken
      <4> QED BY <1>2, <4>1
    <3>4. Connected
      BY <1>2, <3>1 DEF Before, Connected
    <3>5. ASSUME NEW q \in done' .. seq', q < seq + 1 PROVE At(q)'[i].marketDepth = Unlisted
      <4>1. q \in done .. seq
        BY <1>2, <3>5
      <4> QED BY <1>4, <3>1, <3>4, <4>1 DEF Known
    <3>6. ShownNow'[i].marketDepth = depth'[i]
      BY DEF ShownNow, Shown
    <3>7. ASSUME NEW q \in done' .. seq', q = seq + 1 PROVE At(q)'[i].marketDepth # Unlisted
      BY <1>4, <3>1, <3>4, <3>6, <3>7
    <3>8. first > 1 => first # 1
      OBVIOUS
    <3> QED BY <1>2, <1>3, <3>1, <3>2, <3>3, <3>5, <3>7, <3>8 DEF Begun
  <2> QED BY <1>1, <2>1, <2>2
<1> QED BY <1>2, <1>3, <1>5, <1>6, <1>7 DEF Kept

\* So does one more snapshot.
LEMMA KeptSnapshot ==
  ASSUME MarketTypes, NotLoaded, Chained, Collected, Known, Kept,
         NEW i \in Instruments, ReceiveSnapshot(i)
  PROVE  Kept'
<1> DEFINE s == [inst |-> i, seq |-> seq, view |-> Shown(full, depth, i)]
<1>1. /\ seq \in Nat /\ done \in Nat /\ done <= seq
      /\ done .. seq \subseteq Nat /\ done + 1 .. seq \subseteq Nat
      /\ \A q \in done + 1 .. seq : ~(q > seq)
  BY SeqFacts
<1>2. /\ Connected /\ done = first - 1
      /\ Snaps' = Snaps \cup {s}
      /\ \A q : At(q)' = At(q) /\ Msg(q)' = Msg(q)
      /\ snapshots' # <<>>
      /\ snapshots'[1].seq = IF snapshots = <<>> THEN seq ELSE snapshots[1].seq
      /\ \A k : InSnapshot(k)' <=> InSnapshot(k) \/ k = i
  BY CollectedSnapshot
<1>3. /\ first > 1 /\ m_recovery_first_seq = 0 /\ i \in Listed /\ ~InSnapshot(i)
      /\ right_from' = [right_from EXCEPT ![i] = IF i \in changed THEN Never ELSE seq]
      /\ UNCHANGED <<bookVars, marketVars, first, definitions, queue, done, view, changed>>
      /\ right_from \in [Instruments -> 0 .. Never]
  BY DEF ReceiveSnapshot, MarketTypes
<1>4. /\ Defs' = Defs /\ Listed' = Listed /\ seq' = seq /\ done' = done /\ first' = first
      /\ depth' = depth /\ changed' = changed /\ m_recovery_first_seq' = m_recovery_first_seq
      /\ \A q : IsReset(Msg(q))' = IsReset(Msg(q))
  BY <1>2, <1>3 DEF Defs, Listed, marketVars, bookVars, IsReset
<1>5. s.inst = i /\ s.seq = seq /\ s.view.marketDepth = depth[i]
  BY DEF Shown
<1> HIDE DEF s
<1>6. snapshots = <<>> => snapshots'[1].seq = seq
  BY <1>2
<1>7. snapshots # <<>> => snapshots'[1].seq = snapshots[1].seq
  BY <1>2
<1>8. ASSUME NEW r \in Snaps PROVE Steady(r)'
  <2>1. r.inst \in Instruments /\ r.inst # i /\ snapshots # <<>>
    BY <1>3, SnapFacts
  <2>2. right_from'[r.inst] = right_from[r.inst] /\ Steady(r)
    BY <1>3, <2>1 DEF Kept
  <2> QED BY <1>2, <1>4, <1>7, <2>1, <2>2 DEF Steady
<1>9. ASSUME NEW r, r = s PROVE Steady(r)'
  <2>1. CASE i \in changed
    BY <1>3, <1>5, <1>9, <2>1 DEF Steady, MarketTypes
  <2>2. CASE i \notin changed
    <3>1. Untouched(i) /\ right_from'[i] = seq /\ depth[i] # Unlisted
      BY <1>3, <2>2 DEF Kept, Listed
    <3>2. \A q \in done + 1 .. seq : snapshots'[1].seq < q /\ q <= seq => ~IsReset(Msg(q))
      <4>1. CASE snapshots = <<>>
        BY <1>1, <1>6, <4>1
      <4>2. CASE snapshots # <<>>
        BY <1>3, <1>7, <3>1, <4>2 DEF Untouched
      <4> QED BY <4>1, <4>2
    <3> QED BY <1>2, <1>4, <1>5, <1>9, <3>1, <3>2 DEF Steady, Untouched
  <2> QED BY <2>1, <2>2
<1>10. ASSUME NEW k \in Listed \ changed PROVE Untouched(k)'
  <2>1. Untouched(k)
    BY <1>3, <1>10 DEF Kept
  <2>2. ASSUME ~InSnapshot(k)', NEW q \in done + 1 .. seq, q > snapshots'[1].seq
        PROVE  ~IsReset(Msg(q))
    <3>1. ~InSnapshot(k)
      BY <1>2, <2>2
    <3>2. CASE snapshots = <<>>
      BY <1>1, <1>6, <2>2, <3>2
    <3>3. CASE snapshots # <<>>
      BY <1>7, <2>1, <2>2, <3>1, <3>3 DEF Untouched
    <3> QED BY <3>2, <3>3
  <2> QED BY <1>2, <1>4, <2>1, <2>2 DEF Untouched
<1>11. ASSUME NEW k \in Instruments PROVE Begun(k)'
  <2>1. CASE k = i
    BY <1>2, <2>1 DEF Begun
  <2>2. CASE k # i
    <3>1. right_from'[k] = right_from[k] /\ Begun(k) /\ (InSnapshot(k)' <=> InSnapshot(k))
      BY <1>2, <1>3, <2>2 DEF Kept
    <3> QED BY <1>2, <1>3, <1>4, <1>7, <3>1 DEF Begun
  <2> QED BY <2>1, <2>2
<1> QED BY <1>2, <1>4, <1>8, <1>9, <1>10, <1>11 DEF Kept

\* Every step keeps that.
LEMMA KeptNext ==
  ASSUME MarketTypes, BookTypeOK, GoodBooks(m_md_book_states), Unseen, Before, NotLoaded, Chained,
         Collected, Known, Kept, [Next]_vars
  PROVE  Kept'
<1>1. seq \in Nat /\ done \in Nat /\ done <= seq /\ seq <= seq /\ done <= done
  BY SeqFacts
<1>2. ASSUME UNCHANGED <<first, definitions, snapshots, depth, changed, right_from, seq, queue,
                         done, view>>,
             m_recovery_first_seq' = 0 => m_recovery_first_seq = 0
      PROVE  Kept'
  <2>1. \A q : At(q)' = At(q) /\ Msg(q)' = Msg(q)
    BY <1>2, QueueStays
  <2>2. done <= done' /\ done' \in Nat
    BY <1>1, <1>2
  <2> QED BY <1>2, <2>1, <2>2, KeptStays
<1>3. CASE Apart /\ Silent
  BY <1>2, <1>3 DEF Apart, Silent, bookVars
<1>4. ASSUME Apart, NEW m, Tells(m) PROVE Kept'
  BY <1>4, KeptTells
<1>5. CASE Connect
  <2>1. /\ done' = seq /\ seq' = seq /\ view' = ShownNow /\ Snaps' = {}
        /\ snapshots' = <<>> /\ \A i \in Instruments : right_from'[i] = Never
        /\ Defs' = {[inst |-> i, depth |-> depth[i], update |-> "A"] : i \in Listed}
        /\ UNCHANGED <<bookVars, marketVars>>
    BY <1>5, ConnectFacts
  <2>2. \A i \in Instruments : Begun(i)'
    BY <2>1 DEF Begun
  <2>3. ASSUME NEW i \in Listed' PROVE Untouched(i)'
    <3>1. i \in Listed /\ i \in Instruments /\ depth' = depth
      BY <2>1, <2>3 DEF Listed, marketVars
    <3>2. Added(i, depth[i]) \in Defs'
      BY <2>1, <3>1 DEF Added
    <3>3. ASSUME NEW q \in done' .. seq' PROVE At(q)'[i].marketDepth = depth[i]
      <4>1. q = done'
        BY <1>1, <2>1, <3>3
      <4>2. At(q)' = ShownNow
        BY <2>1, <4>1 DEF At
      <4> QED BY <3>1, <4>2 DEF ShownNow, Shown
    <3> QED BY <2>1, <3>1, <3>2, <3>3 DEF Untouched
  <2> QED BY <2>1, <2>2, <2>3 DEF Kept
<1>6. ASSUME NEW i \in Instruments, ReceiveSnapshot(i) PROVE Kept'
  BY <1>6, KeptSnapshot
<1>7. CASE Recover
  <2>1. m_recovery_first_seq = 0 /\ UNCHANGED <<marketVars, clientVars>>
    BY <1>7, RecoverWork
  <2> QED BY <1>2, <2>1 DEF marketVars, clientVars
<1>8. CASE Handle
  <2>1. Connected
    BY <1>8 DEF Handle, Before
  <2>2. /\ seq' = seq /\ done' = done + 1
        /\ \A q \in done' .. seq : At(q)' = At(q)
        /\ \A q \in done' + 1 .. seq : Msg(q)' = Msg(q)
    BY <1>8, <2>1, HandleKeeps
  <2>3. UNCHANGED <<first, definitions, snapshots, depth, changed, right_from, seq>>
        /\ m_recovery_first_seq' = m_recovery_first_seq
    BY <1>8, BookFrames DEF Handle, marketVars
  <2>4. done <= done' /\ done' \in Nat
    BY <1>1, <2>2
  <2> QED BY <2>2, <2>3, <2>4, KeptStays
<1>9. CASE BookStep /\ UNCHANGED <<marketVars, clientVars>>
  BY <1>2, <1>9, BookFrames DEF clientVars, marketVars
<1>10. CASE UNCHANGED vars
  BY <1>2, <1>10 DEF vars, clientVars, marketVars, bookVars
<1> QED BY <1>3, <1>4, <1>5, <1>6, <1>7, <1>8, <1>9, <1>10, StepKinds

\* The entries of the recovery that are passed over are not newer than the
\* packets handled.
Merged == \A n \in 1 .. m_recovery_wait_merge - 1 : m_recovery_books[n].seq <= done

\* Every step keeps that: Handle moves on by one packet.
LEMMA MergedNext ==
  ASSUME MarketTypes, BookTypeOK, Unseen, Before, NotLoaded, Chained, Collected, Merged, [Next]_vars
  PROVE  Merged'
<1>1. seq \in Nat /\ done \in Nat /\ done <= seq
  BY SeqFacts
<1>2. /\ m_recovery_wait_merge \in Nat /\ m_recovery_wait_merge <= Len(m_recovery_books) + 1
      /\ m_recovery_wait_merge >= 1
      /\ Len(m_recovery_books) \in Nat
      /\ \A n \in 1 .. Len(m_recovery_books) : m_recovery_books[n].seq \in Nat
  <2>1. /\ m_recovery_books \in Seq(Book)
        /\ m_recovery_wait_merge \in 1 .. Len(m_recovery_books) + 1
    BY DEF BookTypeOK
  <2>2. Len(m_recovery_books) \in Nat
    BY <2>1, LenProperties
  <2>3. \A n \in 1 .. Len(m_recovery_books) : m_recovery_books[n].seq \in Nat
    <3>1. \A n \in 1 .. Len(m_recovery_books) : m_recovery_books[n] \in Book
      BY <2>1, ElementOfSeq
    <3> QED BY <3>1 DEF Book
  <2> QED BY <2>1, <2>2, <2>3
<1>3. ASSUME UNCHANGED <<m_recovery_books, m_recovery_wait_merge, done>> PROVE Merged'
  BY <1>3 DEF Merged
<1>4. CASE Apart
  BY <1>3, <1>4 DEF Apart, bookVars
<1>5. CASE Connect
  <2>1. m_recovery_books = <<>> /\ UNCHANGED bookVars
    BY <1>1, <1>5 DEF Connect, NotLoaded, Collected, Connected
  <2>2. 1 .. m_recovery_wait_merge - 1 = {}
    BY <1>2, <2>1, EmptySeq
  <2> QED BY <2>1, <2>2 DEF Merged, bookVars
<1>6. ASSUME NEW i \in Instruments, ReceiveSnapshot(i) PROVE Merged'
  BY <1>3, <1>6 DEF ReceiveSnapshot, bookVars
<1>7. CASE Recover
  BY <1>7 DEF Recover, Process_recovery_data, Merged
<1>8. CASE Handle
  <2>1. Connected
    BY <1>8 DEF Handle, Before
  <2>2. done' = done + 1 /\ m_recovery_books' = m_recovery_books
    BY <1>8, <2>1, HandleKeeps, BookFrames
  <2>3. m_recovery_wait_merge' \in {m_recovery_wait_merge, Merge_position(done + 1)}
    BY <1>8, <2>1, HandleWork
  <2>4. /\ Merge_position(done + 1) \in m_recovery_wait_merge .. Len(m_recovery_books) + 1
        /\ \A n \in m_recovery_wait_merge .. Len(m_recovery_books) :
             n < Merge_position(done + 1) => m_recovery_books[n].seq < done + 1
    BY <1>1, MergePosition
  <2>5. ASSUME NEW n \in 1 .. m_recovery_wait_merge' - 1
        PROVE  m_recovery_books[n].seq <= done + 1
    <3>1. n \in 1 .. Len(m_recovery_books) /\ m_recovery_books[n].seq \in Nat
      <4>1. m_recovery_wait_merge' \in Nat /\ m_recovery_wait_merge' <= Len(m_recovery_books) + 1
        <5>1. Merge_position(done + 1) \in Nat /\ Merge_position(done + 1) <= Len(m_recovery_books) + 1
          BY <1>2, <2>4
        <5> QED BY <1>2, <2>3, <5>1
      <4>2. ASSUME NEW W \in Nat, NEW L \in Nat, W <= L + 1, NEW k \in 1 .. W - 1
            PROVE  k \in 1 .. L
        BY ONLY <4>2
      <4>3. n \in 1 .. Len(m_recovery_books)
        BY ONLY <1>2, <2>5, <4>1, <4>2
      <4> QED BY <1>2, <4>3
    <3>2. CASE n < m_recovery_wait_merge
      <4>1. m_recovery_books[n].seq <= done
        BY <1>2, <3>1, <3>2 DEF Merged
      <4> QED BY <1>1, <3>1, <4>1
    <3>3. CASE ~(n < m_recovery_wait_merge)
      <4>1. n \in m_recovery_wait_merge .. Len(m_recovery_books) /\ n < Merge_position(done + 1)
        BY <1>2, <2>3, <2>4, <3>1, <3>3
      <4> QED BY <1>1, <2>4, <3>1, <4>1
    <3> QED BY <3>2, <3>3
  <2> QED BY <2>2, <2>5 DEF Merged
<1>9. CASE BookStep /\ UNCHANGED <<marketVars, clientVars>>
  BY <1>3, <1>9, BookFrames DEF clientVars
<1>10. CASE UNCHANGED vars
  BY <1>3, <1>10 DEF vars, clientVars, bookVars
<1> QED BY <1>4, <1>5, <1>6, <1>7, <1>8, <1>9, <1>10, StepKinds

-----------------------------------------------------------------------------
(* What is recovered.                                                      *)

\* The entries of one snapshot.
RowsOf(s) == SnapshotRows(s, "bid") \o SnapshotRows(s, "ask")

\* The entries of a snapshot are all of it, and there is one if it has rows.
LEMMA RowsOfFacts ==
  ASSUME NEW s \in Snapshot
  PROVE  /\ RowsOf(s) \in Seq(Book) /\ Len(RowsOf(s)) \in Nat
         /\ \A n \in 1 .. Len(RowsOf(s)) :
              /\ RowsOf(s)[n].inst = s.inst /\ RowsOf(s)[n].seq = s.seq
              /\ RowsOf(s)[n].entry # "reset" /\ HasRows(s.view)
         /\ HasRows(s.view) => Len(RowsOf(s)) >= 1
<1> DEFINE p == SnapshotRows(s, "bid")
           r == SnapshotRows(s, "ask")
<1>1. ASSUME NEW side \in Sides
      PROVE  /\ SnapshotRows(s, side) \in Seq(Book)
             /\ Len(SnapshotRows(s, side)) = Len(s.view[side])
             /\ Len(s.view[side]) \in Nat /\ s.view[side] \in Seq(Nat)
             /\ \A n \in 1 .. Len(SnapshotRows(s, side)) :
                  /\ SnapshotRows(s, side)[n].inst = s.inst
                  /\ SnapshotRows(s, side)[n].seq = s.seq
                  /\ SnapshotRows(s, side)[n].entry # "reset"
                  /\ s.view[side] # <<>>
  <2>1. s.view \in ViewType
    BY DEF Snapshot
  <2>2. Len(s.view[side]) \in Nat /\ s.view[side] \in Seq(Nat)
    BY <2>1, ViewFacts
  <2>3. Len(SnapshotRows(s, side)) = Len(s.view[side])
    BY SnapshotRowsType
  <2>4. ASSUME NEW n \in 1 .. Len(SnapshotRows(s, side))
        PROVE  /\ SnapshotRows(s, side)[n].inst = s.inst
               /\ SnapshotRows(s, side)[n].seq = s.seq
               /\ SnapshotRows(s, side)[n].entry # "reset"
               /\ s.view[side] # <<>>
    <3>1. SnapshotRows(s, side)[n]
            = [type |-> "W", seq |-> s.seq, inst |-> s.inst, entry |-> side,
               action |-> "New", level |-> n, row |-> s.view[side][n]]
      BY <2>3, SnapshotRowsType
    <3>2. s.view[side] # <<>>
      <4>1. Len(s.view[side]) # 0
        BY <2>2, <2>3
      <4> QED BY <4>1, EmptySeq
    <3> QED BY <3>1, <3>2 DEF Sides
  <2> QED BY <2>2, <2>3, <2>4, SnapshotRowsType
<1>2. /\ p \in Seq(Book) /\ r \in Seq(Book)
      /\ Len(p) = Len(s.view.bid) /\ Len(r) = Len(s.view.ask)
      /\ Len(s.view.bid) \in Nat /\ Len(s.view.ask) \in Nat
      /\ s.view.bid \in Seq(Nat) /\ s.view.ask \in Seq(Nat)
  BY <1>1 DEF Sides
<1>3. /\ \A n \in 1 .. Len(p) : /\ p[n].inst = s.inst /\ p[n].seq = s.seq
                                /\ p[n].entry # "reset" /\ s.view.bid # <<>>
      /\ \A n \in 1 .. Len(r) : /\ r[n].inst = s.inst /\ r[n].seq = s.seq
                                /\ r[n].entry # "reset" /\ s.view.ask # <<>>
  BY <1>1 DEF Sides
<1> HIDE DEF p, r
<1>4. /\ p \o r \in Seq(Book) /\ Len(p \o r) = Len(p) + Len(r)
      /\ Len(p) \in Nat /\ Len(r) \in Nat
      /\ \A n \in 1 .. Len(p \o r) :
           \/ n \in 1 .. Len(p) /\ (p \o r)[n] = p[n]
           \/ n - Len(p) \in 1 .. Len(r) /\ (p \o r)[n] = r[n - Len(p)]
  <2>0. p \in Seq(Book) /\ r \in Seq(Book)
    BY <1>2
  <2>1. p \o r \in Seq(Book) /\ Len(p \o r) = Len(p) + Len(r)
        /\ Len(p) \in Nat /\ Len(r) \in Nat
    BY ONLY <2>0, Joined
  <2>2. /\ \A n \in 1 .. Len(p) : (p \o r)[n] = p[n]
        /\ \A n \in 1 .. Len(p \o r) : n \in 1 .. Len(p) \/ n - Len(p) \in 1 .. Len(r)
        /\ \A n \in 1 .. Len(p \o r) : n \notin 1 .. Len(p) => (p \o r)[n] = r[n - Len(p)]
    BY ONLY <2>0, Joined
  <2>3. ASSUME NEW n \in 1 .. Len(p \o r)
        PROVE  \/ n \in 1 .. Len(p) /\ (p \o r)[n] = p[n]
               \/ n - Len(p) \in 1 .. Len(r) /\ (p \o r)[n] = r[n - Len(p)]
    BY ONLY <2>2, <2>3
  <2> QED BY <2>1, <2>3
<1>5. \A n \in 1 .. Len(p \o r) :
        /\ (p \o r)[n].inst = s.inst /\ (p \o r)[n].seq = s.seq
        /\ (p \o r)[n].entry # "reset" /\ HasRows(s.view)
  BY <1>3, <1>4 DEF HasRows
<1>6. HasRows(s.view) => Len(p \o r) >= 1
  <2>1. HasRows(s.view) => Len(s.view.bid) # 0 \/ Len(s.view.ask) # 0
    BY <1>2, EmptySeq DEF HasRows
  <2>2. ASSUME NEW x \in Nat, NEW y \in Nat, x # 0 \/ y # 0 PROVE x + y >= 1
    BY <2>2
  <2> QED BY <1>2, <1>4, <2>1, <2>2
<1>7. RowsOf(s) = p \o r
  BY DEF RowsOf, p, r
<1>8. Len(p \o r) \in Nat
  BY ONLY <1>4
<1> QED BY <1>4, <1>5, <1>6, <1>7, <1>8

\* One side of a snapshot, on a book that has none of its rows yet.
LEMMA SideRecovered ==
  ASSUME NEW s \in Snapshot, NEW side \in Sides, NEW bs \in ViewType,
         bs.marketDepth # Unlisted, bs.marketDepth = s.view.marketDepth,
         bs[side] = <<>>
  PROVE  Leads(s.inst, Increments(SnapshotRows(s, side), {}), bs,
               WithSide(bs, side, s.view[side]))
<1> DEFINE w == s.view[side]
           books == SnapshotRows(s, side)
           i == s.inst
<1>1. /\ w \in Seq(Nat) /\ Len(w) \in Nat /\ Len(w) <= bs.marketDepth /\ i \in Instruments
  BY ViewFacts DEF Snapshot
<1>2. /\ books \in Seq(Book) /\ Len(books) = Len(w)
      /\ \A n \in 1 .. Len(w) :
           books[n] = [type |-> "W", seq |-> s.seq, inst |-> s.inst, entry |-> side,
                       action |-> "New", level |-> n, row |-> w[n]]
  BY SnapshotRowsType
<1> HIDE DEF w, books, i
<1>3. Reveals(books, i, side, w, 1)
  <2>1. Len(books) = Len(w) + 1 - 1
    BY <1>1, <1>2
  <2>2. ASSUME NEW n \in 1 .. Len(books)
        PROVE  /\ books[n].entry = side /\ books[n].inst = i
               /\ EffectiveAction(books[n]) = "New"
               /\ books[n].level = 1 - 1 + n /\ books[n].row = w[1 - 1 + n]
    <3>1. n \in Nat /\ 1 - 1 + n = n
      BY <1>1, <1>2
    <3>2. books[n] = [type |-> "W", seq |-> s.seq, inst |-> s.inst, entry |-> side,
                      action |-> "New", level |-> n, row |-> w[n]]
      BY <1>2
    <3>3. /\ books[n].entry = side /\ books[n].inst = i /\ books[n].type = "W"
          /\ books[n].level = n /\ books[n].row = w[n]
      BY <3>2 DEF i
    <3>4. EffectiveAction(books[n]) = "New"
      BY <3>3 DEF EffectiveAction
    <3> QED BY <3>1, <3>3, <3>4
  <2> QED BY <2>1, <2>2 DEF Reveals
<1>4. Leads(i, Increments(books, {}), WithSide(bs, side, View(w, 1 - 1)),
            WithSide(bs, side, w))
  BY <1>1, <1>2, <1>3, RowsLead
<1>5. WithSide(bs, side, View(w, 1 - 1)) = bs
  <2>1. View(w, 1 - 1) = <<>>
    <3>1. View(w, 0) \in Seq(Nat) /\ Len(View(w, 0)) = 0
      BY <1>1, ViewRows
    <3> QED BY <3>1, EmptySeq
  <2>2. WithSide(bs, side, bs[side]) = bs
    BY WithSideFacts, ViewFacts
  <2> QED BY <2>1, <2>2
<1> QED BY <1>4, <1>5 DEF w, books, i

\* The entries of a snapshot fill an empty book.
LEMMA RowsOfLead ==
  ASSUME NEW s \in Snapshot, s.view.marketDepth # Unlisted
  PROVE  Leads(s.inst, Increments(RowsOf(s), {}), Create(s.view.marketDepth), s.view)
<1> DEFINE D == s.view.marketDepth
           from == Create(D)
           mid == WithSide(from, "bid", s.view.bid)
           to == WithSide(mid, "ask", s.view.ask)
<1>1. /\ s.view \in ViewType /\ s.inst \in Instruments /\ D \in 1 .. MaxDepth
  <2>1. s.view \in ViewType /\ s.inst \in Instruments
    BY DEF Snapshot
  <2>2. D \in Nat /\ D \in 0 .. MaxDepth
    BY <2>1, ViewFacts
  <2> QED BY <2>1, <2>2, LevelsAreNumbers DEF Unlisted
<1>2. /\ s.view.bid \in Seq(Nat) /\ s.view.ask \in Seq(Nat)
      /\ Len(s.view.bid) <= D /\ Len(s.view.ask) <= D
  BY <1>1, ViewFacts DEF Sides
<1>3. from \in ViewType /\ from.marketDepth = D /\ from.bid = <<>> /\ from.ask = <<>>
  <2>1. from \in ViewType
    <3> HIDE DEF D
    <3> QED BY <1>1, ShrinkView
  <2> QED BY <2>1 DEF Create
<1> HIDE DEF from
<1>4. mid \in ViewType /\ mid.marketDepth = D /\ mid.bid = s.view.bid /\ mid.ask = <<>>
  <2>1. mid \in ViewType
    BY <1>2, <1>3, WithSideFacts DEF Sides
  <2> QED BY <1>3, <2>1 DEF WithSide
<1>5. Leads(s.inst, Increments(SnapshotRows(s, "bid"), {}), from, mid)
  <2> HIDE DEF mid
  <2>1. \A side \in Sides : side = "bid" =>
          Leads(s.inst, Increments(SnapshotRows(s, side), {}), from,
                WithSide(from, side, s.view[side]))
    BY <1>3, SideRecovered
  <2> QED BY <2>1 DEF mid, Sides
<1> HIDE DEF mid
<1>6. Leads(s.inst, Increments(SnapshotRows(s, "ask"), {}), mid, to)
  <2>1. \A side \in Sides : side = "ask" =>
          Leads(s.inst, Increments(SnapshotRows(s, side), {}), mid,
                WithSide(mid, side, s.view[side]))
    BY <1>4, SideRecovered
  <2> QED BY <2>1 DEF Sides
<1>7. to = s.view
  <2>1. to \in ViewType
    BY <1>2, <1>4, WithSideFacts DEF Sides
  <2>2. to.marketDepth = D /\ to.bid = s.view.bid /\ to.ask = s.view.ask
    BY <1>4 DEF WithSide
  <2> HIDE DEF to
  <2> QED BY <1>1, <2>1, <2>2, SameView
<1> HIDE DEF to
<1>8. \A side \in Sides : SnapshotRows(s, side) \in Seq(Book)
  BY SnapshotRowsType
<1>9. Leads(s.inst, Increments(SnapshotRows(s, "bid") \o SnapshotRows(s, "ask"), {}), from, to)
  BY <1>1, <1>5, <1>6, <1>8, PartsLead DEF Sides
<1> QED BY <1>7, <1>9 DEF RowsOf, from

\* The entries q are those of p, and behind them those of the snapshot s.
WithRowsOf(q, p, s) ==
  /\ q \in Seq(Book) /\ Len(p) \in Nat /\ Len(q) \in Nat
  /\ \A n \in 1 .. Len(p) : n \in 1 .. Len(q) /\ q[n] = p[n]
  /\ \A n \in 1 .. Len(q) : n \notin 1 .. Len(p) =>
       q[n].inst = s.inst /\ q[n].seq = s.seq /\ HasRows(s.view)
  /\ HasRows(s.view) => Len(p) + 1 \in 1 .. Len(q) /\ Len(p) + 1 \notin 1 .. Len(p)

\* The entries of one more snapshot.
LEMMA OneMoreSnapshot ==
  ASSUME NEW p \in Seq(Book), NEW s \in Snapshot, NEW q, q = p \o RowsOf(s)
  PROVE  WithRowsOf(q, p, s)
<1> DEFINE r == RowsOf(s)
<1>1. /\ r \in Seq(Book) /\ Len(r) \in Nat
      /\ \A n \in 1 .. Len(r) : r[n].inst = s.inst /\ r[n].seq = s.seq /\ HasRows(s.view)
      /\ HasRows(s.view) => Len(r) >= 1
  BY RowsOfFacts
<1>2. q = p \o r
  OBVIOUS
<1> HIDE DEF r
<1>3. /\ p \o r \in Seq(Book) /\ Len(p \o r) = Len(p) + Len(r)
      /\ Len(p) \in Nat /\ Len(r) \in Nat
      /\ \A n \in 1 .. Len(p) : (p \o r)[n] = p[n] /\ n \in 1 .. Len(p \o r)
      /\ \A n \in 1 .. Len(p \o r) : n \in 1 .. Len(p) \/ n - Len(p) \in 1 .. Len(r)
      /\ \A n \in 1 .. Len(p \o r) : n \notin 1 .. Len(p) => (p \o r)[n] = r[n - Len(p)]
  BY <1>1, Joined
<1>4. ASSUME NEW n \in 1 .. Len(p \o r), n \notin 1 .. Len(p)
      PROVE  (p \o r)[n].inst = s.inst /\ (p \o r)[n].seq = s.seq /\ HasRows(s.view)
  BY <1>1, <1>3, <1>4
<1>5. HasRows(s.view) => Len(p) + 1 \in 1 .. Len(p \o r) /\ Len(p) + 1 \notin 1 .. Len(p)
  <2>1. ASSUME NEW x \in Nat, NEW y \in Nat, y >= 1
        PROVE  x + 1 \in 1 .. x + y /\ x + 1 \notin 1 .. x
    BY <2>1
  <2> QED BY <1>1, <1>3, <2>1
<1>6. Len(p \o r) \in Nat
  BY ONLY <1>3
<1> QED BY <1>2, <1>3, <1>4, <1>5, <1>6 DEF WithRowsOf

\* The entries of the snapshots, one snapshot after the other.
LEMMA SnapshotFlat ==
  ASSUME MarketTypes
  PROVE  \E f :
           /\ f[0] = <<>> /\ f[Len(snapshots)] = SnapshotBooks
           /\ \A n \in 1 .. Len(snapshots) : f[n] = f[n - 1] \o RowsOf(snapshots[n])
           /\ \A n \in 0 .. Len(snapshots) : f[n] \in Seq(Book)
<1>1. /\ SnapshotLists \in Seq(Seq(Book))
      /\ Len(SnapshotLists) = Len(snapshots) /\ Len(snapshots) \in Nat
      /\ SnapshotBooks = FlattenSeq(SnapshotLists)
  BY SnapshotListsType
<1>2. \A n \in 1 .. Len(snapshots) : SnapshotLists[n] = RowsOf(snapshots[n])
  <2>1. DOMAIN snapshots = 1 .. Len(snapshots)
    BY LenProperties DEF MarketTypes
  <2> QED BY <2>1 DEF SnapshotLists, RowsOf
<1> DEFINE ss == SnapshotLists
<1> HIDE DEF ss
<1>3. PICK f : /\ FlattenSeq(ss) = f[Len(ss)]
               /\ f[0] = <<>>
               /\ \A n \in 1 .. Len(ss) : f[n] = f[n - 1] \o ss[n]
               /\ \A n \in 0 .. Len(ss) : f[n] \in Seq(Book)
  <2>1. ss \in Seq(Seq(Book))
    BY <1>1 DEF ss
  <2> QED BY <2>1, FlattenDef
<1>4. \A n \in 1 .. Len(snapshots) : f[n] = f[n - 1] \o RowsOf(snapshots[n])
  BY <1>1, <1>2, <1>3 DEF ss
<1>5. f[Len(snapshots)] = SnapshotBooks
  BY <1>1, <1>3 DEF ss
<1> QED BY <1>1, <1>3, <1>4, <1>5 DEF ss

\* The entries of the recovery are those of the snapshots that have rows, in
\* the order of the snapshots.
LEMMA SnapshotEntries ==
  ASSUME MarketTypes, Collected
  PROVE  /\ SnapshotBooks \in Seq(Book) /\ Len(SnapshotBooks) \in Nat
         /\ \A n \in 1 .. Len(SnapshotBooks) : \E s \in Snaps :
              /\ SnapshotBooks[n].inst = s.inst /\ SnapshotBooks[n].seq = s.seq
              /\ HasRows(s.view)
         /\ \A s \in Snaps : HasRows(s.view) =>
              \E n \in 1 .. Len(SnapshotBooks) :
                SnapshotBooks[n].inst = s.inst /\ SnapshotBooks[n].seq = s.seq
         /\ \A m, n \in 1 .. Len(SnapshotBooks) :
              m < n => SnapshotBooks[m].seq <= SnapshotBooks[n].seq
<1> DEFINE L == Len(snapshots)
<1>1. L \in Nat /\ \A n \in 1 .. L : snapshots[n] \in Snapshot /\ snapshots[n].seq \in Nat
  BY SnapshotListsType DEF Snapshot
<1>2. \A m, n \in 1 .. L : m < n => snapshots[m].seq <= snapshots[n].seq
  BY DEF Collected
<1>3. PICK f : /\ f[0] = <<>> /\ f[L] = SnapshotBooks
               /\ \A n \in 1 .. L : f[n] = f[n - 1] \o RowsOf(snapshots[n])
               /\ \A n \in 0 .. L : f[n] \in Seq(Book)
  BY SnapshotFlat
<1> DEFINE From(k, p) == \A n \in 1 .. Len(p) : \E m \in 1 .. k :
                           /\ p[n].inst = snapshots[m].inst /\ p[n].seq = snapshots[m].seq
                           /\ HasRows(snapshots[m].view)
           All(k, p) == \A m \in 1 .. k : HasRows(snapshots[m].view) =>
                          \E n \in 1 .. Len(p) :
                            p[n].inst = snapshots[m].inst /\ p[n].seq = snapshots[m].seq
           Sorted(p) == \A m, n \in 1 .. Len(p) : m < n => p[m].seq <= p[n].seq
           T == {k \in Nat : k <= L => From(k, f[k]) /\ All(k, f[k]) /\ Sorted(f[k])}
<1>4. 0 \in T
  <2>1. Len(<<>>) = 0
    BY EmptySeq
  <2> QED BY <1>3, <2>1
<1>5. ASSUME NEW k \in Nat, k \in T PROVE k + 1 \in T
  <2> SUFFICES ASSUME k + 1 <= L
               PROVE  From(k + 1, f[k + 1]) /\ All(k + 1, f[k + 1]) /\ Sorted(f[k + 1])
    OBVIOUS
  <2> DEFINE p == f[k]
             q == f[k + 1]
             s == snapshots[k + 1]
  <2>1. k + 1 \in 1 .. L /\ (k + 1) - 1 = k /\ k \in 0 .. L /\ k + 1 \in 1 .. k + 1
    BY <1>1
  <2>2. From(k, p) /\ All(k, p) /\ Sorted(p)
    <3>1. k <= L /\ k \in T
      BY <1>1, <1>5
    <3> HIDE DEF From, All, Sorted, L
    <3> QED BY <3>1
  <2>3. p \in Seq(Book) /\ s \in Snapshot /\ q = p \o RowsOf(s)
    BY <1>1, <1>3, <2>1
  <2>4. \A m \in 1 .. k : m \in 1 .. k + 1 /\ m \in 1 .. L /\ snapshots[m].seq <= s.seq
    <3>1. \A m \in 1 .. k : m \in 1 .. k + 1 /\ m \in 1 .. L /\ m < k + 1
      BY <1>1
    <3> QED BY <1>2, <2>1, <3>1
  <2>5. \A m \in 1 .. k + 1 : m \in 1 .. k \/ m = k + 1
    OBVIOUS
  <2> HIDE DEF p, q, s, L, T
  <2>6. /\ q \in Seq(Book) /\ Len(p) \in Nat /\ Len(q) \in Nat
        /\ \A n \in 1 .. Len(p) : n \in 1 .. Len(q) /\ q[n] = p[n]
        /\ \A n \in 1 .. Len(q) : n \notin 1 .. Len(p) =>
             q[n].inst = s.inst /\ q[n].seq = s.seq /\ HasRows(s.view)
        /\ HasRows(s.view) => Len(p) + 1 \in 1 .. Len(q) /\ Len(p) + 1 \notin 1 .. Len(p)
    <3>1. WithRowsOf(q, p, s)
      BY <2>3, OneMoreSnapshot
    <3> QED BY <3>1 DEF WithRowsOf
  <2>7. From(k + 1, q)
    <3> SUFFICES ASSUME NEW n \in 1 .. Len(q)
                 PROVE  \E m \in 1 .. k + 1 :
                          /\ q[n].inst = snapshots[m].inst /\ q[n].seq = snapshots[m].seq
                          /\ HasRows(snapshots[m].view)
      OBVIOUS
    <3>1. CASE n \in 1 .. Len(p)
      BY <2>2, <2>4, <2>6, <3>1
    <3>2. CASE n \notin 1 .. Len(p)
      BY <2>1, <2>6, <3>2 DEF s
    <3> QED BY <3>1, <3>2
  <2>8. All(k + 1, q)
    <3> SUFFICES ASSUME NEW m \in 1 .. k + 1, HasRows(snapshots[m].view)
                 PROVE  \E n \in 1 .. Len(q) :
                          q[n].inst = snapshots[m].inst /\ q[n].seq = snapshots[m].seq
      OBVIOUS
    <3>1. CASE m \in 1 .. k
      <4>1. PICK n \in 1 .. Len(p) :
              p[n].inst = snapshots[m].inst /\ p[n].seq = snapshots[m].seq
        BY <2>2, <3>1
      <4> QED BY <2>6, <4>1
    <3>2. CASE m = k + 1
      BY <2>6, <3>2 DEF s
    <3> QED BY <2>5, <3>1, <3>2
  <2>9. Sorted(q)
    <3> SUFFICES ASSUME NEW m \in 1 .. Len(q), NEW n \in 1 .. Len(q), m < n
                 PROVE  q[m].seq <= q[n].seq
      OBVIOUS
    <3>1. CASE n \in 1 .. Len(p)
      <4>1. m \in 1 .. Len(p)
        BY <2>6, <3>1
      <4> QED BY <2>2, <2>6, <3>1, <4>1
    <3>2. CASE n \notin 1 .. Len(p)
      <4>1. q[n].seq = s.seq /\ s.seq \in Nat
        BY <1>1, <2>1, <2>6, <3>2 DEF s
      <4>2. CASE m \in 1 .. Len(p)
        <5>1. PICK j \in 1 .. k : p[m].seq = snapshots[j].seq
          BY <2>2, <4>2
        <5> QED BY <2>4, <2>6, <4>1, <4>2, <5>1
      <4>3. CASE m \notin 1 .. Len(p)
        BY <2>6, <4>1, <4>3
      <4> QED BY <4>2, <4>3
    <3> QED BY <3>1, <3>2
  <2> HIDE DEF From, All, Sorted
  <2> QED BY <2>7, <2>8, <2>9 DEF q
<1>6. Nat \subseteq T
  <2>1. \A k \in Nat : k \in T => k + 1 \in T
    BY <1>5
  <2> HIDE DEF T
  <2> QED BY <1>4, <2>1, Induction
<1>7. From(L, SnapshotBooks) /\ All(L, SnapshotBooks) /\ Sorted(SnapshotBooks)
  <2>1. L \in T /\ L <= L
    <3>1. L \in Nat /\ L <= L
      BY <1>1
    <3> HIDE DEF T, L
    <3> QED BY <1>6, <3>1
  <2> HIDE DEF From, All, Sorted, L
  <2> QED BY <1>3, <2>1
<1>8. SnapshotBooks \in Seq(Book) /\ Len(SnapshotBooks) \in Nat
  BY SnapshotBooksType, LenProperties
<1>9. \A n \in 1 .. Len(SnapshotBooks) : \E s \in Snaps :
        /\ SnapshotBooks[n].inst = s.inst /\ SnapshotBooks[n].seq = s.seq
        /\ HasRows(s.view)
  <2> TAKE n \in 1 .. Len(SnapshotBooks)
  <2>1. PICK m \in 1 .. L :
          /\ SnapshotBooks[n].inst = snapshots[m].inst
          /\ SnapshotBooks[n].seq = snapshots[m].seq /\ HasRows(snapshots[m].view)
    BY <1>7
  <2> QED BY <2>1 DEF Snaps
<1>10. ASSUME NEW s \in Snaps, HasRows(s.view)
       PROVE  \E n \in 1 .. Len(SnapshotBooks) :
                SnapshotBooks[n].inst = s.inst /\ SnapshotBooks[n].seq = s.seq
  <2>1. PICK m \in 1 .. L : s = snapshots[m]
    BY DEF Snaps
  <2> QED BY <1>7, <1>10, <2>1
<1> QED BY <1>7, <1>8, <1>9, <1>10

\* An entry of the recovery does what one of an increment does.
LEMMA RecoveriesLead ==
  ASSUME NEW i \in Instruments, NEW books \in Seq(Book), NEW from, NEW to,
         Leads(i, Increments(books, {}), from, to)
  PROVE  Leads(i, Recoveries(books), from, to)
<1> DEFINE ws == Increments(books, {})
           vs == Recoveries(books)
<1>1. /\ Len(ws) = Len(books) /\ Len(books) \in Nat
      /\ \A n \in 1 .. Len(books) : ws[n].of = books[n] /\ ws[n].kind = "increment"
  BY IncrementsType
<1>2. /\ Len(vs) = Len(books)
      /\ \A n \in 1 .. Len(books) : vs[n] = [kind |-> "recovery", of |-> books[n]]
  BY RecoveriesWork
<1>3. \A n \in 1 .. Len(books) : vs[n].of = books[n] /\ vs[n].kind = "recovery"
  <2> TAKE n \in 1 .. Len(books)
  <2> DEFINE z == vs[n]
  <2>1. z = [kind |-> "recovery", of |-> books[n]]
    BY <1>2
  <2> HIDE DEF z
  <2>2. z.kind = "recovery" /\ z.of = books[n]
    BY ONLY <2>1
  <2> QED BY <2>2 DEF z
<1>4. Leads(i, ws, from, to)
  OBVIOUS
<1> HIDE DEF ws, vs
<1>5. \A n \in 1 .. Len(ws) : \A bs \in ViewType :
        AfterWork(i, vs[n], bs) = AfterWork(i, ws[n], bs)
  BY <1>1, <1>3 DEF AfterWork
<1>6. Leads(i, vs, from, to)
  BY <1>1, <1>2, <1>4, <1>5, LeadsSame
<1> QED BY <1>6 DEF vs

\* The recovery fills the book of an instrument with its snapshot.
LEMMA SnapshotLeads ==
  ASSUME MarketTypes, Collected, NEW s \in Snaps, s.view.marketDepth # Unlisted
  PROVE  Leads(s.inst, Increments(SnapshotBooks, {}), Create(s.view.marketDepth), s.view)
<1> DEFINE L == Len(snapshots)
           i == s.inst
           C == Create(s.view.marketDepth)
           V == s.view
<1>1. L \in Nat /\ \A n \in 1 .. L : snapshots[n] \in Snapshot
  BY SnapshotListsType
<1>2. PICK m \in 1 .. L : s = snapshots[m]
  BY DEF Snaps
<1>3. PICK f : /\ f[0] = <<>> /\ f[L] = SnapshotBooks
               /\ \A n \in 1 .. L : f[n] = f[n - 1] \o RowsOf(snapshots[n])
               /\ \A n \in 0 .. L : f[n] \in Seq(Book)
  BY SnapshotFlat
<1>4. i \in Instruments /\ V \in ViewType /\ C \in ViewType
  <2>1. s \in Snapshot
    BY <1>1, <1>2
  <2>2. i \in Instruments /\ V \in ViewType
    BY <2>1 DEF Snapshot
  <2>3. V.marketDepth \in Nat /\ V.marketDepth \in 0 .. MaxDepth
    BY <2>2, ViewFacts
  <2>4. V.marketDepth \in 1 .. MaxDepth
    BY <2>3, LevelsAreNumbers DEF Unlisted
  <2> QED BY <2>2, <2>4, ShrinkView
<1>5. \A n \in 1 .. L : n # m => snapshots[n].inst # i
  <2> TAKE n \in 1 .. L
  <2>1. n # m => n < m \/ m < n
    BY <1>1
  <2> QED BY <1>2, <2>1 DEF Collected
<1>6. Leads(i, Increments(RowsOf(snapshots[m]), {}), C, V)
  BY <1>1, <1>2, RowsOfLead
<1>7. ASSUME NEW n \in 1 .. L, n # m, NEW x \in ViewType
      PROVE  Leads(i, Increments(RowsOf(snapshots[n]), {}), x, x)
  <2> DEFINE r == RowsOf(snapshots[n])
  <2>1. r \in Seq(Book) /\ \A k \in 1 .. Len(r) : r[k].entry # "reset" /\ r[k].inst # i
    <3>1. snapshots[n] \in Snapshot /\ snapshots[n].inst # i
      BY <1>1, <1>5, <1>7
    <3> QED BY <3>1, RowsOfFacts
  <2> HIDE DEF r, i
  <2>2. Leads(i, Increments(r, {}), x, x)
    BY <1>4, <2>1, OthersLead
  <2> QED BY <2>2 DEF r
<1> DEFINE To(k) == IF k < m THEN C ELSE V
           T == {k \in Nat : k <= L => Leads(i, Increments(f[k], {}), C, To(k))}
<1> HIDE DEF C, V, i, L
<1>8. 0 \in T
  <2>1. Increments(<<>>, {}) = <<>>
    <3>1. <<>> \in Seq(Book) /\ Len(<<>>) = 0
      BY EmptySeq
    <3>2. Increments(<<>>, {}) \in Seq(Work) /\ Len(Increments(<<>>, {})) = 0
      BY <3>1, IncrementsType
    <3> QED BY <3>2, EmptySeq
  <2>2. Leads(i, <<>>, C, C)
    BY <1>4, LeadsNowhere
  <2>3. To(0) = C
    BY <1>1
  <2>4. f[0] = <<>>
    BY <1>3
  <2> QED BY <2>1, <2>2, <2>3, <2>4
<1>9. ASSUME NEW k \in Nat, k \in T PROVE k + 1 \in T
  <2> SUFFICES ASSUME k + 1 <= L
               PROVE  Leads(i, Increments(f[k + 1], {}), C, To(k + 1))
    OBVIOUS
  <2>1. k + 1 \in 1 .. L /\ (k + 1) - 1 = k /\ k \in 0 .. L /\ k <= L
    BY <1>1
  <2>2. Leads(i, Increments(f[k], {}), C, To(k))
    BY <1>9, <2>1
  <2>3. Leads(i, Increments(RowsOf(snapshots[k + 1]), {}), To(k), To(k + 1))
    <3>1. CASE k + 1 = m
      <4>1. To(k) = C /\ To(k + 1) = V
        BY <2>1, <3>1
      <4> HIDE DEF To
      <4> QED BY <1>6, <3>1, <4>1
    <3>2. CASE k + 1 # m
      <4>1. To(k) = To(k + 1)
        BY <2>1, <3>2
      <4>2. To(k) \in ViewType
        BY <1>4
      <4> HIDE DEF To
      <4> QED BY <1>7, <2>1, <3>2, <4>1, <4>2
    <3> QED BY <3>1, <3>2
  <2>4. f[k + 1] = f[k] \o RowsOf(snapshots[k + 1]) /\ f[k] \in Seq(Book)
    BY <1>3, <2>1
  <2>5. RowsOf(snapshots[k + 1]) \in Seq(Book)
    BY <1>1, <2>1, RowsOfFacts
  <2> HIDE DEF To
  <2> QED BY <1>4, <2>2, <2>3, <2>4, <2>5, PartsLead
<1>10. Nat \subseteq T
  <2>1. \A k \in Nat : k \in T => k + 1 \in T
    BY <1>9
  <2> HIDE DEF T
  <2> QED BY <1>8, <2>1, Induction
<1>11. Leads(i, Increments(f[L], {}), C, To(L))
  <2>1. L \in Nat /\ L <= L
    BY <1>1
  <2>2. L \in T
    BY <1>10, <2>1
  <2> HIDE DEF To
  <2> QED BY <2>1, <2>2
<1>12. To(L) = V
  BY <1>1, <1>2
<1> QED BY <1>3, <1>11, <1>12 DEF i, C, V

\* The definitions received at the start make the book of an instrument, once.
LEMMA DefinitionLeads ==
  ASSUME MarketTypes, Once, NEW i \in Instruments, NEW levels \in 1 .. MaxDepth,
         Added(i, levels) \in Defs
  PROVE  Leads(i, Definitions(definitions), NoBook, Create(levels))
<1> DEFINE ws == Definitions(definitions)
           C == Create(levels)
<1>1. /\ Len(ws) = Len(definitions) /\ Len(definitions) \in Nat
      /\ \A n \in 1 .. Len(definitions) :
           ws[n] = [kind |-> "definition", of |-> definitions[n]]
  BY DefinitionsWork DEF MarketTypes
<1>2. PICK m \in 1 .. Len(definitions) : definitions[m] = Added(i, levels)
  BY DEF Defs
<1>3. C \in ViewType /\ NoBook \in ViewType
  BY NoBookType, ShrinkView
<1>4. Added(i, levels).inst = i /\ Added(i, levels).depth = levels /\ Added(i, levels).update = "A"
  BY DEF Added
<1>5. \A n \in 1 .. Len(definitions) : n # m => definitions[n].inst # i
  BY <1>2, <1>4 DEF Once
<1> HIDE DEF ws
<1>6. \A n \in 1 .. Len(definitions) : ws[n].kind = "definition" /\ ws[n].of = definitions[n]
  <2> TAKE n \in 1 .. Len(definitions)
  <2> DEFINE z == ws[n]
  <2>1. z = [kind |-> "definition", of |-> definitions[n]]
    BY <1>1
  <2> HIDE DEF z
  <2>2. z.kind = "definition" /\ z.of = definitions[n]
    BY ONLY <2>1
  <2> QED BY <2>2 DEF z
<1> HIDE DEF C
<1>7. \A n \in 1 .. Len(definitions) : n # m => AfterWork(i, ws[n], NoBook) = NoBook /\ AfterWork(i, ws[n], C) = C
  BY <1>5, <1>6 DEF AfterWork, AfterDefinition
<1>8. AfterWork(i, ws[m], NoBook) = C
  <2>1. ws[m].kind = "definition" /\ ws[m].of = Added(i, levels)
    BY <1>2, <1>6
  <2>2. NoBook.marketDepth = Unlisted
    BY DEF NoBook
  <2> QED BY <1>4, <2>1, <2>2 DEF AfterWork, AfterDefinition, C
<1> DEFINE t == [n \in 0 .. Len(ws) |-> IF n < m THEN NoBook ELSE C]
<1>9. t \in [0 .. Len(ws) -> ViewType]
  BY <1>3
<1>10. t[0] = NoBook /\ t[Len(ws)] = C
  BY <1>1, <1>2
<1>11. ASSUME NEW n \in 1 .. Len(ws) PROVE t[n] = AfterWork(i, ws[n], t[n - 1])
  <2>1. n \in 1 .. Len(definitions) /\ n \in 0 .. Len(ws) /\ n - 1 \in 0 .. Len(ws)
    BY <1>1
  <2>2. t[n] = (IF n < m THEN NoBook ELSE C) /\ t[n - 1] = IF n - 1 < m THEN NoBook ELSE C
    BY <2>1
  <2> HIDE DEF t
  <2>3. CASE n = m
    <3>1. ~(n < m) /\ n - 1 < m
      BY <2>1, <2>3
    <3> QED BY <1>8, <2>2, <2>3, <3>1
  <2>4. CASE n # m
    <3>1. n < m <=> n - 1 < m
      BY <1>2, <2>1, <2>4
    <3> QED BY <1>7, <2>1, <2>2, <2>4, <3>1
  <2> QED BY <2>3, <2>4
<1> HIDE DEF t
<1>12. Leads(i, ws, NoBook, C)
  BY <1>9, <1>10, <1>11 DEF Leads
<1> QED BY <1>12 DEF ws, C

\* What is started by the recovery makes the book of a snapshot.
LEMMA RecoverLeads ==
  ASSUME MarketTypes, Collected, Once, Recover, NEW s \in Snaps,
         s.view.marketDepth # Unlisted, Added(s.inst, s.view.marketDepth) \in Defs
  PROVE  Leads(s.inst, work', NoBook, s.view)
<1> DEFINE defs == Definitions(definitions)
           recs == Recoveries(SnapshotBooks)
           sent == <<[kind |-> "send"]>>
           D == s.view.marketDepth
<1>1. /\ work' = (defs \o recs) \o sent
      /\ defs \in Seq(Work) /\ recs \in Seq(Work) /\ sent \in Seq(Work)
      /\ defs \o recs \in Seq(Work)
  BY RecoverWork
<1>2. s.inst \in Instruments /\ s.view \in ViewType
  BY SnapFacts
<1>3. D \in 1 .. MaxDepth
  <2>1. D \in Nat /\ D \in 0 .. MaxDepth
    BY <1>2, ViewFacts
  <2> QED BY <2>1, LevelsAreNumbers DEF Unlisted
<1>4. Leads(s.inst, defs, NoBook, Create(D))
  <2> HIDE DEF D
  <2> QED BY <1>2, <1>3, DefinitionLeads DEF D
<1>5. Leads(s.inst, recs, Create(D), s.view)
  BY <1>2, SnapshotLeads, SnapshotBooksType, RecoveriesLead
<1>6. Leads(s.inst, sent, s.view, s.view)
  <2> DEFINE w == [kind |-> "send"]
  <2>1. w \in Work /\ w.kind = "send"
    BY DEF Work
  <2> HIDE DEF w
  <2>2. AfterWork(s.inst, w, s.view) = s.view
    BY <2>1 DEF AfterWork
  <2>3. Leads(s.inst, <<w>>, s.view, s.view)
    BY <1>2, <2>1, <2>2, LeadsOne
  <2> QED BY <2>3 DEF w
<1> HIDE DEF defs, recs, sent, D
<1>7. Leads(s.inst, defs \o recs, NoBook, s.view)
  BY <1>1, <1>4, <1>5, LeadsOn
<1> QED BY <1>1, <1>6, <1>7, LeadsOn

\* Work leads a book with missing rows and fillers to another one.
LEMMA LeadsBelow ==
  ASSUME NEW i \in Instruments, NEW ws \in Seq(Work), NEW v, NEW w, Leads(i, ws, v, w),
         NEW o \in ViewType, Below(o, v)
  PROVE  \E p \in ViewType : Leads(i, ws, o, p) /\ Below(p, w)
<1> DEFINE L == Len(ws)
<1>1. PICK t \in [0 .. L -> ViewType] :
        /\ t[0] = v /\ t[L] = w
        /\ \A n \in 1 .. L : t[n] = AfterWork(i, ws[n], t[n - 1])
  BY DEF Leads
<1>2. L \in Nat /\ \A n \in 1 .. L : ws[n] \in Work
  BY LenProperties, ElementOfSeq
<1> HIDE DEF L
<1> DEFINE Path(u, k) == /\ u[0] = o
                         /\ \A n \in 1 .. k : u[n] = AfterWork(i, ws[n], u[n - 1])
                         /\ Below(u[k], t[k])
           T == {k \in Nat : k <= L => \E u \in [0 .. k -> ViewType] : Path(u, k)}
<1>3. 0 \in T
  <2> DEFINE u == [n \in 0 .. 0 |-> o]
  <2>1. u \in [0 .. 0 -> ViewType] /\ u[0] = o
    OBVIOUS
  <2> HIDE DEF u
  <2>2. Path(u, 0)
    BY <1>1, <2>1
  <2> HIDE DEF Path
  <2> QED BY <2>1, <2>2
<1>4. ASSUME NEW k \in Nat, k \in T PROVE k + 1 \in T
  <2> SUFFICES ASSUME k + 1 <= L
               PROVE  \E u \in [0 .. k + 1 -> ViewType] : Path(u, k + 1)
    OBVIOUS
  <2>1. k + 1 \in 1 .. L /\ (k + 1) - 1 = k /\ k <= L /\ k \in 0 .. L
    BY <1>2
  <2>2. PICK u \in [0 .. k -> ViewType] : Path(u, k)
    <3>1. k \in T
      BY <1>4
    <3> HIDE DEF Path
    <3> QED BY <2>1, <3>1
  <2> DEFINE z == AfterWork(i, ws[k + 1], u[k])
             r == [n \in 0 .. k + 1 |-> IF n <= k THEN u[n] ELSE z]
  <2>3. u[k] \in ViewType /\ ws[k + 1] \in Work /\ t[k] \in ViewType
    BY <1>1, <1>2, <2>1
  <2>4. z \in ViewType
    BY <2>3, AfterWorkType
  <2>5. Below(z, t[k + 1])
    <3>1. Below(AfterWork(i, ws[k + 1], u[k]), AfterWork(i, ws[k + 1], t[k]))
      BY <2>2, <2>3, BelowKept
    <3>2. t[k + 1] = AfterWork(i, ws[k + 1], t[k])
      BY <1>1, <2>1
    <3> QED BY <3>1, <3>2
  <2> HIDE DEF z
  <2>6. r \in [0 .. k + 1 -> ViewType]
    BY <2>4
  <2>7. r[k + 1] = z /\ \A n \in 0 .. k : r[n] = u[n]
    OBVIOUS
  <2> HIDE DEF r
  <2>8. ASSUME NEW n \in 1 .. k + 1 PROVE r[n] = AfterWork(i, ws[n], r[n - 1])
    <3>1. CASE n = k + 1
      <4>1. r[n - 1] = u[k]
        BY <2>7, <3>1
      <4> QED BY <2>7, <3>1, <4>1 DEF z
    <3>2. CASE n # k + 1
      <4>1. n \in 1 .. k /\ n \in 0 .. k /\ n - 1 \in 0 .. k
        BY <3>2
      <4> QED BY <2>2, <2>7, <4>1
    <3> QED BY <3>1, <3>2
  <2>9. r[0] = o
    BY <2>2, <2>7
  <2>10. Path(r, k + 1)
    BY <2>5, <2>7, <2>8, <2>9
  <2> HIDE DEF Path
  <2> QED BY <2>6, <2>10
<1>5. Nat \subseteq T
  <2>1. \A k \in Nat : k \in T => k + 1 \in T
    BY <1>4
  <2> HIDE DEF T
  <2> QED BY <1>3, <2>1, Induction
<1>6. PICK u \in [0 .. L -> ViewType] : Path(u, L)
  <2>1. L \in T /\ L <= L
    BY <1>2, <1>5
  <2> HIDE DEF Path
  <2> QED BY <2>1
<1>7. u[L] \in ViewType
  BY <1>2
<1>8. Leads(i, ws, o, u[L])
  BY <1>6 DEF Leads, L
<1>9. Below(u[L], w)
  BY <1>1, <1>6
<1> QED BY <1>7, <1>8, <1>9

\* A book without rows.
LEMMA BelowEmpty ==
  ASSUME NEW o \in ViewType, NEW b \in ViewType, ~HasRows(o), o.marketDepth = b.marketDepth
  PROVE  Below(o, b) /\ (~HasRows(b) => o = b)
<1>1. o.bid = <<>> /\ o.ask = <<>>
  BY DEF HasRows
<1>2. \A side \in Sides : Len(o[side]) = 0 /\ Len(b[side]) \in Nat
  BY <1>1, ViewFacts, EmptySeq DEF Sides
<1>3. Below(o, b)
  BY <1>2 DEF Below
<1>4. ~HasRows(b) => o = b
  BY <1>1, SameView DEF HasRows
<1> QED BY <1>3, <1>4

\* The instruments whose entries in a packet are taken out are those with a
\* snapshot that is not older, and not empty.
LEMMA AheadFacts ==
  ASSUME MarketTypes, BookTypeOK, NotLoaded, Collected, Merged, Recovered
  PROVE  \A i : i \in Ahead(done + 1) <=>
           \E s \in Snaps : s.inst = i /\ HasRows(s.view) /\ done + 1 <= s.seq
<1> DEFINE q == done + 1
           M == Merge_position(q)
           L == Len(m_recovery_books)
<1>1. done \in Nat /\ q \in Nat
  BY SeqFacts
<1>2. /\ m_recovery_wait_merge \in Nat /\ m_recovery_wait_merge >= 1 /\ L \in Nat
      /\ \A n \in 1 .. L : m_recovery_books[n].seq \in Nat
  <2>1. m_recovery_books \in Seq(Book) /\ m_recovery_wait_merge \in 1 .. L + 1
    BY DEF BookTypeOK
  <2>2. L \in Nat /\ \A n \in 1 .. L : m_recovery_books[n] \in Book
    BY <2>1, LenProperties, ElementOfSeq
  <2> QED BY <2>1, <2>2 DEF Book
<1>3. /\ M \in m_recovery_wait_merge .. L + 1
      /\ \A n \in m_recovery_wait_merge .. L : n < M => m_recovery_books[n].seq < q
      /\ M <= L => m_recovery_books[M].seq >= q
  BY <1>1, MergePosition
<1>4. Ahead(q) = {m_recovery_books[n].inst : n \in M .. L}
  BY DEF Ahead
<1> HIDE DEF M, q
<1>5. CASE m_recovery_first_seq = 0
  <2>1. m_recovery_books = <<>> /\ first = 1
    BY <1>5 DEF NotLoaded, Recovered
  <2>2. snapshots = <<>> /\ L = 0
    BY <2>1, EmptySeq DEF Collected
  <2>3. M .. L = {}
    BY <1>2, <1>3, <2>2
  <2>4. Snaps = {}
    BY <2>2, EmptySeq DEF Snaps
  <2> QED BY <1>4, <2>3, <2>4 DEF q
<1>6. CASE m_recovery_first_seq # 0
  <2>1. m_recovery_books = SnapshotBooks
    BY <1>6 DEF Collected
  <2>2. /\ \A n \in 1 .. L : \E s \in Snaps :
             /\ m_recovery_books[n].inst = s.inst /\ m_recovery_books[n].seq = s.seq
             /\ HasRows(s.view)
        /\ \A s \in Snaps : HasRows(s.view) => \E n \in 1 .. L :
             m_recovery_books[n].inst = s.inst /\ m_recovery_books[n].seq = s.seq
        /\ \A m, n \in 1 .. L :
             m < n => m_recovery_books[m].seq <= m_recovery_books[n].seq
    BY <2>1, SnapshotEntries
  <2> HIDE DEF L
  <2>3. ASSUME NEW n \in M .. L
        PROVE  n \in 1 .. L /\ m_recovery_books[n].seq >= q
    <3>1. n \in 1 .. L /\ M \in 1 .. L /\ M <= L
      BY <1>2, <1>3
    <3>2. m_recovery_books[M].seq >= q /\ m_recovery_books[M].seq \in Nat
          /\ m_recovery_books[n].seq \in Nat
      BY <1>2, <1>3, <3>1
    <3>3. M = n \/ m_recovery_books[M].seq <= m_recovery_books[n].seq
      BY <1>2, <1>3, <2>2, <3>1
    <3> QED BY <1>1, <3>1, <3>2, <3>3
  <2>4. ASSUME NEW n \in 1 .. L, m_recovery_books[n].seq >= q PROVE n \in M .. L
    <3>1. CASE n < m_recovery_wait_merge
      <4>1. m_recovery_books[n].seq <= done
        BY <1>2, <3>1 DEF Merged
      <4> QED BY <1>1, <1>2, <2>4, <4>1 DEF q
    <3>2. CASE ~(n < m_recovery_wait_merge)
      <4>1. n \in m_recovery_wait_merge .. L
        BY <1>2, <3>2
      <4>2. ~(n < M)
        BY <1>1, <1>2, <1>3, <2>4, <4>1
      <4> QED BY <1>2, <1>3, <4>1, <4>2
    <3> QED BY <3>1, <3>2
  <2> TAKE i
  <2>5. ASSUME i \in Ahead(q)
        PROVE  \E s \in Snaps : s.inst = i /\ HasRows(s.view) /\ q <= s.seq
    <3>1. PICK n \in M .. L : i = m_recovery_books[n].inst
      BY <1>4, <2>5
    <3>2. n \in 1 .. L /\ m_recovery_books[n].seq >= q
      BY <2>3
    <3>3. PICK s \in Snaps : /\ m_recovery_books[n].inst = s.inst
                             /\ m_recovery_books[n].seq = s.seq /\ HasRows(s.view)
      BY <2>2, <3>2
    <3> QED BY <3>1, <3>2, <3>3
  <2>6. ASSUME NEW s \in Snaps, s.inst = i, HasRows(s.view), q <= s.seq
        PROVE  i \in Ahead(q)
    <3>1. PICK n \in 1 .. L : m_recovery_books[n].inst = s.inst /\ m_recovery_books[n].seq = s.seq
      BY <2>2, <2>6
    <3>2. n \in M .. L
      BY <2>4, <2>6, <3>1
    <3> QED BY <1>4, <2>6, <3>1, <3>2
  <2> QED BY <2>5, <2>6 DEF q
<1> QED BY <1>5, <1>6

-----------------------------------------------------------------------------
(* The books and the work on them, as far as they have to be right.        *)

\* What is left to do is the deletion of the instrument.
Removing(i) ==
  \E d \in Instrument : /\ work = <<[kind |-> "definition", of |-> d]>>
                        /\ d.inst = i /\ d.update = "D"

\* An instrument that is not listed is not known, or about to be forgotten.
Forgotten(i) ==
  view[i].marketDepth = Unlisted =>
    (i \notin m_instruments /\ ~Defined(i)) \/ Removing(i)

\* A book that is ahead of the messages waits for them at its snapshot; from
\* an empty snapshot it goes on, and some of its rows are missing until then.
Waits(i) ==
  \A s \in Snaps : s.inst = i /\ s.seq > done =>
    IF HasRows(s.view) \/ done <= m_recovery_first_seq
      THEN Leads(i, work, BookOf(i), s.view)
      ELSE \E o \in ViewType : Leads(i, work, BookOf(i), o) /\ Below(o, view[i])

\* An instrument that is added later has no book yet.
NotBegun(i) ==
  ~InSnapshot(i) /\ right_from[i] > done => BookOf(i) = NoBook /\ ~Defined(i)

\* A book that is not ahead is what the exchange showed.
Follows(i) ==
  right_from[i] <= done /\ view[i].marketDepth # Unlisted =>
    Leads(i, work, BookOf(i), view[i])

\* A book that has to be right some day, as far as this depends on the books.
Mode(i) == right_from[i] # Never => Forgotten(i) /\ Waits(i) /\ NotBegun(i) /\ Follows(i)

\* Every book, from the moment the first ones are built.
Modes == Recovered => \A i \in Instruments : Mode(i)

\* Steps that change none of it.
LEMMA ModesFrame ==
  ASSUME NEW i, UNCHANGED <<work, m_instruments, m_md_book_states, m_recovery_first_seq,
                            snapshots, done, view>>,
         right_from'[i] = right_from[i], Mode(i)
  PROVE  Mode(i)'
<1>1. /\ Forgotten(i)' <=> Forgotten(i)
      /\ Waits(i)' <=> Waits(i)
      /\ NotBegun(i)' <=> NotBegun(i)
      /\ Follows(i)' <=> Follows(i)
  BY DEF Forgotten, Removing, Waits, NotBegun, Follows, Defined, InSnapshot, Snaps, BookOf
<1> QED BY <1>1 DEF Mode

\* The exchange goes on.
LEMMA ModesTells ==
  ASSUME MarketTypes, Before, GoodBooks(m_md_book_states), Collected, Known, Modes, Apart,
         \A i \in Instruments : right_from'[i] = right_from[i] \/ Begins(i)
  PROVE  Modes'
<1> SUFFICES ASSUME Recovered', NEW i \in Instruments PROVE Mode(i)'
  BY DEF Modes
<1>1. UNCHANGED <<bookVars, first, definitions, snapshots, done, view>>
  BY DEF Apart
<1>2. Recovered /\ Connected
  BY <1>1 DEF Recovered, bookVars, Collected, Connected
<1>3. CASE right_from'[i] = right_from[i]
  BY <1>1, <1>2, <1>3, ModesFrame DEF Modes, bookVars
<1>4. CASE Begins(i)
  <2>1. i \notin Ever /\ right_from'[i] = seq + 1
    BY <1>4 DEF Begins
  <2>2. seq \in Nat /\ done \in Nat /\ done <= seq /\ done \in done .. seq
    BY SeqFacts
  <2>3. view[i].marketDepth = Unlisted
    <3>1. At(done) = view
      BY DEF At
    <3> QED BY <1>2, <2>1, <2>2, <3>1 DEF Known
  <2>4. ~Loaded(i) /\ \A s \in Snaps : s.inst # i
    BY <2>1 DEF Known
  <2>5. BookOf(i) = NoBook /\ i \notin m_instruments /\ ~Defined(i)
    BY <2>4, BookFacts DEF Loaded
  <2>6. Snaps' = Snaps /\ BookOf(i)' = BookOf(i) /\ Defined(i)' = Defined(i)
    BY <1>1 DEF Snaps, BookOf, Defined, bookVars
  <2>7. Forgotten(i)'
    BY <1>1, <2>5, <2>6 DEF Forgotten, bookVars
  <2>8. Waits(i)'
    BY <2>4, <2>6 DEF Waits
  <2>9. NotBegun(i)'
    BY <2>5, <2>6 DEF NotBegun
  <2>10. Follows(i)'
    <3>1. ~(right_from'[i] <= done')
      BY <1>1, <2>1, <2>2
    <3> QED BY <3>1 DEF Follows
  <2> QED BY <2>7, <2>8, <2>9, <2>10 DEF Mode
<1> QED BY <1>3, <1>4

\* The recovery starts to build the books.
LEMMA ModesRecover ==
  ASSUME MarketTypes, NotLoaded, Collected, Once, Kept, Recover
  PROVE  Modes'
<1>1. /\ UNCHANGED <<m_instruments, m_md_book_states>>
      /\ m_recovery_first_seq' = snapshots[1].seq /\ m_recovery_first_seq = 0
      /\ first > 1 /\ snapshots # <<>> /\ UNCHANGED <<marketVars, clientVars>>
      /\ \A i : Defined(i)' => \E d \in Defs : d.inst = i
  BY RecoverWork
<1>2. DOMAIN m_md_book_states = {} /\ m_instruments = {} /\ done = first - 1
  BY <1>1, MarketAssumption DEF NotLoaded, MarketTypes
<1>3. done \in Nat /\ seq \in Nat /\ done \in done .. seq /\ At(done) = view
  BY SeqFacts DEF At
<1>4. \A s \in Snaps : s.inst \in Instruments /\ s.seq \in Nat /\ done <= s.seq
                        /\ snapshots[1].seq <= s.seq
  BY <1>2, SnapFacts DEF Collected, Taken
<1>5. snapshots[1] \in Snaps /\ snapshots[1].seq \in Nat /\ done <= snapshots[1].seq
  BY <1>1, <1>4, SnapFacts
<1>6. \A i : BookOf(i)' = NoBook
  BY <1>1, <1>2 DEF BookOf
<1>7. Snaps' = Snaps /\ done' = done /\ view' = view /\ right_from' = right_from
      /\ snapshots' = snapshots
  BY <1>1 DEF clientVars, Snaps
<1> SUFFICES ASSUME NEW i \in Instruments, right_from[i] # Never
             PROVE  Forgotten(i)' /\ Waits(i)' /\ NotBegun(i)' /\ Follows(i)'
  BY <1>7 DEF Modes, Mode
<1>8. ASSUME NEW s \in Snaps, s.inst = i
      PROVE  /\ right_from[i] = s.seq /\ view[i].marketDepth # Unlisted
             /\ Leads(i, work', NoBook, s.view)
  <2>1. /\ right_from[i] = s.seq /\ s.view.marketDepth # Unlisted
        /\ Added(s.inst, s.view.marketDepth) \in Defs
        /\ \A q \in done .. seq :
             q <= s.seq => At(q)[s.inst].marketDepth = s.view.marketDepth
    BY <1>8 DEF Kept, Steady
  <2>2. view[i].marketDepth # Unlisted
    BY <1>3, <1>4, <1>8, <2>1
  <2> QED BY <1>8, <2>1, <2>2, RecoverLeads
<1>9. ASSUME ~InSnapshot(i)
      PROVE  ~Defined(i)' /\ ~(right_from[i] <= done)
  <2>1. /\ \A d \in Defs : d.inst # i
        /\ right_from[i] > snapshots[1].seq
    BY <1>1, <1>9 DEF Kept, Begun
  <2>2. right_from[i] \in Nat
    BY MarketAssumption DEF MarketTypes, Never
  <2> QED BY <1>1, <1>3, <1>5, <2>1, <2>2
<1>10. InSnapshot(i)' <=> InSnapshot(i)
  BY <1>7 DEF InSnapshot
<1>11. InSnapshot(i) => \E s \in Snaps : s.inst = i
  BY SnapFacts
<1>12. Forgotten(i)'
  BY <1>1, <1>2, <1>7, <1>8, <1>9, <1>11 DEF Forgotten
<1>13. Waits(i)'
  <2>1. done' <= m_recovery_first_seq'
    BY <1>1, <1>5, <1>7
  <2> QED BY <1>6, <1>7, <1>8, <2>1 DEF Waits
<1>14. NotBegun(i)'
  BY <1>6, <1>9, <1>10 DEF NotBegun
<1>15. Follows(i)'
  <2> SUFFICES ASSUME right_from[i] <= done
               PROVE  Leads(i, work', NoBook, view[i])
    BY <1>6, <1>7 DEF Follows
  <2>1. PICK s \in Snaps : s.inst = i
    BY <1>9, <1>11
  <2>2. s.seq = done
    BY <1>3, <1>4, <1>8, <2>1
  <2>3. view[i] = s.view
    BY <1>3, <2>1, <2>2 DEF Collected, Taken
  <2> QED BY <1>8, <2>1, <2>3
<1> QED BY <1>12, <1>13, <1>14, <1>15

\* An iteration of the work.
LEMMA ModesStep ==
  ASSUME MarketTypes, BookTypeOK, GoodBooks(m_md_book_states), Modes,
         BookStep, UNCHANGED <<marketVars, clientVars>>
  PROVE  Modes'
<1>1. /\ UNCHANGED <<m_recovery_books, m_recovery_wait_merge, m_recovery_first_seq>>
      /\ work # <<>> /\ work' = Tail(work) /\ work \in Seq(Work)
  BY BookFrames DEF BookTypeOK
<1>2. /\ first' = first /\ done' = done /\ view' = view /\ right_from' = right_from
      /\ snapshots' = snapshots /\ Snaps' = Snaps
  BY DEF clientVars, Snaps
<1> SUFFICES ASSUME Recovered, NEW i \in Instruments, right_from[i] # Never, Mode(i)
             PROVE  Forgotten(i)' /\ Waits(i)' /\ NotBegun(i)' /\ Follows(i)'
  BY <1>1, <1>2 DEF Modes, Mode, Recovered
<1>3. /\ BookOf(i)' = AfterWork(i, Head(work), BookOf(i))
      /\ i \in m_instruments' => i \in m_instruments \/ DefinitionOf(Head(work), i)
      /\ DefinitionOf(Head(work), i) /\ Head(work).of.update = "D" => i \notin m_instruments'
  BY <1>1, StepBook
<1>4. /\ Defined(i)' => Defined(i)
      /\ DefinitionOf(Head(work), i) => Defined(i)
  BY <1>1, StepLoaded
<1>5. ASSUME NEW to, Leads(i, work, BookOf(i), to)
      PROVE  Leads(i, work', BookOf(i)', to)
  BY <1>1, <1>3, <1>5, LeadsTail
<1>6. InSnapshot(i)' <=> InSnapshot(i)
  BY <1>2 DEF InSnapshot
<1>7. Forgotten(i)'
  <2> SUFFICES ASSUME view[i].marketDepth = Unlisted
               PROVE  i \notin m_instruments' /\ ~Defined(i)'
    BY <1>2 DEF Forgotten
  <2>1. CASE i \notin m_instruments /\ ~Defined(i)
    BY <1>3, <1>4, <2>1
  <2>2. CASE Removing(i)
    <3>1. PICK d \in Instrument : /\ work = <<[kind |-> "definition", of |-> d]>>
                                  /\ d.inst = i /\ d.update = "D"
      BY <2>2 DEF Removing
    <3> DEFINE z == [kind |-> "definition", of |-> d]
    <3>2. z.kind = "definition" /\ z.of = d
      OBVIOUS
    <3>3. Head(<<z>>) = z /\ Tail(<<z>>) = <<>>
      OBVIOUS
    <3>4. Head(work) = z /\ work' = <<>>
      BY <1>1, <3>1, <3>3
    <3> HIDE DEF z
    <3>5. i \notin m_instruments'
      BY <1>3, <3>1, <3>2, <3>4 DEF DefinitionOf
    <3>6. ~Defined(i)'
      <4>1. 1 .. Len(<<>>) = {}
        BY EmptySeq
      <4> QED BY <3>4, <4>1 DEF Defined
    <3> QED BY <3>5, <3>6
  <2> QED BY <2>1, <2>2 DEF Mode, Forgotten
<1>8. Waits(i)'
  <2> SUFFICES ASSUME NEW s \in Snaps, s.inst = i, s.seq > done
               PROVE  IF HasRows(s.view) \/ done <= m_recovery_first_seq
                        THEN Leads(i, work', BookOf(i)', s.view)
                        ELSE \E o \in ViewType :
                               Leads(i, work', BookOf(i)', o) /\ Below(o, view[i])
    BY <1>1, <1>2 DEF Waits
  <2>1. IF HasRows(s.view) \/ done <= m_recovery_first_seq
          THEN Leads(i, work, BookOf(i), s.view)
          ELSE \E o \in ViewType : Leads(i, work, BookOf(i), o) /\ Below(o, view[i])
    BY DEF Mode, Waits
  <2> QED BY <1>5, <2>1
<1>9. NotBegun(i)'
  <2> SUFFICES ASSUME ~InSnapshot(i), right_from[i] > done
               PROVE  BookOf(i)' = NoBook /\ ~Defined(i)'
    BY <1>2, <1>6 DEF NotBegun
  <2>1. BookOf(i) = NoBook /\ ~Defined(i) /\ ~DefinitionOf(Head(work), i)
    BY <1>4 DEF Mode, NotBegun
  <2>2. AfterWork(i, Head(work), NoBook) = NoBook
    BY <2>1, NoBookEntry DEF AfterWork, AfterDefinition, DefinitionOf
  <2> QED BY <1>3, <1>4, <2>1, <2>2
<1>10. Follows(i)'
  <2>1. right_from[i] <= done /\ view[i].marketDepth # Unlisted =>
          Leads(i, work', BookOf(i)', view[i])
    BY <1>5 DEF Mode, Follows
  <2> QED BY <1>2, <2>1 DEF Follows
<1> QED BY <1>7, <1>8, <1>9, <1>10

\* Before packet q is handled: what was shown of an instrument, what is shown
\* then, and its book.
Ready(i, q, v, w, b) ==
  /\ q = done + 1 /\ done \in Nat /\ q \in Nat /\ right_from[i] \in Nat
  /\ m_recovery_first_seq \in Nat
  /\ v \in ViewType /\ w \in ViewType /\ b \in ViewType
  /\ InSnapshot(i) => \E s \in Snaps : s.inst = i
  /\ \A s \in Snaps : s.inst = i =>
       /\ s.seq \in Nat /\ s.view \in ViewType /\ InSnapshot(i)
       /\ right_from[i] = s.seq /\ s.view.marketDepth # Unlisted
       /\ m_recovery_first_seq <= s.seq
       /\ s.seq >= q =>
            /\ v.marketDepth = s.view.marketDepth /\ w.marketDepth = s.view.marketDepth
            /\ m_recovery_first_seq < q => ~IsReset(Msg(q))
            /\ IF HasRows(s.view) \/ done <= m_recovery_first_seq THEN b = s.view
                                                                  ELSE Below(b, v)
       /\ s.seq = q => w = s.view
  /\ ~InSnapshot(i) /\ m_recovery_first_seq # 0 => right_from[i] > m_recovery_first_seq
  /\ ~InSnapshot(i) /\ right_from[i] >= q =>
       /\ v.marketDepth = Unlisted /\ b = NoBook
       /\ w.marketDepth = Unlisted <=> right_from[i] > q
  /\ v.marketDepth = Unlisted => i \notin m_instruments
  /\ right_from[i] < q /\ v.marketDepth # Unlisted => b = v

\* ... and after it has been taken.
Handled(i, q, w, b) ==
  /\ w.marketDepth = Unlisted => (i \notin m_instruments /\ ~Defined(i)') \/ Removing(i)'
  /\ \A s \in Snaps : s.inst = i /\ s.seq > q =>
       IF HasRows(s.view) \/ q <= m_recovery_first_seq
         THEN Leads(i, work', b, s.view)
         ELSE \E o \in ViewType : Leads(i, work', b, o) /\ Below(o, w)
  /\ ~InSnapshot(i) /\ right_from[i] > q => b = NoBook /\ ~Defined(i)'
  /\ right_from[i] <= q /\ w.marketDepth # Unlisted => Leads(i, work', b, w)

\* What has been taken becomes what is shown.
LEMMA HandledMode ==
  ASSUME MarketTypes, Connected, Chained, Handle, NEW i \in Instruments,
         Handled(i, done + 1, At(done + 1)[i], BookOf(i))
  PROVE  Mode(i)'
<1>1. done' = done + 1 /\ view' = At(done + 1)
  BY HandleKeeps
<1>2. /\ Snaps' = Snaps /\ right_from' = right_from /\ (InSnapshot(i)' <=> InSnapshot(i))
      /\ m_recovery_first_seq' = m_recovery_first_seq /\ m_instruments' = m_instruments
      /\ BookOf(i)' = BookOf(i)
  BY BookFrames DEF Handle, Snaps, InSnapshot, BookOf
<1> DEFINE b == BookOf(i)
           w == At(done + 1)[i]
           q == done + 1
<1>3. Handled(i, q, w, b)
  OBVIOUS
<1>4. BookOf(i)' = b /\ view'[i] = w /\ done' = q
  BY <1>1, <1>2
<1> HIDE DEF b, w, q
<1>5. Forgotten(i)'
  BY <1>2, <1>3, <1>4 DEF Handled, Forgotten
<1>6. Waits(i)'
  BY <1>2, <1>3, <1>4 DEF Handled, Waits
<1>7. NotBegun(i)'
  BY <1>2, <1>3, <1>4 DEF Handled, NotBegun
<1>8. Follows(i)'
  BY <1>2, <1>3, <1>4 DEF Handled, Follows
<1> QED BY <1>5, <1>6, <1>7, <1>8 DEF Mode

\* A book that is below one without rows.
LEMMA BelowNone ==
  ASSUME NEW o \in ViewType, NEW b \in ViewType, Below(o, b), ~HasRows(b)
  PROVE  o = b
<1>1. b.bid = <<>> /\ b.ask = <<>>
  BY DEF HasRows
<1>2. /\ Len(o.bid) <= 0 /\ Len(o.ask) <= 0 /\ Len(o.bid) \in Nat /\ Len(o.ask) \in Nat
      /\ o.bid \in Seq(Nat) /\ o.ask \in Seq(Nat)
  BY <1>1, EmptySeq, ViewFacts DEF Below, Sides
<1>3. Len(o.bid) = 0 /\ Len(o.ask) = 0
  BY <1>2
<1>4. o.bid = <<>> /\ o.ask = <<>>
  BY <1>2, <1>3, EmptySeq
<1>5. o.marketDepth = b.marketDepth
  BY DEF Below
<1> QED BY <1>1, <1>4, <1>5, SameView

\* The next packet finds no work left: every book has come where its work
\* was to lead it.
LEMMA HandleReady ==
  ASSUME MarketTypes, BookTypeOK, GoodBooks(m_md_book_states), Connected, Chained, NotLoaded,
         Collected, Kept, Modes, Handle, NEW i \in Instruments, right_from[i] # Never
  PROVE  /\ Ready(i, done + 1, At(done)[i], At(done + 1)[i], BookOf(i))
         /\ work = <<>> /\ done + 1 \in done + 1 .. seq
         /\ Msg(done + 1) \in Message /\ ForAll(Msg(done + 1))
         /\ Carries(Msg(done + 1), At(done), At(done + 1))
         /\ At(done) \in [Instruments -> ViewType] /\ At(done + 1) \in [Instruments -> ViewType]
<1> DEFINE q == done + 1
           v == view[i]
           w == At(q)[i]
           b == BookOf(i)
<1>1. /\ done \in Nat /\ seq \in Nat /\ q \in Nat /\ q \in done + 1 .. seq
      /\ q \in done .. seq /\ done \in done .. seq /\ q - 1 = done /\ done < q
  BY SeqFacts, HandleKeeps
<1>2. At(done) = view
  BY DEF At
<1>3. /\ At(done) \in [Instruments -> ViewType] /\ At(q) \in [Instruments -> ViewType]
      /\ Msg(q) \in Message
  <2> HIDE DEF q
  <2> QED BY <1>1, QueueFacts
<1>4. ForAll(Msg(q)) /\ Carries(Msg(q), At(done), At(q))
  <2> HIDE DEF q
  <2> QED BY <1>1 DEF Chained
<1>5. work = <<>>
  BY HandleWork
<1>6. b \in ViewType
  BY BookFacts
<1>7. v \in ViewType /\ w \in ViewType
  BY <1>2, <1>3
<1>8. right_from[i] \in Nat /\ m_recovery_first_seq \in Nat
  BY MarketAssumption DEF MarketTypes, BookTypeOK, Never
<1>9. Recovered /\ Mode(i)
  BY DEF Handle, Modes
<1>10. ~Defined(i) /\ ~Removing(i)
  <2>1. 1 .. Len(work) = {}
    BY <1>5, EmptySeq
  <2>2. \A x : work # <<x>>
    BY <1>5
  <2> QED BY <2>1, <2>2 DEF Defined, Removing
<1>11. \A to : Leads(i, work, b, to) => b = to
  BY <1>5, <1>6, LeadsNowhere
<1>12. InSnapshot(i) => \E s \in Snaps : s.inst = i
  BY SnapFacts
<1>13. snapshots # <<>> => m_recovery_first_seq = snapshots[1].seq
  BY <1>9 DEF Recovered, Collected
<1>14. ASSUME NEW s \in Snaps, s.inst = i
       PROVE  /\ s.seq \in Nat /\ s.view \in ViewType /\ InSnapshot(i)
              /\ right_from[i] = s.seq /\ s.view.marketDepth # Unlisted
              /\ m_recovery_first_seq <= s.seq
              /\ s.seq >= q =>
                   /\ v.marketDepth = s.view.marketDepth /\ w.marketDepth = s.view.marketDepth
                   /\ m_recovery_first_seq < q => ~IsReset(Msg(q))
                   /\ IF HasRows(s.view) \/ done <= m_recovery_first_seq
                        THEN b = s.view ELSE Below(b, v)
              /\ s.seq = q => w = s.view
  <2>1. /\ s.seq \in Nat /\ s.view \in ViewType /\ InSnapshot(i)
        /\ m_recovery_first_seq <= s.seq /\ m_recovery_first_seq = snapshots[1].seq
    BY <1>13, <1>14, SnapFacts
  <2>2. /\ right_from[i] = s.seq /\ s.view.marketDepth # Unlisted
        /\ \A p \in done .. seq : p <= s.seq => At(p)[i].marketDepth = s.view.marketDepth
        /\ \A p \in done + 1 .. seq :
             snapshots[1].seq < p /\ p <= s.seq => ~IsReset(Msg(p))
    BY <1>14 DEF Kept, Steady
  <2>3. s.seq >= done => At(s.seq)[s.inst] = s.view
    BY DEF Collected, Taken
  <2> HIDE DEF q
  <2>4. ASSUME s.seq >= q
        PROVE  /\ v.marketDepth = s.view.marketDepth /\ w.marketDepth = s.view.marketDepth
               /\ m_recovery_first_seq < q => ~IsReset(Msg(q))
               /\ IF HasRows(s.view) \/ done <= m_recovery_first_seq
                    THEN b = s.view ELSE Below(b, v)
    <3>1. q <= s.seq /\ done <= s.seq /\ s.seq > done
      BY <1>1, <2>1, <2>4
    <3>2. v.marketDepth = s.view.marketDepth /\ w.marketDepth = s.view.marketDepth
      BY <1>1, <1>2, <2>2, <3>1
    <3>3. m_recovery_first_seq < q => ~IsReset(Msg(q))
      BY <1>1, <2>1, <2>2, <3>1 DEF q
    <3>4. IF HasRows(s.view) \/ done <= m_recovery_first_seq
            THEN b = s.view ELSE Below(b, v)
      <4>1. IF HasRows(s.view) \/ done <= m_recovery_first_seq
              THEN Leads(i, work, b, s.view)
              ELSE \E o \in ViewType : Leads(i, work, b, o) /\ Below(o, v)
        BY <1>9, <1>14, <3>1 DEF Mode, Waits
      <4> QED BY <1>11, <4>1
    <3> QED BY <3>2, <3>3, <3>4
  <2>5. s.seq = q => w = s.view
    BY <1>1, <1>14, <2>1, <2>3
  <2> QED BY <2>1, <2>2, <2>4, <2>5
<1>15. ASSUME ~InSnapshot(i), m_recovery_first_seq # 0
       PROVE  right_from[i] > m_recovery_first_seq
  <2>1. first > 1 /\ snapshots # <<>>
    BY <1>15, MarketAssumption DEF Collected, MarketTypes
  <2> QED BY <1>13, <1>15, <2>1 DEF Kept, Begun
<1>16. ASSUME ~InSnapshot(i), right_from[i] >= q
       PROVE  /\ v.marketDepth = Unlisted /\ b = NoBook
              /\ w.marketDepth = Unlisted <=> right_from[i] > q
  <2>1. right_from[i] > done
    BY <1>1, <1>8, <1>16
  <2>2. /\ \A p \in done .. seq : p < right_from[i] => At(p)[i].marketDepth = Unlisted
        /\ \A p \in done .. seq : p = right_from[i] => At(p)[i].marketDepth # Unlisted
    BY <1>16, <2>1 DEF Kept, Begun
  <2>3. b = NoBook
    BY <1>9, <1>16, <2>1 DEF Mode, NotBegun
  <2>4. v.marketDepth = Unlisted
    BY <1>1, <1>2, <1>8, <2>1, <2>2
  <2> HIDE DEF q
  <2>5. right_from[i] > q => w.marketDepth = Unlisted
    BY <1>1, <1>8, <2>2
  <2>6. right_from[i] = q => w.marketDepth # Unlisted
    BY <1>1, <2>2
  <2>7. right_from[i] > q \/ right_from[i] = q
    BY <1>1, <1>8, <1>16
  <2> QED BY <1>1, <1>8, <2>3, <2>4, <2>5, <2>6, <2>7
<1>17. v.marketDepth = Unlisted => i \notin m_instruments
  BY <1>9, <1>10 DEF Mode, Forgotten
<1>18. right_from[i] < q /\ v.marketDepth # Unlisted => b = v
  <2>1. right_from[i] < q => right_from[i] <= done
    BY <1>1, <1>8
  <2> QED BY <1>9, <1>11, <2>1 DEF Mode, Follows
<1>19. q = done + 1
  OBVIOUS
<1>20. v = At(done)[i]
  BY <1>2
<1>21. Ready(i, q, v, w, b)
  <2> HIDE DEF q, v, w, b
  <2> QED BY <1>1, <1>6, <1>7, <1>8, <1>12, <1>14, <1>15, <1>16, <1>17, <1>18, <1>19
          DEF Ready
<1> QED BY <1>1, <1>3, <1>4, <1>5, <1>20, <1>21

\* A packet up to the first snapshot is dropped: its books are not older.
LEMMA DroppedHandled ==
  ASSUME NEW i \in Instruments, NEW q, NEW v, NEW w, NEW b, Ready(i, q, v, w, b),
         q <= m_recovery_first_seq, work' = <<>>
  PROVE  Handled(i, q, w, b)
<1>1. q \in Nat /\ done \in Nat /\ done < q /\ m_recovery_first_seq \in Nat
      /\ right_from[i] \in Nat /\ b \in ViewType /\ q >= 1
  BY DEF Ready
<1>2. ~Defined(i)'
  <2>1. 1 .. Len(<<>>) = {}
    BY EmptySeq
  <2> QED BY <2>1 DEF Defined
<1>3. done <= m_recovery_first_seq /\ m_recovery_first_seq # 0
  BY <1>1
<1>4. \A to : Leads(i, work', b, to) <=> b = to
  BY <1>1, LeadsNowhere
<1>5. ASSUME NEW s \in Snaps, s.inst = i
      PROVE  /\ b = s.view /\ w.marketDepth # Unlisted /\ InSnapshot(i)
             /\ right_from[i] = s.seq /\ s.seq \in Nat /\ (s.seq = q => w = s.view)
             /\ s.seq >= q
  <2>1. /\ s.seq \in Nat /\ m_recovery_first_seq <= s.seq
        /\ s.view.marketDepth # Unlisted /\ InSnapshot(i) /\ right_from[i] = s.seq
        /\ s.seq = q => w = s.view
    BY <1>5 DEF Ready
  <2>2. s.seq >= q
    BY <1>1, <2>1
  <2>3. w.marketDepth = s.view.marketDepth /\ b = s.view
    BY <1>3, <1>5, <2>2 DEF Ready
  <2> QED BY <2>1, <2>2, <2>3
<1>6. ASSUME ~InSnapshot(i)
      PROVE  /\ right_from[i] > q /\ w.marketDepth = Unlisted /\ b = NoBook
             /\ i \notin m_instruments
  <2>1. right_from[i] > m_recovery_first_seq
    BY <1>3, <1>6 DEF Ready
  <2>2. right_from[i] > q /\ right_from[i] >= q
    BY <1>1, <2>1
  <2> QED BY <1>6, <2>2 DEF Ready
<1>7. InSnapshot(i) => \E s \in Snaps : s.inst = i
  BY DEF Ready
<1>8. w.marketDepth = Unlisted => i \notin m_instruments /\ ~Defined(i)'
  BY <1>2, <1>5, <1>6, <1>7
<1>9. \A s \in Snaps : s.inst = i /\ s.seq > q => Leads(i, work', b, s.view)
  BY <1>4, <1>5
<1>10. ~InSnapshot(i) /\ right_from[i] > q => b = NoBook /\ ~Defined(i)'
  BY <1>2, <1>6
<1>11. ASSUME right_from[i] <= q, w.marketDepth # Unlisted PROVE Leads(i, work', b, w)
  <2>1. PICK s \in Snaps : s.inst = i
    BY <1>6, <1>7, <1>11
  <2>2. s.seq = q
    BY <1>1, <1>5, <1>11, <2>1
  <2> QED BY <1>4, <1>5, <2>1, <2>2
<1> QED BY <1>8, <1>9, <1>10, <1>11 DEF Handled

\* A definition that is about another instrument.
LEMMA OtherDefined ==
  ASSUME NEW i \in Instruments, NEW q, NEW v, NEW w, NEW b, Ready(i, q, v, w, b),
         q > m_recovery_first_seq, w = v, ~Defined(i)',
         \A x \in ViewType : Leads(i, work', x, x)
  PROVE  Handled(i, q, w, b)
<1>1. q \in Nat /\ done \in Nat /\ q = done + 1 /\ m_recovery_first_seq \in Nat
      /\ right_from[i] \in Nat /\ b \in ViewType /\ v \in ViewType
  BY DEF Ready
<1>2. w.marketDepth = Unlisted => i \notin m_instruments /\ ~Defined(i)'
  BY DEF Ready
<1>3. ASSUME NEW s \in Snaps, s.inst = i, s.seq > q
      PROVE  IF HasRows(s.view) \/ q <= m_recovery_first_seq
               THEN Leads(i, work', b, s.view)
               ELSE \E o \in ViewType : Leads(i, work', b, o) /\ Below(o, w)
  <2>1. s.seq \in Nat /\ s.view \in ViewType
    BY <1>3 DEF Ready
  <2>2. s.seq >= q /\ ~(q <= m_recovery_first_seq)
    BY <1>1, <1>3, <2>1
  <2>3. /\ v.marketDepth = s.view.marketDepth
        /\ IF HasRows(s.view) \/ done <= m_recovery_first_seq THEN b = s.view ELSE Below(b, v)
    BY <1>3, <2>2 DEF Ready
  <2>4. CASE HasRows(s.view)
    BY <1>1, <2>3, <2>4
  <2>5. CASE ~HasRows(s.view)
    <3>1. Below(b, v)
      <4>1. CASE b = s.view
        BY <1>1, <2>1, <2>3, <2>5, <4>1, BelowEmpty
      <4> QED BY <2>3, <2>5, <4>1
    <3> QED BY <1>1, <2>2, <2>5, <3>1
  <2> QED BY <2>4, <2>5
<1>4. ~InSnapshot(i) /\ right_from[i] > q => b = NoBook /\ ~Defined(i)'
  <2>1. right_from[i] > q => right_from[i] >= q
    BY <1>1
  <2> QED BY <2>1 DEF Ready
<1>5. ASSUME right_from[i] <= q, w.marketDepth # Unlisted PROVE Leads(i, work', b, w)
  <2>1. CASE right_from[i] < q
    BY <1>1, <1>5, <2>1 DEF Ready
  <2>2. CASE ~(right_from[i] < q)
    <3>1. right_from[i] = q /\ right_from[i] >= q /\ ~(right_from[i] > q)
      BY <1>1, <1>5, <2>2
    <3>2. InSnapshot(i)
      BY <1>5, <3>1 DEF Ready
    <3>3. PICK s \in Snaps : s.inst = i
      BY <3>2 DEF Ready
    <3>4. /\ s.view \in ViewType /\ s.seq = q /\ w = s.view
          /\ IF HasRows(s.view) \/ done <= m_recovery_first_seq THEN b = s.view ELSE Below(b, v)
      BY <3>1, <3>3 DEF Ready
    <3>5. b = w
      BY <1>1, <3>4, BelowNone
    <3> QED BY <1>1, <3>4, <3>5
  <2> QED BY <2>1, <2>2
<1> QED BY <1>2, <1>3, <1>4, <1>5 DEF Handled

\* A definition that is about this one.
LEMMA SelfDefined ==
  ASSUME NEW i \in Instruments, NEW q, NEW v, NEW w, NEW b, Ready(i, q, v, w, b),
         NEW d \in Instrument, d.inst = i,
         work' = <<[kind |-> "definition", of |-> d]>>,
         d.update = "A" => q <= right_from[i],
         \/ d.update = "A" /\ v = NoBook /\ w = Create(d.depth)
         \/ /\ d.update = "M" /\ v.marketDepth # Unlisted
            /\ d.depth # v.marketDepth /\ w = Shrink(v, d.depth)
         \/ d.update = "D" /\ v.marketDepth # Unlisted /\ w = NoBook
  PROVE  Handled(i, q, w, b)
<1>1. q \in Nat /\ done \in Nat /\ q = done + 1
      /\ right_from[i] \in Nat /\ b \in ViewType /\ v \in ViewType
  BY DEF Ready
<1>2. d.depth \in 1 .. MaxDepth /\ d.depth # Unlisted
  <2>1. d.depth \in 1 .. MaxDepth
    BY DEF Instrument
  <2>2. \A x \in 1 .. MaxDepth : x # 0
    BY LevelsAreNumbers
  <2> QED BY <2>1, <2>2 DEF Unlisted
<1>3. ASSUME NEW x \in ViewType
      PROVE  Leads(i, work', x, AfterDefinition(i, d, x))
  <2> DEFINE z == [kind |-> "definition", of |-> d]
  <2>1. z \in Work /\ z.kind = "definition" /\ z.of = d
    BY DEF Work
  <2>2. work' = <<z>>
    OBVIOUS
  <2> HIDE DEF z
  <2>3. AfterWork(i, z, x) = AfterDefinition(i, d, x)
    BY <2>1 DEF AfterWork
  <2>4. Leads(i, <<z>>, x, AfterWork(i, z, x))
    BY <2>1, LeadsOne
  <2> QED BY <2>2, <2>3, <2>4
\* No snapshot from this packet on: the depth changes.
<1>4. ASSUME NEW s \in Snaps, s.inst = i, s.seq >= q
      PROVE  FALSE
  <2>1. v.marketDepth = s.view.marketDepth /\ w.marketDepth = s.view.marketDepth
        /\ s.view.marketDepth # Unlisted
    BY <1>4 DEF Ready
  <2>2. Shrink(v, d.depth).marketDepth = d.depth /\ NoBook.marketDepth = Unlisted
    BY DEF Shrink, NoBook
  <2> QED BY <2>1, <2>2
<1>5. \A s \in Snaps : s.inst = i => s.seq < q /\ right_from[i] < q /\ InSnapshot(i)
  <2> TAKE s \in Snaps
  <2> HAVE s.inst = i
  <2>1. s.seq \in Nat /\ right_from[i] = s.seq /\ InSnapshot(i)
    BY DEF Ready
  <2> QED BY <1>1, <1>4, <2>1
<1>6. \A s \in Snaps : ~(s.inst = i /\ s.seq > q)
  <2> TAKE s \in Snaps
  <2>1. s.inst = i => s.seq \in Nat
    BY DEF Ready
  <2> QED BY <1>1, <1>5, <2>1
<1>7. CASE d.update = "A"
  <2>1. v = NoBook /\ w = Create(d.depth) /\ q <= right_from[i]
    BY <1>7
  <2>2. w.marketDepth # Unlisted
    BY <1>2, <2>1 DEF Create
  <2>3. ~InSnapshot(i)
    <3>1. ASSUME InSnapshot(i) PROVE FALSE
      <4>1. PICK s \in Snaps : s.inst = i
        BY <3>1 DEF Ready
      <4> QED BY <1>1, <1>5, <2>1, <4>1
    <3> QED BY <3>1
  <2>4. right_from[i] = q /\ b = NoBook
    <3>1. right_from[i] >= q
      BY <1>1, <2>1
    <3>2. b = NoBook /\ ~(right_from[i] > q)
      BY <2>2, <2>3, <3>1 DEF Ready
    <3> QED BY <1>1, <3>1, <3>2
  <2>5. Leads(i, work', b, w)
    <3>1. AfterDefinition(i, d, NoBook) = w
      BY <1>7, <2>1 DEF AfterDefinition, NoBook
    <3> QED BY <1>1, <1>3, <2>4, <3>1
  <2>6. ~(right_from[i] > q)
    BY <1>1, <2>4
  <2> QED BY <1>6, <2>2, <2>5, <2>6 DEF Handled
<1>8. CASE d.update # "A"
  <2>1. v.marketDepth # Unlisted
    BY <1>8
  <2>2. right_from[i] < q
    <3>1. ASSUME InSnapshot(i) PROVE right_from[i] < q
      <4>1. PICK s \in Snaps : s.inst = i
        BY <3>1 DEF Ready
      <4> QED BY <1>5, <4>1
    <3>2. ASSUME ~InSnapshot(i) PROVE right_from[i] < q
      <4>1. ~(right_from[i] >= q)
        BY <2>1, <3>2 DEF Ready
      <4> QED BY <1>1, <4>1
    <3> QED BY <3>1, <3>2
  <2>3. b = v /\ ~(right_from[i] > q)
    BY <1>1, <2>1, <2>2 DEF Ready
  <2>4. CASE d.update = "M"
    <3>1. w = Shrink(v, d.depth)
      BY <2>4
    <3>2. w.marketDepth # Unlisted
      BY <1>2, <3>1 DEF Shrink
    <3>3. AfterDefinition(i, d, v) = w
      BY <2>1, <2>4, <3>1 DEF AfterDefinition
    <3>4. Leads(i, work', b, w)
      BY <1>1, <1>3, <2>3, <3>3
    <3> QED BY <1>6, <2>3, <3>2, <3>4 DEF Handled
  <2>5. CASE d.update # "M"
    <3>1. d.update = "D" /\ w.marketDepth = Unlisted
      BY <1>8, <2>5 DEF NoBook
    <3>2. Removing(i)'
      BY <3>1 DEF Removing
    <3> QED BY <1>6, <2>3, <3>1, <3>2 DEF Handled
  <2> QED BY <2>4, <2>5
<1> QED BY <1>7, <1>8

\* Entries of a packet, without those of the instruments ahead of it.
LEMMA EntriesHandled ==
  ASSUME NEW i \in Instruments, NEW q, NEW v, NEW w, NEW b, Ready(i, q, v, w, b),
         q > m_recovery_first_seq, w.marketDepth = v.marketDepth, ~Defined(i)',
         NEW books \in Seq(Book), NEW past, work' = Increments(books, past),
         Leads(i, Increments(books, {}), v, w),
         \A n \in 1 .. Len(books) : books[n].entry = "reset" => books[n].inst = "none",
         IsReset(Msg(q)) \/ \A n \in 1 .. Len(books) : books[n].entry # "reset",
         \A k : k \in past <=> \E s \in Snaps : s.inst = k /\ HasRows(s.view) /\ q <= s.seq,
         "none" \notin past, \A r, s \in Snaps : r.inst = s.inst => r = s
  PROVE  Handled(i, q, w, b)
<1>1. q \in Nat /\ done \in Nat /\ q = done + 1 /\ m_recovery_first_seq \in Nat
      /\ right_from[i] \in Nat /\ b \in ViewType /\ v \in ViewType /\ w \in ViewType
  BY DEF Ready
<1> DEFINE ws == Increments(books, {})
           vs == Increments(books, past)
<1>2. /\ Len(books) \in Nat /\ Len(ws) = Len(books) /\ Len(vs) = Len(books)
      /\ ws \in Seq(Work) /\ vs \in Seq(Work)
      /\ \A n \in 1 .. Len(books) :
           /\ books[n] \in Book /\ ws[n].of = books[n] /\ vs[n].of = books[n]
           /\ ws[n].kind = "increment"
           /\ vs[n].kind = IF books[n].inst \in past THEN "past" ELSE "increment"
  BY IncrementsType
<1>3. work' = vs /\ Leads(i, ws, v, w)
  OBVIOUS
<1> HIDE DEF ws, vs
<1>4. w.marketDepth = Unlisted => i \notin m_instruments /\ ~Defined(i)'
  BY DEF Ready
<1>5. ~InSnapshot(i) /\ right_from[i] > q => b = NoBook /\ ~Defined(i)'
  <2>1. right_from[i] > q => right_from[i] >= q
    BY <1>1
  <2> QED BY <2>1 DEF Ready
<1>6. CASE i \in past
  <2>1. PICK s \in Snaps : s.inst = i /\ HasRows(s.view) /\ q <= s.seq
    BY <1>6
  <2>2. /\ s.seq \in Nat /\ InSnapshot(i) /\ right_from[i] = s.seq
        /\ s.view.marketDepth # Unlisted /\ (s.seq = q => w = s.view)
    BY <2>1 DEF Ready
  <2>3. s.seq >= q
    BY <1>1, <2>1, <2>2
  <2>4. /\ w.marketDepth # Unlisted /\ ~IsReset(Msg(q)) /\ b = s.view
    BY <1>1, <2>1, <2>2, <2>3 DEF Ready
  <2>5. ASSUME NEW n \in 1 .. Len(vs) PROVE AfterWork(i, vs[n], b) = b
    <3>1. /\ books[n] \in Book /\ vs[n].of = books[n] /\ books[n].entry # "reset"
          /\ vs[n].kind = IF books[n].inst \in past THEN "past" ELSE "increment"
      BY <1>2, <2>4
    <3>2. CASE books[n].inst \in past
      BY <3>1, <3>2 DEF AfterWork
    <3>3. CASE books[n].inst \notin past
      <4>1. AfterEntry(i, books[n], b) = b
        BY <1>1, <1>6, <3>1, <3>3, EntrySide
      <4> QED BY <3>1, <3>3, <4>1 DEF AfterWork
    <3> QED BY <3>2, <3>3
  <2>6. Leads(i, vs, b, b)
    BY <1>1, <1>2, <2>5, LeadsBack
  <2>7. \A r \in Snaps : r.inst = i => HasRows(r.view) /\ Leads(i, work', b, r.view)
    BY <1>3, <2>1, <2>4, <2>6
  <2>8. right_from[i] <= q => w = b
    <3>1. right_from[i] <= q => s.seq = q
      BY <1>1, <2>2, <2>3
    <3> QED BY <2>2, <2>4, <3>1
  <2> QED BY <1>3, <1>4, <1>5, <2>4, <2>6, <2>7, <2>8 DEF Handled
<1>7. CASE i \notin past
  <2>1. ASSUME NEW n \in 1 .. Len(ws), NEW x \in ViewType
        PROVE  AfterWork(i, vs[n], x) = AfterWork(i, ws[n], x)
    <3>1. /\ books[n] \in Book /\ ws[n].of = books[n] /\ vs[n].of = books[n]
          /\ ws[n].kind = "increment"
          /\ vs[n].kind = IF books[n].inst \in past THEN "past" ELSE "increment"
          /\ books[n].entry = "reset" => books[n].inst = "none"
      BY <1>2
    <3>2. CASE books[n].inst \in past
      <4>1. books[n].entry # "reset" /\ books[n].inst # i
        BY <1>7, <3>1, <3>2
      <4>2. AfterEntry(i, books[n], x) = x
        BY <3>1, <4>1, EntrySide
      <4> QED BY <3>1, <3>2, <4>2 DEF AfterWork
    <3>3. CASE books[n].inst \notin past
      BY <3>1, <3>3 DEF AfterWork
    <3> QED BY <3>2, <3>3
  <2>2. ASSUME NEW x, NEW y, Leads(i, ws, x, y) PROVE Leads(i, work', x, y)
    BY <1>2, <1>3, <2>1, <2>2, LeadsSame
  <2>3. ASSUME NEW s \in Snaps, s.inst = i, s.seq >= q
        PROVE  /\ ~HasRows(s.view)
               /\ \E o \in ViewType : Leads(i, work', b, o) /\ Below(o, w)
    <3>1. s.seq \in Nat /\ s.view \in ViewType
      BY <2>3 DEF Ready
    <3>2. ~HasRows(s.view)
      <4>1. q <= s.seq
        BY <1>1, <2>3, <3>1
      <4> QED BY <1>7, <2>3, <4>1
    <3>3. /\ s.view.marketDepth = v.marketDepth
          /\ IF HasRows(s.view) \/ done <= m_recovery_first_seq THEN b = s.view ELSE Below(b, v)
      BY <2>3 DEF Ready
    <3>4. Below(b, v)
      <4>1. CASE b = s.view
        BY <1>1, <3>1, <3>2, <3>3, <4>1, BelowEmpty
      <4> QED BY <3>2, <3>3, <4>1
    <3>5. PICK o \in ViewType : Leads(i, ws, b, o) /\ Below(o, w)
      BY <1>1, <1>2, <1>3, <3>4, LeadsBelow
    <3> QED BY <2>2, <3>2, <3>5
  <2>4. ASSUME NEW s \in Snaps, s.inst = i, s.seq > q
        PROVE  /\ ~(HasRows(s.view) \/ q <= m_recovery_first_seq)
               /\ \E o \in ViewType : Leads(i, work', b, o) /\ Below(o, w)
    <3>1. s.seq >= q /\ ~(q <= m_recovery_first_seq)
      <4>1. s.seq \in Nat
        BY <2>4 DEF Ready
      <4> QED BY <1>1, <2>4, <4>1
    <3> QED BY <2>3, <2>4, <3>1
  <2>5. ASSUME right_from[i] <= q, w.marketDepth # Unlisted PROVE Leads(i, work', b, w)
    <3>1. CASE right_from[i] < q
      <4>1. b = v
        BY <2>5, <3>1 DEF Ready
      <4> QED BY <1>3, <2>2, <4>1
    <3>2. CASE ~(right_from[i] < q)
      <4>1. right_from[i] = q /\ right_from[i] >= q
        BY <1>1, <2>5, <3>2
      <4>2. InSnapshot(i)
        BY <2>5, <4>1 DEF Ready
      <4>3. PICK s \in Snaps : s.inst = i
        BY <4>2 DEF Ready
      <4>4. s.seq >= q /\ w = s.view
        BY <4>1, <4>3 DEF Ready
      <4>5. PICK o \in ViewType : Leads(i, work', b, o) /\ Below(o, w)
        BY <2>3, <4>3, <4>4
      <4>6. o = w
        BY <1>1, <2>3, <4>3, <4>4, <4>5, BelowNone
      <4> QED BY <4>5, <4>6
    <3> QED BY <3>1, <3>2
  <2> QED BY <1>4, <1>5, <2>4, <2>5 DEF Handled
<1> QED BY <1>6, <1>7

\* A definition is taken, or passed over.
LEMMA DefinitionHandled ==
  ASSUME NEW i \in Instruments, NEW q, NEW v, NEW w, NEW b, Ready(i, q, v, w, b),
         q > m_recovery_first_seq, NEW m, NEW V, NEW W, Carries(m, V, W), m.type = "d",
         v = V[i], w = W[i], work' = Definitions(m.instruments),
         \A d \in Instrument : Adds(m, d) /\ d.inst = i => q <= right_from[i],
         Defined(i)' => \E d \in Instrument : m.instruments = <<d>> /\ d.inst = i
  PROVE  Handled(i, q, w, b)
<1>1. PICK d \in Instrument :
        /\ m.instruments = <<d>>
        /\ \A j \in Instruments \ {d.inst} : W[j] = V[j]
        /\ \/ d.update = "A" /\ V[d.inst] = NoBook /\ W[d.inst] = Create(d.depth)
           \/ /\ d.update = "M" /\ V[d.inst].marketDepth # Unlisted
              /\ d.depth # V[d.inst].marketDepth
              /\ W[d.inst] = Shrink(V[d.inst], d.depth)
           \/ d.update = "D" /\ V[d.inst].marketDepth # Unlisted /\ W[d.inst] = NoBook
  BY DEF Carries
<1> DEFINE one == [kind |-> "definition", of |-> d]
<1>2. one \in Work /\ one.kind = "definition" /\ one.of = d
  BY DEF Work
<1>3. work' = <<one>>
  <2>1. Definitions(<<d>>) = <<one>>
    BY DEF Definitions
  <2> HIDE DEF one
  <2> QED BY <1>1, <2>1
<1>4. CASE d.inst # i
  <2>1. w = v
    BY <1>1, <1>4
  <2>2. ~Defined(i)'
    <3>1. ASSUME NEW e, m.instruments = <<e>> PROVE e = d
      BY <1>1, <3>1
    <3> QED BY <1>4, <3>1
  <2>3. ASSUME NEW x \in ViewType PROVE Leads(i, work', x, x)
    <3> HIDE DEF one
    <3>1. Leads(i, <<one>>, x, AfterWork(i, one, x))
      BY <1>2, LeadsOne
    <3>2. AfterWork(i, one, x) = x
      BY <1>2, <1>4 DEF AfterWork, AfterDefinition
    <3> QED BY <1>3, <3>1, <3>2
  <2> QED BY <2>1, <2>2, <2>3, OtherDefined
<1>5. CASE d.inst = i
  <2>1. d.update = "A" => q <= right_from[i]
    BY <1>1, <1>5 DEF Adds
  <2>2. \/ d.update = "A" /\ v = NoBook /\ w = Create(d.depth)
        \/ /\ d.update = "M" /\ v.marketDepth # Unlisted
           /\ d.depth # v.marketDepth /\ w = Shrink(v, d.depth)
        \/ d.update = "D" /\ v.marketDepth # Unlisted /\ w = NoBook
    BY ONLY <1>1, <1>5, v = V[i], w = W[i]
  <2> QED BY <1>3, <1>5, <2>1, <2>2, SelfDefined
<1> QED BY <1>4, <1>5

\* The next packet is taken from the queue.
LEMMA ModesHandle ==
  ASSUME MarketTypes, BookTypeOK, GoodBooks(m_md_book_states), Before, NotLoaded, Chained,
         Collected, Known, Kept, Merged, Modes, Handle
  PROVE  Modes'
<1>1. Connected /\ Recovered /\ right_from' = right_from
  BY DEF Handle, Before
<1> SUFFICES ASSUME NEW i \in Instruments, right_from[i] # Never PROVE Mode(i)'
  BY <1>1 DEF Modes, Mode
<1> DEFINE q == done + 1
           m == Msg(q)
           v == At(done)[i]
           w == At(q)[i]
           b == BookOf(i)
<1>2. /\ Ready(i, q, v, w, b) /\ work = <<>> /\ q \in done + 1 .. seq
      /\ m \in Message /\ ForAll(m) /\ Carries(m, At(done), At(q))
      /\ At(done) \in [Instruments -> ViewType] /\ At(q) \in [Instruments -> ViewType]
  BY <1>1, HandleReady
<1>3. \/ q <= m_recovery_first_seq /\ work' = <<>>
      \/ /\ q > m_recovery_first_seq /\ m.type = "d"
         /\ work' = Definitions(m.instruments)
      \/ /\ q > m_recovery_first_seq /\ m.type = "X"
         /\ work' = Increments(m.books, Ahead(q))
  BY <1>1, HandleWork
<1>4. Defined(i)' => \E d \in Instrument :
                       m.type = "d" /\ m.instruments = <<d>> /\ d.inst = i
  BY <1>1, HandleLoaded
<1>5. \A d \in Instrument : Adds(m, d) /\ d.inst = i => q <= right_from[i]
  BY <1>1, <1>2 DEF Known
<1>6. \A k : k \in Ahead(q) <=>
        \E s \in Snaps : s.inst = k /\ HasRows(s.view) /\ q <= s.seq
  BY <1>1, AheadFacts
<1>7. "none" \notin Ahead(q) /\ \A r, s \in Snaps : r.inst = s.inst => r = s
  BY <1>6, SnapFacts, BookAssumption
<1> HIDE DEF q, m, v, w, b
<1>8. Handled(i, q, w, b)
  <2>1. CASE q <= m_recovery_first_seq /\ work' = <<>>
    BY <1>2, <2>1, DroppedHandled
  <2>2. CASE /\ q > m_recovery_first_seq /\ m.type = "d"
             /\ work' = Definitions(m.instruments)
    <3>1. v = At(done)[i] /\ w = At(q)[i]
      BY DEF v, w
    <3> QED BY <1>2, <1>4, <1>5, <2>2, <3>1, DefinitionHandled
  <2>3. CASE /\ q > m_recovery_first_seq /\ m.type = "X"
             /\ work' = Increments(m.books, Ahead(q))
    <3>1. m.books \in Seq(Book) /\ DOMAIN m.books = 1 .. Len(m.books)
      BY <1>2, LenProperties DEF Message
    <3>2. w.marketDepth = v.marketDepth /\ Leads(i, Increments(m.books, {}), v, w)
      BY <1>2, <2>3 DEF Carries, v, w
    <3>3. ~Defined(i)'
      BY <1>4, <2>3
    <3>4. \A n \in 1 .. Len(m.books) :
            m.books[n].entry = "reset" => m.books[n].inst = "none"
      BY <1>2, <2>3, <3>1 DEF ForAll
    <3>5. IsReset(Msg(q)) \/ \A n \in 1 .. Len(m.books) : m.books[n].entry # "reset"
      BY <2>3, <3>1 DEF IsReset, m
    <3> QED BY <1>2, <1>6, <1>7, <2>3, <3>1, <3>2, <3>3, <3>4, <3>5, EntriesHandled
  <2> QED BY <1>3, <2>1, <2>2, <2>3
<1> QED BY <1>1, <1>8, HandledMode DEF q, w, b

\* Every step keeps the books on their way.
LEMMA ModesNext ==
  ASSUME MarketTypes, BookTypeOK, GoodBooks(m_md_book_states), Unseen, Before, NotLoaded,
         Chained, Collected, Once, Known, Kept, Merged, Modes, [Next]_vars
  PROVE  Modes'
<1>1. CASE Apart /\ Silent
  BY <1>1, ModesTells DEF Silent
<1>2. ASSUME Apart, NEW m, Tells(m) PROVE Modes'
  <2>1. \A i \in Instruments : right_from'[i] = right_from[i] \/ Begins(i)
    BY <1>2, TellsMarket DEF Known
  <2> QED BY <1>2, <2>1, ModesTells
<1>3. CASE Connect
  BY <1>3, ConnectFacts DEF Modes, Mode
<1>4. ASSUME NEW i \in Instruments, ReceiveSnapshot(i) PROVE Modes'
  <2>1. first > 1 /\ first' = first /\ m_recovery_first_seq' = 0
    BY <1>4 DEF ReceiveSnapshot, bookVars
  <2>2. ~Recovered'
    BY <2>1, MarketAssumption DEF Recovered, MarketTypes
  <2> QED BY <2>2 DEF Modes
<1>5. CASE Recover
  BY <1>5, ModesRecover
<1>6. CASE Handle
  BY <1>6, ModesHandle
<1>7. CASE BookStep /\ UNCHANGED <<marketVars, clientVars>>
  BY <1>7, ModesStep
<1>8. CASE UNCHANGED vars
  <2>1. /\ UNCHANGED <<work, m_instruments, m_md_book_states, m_recovery_first_seq,
                       snapshots, done, view>>
        /\ right_from' = right_from /\ first' = first
    BY <1>8 DEF vars, bookVars, clientVars
  <2>2. Recovered' <=> Recovered
    BY <2>1 DEF Recovered
  <2> QED BY <2>1, <2>2, ModesFrame DEF Modes
<1> QED
  BY <1>1, <1>2, <1>3, <1>4, <1>5, <1>6, <1>7, <1>8, StepKinds

\* What holds between the exchange and the books, whatever has happened.
MatchInv ==
  /\ Unseen /\ Before /\ NotLoaded /\ Chained /\ Collected
  /\ Once /\ Known /\ Kept /\ Merged /\ Modes

\* It holds before the program is started.
LEMMA MatchInit ==
  ASSUME Init
  PROVE  MatchInv
<1>1. MarketTypes
  BY MarketInit
<1>2. /\ first = 0 /\ definitions = <<>> /\ snapshots = <<>> /\ queue = <<>> /\ done = 0
      /\ seq = 0 /\ changed = {} /\ gone = {} /\ view = ShownNow
      /\ right_from = [i \in Instruments |-> Never]
      /\ full = [i \in Instruments |-> Empty]
      /\ m_instruments = {} /\ m_md_book_states = <<>> /\ m_recovery_books = <<>>
      /\ m_recovery_wait_merge = 1 /\ m_recovery_first_seq = 0 /\ work = <<>>
  BY DEF Init, BookInit
<1>3. /\ ~Connected /\ ~Recovered /\ ~(first > 1) /\ DOMAIN m_md_book_states = {}
      /\ Len(<<>>) = 0 /\ 1 .. 0 = {} /\ Listed \cap gone = {}
  BY <1>2, EmptySeq DEF Connected, Recovered
<1>4. Snaps = {} /\ Defs = {} /\ \A i : ~Defined(i) /\ ~Loaded(i)
  BY <1>2, <1>3 DEF Snaps, Defs, Defined, Loaded
<1>5. \A i \in Instruments : right_from[i] = Never
  BY <1>2
<1>6. Unseen /\ Before
  BY <1>2 DEF Unseen, Before
<1>7. NotLoaded /\ Chained
  BY <1>2, <1>3 DEF NotLoaded, Chained
<1>8. Collected /\ Once
  BY <1>2, <1>3, <1>4 DEF Collected, Once
<1>9. Known
  BY <1>3, <1>4, <1>5 DEF Known
<1>10. Kept
  BY <1>3, <1>4, <1>5 DEF Kept, Begun
<1>11. Merged
  <2>1. 1 .. m_recovery_wait_merge - 1 = {}
    BY <1>2
  <2> QED BY <2>1 DEF Merged
<1>12. Modes
  BY <1>3 DEF Modes
<1> QED BY <1>6, <1>7, <1>8, <1>9, <1>10, <1>11, <1>12 DEF MatchInv

\* Every step keeps it.
LEMMA MatchNext ==
  ASSUME MarketTypes, BookTypeOK, IInv, MatchInv, [Next]_vars
  PROVE  MatchInv'
<1>1. /\ GoodBooks(m_md_book_states) /\ Unseen /\ Before /\ NotLoaded /\ Chained
      /\ Collected /\ Once /\ Known /\ Kept /\ Merged /\ Modes
  BY DEF IInv, MatchInv
<1>2. Unseen' /\ Before' /\ NotLoaded' /\ Chained' /\ Collected'
  BY <1>1, UnseenNext, BeforeNext, NotLoadedNext, ChainNext, CollectedNext
<1>3. Once' /\ Known' /\ Kept' /\ Merged' /\ Modes'
  BY <1>1, OnceNext, KnownNext, KeptNext, MergedNext, ModesNext
<1> QED BY <1>2, <1>3 DEF MatchInv

\* When no work is left, the books are those that were shown.
LEMMA MatchShown ==
  ASSUME MarketTypes, BookTypeOK, IInv, MatchInv
  PROVE  BooksMatchExchange
<1> SUFFICES ASSUME Recovered, work = <<>>, NEW i \in m_instruments,
                    i \in Instruments, right_from[i] # Never
             PROVE  LET newer == {n \in DOMAIN snapshots :
                                    snapshots[n].inst = i /\ AheadOfFeed(snapshots[n])}
                    IN  /\ newer = {} /\ right_from[i] <= done =>
                             m_md_book_states[i] = view[i]
                        /\ \A n \in newer :
                             HasRows(snapshots[n].view) =>
                               m_md_book_states[i] = snapshots[n].view
  BY DEF BooksMatchExchange, Idle, BookTypeOK
<1>1. Forgotten(i) /\ Waits(i) /\ Follows(i)
  BY DEF MatchInv, Modes, Mode
<1>2. /\ BookOf(i) \in ViewType
      /\ i \in DOMAIN m_md_book_states <=> BookOf(i).marketDepth # Unlisted
      /\ i \in DOMAIN m_md_book_states => BookOf(i) = m_md_book_states[i]
  BY BookFacts DEF IInv
<1>3. \A to : Leads(i, work, BookOf(i), to) => BookOf(i) = to
  BY <1>2, LeadsNowhere
<1>4. ASSUME right_from[i] <= done PROVE m_md_book_states[i] = view[i]
  <2>1. view[i].marketDepth # Unlisted
    BY <1>1, EmptySeq DEF Forgotten, Removing
  <2>2. BookOf(i) = view[i]
    BY <1>1, <1>3, <1>4, <2>1 DEF Follows
  <2> QED BY <1>2, <2>1, <2>2
<1>5. ASSUME NEW n \in DOMAIN snapshots, snapshots[n].inst = i,
             AheadOfFeed(snapshots[n]), HasRows(snapshots[n].view)
      PROVE  m_md_book_states[i] = snapshots[n].view
  <2>1. snapshots[n] \in Snaps
    BY LenProperties DEF Snaps, MarketTypes
  <2>2. snapshots[n].view.marketDepth # Unlisted
    BY <1>5, <2>1 DEF MatchInv, Kept, Steady
  <2>3. BookOf(i) = snapshots[n].view
    BY <1>1, <1>3, <1>5, <2>1 DEF Waits, AheadOfFeed
  <2> QED BY <1>2, <2>2, <2>3
<1> QED BY <1>4, <1>5

\* The books the program shows are those of the exchange.
THEOREM ChannelMatches == Spec => []BooksMatchExchange
<1>1. Init => MatchInv
  BY MatchInit
<1>2. MarketTypes /\ BookTypeOK /\ IInv /\ MatchInv /\ [Next]_vars => MatchInv'
  BY MatchNext
<1>3. MarketTypes /\ BookTypeOK /\ IInv /\ MatchInv => BooksMatchExchange
  BY MatchShown
<1> QED
  BY <1>1, <1>2, <1>3, ChannelTypes, AnyInput, BookTypes, GoodAlways, PTL DEF Spec
=============================================================================
