--------------------------- MODULE CtpGatewayProof ---------------------------
(***************************************************************************)
(* Theorems about CtpGateway: answers reach the orders they are about, no  *)
(* order is forgotten, and an order told to be over is over, for any       *)
(* number of orders, of lost connections and of messages under way.        *)
(***************************************************************************)
EXTENDS CtpGateway, ContainerProof

\* The messages of a sequence, and all that are under way.
In(s) == {s[i] : i \in DOMAIN s}

Messages == In(commandQueue) \cup In(up) \cup In(answers)

-----------------------------------------------------------------------------
(* The inductive invariant.  The first two parts hold in any state.        *)

TypeInv ==
  /\ TypeOK
  /\ \A m \in In(answers) : m.kind = "order" => m.status \in ExchangeStatuses
  /\ adding # Nobody => adding.order \in Orders

CancelInv ==
  \A c \in In(commandQueue) \cup In(up) :
    c.kind = "withdraw" => c.order \in Orders

\* Requests and answers that may come in this order: an order or a cancel is
\* never behind a login, and an order is sent once.
Follows(m, n) ==
  /\ ~(m.kind = "login" /\ n.kind \in {"insert", "withdraw"})
  /\ ~(m.kind = "insert" /\ n.kind = "insert" /\ m.order = n.order)

InLine(s) == \A i, j \in DOMAIN s : i < j => Follows(s[i], s[j])

Before(s, t) == \A m \in In(s), n \in In(t) : Follows(m, n)

\* What is answered is in front of what is sent, and that of what waits.
LineOK(a, u, q) ==
  /\ InLine(a)
  /\ InLine(u)
  /\ InLine(q)
  /\ Before(a, u)
  /\ Before(a, q)
  /\ Before(u, q)

Line == LineOK(answers, up, commandQueue)

\* An order gets a reference once, when it is taken.
IndexInv ==
  /\ \A r \in DOMAIN client_orders_index :
       fate[client_orders_index[r]] \in {"added", "lost"}
  /\ \A r, q \in DOMAIN client_orders_index :
       client_orders_index[r] = client_orders_index[q] => r = q
  /\ \A o \in Orders : told[o] # "None" => fate[o] \in {"added", "lost"}

\* The order that is being taken has the next reference, and that is above all
\* that the exchange knows.
AddingInv ==
  /\ adding # Nobody => /\ start # "creating"
                        /\ tradable
                        /\ fate[adding.order] = "new"
                        /\ adding.ref = maxOrderRef
  /\ ~tradable => client_orders_index = [r \in {} |-> None]
  /\ tradable => maxOrderRef > largest

\* Requests, and answers, of orders lead to the orders they are about.
RequestOK(m) ==
  /\ m.kind \in {"insert", "withdraw"} => /\ m.order \in Orders
                                          /\ Client(m.ref) = m.order
                                          /\ m.ref < maxOrderRef
  /\ m.kind = "insert" => /\ Status(m.order) = "None"
                          /\ told[m.order] # "Rejected"
  /\ m.kind = "confirm" => maxOrderRef > largest

\* What is told of an order by a query: a status that it has, or had.
RowOK(m) ==
  /\ Client(m.ref) = m.order
  /\ m.ref <= largest
  /\ m.order \in Orders =>
       /\ Status(m.order) # "None"
       /\ m.kind = "trade" \/ m.status = "AllTraded"
            => Status(m.order) = "AllTraded"
       /\ m.status = "Canceled" => Status(m.order) = "Canceled"

AnswerOK(m) ==
  /\ m.kind \in {"order", "trade"} => RowOK(m)
  /\ m.kind = "withdraw" => m.order \in refused
  /\ m.kind = "login" /\ m.ok => m.ref = largest

EventOK(e) ==
  /\ Client(e.ref) = e.order
  /\ e.ref <= largest
  /\ e.order \in Orders =>
       /\ Status(e.order) # "None"
       /\ e.status \in {"AllTraded", "Trade"}
            => Status(e.order) = "AllTraded"
       /\ e.status = "Canceled" => Status(e.order) = "Canceled"

\* An order that was taken is under way, at the exchange or answered.
Kept(o) ==
  \/ \E m \in Messages : m.kind = "insert" /\ m.order = o
  \/ Status(o) # "None"
  \/ told[o] # "None"

CalmInv ==
  /\ Line
  /\ IndexInv
  /\ AddingInv
  /\ \A m \in Messages : RequestOK(m)
  /\ \A m \in In(answers) : AnswerOK(m)
  /\ \A e \in In(journal) : EventOK(e)
  /\ \A o \in Orders : fate[o] = "added" => Kept(o)
  /\ ToldIsTrue
  /\ ~astray

IInv == TypeInv /\ CancelInv /\ (calm => CalmInv)

-----------------------------------------------------------------------------
(* Messages in sequences.                                                  *)

\* One more at the end.
LEMMA LineAppend ==
  ASSUME NEW S, NEW s \in Seq(S), NEW c \in S
  PROVE  /\ Append(s, c) \in Seq(S)
         /\ In(Append(s, c)) = In(s) \cup {c}
         /\ InLine(s) /\ (\A m \in In(s) : Follows(m, c))
              => InLine(Append(s, c))
<1> DEFINE t == Append(s, c)
<1>1. /\ t \in Seq(S) /\ Len(s) \in Nat
      /\ DOMAIN s = 1 .. Len(s) /\ DOMAIN t = 1 .. Len(s) + 1
      /\ \A i \in DOMAIN s : t[i] = s[i]
      /\ t[Len(s) + 1] = c
  OBVIOUS
<1> HIDE DEF t
<1>2. \A i \in DOMAIN t : i \in DOMAIN s \/ i = Len(s) + 1
  BY <1>1
<1>3. In(t) = In(s) \cup {c}
  <2>1. In(t) \subseteq In(s) \cup {c}
    BY <1>1, <1>2 DEF In
  <2>2. DOMAIN s \subseteq DOMAIN t /\ Len(s) + 1 \in DOMAIN t
    BY <1>1
  <2>3. In(s) \subseteq In(t) /\ c \in In(t)
    BY <1>1, <2>2 DEF In
  <2> QED BY <2>1, <2>3
<1>4. ASSUME InLine(s), \A m \in In(s) : Follows(m, c)
      PROVE  InLine(t)
  <2>1. SUFFICES ASSUME NEW i \in DOMAIN t, NEW j \in DOMAIN t, i < j
                 PROVE  Follows(t[i], t[j])
    BY DEF InLine
  <2>2. i \in DOMAIN s
    BY <1>1, <2>1
  <2>3. CASE j \in DOMAIN s
    BY <1>1, <1>4, <2>1, <2>2, <2>3 DEF InLine
  <2>4. CASE j = Len(s) + 1
    <3>1. s[i] \in In(s)
      BY <2>2 DEF In
    <3> QED BY <1>1, <1>4, <2>2, <2>4, <3>1
  <2> QED BY <1>2, <2>3, <2>4
<1> QED BY <1>1, <1>3, <1>4 DEF t

\* The first one is taken.
LEMMA LineTail ==
  ASSUME NEW S, NEW s \in Seq(S), s # <<>>
  PROVE  /\ Tail(s) \in Seq(S)
         /\ Head(s) \in S /\ Head(s) \in In(s)
         /\ In(s) = {Head(s)} \cup In(Tail(s))
         /\ InLine(s) => /\ InLine(Tail(s))
                         /\ \A m \in In(Tail(s)) : Follows(Head(s), m)
<1> DEFINE t == Tail(s)
<1>1. /\ t \in Seq(S) /\ Len(s) \in Nat \ {0} /\ Head(s) = s[1]
      /\ Head(s) \in S
      /\ DOMAIN s = 1 .. Len(s) /\ DOMAIN t = 1 .. Len(s) - 1
      /\ \A i \in DOMAIN t : t[i] = s[i + 1]
  OBVIOUS
<1> HIDE DEF t
<1>2. \A i \in DOMAIN s : i = 1 \/ i - 1 \in DOMAIN t
  BY <1>1
<1>3. \A i \in DOMAIN t : i + 1 \in DOMAIN s /\ 1 < i + 1
  BY <1>1
<1>4. 1 \in DOMAIN s
  BY <1>1
<1>5. In(s) = {Head(s)} \cup In(t)
  <2>1. ASSUME NEW i \in DOMAIN s PROVE s[i] \in {Head(s)} \cup In(t)
    <3>1. CASE i = 1
      BY <1>1, <3>1
    <3>2. CASE i - 1 \in DOMAIN t
      <4>1. t[i - 1] = s[i]
        BY <1>1, <3>2
      <4> QED BY <3>2, <4>1 DEF In
    <3> QED BY <1>2, <3>1, <3>2
  <2>2. In(t) \subseteq In(s)
    BY <1>1, <1>3 DEF In
  <2>3. Head(s) \in In(s)
    BY <1>1, <1>4 DEF In
  <2> QED BY <2>1, <2>2, <2>3 DEF In
<1>6. ASSUME InLine(s) PROVE InLine(t)
  <2>1. SUFFICES ASSUME NEW i \in DOMAIN t, NEW j \in DOMAIN t, i < j
                 PROVE  Follows(t[i], t[j])
    BY DEF InLine
  <2>2. i + 1 < j + 1
    BY <1>1, <2>1
  <2> QED BY <1>1, <1>3, <1>6, <2>2 DEF InLine
<1>7. ASSUME InLine(s), NEW m \in In(t) PROVE Follows(Head(s), m)
  <2>1. PICK i \in DOMAIN t : m = t[i]
    BY DEF In
  <2> QED BY <1>1, <1>3, <1>4, <1>7, <2>1 DEF InLine
<1> QED BY <1>1, <1>5, <1>6, <1>7 DEF t

\* Only the first k are kept.
LEMMA LinePrefix ==
  ASSUME NEW S, NEW s \in Seq(S), NEW k \in 0 .. Len(s)
  PROVE  /\ SubSeq(s, 1, k) \in Seq(S)
         /\ In(SubSeq(s, 1, k)) \subseteq In(s)
         /\ \A m \in In(s) \ In(SubSeq(s, 1, k)) :
              \E i \in k + 1 .. Len(s) : m = s[i]
         /\ InLine(s) => InLine(SubSeq(s, 1, k))
<1> DEFINE t == SubSeq(s, 1, k)
<1>1. /\ t \in Seq(S) /\ Len(s) \in Nat
      /\ DOMAIN s = 1 .. Len(s) /\ DOMAIN t = 1 .. k
      /\ \A i \in DOMAIN t : t[i] = s[i]
  OBVIOUS
<1> HIDE DEF t
<1>2. \A i \in DOMAIN t : i \in DOMAIN s
  BY <1>1
<1>3. In(t) \subseteq In(s)
  BY <1>1, <1>2 DEF In
<1>4. ASSUME NEW m \in In(s) \ In(t)
      PROVE  \E i \in k + 1 .. Len(s) : m = s[i]
  <2>1. PICK i \in DOMAIN s : m = s[i]
    BY DEF In
  <2>2. i \notin DOMAIN t
    BY <1>1, <1>4, <2>1 DEF In
  <2>3. i \in k + 1 .. Len(s)
    BY <1>1, <2>2
  <2> QED BY <2>1, <2>3
<1>5. InLine(s) => InLine(t)
  BY <1>1, <1>2 DEF InLine
<1> QED BY <1>1, <1>3, <1>4, <1>5 DEF t

\* One sequence behind the other.
LEMMA LineConcat ==
  ASSUME NEW S, NEW s \in Seq(S), NEW r \in Seq(S)
  PROVE  /\ s \o r \in Seq(S)
         /\ In(s \o r) = In(s) \cup In(r)
         /\ InLine(s) /\ InLine(r) /\ Before(s, r) => InLine(s \o r)
<1> DEFINE t == s \o r
<1>1. /\ t \in Seq(S) /\ Len(s) \in Nat /\ Len(r) \in Nat
      /\ DOMAIN s = 1 .. Len(s) /\ DOMAIN r = 1 .. Len(r)
      /\ DOMAIN t = 1 .. Len(s) + Len(r)
      /\ \A i \in DOMAIN s : t[i] = s[i]
      /\ \A i \in DOMAIN r : t[Len(s) + i] = r[i]
  OBVIOUS
<1> HIDE DEF t
<1>2. ASSUME NEW i \in DOMAIN t
      PROVE  \/ i \in DOMAIN s /\ t[i] = s[i] /\ s[i] \in In(s)
             \/ /\ i - Len(s) \in DOMAIN r
                /\ t[i] = r[i - Len(s)]
                /\ r[i - Len(s)] \in In(r)
  <2>1. CASE i \in DOMAIN s
    BY <1>1, <2>1 DEF In
  <2>2. CASE i \notin DOMAIN s
    <3>1. i - Len(s) \in DOMAIN r /\ i = Len(s) + (i - Len(s))
      BY <1>1, <2>2
    <3>2. t[Len(s) + (i - Len(s))] = r[i - Len(s)]
      BY <1>1, <3>1
    <3> QED BY <3>1, <3>2 DEF In
  <2> QED BY <2>1, <2>2
<1>3. In(t) = In(s) \cup In(r)
  <2>1. \A i \in DOMAIN s : i \in DOMAIN t
    BY <1>1
  <2>2. \A i \in DOMAIN r : Len(s) + i \in DOMAIN t
    BY <1>1
  <2>3. In(s) \subseteq In(t) /\ In(r) \subseteq In(t)
    BY <1>1, <2>1, <2>2 DEF In
  <2>4. In(t) \subseteq In(s) \cup In(r)
    BY <1>2 DEF In
  <2> QED BY <2>3, <2>4
<1>4. ASSUME InLine(s), InLine(r), Before(s, r) PROVE InLine(t)
  <2>1. SUFFICES ASSUME NEW i \in DOMAIN t, NEW j \in DOMAIN t, i < j
                 PROVE  Follows(t[i], t[j])
    BY DEF InLine
  <2>2. CASE i \in DOMAIN s /\ j \in DOMAIN s
    BY <1>1, <1>4, <2>1, <2>2 DEF InLine
  <2>3. CASE i \notin DOMAIN s /\ j \notin DOMAIN s
    <3>1. /\ i - Len(s) \in DOMAIN r /\ t[i] = r[i - Len(s)]
          /\ j - Len(s) \in DOMAIN r /\ t[j] = r[j - Len(s)]
      BY <1>2, <2>3
    <3>2. i - Len(s) < j - Len(s)
      BY <1>1, <2>1
    <3> QED BY <1>4, <3>1, <3>2 DEF InLine
  <2>4. CASE i \in DOMAIN s /\ j \notin DOMAIN s
    BY <1>2, <1>4, <2>4 DEF Before
  <2>5. ~(i \notin DOMAIN s /\ j \in DOMAIN s)
    BY <1>1, <2>1
  <2> QED BY <2>2, <2>3, <2>4, <2>5
<1> QED BY <1>1, <1>3, <1>4 DEF t

-----------------------------------------------------------------------------
(* What the steps do to the line.                                          *)

\* Most kinds may come anywhere.
Neutral(m) == m.kind \notin {"login", "insert", "withdraw"}

\* A login may come behind everything, and an order or a cancel behind what is
\* neither a login nor the same order.
LEMMA Anywhere ==
  /\ \A m, n : Neutral(m) \/ Neutral(n) => Follows(m, n)
  /\ \A m, n : n.kind = "login" => Follows(m, n)
<1>1. ASSUME NEW m, NEW n, Neutral(m) \/ Neutral(n) PROVE Follows(m, n)
  BY <1>1 DEF Neutral, Follows
<1>2. ASSUME NEW m, NEW n, n.kind = "login" PROVE Follows(m, n)
  BY <1>2 DEF Follows
<1> QED BY <1>1, <1>2

\* A command is put into the queue.
LEMMA LineAdd ==
  ASSUME NEW A, NEW a \in Seq(A), NEW C, NEW u \in Seq(C), NEW q \in Seq(C),
         LineOK(a, u, q), NEW c \in C,
         \A m \in In(a) \cup In(u) \cup In(q) : Follows(m, c)
  PROVE  LineOK(a, u, Append(q, c))
<1>1. In(Append(q, c)) = In(q) \cup {c} /\ InLine(Append(q, c))
  BY LineAppend DEF LineOK
<1> QED BY <1>1 DEF LineOK, Before

\* A command of the queue is sent.
LEMMA LineSend ==
  ASSUME NEW A, NEW a \in Seq(A), NEW C, NEW u \in Seq(C), NEW q \in Seq(C),
         LineOK(a, u, q), q # <<>>
  PROVE  LineOK(a, Append(u, Head(q)), Tail(q))
<1>1. /\ Head(q) \in C /\ Head(q) \in In(q)
      /\ In(q) = {Head(q)} \cup In(Tail(q))
      /\ InLine(Tail(q))
      /\ \A m \in In(Tail(q)) : Follows(Head(q), m)
  BY LineTail DEF LineOK
<1>2. \A m \in In(u) : Follows(m, Head(q))
  BY <1>1 DEF LineOK, Before
<1>3. /\ In(Append(u, Head(q))) = In(u) \cup {Head(q)}
      /\ InLine(Append(u, Head(q)))
  BY <1>1, <1>2, LineAppend DEF LineOK
<1>4. Before(Append(u, Head(q)), Tail(q))
  BY <1>1, <1>3 DEF LineOK, Before
<1>5. Before(a, Append(u, Head(q))) /\ Before(a, Tail(q))
  BY <1>1, <1>3 DEF LineOK, Before
<1> QED BY <1>1, <1>3, <1>4, <1>5 DEF LineOK

\* A request is answered: what is answered stands in the line where the request
\* stood.
LEMMA LineReply ==
  ASSUME NEW A, NEW a \in Seq(A), NEW C, NEW u \in Seq(C), NEW q \in Seq(C),
         LineOK(a, u, q), u # <<>>,
         NEW r \in Seq(A), InLine(r),
         \A m \in In(r) : \/ Neutral(m)
                          \/ m.kind = Head(u).kind /\ m.order = Head(u).order
  PROVE  LineOK(a \o r, Tail(u), q)
<1>1. /\ Head(u) \in In(u)
      /\ In(u) = {Head(u)} \cup In(Tail(u))
      /\ InLine(Tail(u))
      /\ \A m \in In(Tail(u)) : Follows(Head(u), m)
  BY LineTail DEF LineOK
<1>2. \A m \in In(r) : \A n : /\ Follows(Head(u), n) => Follows(m, n)
                              /\ Follows(n, Head(u)) => Follows(n, m)
  <2> SUFFICES ASSUME NEW m \in In(r), NEW n
               PROVE  /\ Follows(Head(u), n) => Follows(m, n)
                      /\ Follows(n, Head(u)) => Follows(n, m)
    OBVIOUS
  <2>1. CASE Neutral(m)
    BY <2>1, Anywhere
  <2>2. CASE m.kind = Head(u).kind /\ m.order = Head(u).order
    BY <2>2 DEF Follows
  <2> QED BY <2>1, <2>2
<1>3. Before(a, r) /\ Before(r, Tail(u)) /\ Before(r, q)
  BY <1>1, <1>2 DEF LineOK, Before
<1>4. In(a \o r) = In(a) \cup In(r) /\ InLine(a \o r)
  BY <1>3, LineConcat DEF LineOK
<1>5. Before(a \o r, Tail(u)) /\ Before(a \o r, q) /\ Before(Tail(u), q)
  BY <1>1, <1>3, <1>4 DEF LineOK, Before
<1> QED BY <1>1, <1>4, <1>5 DEF LineOK

\* The library says by itself that it is connected.
LEMMA LineFront ==
  ASSUME NEW A, NEW a \in Seq(A), NEW u, NEW q, LineOK(a, u, q),
         NEW c \in A, Neutral(c)
  PROVE  LineOK(Append(a, c), u, q)
<1>1. In(Append(a, c)) = In(a) \cup {c} /\ InLine(Append(a, c))
  BY LineAppend, Anywhere DEF LineOK
<1> QED BY <1>1, Anywhere DEF LineOK, Before

\* An answer is given to its callback.
LEMMA LineCall ==
  ASSUME NEW A, NEW a \in Seq(A), NEW u, NEW q, LineOK(a, u, q), a # <<>>
  PROVE  /\ LineOK(Tail(a), u, q)
         /\ \A m \in In(Tail(a)) \cup In(u) \cup In(q) : Follows(Head(a), m)
<1>1. /\ In(a) = {Head(a)} \cup In(Tail(a))
      /\ InLine(Tail(a))
      /\ \A m \in In(Tail(a)) : Follows(Head(a), m)
  BY LineTail DEF LineOK
<1> QED BY <1>1 DEF LineOK, Before

\* The connection breaks.
LEMMA LineBreak ==
  ASSUME NEW A, NEW a \in Seq(A), NEW u, NEW q, LineOK(a, u, q),
         NEW k \in 0 .. Len(a)
  PROVE  LineOK(SubSeq(a, 1, k), <<>>, q)
<1>1. /\ In(SubSeq(a, 1, k)) \subseteq In(a)
      /\ InLine(SubSeq(a, 1, k))
  BY LinePrefix DEF LineOK
<1>2. In(<<>>) = {} /\ InLine(<<>>)
  BY DEF In, InLine
<1> QED BY <1>1, <1>2 DEF LineOK, Before

\* Commands of other kinds are put into the queue.
LEMMA LineMore ==
  ASSUME NEW A, NEW a \in Seq(A), NEW C, NEW u \in Seq(C), NEW q \in Seq(C),
         LineOK(a, u, q), NEW r \in Seq(C), \A m \in In(r) : Neutral(m)
  PROVE  LineOK(a, u, q \o r)
<1>1. InLine(r)
  BY Anywhere DEF InLine, In
<1>2. Before(a, r) /\ Before(u, r) /\ Before(q, r)
  BY Anywhere DEF Before
<1>3. In(q \o r) = In(q) \cup In(r) /\ InLine(q \o r)
  BY <1>1, <1>2, LineConcat DEF LineOK
<1> QED BY <1>2, <1>3 DEF LineOK, Before

-----------------------------------------------------------------------------
(* References, and the statuses of orders at the exchange.                 *)

\* The first of the references of an order is one of them.
LEMMA FirstIsOne ==
  ASSUME TraderTypeOK, NEW o, References(o) # {}
  PROVE  FirstReference(o) \in References(o) /\ FirstReference(o) \in Nat
<1>1. References(o) \in SUBSET Nat
  BY DEF References, TraderTypeOK
<1>2. PICK x \in References(o) : \A y \in References(o) : ~ (y < x)
  BY <1>1, Minimum
<1>3. \A y \in References(o) : x <= y
  BY <1>1, <1>2
<1>4. FirstReference(o) \in References(o)
  BY <1>2, <1>3 DEF FirstReference
<1> QED BY <1>1, <1>4

\* The events of s that say how the order o stands, and the last of numbers.
Mine(s, o) == {i \in DOMAIN s : s[i].order = o /\ s[i].status # "Trade"}

LastOf(D) == CHOOSE i \in D : \A j \in D : j <= i

LEMMA LastIsOne ==
  ASSUME NEW n \in Nat, NEW D \in SUBSET (1 .. n), D # {}
  PROVE  LastOf(D) \in D /\ \A j \in D : j <= LastOf(D)
<1> DEFINE B == {k \in Nat : \A j \in D : j <= k}
<1>1. n \in B
  OBVIOUS
<1>2. PICK x \in B : \A y \in B : ~ (y < x)
  BY <1>1, Minimum
<1>3. x \in D
  <2>1. SUFFICES ASSUME x \notin D PROVE FALSE
    OBVIOUS
  <2>2. \A j \in D : j \in Nat /\ j <= x - 1
    BY <1>2, <2>1
  <2>3. x - 1 \in Nat
    <3>1. PICK j \in D : TRUE
      OBVIOUS
    <3>2. j \in Nat /\ j >= 1 /\ j <= x - 1
      BY <2>2
    <3> QED BY <1>2, <3>2
  <2>4. x - 1 \in B
    BY <2>2, <2>3
  <2> QED BY <1>2, <2>4
<1>4. \A j \in D : j <= x
  BY <1>2
<1> QED BY <1>3, <1>4 DEF LastOf

\* Without events an order is not known; with some, the last one counts.
LEMMA StatusLast ==
  ASSUME NEW s \in Seq(Events), NEW o
  PROVE  /\ Mine(s, o) = {} => StatusIn(s, o) = "None"
         /\ Mine(s, o) # {} => /\ StatusIn(s, o) = s[LastOf(Mine(s, o))].status
                               /\ LastOf(Mine(s, o)) \in Mine(s, o)
                               /\ StatusIn(s, o) \in ExchangeStatuses
<1>1. StatusIn(s, o) = IF Mine(s, o) = {} THEN "None"
                       ELSE s[LastOf(Mine(s, o))].status
  BY DEF StatusIn, Mine, LastOf
<1>2. Mine(s, o) \in SUBSET (1 .. Len(s)) /\ Len(s) \in Nat
  BY DEF Mine
<1>3. ASSUME Mine(s, o) # {} PROVE LastOf(Mine(s, o)) \in Mine(s, o)
  BY <1>2, <1>3, LastIsOne
<1>4. \A i \in Mine(s, o) : s[i].status \in ExchangeStatuses
  <2>1. ASSUME NEW i \in Mine(s, o) PROVE s[i].status \in ExchangeStatuses
    <3>1. s[i] \in Events /\ s[i].status # "Trade"
      BY <2>1 DEF Mine
    <3> QED BY <3>1 DEF Events
  <2> QED BY <2>1
<1> QED BY <1>1, <1>3, <1>4

\* An order has a status as soon as something happened to it but a trade.
LEMMA StatusKnown ==
  ASSUME NEW s \in Seq(Events), NEW o
  PROVE  /\ StatusIn(s, o) \in ExchangeStatuses \cup {"None"}
         /\ StatusIn(s, o) # "None" => \E e \in In(s) : e.order = o
         /\ \A e \in In(s) :
              e.order = o /\ e.status # "Trade" => StatusIn(s, o) # "None"
<1>1. "None" \notin ExchangeStatuses
  BY DEF ExchangeStatuses
<1>2. StatusIn(s, o) \in ExchangeStatuses \cup {"None"}
  BY StatusLast
<1>3. ASSUME StatusIn(s, o) # "None" PROVE \E e \in In(s) : e.order = o
  <2>1. Mine(s, o) # {}
    BY <1>3, StatusLast
  <2> QED BY <2>1 DEF Mine, In
<1>4. ASSUME NEW e \in In(s), e.order = o, e.status # "Trade"
      PROVE  StatusIn(s, o) # "None"
  <2>1. Mine(s, o) # {}
    BY <1>4 DEF Mine, In
  <2> QED BY <1>1, <2>1, StatusLast
<1> QED BY <1>2, <1>3, <1>4

\* One more event: it is the status of its order, unless it is a trade, and
\* the others keep theirs.
LEMMA StatusAppend ==
  ASSUME NEW s \in Seq(Events), NEW e \in Events, NEW o
  PROVE  StatusIn(Append(s, e), o) =
           IF e.order = o /\ e.status # "Trade" THEN e.status
                                                ELSE StatusIn(s, o)
<1> DEFINE t == Append(s, e)
<1>1. /\ t \in Seq(Events) /\ Len(s) \in Nat /\ Len(t) = Len(s) + 1
      /\ DOMAIN s = 1 .. Len(s) /\ DOMAIN t = 1 .. Len(s) + 1
      /\ \A i \in DOMAIN s : t[i] = s[i]
      /\ t[Len(s) + 1] = e
  OBVIOUS
<1> HIDE DEF t
<1>2. \A i \in DOMAIN t : i \in DOMAIN s \/ i = Len(s) + 1
  BY <1>1
<1>3. \A i \in DOMAIN s : i \in DOMAIN t /\ i # Len(s) + 1
  BY <1>1
<1>4. CASE e.order = o /\ e.status # "Trade"
  <2>1. Len(s) + 1 \in Mine(t, o)
    BY <1>1, <1>4 DEF Mine
  <2>2. Mine(t, o) \in SUBSET (1 .. Len(s) + 1) /\ Len(s) + 1 \in Nat
    BY <1>1 DEF Mine
  <2>3. /\ LastOf(Mine(t, o)) \in Mine(t, o)
        /\ \A j \in Mine(t, o) : j <= LastOf(Mine(t, o))
    BY <2>1, <2>2, LastIsOne
  <2>4. LastOf(Mine(t, o)) = Len(s) + 1
    BY <2>1, <2>2, <2>3
  <2>5. StatusIn(t, o) = t[LastOf(Mine(t, o))].status
    BY <1>1, <2>1, StatusLast
  <2> QED BY <1>1, <1>4, <2>4, <2>5 DEF t
<1>5. CASE ~(e.order = o /\ e.status # "Trade")
  <2>1. Mine(t, o) = Mine(s, o)
    <3>1. Mine(t, o) \subseteq Mine(s, o)
      BY <1>1, <1>2, <1>5 DEF Mine
    <3>2. Mine(s, o) \subseteq Mine(t, o)
      BY <1>1, <1>3 DEF Mine
    <3> QED BY <3>1, <3>2
  <2>2. CASE Mine(s, o) = {}
    BY <1>1, <1>5, <2>1, <2>2, StatusLast DEF t
  <2>3. CASE Mine(s, o) # {}
    <3>1. LastOf(Mine(s, o)) \in DOMAIN s
      <4>1. LastOf(Mine(s, o)) \in Mine(s, o)
        BY <2>3, StatusLast
      <4> QED BY <4>1 DEF Mine
    <3>2. /\ StatusIn(t, o) = t[LastOf(Mine(t, o))].status
          /\ StatusIn(s, o) = s[LastOf(Mine(s, o))].status
      BY <1>1, <2>1, <2>3, StatusLast
    <3>3. StatusIn(t, o) = StatusIn(s, o)
      BY <1>1, <2>1, <3>1, <3>2
    <3> QED BY <1>5, <3>3 DEF t
  <2> QED BY <2>2, <2>3
<1> QED BY <1>4, <1>5

\* Each row of an answer is one of the events asked for.
LEMMA RowsAre ==
  ASSUME journal \in Seq(Events), NEW kind \in Kinds,
         NEW wanted \in SUBSET (ExchangeStatuses \cup {"Trade"})
  PROVE  /\ Rows(kind, wanted) \in Seq(Answers)
         /\ \A m \in In(Rows(kind, wanted)) :
              /\ m.kind = kind
              /\ m.status \in ExchangeStatuses
              /\ \E e \in In(journal) :
                   /\ e.status \in wanted
                   /\ m.order = e.order
                   /\ m.ref = e.ref
                   /\ m.status = IF e.status = "Trade" THEN "AllTraded"
                                                       ELSE e.status
<1> DEFINE all == [i \in DOMAIN journal |-> i]
           D == {i \in DOMAIN journal : \/ journal[i].status \notin wanted
                                        \/ Overtaken(i, wanted)}
           last == Remaining(all, D)
           Row(e) == Answer(kind, e.order, e.ref,
                            IF e.status = "Trade" THEN "AllTraded"
                                                  ELSE e.status, TRUE)
           rows == [k \in DOMAIN last |-> Row(journal[last[k]])]
<1>1. Rows(kind, wanted) = rows
  BY DEF Rows
<1>2. /\ all \in Seq(DOMAIN journal) /\ DOMAIN all = DOMAIN journal
      /\ \A i \in DOMAIN all : all[i] = i
  OBVIOUS
<1> HIDE DEF all
<1>3. /\ last \in Seq(DOMAIN journal)
      /\ {last[i] : i \in DOMAIN last} = {all[i] : i \in DOMAIN all} \ D
  <2>1. \A i, j \in DOMAIN all : i # j => all[i] # all[j]
    BY <1>2
  <2> HIDE DEF D
  <2> QED BY <1>2, <2>1, RemainingFacts
<1>4. {all[i] : i \in DOMAIN all} = DOMAIN journal
  BY <1>2
<1>5. \A k \in DOMAIN last : /\ last[k] \in DOMAIN journal
                             /\ journal[last[k]].status \in wanted
  <2>1. \A k \in DOMAIN last : last[k] \in DOMAIN journal /\ last[k] \notin D
    <3> HIDE DEF D, last
    <3> QED BY <1>3, <1>4
  <2> QED BY <2>1
<1> HIDE DEF last, D
<1>6. ASSUME NEW k \in DOMAIN last
      PROVE  /\ Row(journal[last[k]]) \in Answers
             /\ journal[last[k]] \in In(journal)
             /\ Row(journal[last[k]]).status \in ExchangeStatuses
  <2>1. journal[last[k]] \in Events
    BY <1>5, <1>6
  <2>2. journal[last[k]] \in In(journal)
    BY <1>5, <1>6 DEF In
  <2>3. (IF journal[last[k]].status = "Trade" THEN "AllTraded"
          ELSE journal[last[k]].status) \in ExchangeStatuses
    BY <2>1 DEF Events, ExchangeStatuses
  <2> QED BY <2>1, <2>2, <2>3 DEF Answer, Answers, Events
<1>7. rows \in Seq(Answers)
  <2>1. DOMAIN last = 1 .. Len(last) /\ Len(last) \in Nat
    BY <1>3
  <2>2. \A k \in 1 .. Len(last) : Row(journal[last[k]]) \in Answers
    BY <1>6, <2>1
  <2> HIDE DEF Row
  <2> QED BY <2>1, <2>2
<1>8. ASSUME NEW m \in In(rows)
      PROVE  /\ m.kind = kind
             /\ m.status \in ExchangeStatuses
             /\ \E e \in In(journal) :
                  /\ e.status \in wanted
                  /\ m.order = e.order
                  /\ m.ref = e.ref
                  /\ m.status = IF e.status = "Trade" THEN "AllTraded"
                                                      ELSE e.status
  <2>1. PICK k \in DOMAIN last : m = Row(journal[last[k]])
    BY DEF In
  <2>2. journal[last[k]] \in In(journal) /\ journal[last[k]].status \in wanted
        /\ m.status \in ExchangeStatuses
    BY <1>5, <1>6, <2>1
  <2> QED BY <2>1, <2>2 DEF Answer
<1> QED BY <1>1, <1>7, <1>8

\* The event that says that an order is at the exchange.
LEMMA EventOf ==
  ASSUME journal \in Seq(Events), NEW o, Status(o) # "None"
  PROVE  LET e == journal[CHOOSE i \in DOMAIN journal : journal[i].order = o]
         IN  e \in In(journal) /\ e \in Events /\ e.order = o
<1> DEFINE i == CHOOSE n \in DOMAIN journal : journal[n].order = o
<1>1. \E n \in DOMAIN journal : journal[n].order = o
  <2>1. \E e \in In(journal) : e.order = o
    BY StatusKnown DEF Status
  <2> QED BY <2>1 DEF In
<1>2. i \in DOMAIN journal /\ journal[i].order = o
  BY <1>1
<1> HIDE DEF i
<1>3. journal[i] \in Events
  BY <1>2
<1> QED BY <1>2, <1>3 DEF i, In

-----------------------------------------------------------------------------
(* Types.                                                                  *)

LEMMA SimpleIsCommand ==
  \A kind \in Kinds : Simple(kind) \in Commands /\ Simple(kind).kind = kind
<1> QED BY DEF Simple, Order, Commands

\* A command that is put into the queue is one.
LEMMA AddTypes ==
  ASSUME TypeInv, NEW c \in Commands, addCommand(c)
  PROVE  commandQueue' \in Seq(Commands)
<1> QED BY DEF TypeInv, TypeOK, TraderTypeOK, addCommand

LEMMA InsertTypes ==
  ASSUME TypeInv, NEW o \in Orders, NEW ref \in Nat, reqOrderInsert(o, ref)
  PROVE  TraderTypeOK'
<1>1. Order("insert", o, ref) \in Commands
  BY DEF Order, Commands, Kinds
<1>2. commandQueue' \in Seq(Commands)
  BY <1>1, AddTypes DEF reqOrderInsert
<1>3. /\ maxOrderRef' \in Nat
      /\ DOMAIN client_orders_index' \subseteq Nat
      /\ \A r \in DOMAIN client_orders_index' :
           client_orders_index'[r] \in Orders
  BY DEF reqOrderInsert, TypeInv, TypeOK, TraderTypeOK
<1> QED BY <1>2, <1>3 DEF reqOrderInsert, TypeInv, TypeOK, TraderTypeOK

LEMMA ActionTypes ==
  ASSUME TypeInv, NEW o \in Orders, reqOrderAction(o)
  PROVE  TraderTypeOK'
<1>1. CASE References(o) = {}
  BY <1>1 DEF reqOrderAction, TypeInv, TypeOK, TraderTypeOK
<1>2. CASE References(o) # {}
  <2>1. FirstReference(o) \in Nat
    BY <1>2, FirstIsOne DEF TypeInv, TypeOK
  <2>2. Order("withdraw", o, FirstReference(o)) \in Commands
    BY <2>1 DEF Order, Commands, Kinds
  <2>3. commandQueue' \in Seq(Commands)
    BY <1>2, <2>2, AddTypes DEF reqOrderAction
  <2> QED BY <2>3 DEF reqOrderAction, TypeInv, TypeOK, TraderTypeOK
<1> QED BY <1>1, <1>2

LEMMA QueryTypes ==
  ASSUME TypeInv, NEW o, reqQryOrder(o)
  PROVE  TraderTypeOK'
<1>1. Simple("order") \in Commands
  BY SimpleIsCommand DEF Kinds
<1>2. CASE References(o) = {}
  BY <1>2 DEF reqQryOrder, TypeInv, TypeOK, TraderTypeOK
<1>3. CASE References(o) # {}
  <2>1. commandQueue' \in Seq(Commands)
    BY <1>1, <1>3, AddTypes DEF reqQryOrder
  <2> QED BY <2>1 DEF reqQryOrder, TypeInv, TypeOK, TraderTypeOK
<1> QED BY <1>2, <1>3

LEMMA LogoutTypes ==
  ASSUME TypeInv, reqUserLogout
  PROVE  TraderTypeOK'
<1>1. Simple("logout") \in Commands
  BY SimpleIsCommand DEF Kinds
<1>2. commandQueue' \in Seq(Commands)
  BY <1>1, AddTypes DEF reqUserLogout
<1> QED BY <1>2 DEF reqUserLogout, TypeInv, TypeOK, TraderTypeOK

\* What is told of an order is a status.
LEMMA TellTypes ==
  ASSUME TypeInv, NEW m, NEW status \in Statuses, Tell(m, status)
  PROVE  told' \in [Orders -> Statuses] /\ astray' \in BOOLEAN
<1>1. told' \in [Orders -> Statuses]
  BY DEF Tell, TypeInv, TypeOK, TraderTypeOK
<1>2. astray' \in BOOLEAN
  BY Zenon DEF Tell, TypeInv, TypeOK, TraderTypeOK
<1> QED BY <1>1, <1>2

LEMMA StatusTypes ==
  \A status \in ExchangeStatuses : SetOrderStatus(status) \in Statuses
<1> QED BY DEF ExchangeStatuses, SetOrderStatus, Statuses

LEMMA CardinalityTypes ==
  ASSUME TypeInv
  PROVE  Cardinality(InitOrders) \in Nat /\ Cardinality(Indexed) \in Nat
<1>1. IsFiniteSet(InitOrders)
  BY GatewayAssumption
<1>2. Indexed \subseteq InitOrders
  BY DEF Indexed
<1>3. IsFiniteSet(Indexed)
  BY <1>1, <1>2, FS_Subset
<1> QED BY <1>1, <1>3, FS_CardinalityType

\* Commands of one kind.
LEMMA TimesTypes ==
  ASSUME NEW n \in Nat, NEW kind \in Kinds
  PROVE  /\ Times(n, Simple(kind)) \in Seq(Commands)
         /\ \A m \in In(Times(n, Simple(kind))) : m.kind = kind
<1>1. Simple(kind) \in Commands /\ Simple(kind).kind = kind
  BY SimpleIsCommand
<1>2. \A i \in 1 .. n : Times(n, Simple(kind))[i] = Simple(kind)
  BY DEF Times
<1>3. DOMAIN Times(n, Simple(kind)) = 1 .. n
  BY DEF Times
<1>4. Times(n, Simple(kind)) \in Seq(Commands)
  BY <1>1 DEF Times
<1> QED BY <1>1, <1>2, <1>3, <1>4 DEF In

LEMMA TypesInit == Init => TypeInv
<1> SUFFICES ASSUME Init PROVE TypeInv
  OBVIOUS
<1>1. TraderTypeOK
  <2>1. maxOrderRef \in Nat
    BY GatewayAssumption DEF Init, TraderInit
  <2>2. client_orders_index = [r \in {} |-> None]
    BY DEF Init, TraderInit
  <2>3. DOMAIN client_orders_index = {}
    BY <2>2
  <2>4. <<>> \in Seq(Commands)
    OBVIOUS
  <2>5. told \in [Orders -> Statuses]
    BY DEF Init, TraderInit, Statuses
  <2> QED BY <2>1, <2>3, <2>4, <2>5 DEF Init, TraderInit, TraderTypeOK
<1>2. /\ <<>> \in Seq(Commands)
      /\ <<>> \in Seq(Answers)
  OBVIOUS
<1>3. journal \in Seq(Events) /\ Len(journal) = 1
  <2>1. Event(None, 1, "NoTradeQueueing") \in Events
    BY DEF Event, Events, ExchangeStatuses
  <2> QED BY <2>1 DEF Init
<1>4. In(answers) = {}
  BY DEF Init, In
<1>5. Nobody \in [order : Orders \cup {None}, ref : Nat]
  BY DEF Nobody
<1>6. fate \in [Orders -> {"new", "dropped", "added", "lost"}]
  BY DEF Init
<1>7. 0 \in 0 .. MaxDrops /\ 0 \in 0 .. MaxRequests
  BY GatewayAssumption
<1>8. read \in 0 .. Len(journal)
  BY <1>3 DEF Init
<1>9. TypeOK
  BY <1>1, <1>2, <1>3, <1>5, <1>6, <1>7, <1>8 DEF Init, TypeOK
<1> QED BY <1>4, <1>9 DEF Init, TypeInv

\* The steps of Start.
LEMMA TypesStart ==
  ASSUME TypeInv, StartStep
  PROVE  TypeInv'
<1> USE DEF TypeInv
<1>1. CASE CreateTrader
  BY <1>1 DEF CreateTrader, Goto, trader, exchange, bounds, TypeOK,
    TraderTypeOK
<1>2. CASE BecomesTradable
  BY <1>2, CardinalityTypes DEF BecomesTradable, Goto, exchange, bounds,
    TypeOK, TraderTypeOK
<1>3. CASE StartTimeout
  <2>1. TraderTypeOK'
    BY <1>3, LogoutTypes DEF StartTimeout
  <2> QED BY <1>3, <2>1 DEF StartTimeout, Goto, exchange, bounds, TypeOK
<1>4. ASSUME NEW o \in InitOrders, QueryInit(o) PROVE TypeInv'
  <2>1. TraderTypeOK'
    BY <1>4, QueryTypes DEF QueryInit
  <2> QED BY <1>4, <2>1 DEF QueryInit, exchange, bounds, TypeOK
<1>5. CASE QueriesSent
  BY <1>5 DEF QueriesSent, Goto, trader, exchange, bounds, TypeOK,
    TraderTypeOK
<1>6. CASE ExchangeReady
  <2> DEFINE t == Times(Cardinality(Indexed), Simple("trade"))
             p == Times(Cardinality(InitOrders), Simple("position"))
  <2>1. t \in Seq(Commands) /\ p \in Seq(Commands)
    BY CardinalityTypes, TimesTypes DEF Kinds
  <2>2. commandQueue' = commandQueue \o t \o p
    BY <1>6 DEF ExchangeReady
  <2>3. commandQueue' \in Seq(Commands)
    <3> HIDE DEF t, p
    <3> QED BY <2>1, <2>2 DEF TypeOK, TraderTypeOK
  <2>4. TraderTypeOK'
    BY <1>6, <2>3 DEF ExchangeReady, TypeOK, TraderTypeOK
  <2> QED BY <1>6, <2>4 DEF ExchangeReady, Goto, exchange, bounds, TypeOK
<1>7. CASE Stop
  <2>1. TraderTypeOK'
    BY <1>7, LogoutTypes DEF Stop
  <2> QED BY <1>7, <2>1 DEF Stop, Goto, exchange, bounds, TypeOK
<1> QED BY <1>1, <1>2, <1>3, <1>4, <1>5, <1>6, <1>7 DEF StartStep

\* The steps of the strategy thread.
LEMMA TypesStrategy ==
  ASSUME TypeInv, StrategyStep
  PROVE  TypeInv'
<1> USE DEF TypeInv
<1>1. ASSUME NEW o \in Orders, AddDropped(o) PROVE TypeInv'
  BY <1>1 DEF AddDropped, trader, exchange, bounds, TypeOK, TraderTypeOK
<1>2. ASSUME NEW o \in Orders, AddReads(o) PROVE TypeInv'
  <2>1. /\ adding' = [order |-> o, ref |-> maxOrderRef]
        /\ maxOrderRef \in Nat
    BY <1>2 DEF AddReads, TypeOK, TraderTypeOK
  <2>2. /\ adding' \in [order : Orders \cup {None}, ref : Nat]
        /\ adding'.order \in Orders
    BY <2>1
  <2>3. calm' \in BOOLEAN
    BY <1>2, Zenon DEF AddReads
  <2> QED BY <1>2, <2>2, <2>3 DEF AddReads, trader, exchange, bounds, TypeOK,
        TraderTypeOK
<1>3. ASSUME NEW o \in Orders, Delete(o) PROVE TypeInv'
  <2>1. TraderTypeOK'
    BY <1>3, ActionTypes DEF Delete
  <2>2. calm' \in BOOLEAN
    BY <1>3, Zenon DEF Delete
  <2>3. requests' \in 0 .. MaxRequests
    BY <1>3, GatewayAssumption DEF Delete, CountRequest, TypeOK
  <2> QED BY <1>3, <2>1, <2>2, <2>3 DEF Delete, exchange, TypeOK
<1>4. ASSUME NEW o \in Orders, Query(o) PROVE TypeInv'
  <2>1. TraderTypeOK'
    BY <1>4, QueryTypes DEF Query
  <2>2. requests' \in 0 .. MaxRequests
    BY <1>4, GatewayAssumption DEF Query, CountRequest, TypeOK
  <2> QED BY <1>4, <2>1, <2>2 DEF Query, exchange, threads, TypeOK
<1>5. CASE AddQueues
  <2>1. adding.order \in Orders /\ adding.ref \in Nat
    BY <1>5 DEF AddQueues, TypeOK
  <2>2. TraderTypeOK'
    BY <1>5, <2>1, InsertTypes DEF AddQueues
  <2>3. calm' \in BOOLEAN
    BY <1>5, Zenon DEF AddQueues
  <2>4. adding' \in [order : Orders \cup {None}, ref : Nat]
        /\ adding' = Nobody
    BY <1>5 DEF AddQueues, Nobody
  <2> QED BY <1>5, <2>2, <2>3, <2>4 DEF AddQueues, exchange, bounds, TypeOK
<1> QED BY <1>1, <1>2, <1>3, <1>4, <1>5 DEF StrategyStep

\* The queue, and the connection.
LEMMA TypesConnection ==
  ASSUME TypeInv, \/ Execute \/ Connect
                  \/ \E kept \in 0 .. Len(answers) : Drop(kept)
  PROVE  TypeInv'
<1> USE DEF TypeInv
<1>1. CASE Execute
  <2>1. commandQueue # <<>> /\ commandQueue \in Seq(Commands)
    BY <1>1 DEF Execute, executed, TypeOK, TraderTypeOK
  <2>2. Tail(commandQueue) \in Seq(Commands) /\ Head(commandQueue) \in Commands
    BY <2>1
  <2>3. up' \in Seq(Commands)
    BY <1>1, <2>2 DEF Execute, TypeOK
  <2>4. TraderTypeOK'
    BY <1>1, <2>2 DEF Execute, executed, TypeOK, TraderTypeOK
  <2> QED BY <1>1, <2>3, <2>4 DEF Execute, threads, bounds, TypeOK
<1>2. CASE Connect
  <2> DEFINE m == Answer("connected", None, 0, "None", TRUE)
  <2>1. m \in Answers /\ m.kind = "connected"
    BY DEF Answer, Answers
  <2> HIDE DEF m
  <2>2. answers' = Append(answers, m)
    BY <1>2 DEF Connect, m
  <2>3. answers' \in Seq(Answers) /\ In(answers') = In(answers) \cup {m}
    BY <2>1, <2>2, LineAppend DEF TypeOK
  <2> QED BY <1>2, <2>1, <2>3 DEF Connect, trader, threads, bounds, TypeOK,
        TraderTypeOK
<1>3. ASSUME NEW kept \in 0 .. Len(answers), Drop(kept) PROVE TypeInv'
  <2>1. answers' = SubSeq(answers, 1, kept) /\ answers \in Seq(Answers)
    BY <1>3 DEF Drop, TypeOK
  <2>2. answers' \in Seq(Answers) /\ In(answers') \subseteq In(answers)
    BY <2>1, LinePrefix
  <2>3. drops' \in 0 .. MaxDrops
    BY <1>3, GatewayAssumption DEF Drop, TypeOK
  <2>4. <<>> \in Seq(Commands)
    OBVIOUS
  <2>5. fate' \in [Orders -> {"new", "dropped", "added", "lost"}]
    <3> DEFINE Lost(o) ==
                 \/ \E i \in DOMAIN up :
                      up[i].kind = "insert" /\ up[i].order = o
                 \/ \E i \in kept + 1 .. Len(answers) :
                      answers[i].kind = "insert" /\ answers[i].order = o
    <3>1. fate' = [o \in Orders |-> IF Lost(o) THEN "lost" ELSE fate[o]]
      BY <1>3 DEF Drop
    <3> HIDE DEF Lost
    <3> QED BY <3>1 DEF TypeOK
  <2>6. /\ up' = <<>> /\ link' = FALSE /\ session' = FALSE
        /\ UNCHANGED <<trader, journal, read, largest, refused, start,
                       unqueried, adding, calm, requests>>
    BY <1>3 DEF Drop
  <2> QED BY <2>2, <2>3, <2>4, <2>5, <2>6 DEF trader, TypeOK, TraderTypeOK
<1> QED BY <1>1, <1>2, <1>3

\* The request in front is answered.
LEMMA TypesDone ==
  ASSUME TypeInv, up # <<>>, NEW r \in Seq(Answers), Done(r),
         \A m \in In(r) : m.kind = "order" => m.status \in ExchangeStatuses
  PROVE  /\ up' \in Seq(Commands)
         /\ answers' \in Seq(Answers)
         /\ \A m \in In(answers') :
              m.kind = "order" => m.status \in ExchangeStatuses
<1>1. up \in Seq(Commands) /\ answers \in Seq(Answers)
  BY DEF TypeInv, TypeOK
<1>2. up' = Tail(up) /\ answers' = answers \o r
  BY DEF Done
<1>3. Tail(up) \in Seq(Commands)
  BY <1>1
<1>4. /\ answers \o r \in Seq(Answers)
      /\ In(answers \o r) = In(answers) \cup In(r)
  BY <1>1, LineConcat
<1> QED BY <1>2, <1>3, <1>4 DEF TypeInv

\* A reply to a request that is not a query.
LEMMA ReplyTypes ==
  ASSUME NEW c \in Commands, NEW ref \in Nat, NEW ok \in BOOLEAN
  PROVE  /\ Reply(c, ref, ok) \in Seq(Answers)
         /\ In(Reply(c, ref, ok)) = {Answer(c.kind, c.order, ref, "None", ok)}
         /\ InLine(Reply(c, ref, ok))
<1> DEFINE m == Answer(c.kind, c.order, ref, "None", ok)
<1>1. m \in Answers
  BY DEF Answer, Answers, Commands
<1> HIDE DEF m
<1>2. /\ <<m>> \in Seq(Answers)
      /\ DOMAIN <<m>> = {1} /\ <<m>>[1] = m
  BY <1>1
<1>3. In(<<m>>) = {m}
  BY <1>2 DEF In
<1>4. InLine(<<m>>)
  BY <1>2 DEF InLine
<1> QED BY <1>2, <1>3, <1>4 DEF m, Reply

LEMMA NoReply == <<>> \in Seq(Answers) /\ In(<<>>) = {} /\ InLine(<<>>)
<1> QED BY DEF In, InLine

\* An event of the exchange.
LEMMA EventTypes ==
  ASSUME TypeInv, NEW e \in Events
  PROVE  /\ Append(journal, e) \in Seq(Events)
         /\ read \in 0 .. Len(Append(journal, e))
<1> QED BY DEF TypeInv, TypeOK

\* The steps of the exchange.
LEMMA TypesExchange ==
  ASSUME TypeInv, CancelInv, ExchangeStep
  PROVE  TypeInv'
<1>1. ASSUME up # <<>>
      PROVE  /\ Head(up) \in Commands /\ Head(up).ref \in Nat
             /\ Head(up).kind \in Kinds
             /\ Head(up).order \in Orders \cup {None}
  <2>1. Head(up) \in Commands
    BY <1>1 DEF TypeInv, TypeOK
  <2> QED BY <2>1 DEF Commands
<1>2. ASSUME up # <<>>, NEW ref \in Nat, NEW ok \in BOOLEAN,
             Head(up).kind # "order", Done(Reply(Head(up), ref, ok))
      PROVE  /\ up' \in Seq(Commands)
             /\ answers' \in Seq(Answers)
             /\ \A m \in In(answers') :
                  m.kind = "order" => m.status \in ExchangeStatuses
  <2> DEFINE r == Reply(Head(up), ref, ok)
             a == Answer(Head(up).kind, Head(up).order, ref, "None", ok)
  <2>1. r \in Seq(Answers) /\ In(r) = {a}
    BY <1>1, <1>2, ReplyTypes
  <2>2. \A m \in In(r) : m.kind = Head(up).kind
    <3> HIDE DEF r
    <3> QED BY <2>1 DEF Answer
  <2> HIDE DEF r, a
  <2>3. Done(r)
    BY <1>2 DEF r
  <2> QED BY <1>2, <2>1, <2>2, <2>3, TypesDone
<1>3. ASSUME up # <<>>, Done(<<>>)
      PROVE  /\ up' \in Seq(Commands)
             /\ answers' \in Seq(Answers)
             /\ \A m \in In(answers') :
                  m.kind = "order" => m.status \in ExchangeStatuses
  BY <1>3, NoReply, TypesDone
<1> USE DEF TypeInv
<1>4. CASE AcceptLogin
  <2>1. /\ up # <<>> /\ Head(up).kind # "order"
        /\ Done(Reply(Head(up), largest, TRUE))
    BY <1>4 DEF AcceptLogin, Request
  <2>2. largest \in Nat /\ read' = 0 /\ read' \in 0 .. Len(journal)
    BY <1>4 DEF AcceptLogin, TypeOK
  <2>3. /\ up' \in Seq(Commands)
        /\ answers' \in Seq(Answers)
        /\ \A m \in In(answers') :
             m.kind = "order" => m.status \in ExchangeStatuses
    BY <1>2, <2>1, <2>2
  <2> QED BY <1>4, <2>1, <2>2, <2>3 DEF AcceptLogin, Done, trader, threads,
        bounds, TypeOK, TraderTypeOK
<1>5. CASE AcceptConfirm
  <2>1. /\ up # <<>> /\ Head(up).kind # "order"
        /\ Done(Reply(Head(up), 0, TRUE))
    BY <1>5 DEF AcceptConfirm, Request
  <2> QED BY <1>2, <1>5, <2>1 DEF AcceptConfirm, Done, trader, threads,
        bounds, TypeOK, TraderTypeOK
<1>6. CASE RefuseSession
  <2>1. /\ up # <<>> /\ Head(up).kind # "order"
        /\ Done(Reply(Head(up), 0, FALSE))
    BY <1>6 DEF RefuseSession, Request
  <2> QED BY <1>2, <1>6, <2>1 DEF RefuseSession, Done, trader, threads,
        bounds, TypeOK, TraderTypeOK
<1>7. CASE AcceptInsert
  <2> DEFINE e == Event(Head(up).order, Head(up).ref, "NoTradeQueueing")
  <2>1. up # <<>> /\ Done(<<>>) /\ journal' = Append(journal, e)
    BY <1>7 DEF AcceptInsert, Request
  <2>2. e \in Events
    BY <1>1, <2>1 DEF Event, Events, ExchangeStatuses
  <2> HIDE DEF e
  <2>3. journal' \in Seq(Events) /\ read \in 0 .. Len(journal')
    BY <2>1, <2>2, EventTypes
  <2> QED BY <1>1, <1>3, <1>7, <2>1, <2>3 DEF AcceptInsert, Done, trader,
        threads, bounds, TypeOK, TraderTypeOK
<1>8. CASE RefuseInsert
  <2>1. /\ up # <<>> /\ Head(up).kind # "order"
        /\ Done(Reply(Head(up), Head(up).ref, FALSE))
    BY <1>8 DEF RefuseInsert, Request
  <2> QED BY <1>1, <1>2, <1>8, <2>1 DEF RefuseInsert, Done, trader, threads,
        bounds, TypeOK, TraderTypeOK
<1>9. CASE AcceptWithdraw
  <2> DEFINE e == Event(Head(up).order, Head(up).ref, "Canceled")
  <2>1. up # <<>> /\ Done(<<>>) /\ journal' = Append(journal, e)
    BY <1>9 DEF AcceptWithdraw, Request
  <2>2. e \in Events
    BY <1>1, <2>1 DEF Event, Events, ExchangeStatuses
  <2> HIDE DEF e
  <2>3. journal' \in Seq(Events) /\ read \in 0 .. Len(journal')
    BY <2>1, <2>2, EventTypes
  <2> QED BY <1>3, <1>9, <2>1, <2>3 DEF AcceptWithdraw, Done, trader,
        threads, bounds, TypeOK, TraderTypeOK
<1>10. CASE RefuseWithdraw
  <2>1. /\ up # <<>> /\ Head(up).kind = "withdraw"
        /\ Done(Reply(Head(up), Head(up).ref, FALSE))
    BY <1>10 DEF RefuseWithdraw, Request
  <2>2. Head(up) \in In(up)
    BY <2>1, LineTail DEF TypeOK
  <2>3. refused' \subseteq Orders
    BY <1>10, <2>1, <2>2 DEF RefuseWithdraw, CancelInv, TypeOK
  <2> QED BY <1>1, <1>2, <1>10, <2>1, <2>3 DEF RefuseWithdraw, Done, trader,
        threads, bounds, TypeOK, TraderTypeOK
<1>11. CASE AnswerQuery
  <2>1. /\ up # <<>>
        /\ \/ Done(Rows("order", ExchangeStatuses))
           \/ Done(Rows("trade", {"Trade"}))
           \/ Done(<<>>)
    BY <1>11 DEF AnswerQuery, Request
  <2>2. ASSUME NEW kind \in Kinds,
               NEW wanted \in SUBSET (ExchangeStatuses \cup {"Trade"}),
               Done(Rows(kind, wanted))
        PROVE  /\ up' \in Seq(Commands)
               /\ answers' \in Seq(Answers)
               /\ \A m \in In(answers') :
                    m.kind = "order" => m.status \in ExchangeStatuses
    <3> DEFINE r == Rows(kind, wanted)
    <3>1. r \in Seq(Answers) /\ \A m \in In(r) : m.status \in ExchangeStatuses
      BY RowsAre DEF TypeOK
    <3> HIDE DEF r
    <3>2. Done(r)
      BY <2>2 DEF r
    <3> QED BY <2>1, <3>1, <3>2, TypesDone
  <2>3. /\ up' \in Seq(Commands)
        /\ answers' \in Seq(Answers)
        /\ \A m \in In(answers') :
             m.kind = "order" => m.status \in ExchangeStatuses
    BY <1>3, <2>1, <2>2 DEF Kinds
  <2>4. UNCHANGED <<trader, link, threads, bounds>>
    BY <2>1 DEF Done
  <2> QED BY <1>11, <2>3, <2>4 DEF AnswerQuery, trader, threads, bounds,
        TypeOK, TraderTypeOK
<1>12. ASSUME NEW o \in Orders, Fill(o) PROVE TypeInv'
  <2> DEFINE f == journal[CHOOSE i \in DOMAIN journal : journal[i].order = o]
             a == Event(o, f.ref, "AllTraded")
             b == Event(o, f.ref, "Trade")
  <2>1. f \in Events
    BY <1>12, EventOf DEF Fill, TypeOK
  <2>2. a \in Events /\ b \in Events
    BY <2>1 DEF Event, Events, ExchangeStatuses
  <2>3. journal' = Append(Append(journal, a), b)
    BY <1>12 DEF Fill
  <2> HIDE DEF a, b
  <2>4. journal' \in Seq(Events) /\ Len(journal') = Len(journal) + 2
    BY <2>2, <2>3 DEF TypeOK
  <2>5. read \in 0 .. Len(journal')
    BY <2>4 DEF TypeOK
  <2> QED BY <1>12, <2>4, <2>5 DEF Fill, trader, threads, bounds, TypeOK,
        TraderTypeOK
<1> QED BY <1>4, <1>5, <1>6, <1>7, <1>8, <1>9, <1>10, <1>11, <1>12
      DEF ExchangeStep

\* The callbacks of the library.
LEMMA TypesCallback ==
  ASSUME TypeInv, CallbackStep
  PROVE  TypeInv'
<1> USE DEF TypeInv
<1>1. ASSUME NEW kind, Callback(kind)
      PROVE  /\ Head(answers) \in Answers /\ Head(answers) \in In(answers)
             /\ Head(answers).ref \in Nat
             /\ answers' \in Seq(Answers)
             /\ In(answers') \subseteq In(answers)
  <2>1. answers # <<>> /\ answers' = Tail(answers) /\ answers \in Seq(Answers)
    BY <1>1 DEF Callback, TypeOK
  <2>2. /\ Head(answers) \in Answers /\ Head(answers) \in In(answers)
        /\ Tail(answers) \in Seq(Answers)
        /\ In(answers) = {Head(answers)} \cup In(Tail(answers))
    BY <2>1, LineTail
  <2>3. Head(answers).ref \in Nat
    BY <2>2 DEF Answers
  <2> QED BY <2>1, <2>2, <2>3
<1>2. ASSUME NEW kind, Callback(kind), TraderTypeOK', calm' \in BOOLEAN
      PROVE  TypeInv'
  BY <1>1, <1>2 DEF Callback, bounds, TypeOK
<1>3. ASSUME NEW c \in Commands, addCommand(c)
      PROVE  commandQueue' \in Seq(Commands)
  BY <1>3, AddTypes
<1>4. /\ Simple("login") \in Commands /\ Simple("confirm") \in Commands
      /\ Simple("instruments") \in Commands
  BY SimpleIsCommand DEF Kinds
<1>5. calm \in BOOLEAN
  BY DEF TypeOK
<1>6. CASE CallConnected
  <2>1. Callback("connected") /\ calm' = calm
    BY <1>6 DEF CallConnected
  <2>2. commandQueue' \in Seq(Commands)
    BY <1>3, <1>4, <1>6 DEF CallConnected, OnFrontConnected
  <2>3. TraderTypeOK'
    BY <1>6, <2>2 DEF CallConnected, OnFrontConnected, TypeOK, TraderTypeOK
  <2> QED BY <1>2, <1>5, <2>1, <2>3
<1>7. CASE CallLogin
  <2>1. Callback("login") /\ OnRspUserLogin(Head(answers))
    BY <1>7 DEF CallLogin
  <2>2. calm' \in BOOLEAN
    BY <1>7, Zenon DEF CallLogin
  <2>3. commandQueue' \in Seq(Commands)
    BY <1>3, <1>4, <2>1 DEF OnRspUserLogin, TypeOK, TraderTypeOK
  <2>4. maxOrderRef' \in Nat
    BY <1>1, <2>1 DEF OnRspUserLogin, TypeOK, TraderTypeOK
  <2>5. TraderTypeOK'
    BY <2>1, <2>3, <2>4 DEF OnRspUserLogin, TypeOK, TraderTypeOK
  <2> QED BY <1>2, <2>1, <2>2, <2>5
<1>8. CASE CallConfirm
  <2>1. /\ Callback("confirm") /\ calm' = calm
        /\ OnRspSettlementInfoConfirm(Head(answers))
    BY <1>8 DEF CallConfirm
  <2>2. commandQueue' \in Seq(Commands)
    BY <1>3, <1>4, <2>1 DEF OnRspSettlementInfoConfirm, TypeOK, TraderTypeOK
  <2>3. TraderTypeOK'
    BY <2>1, <2>2 DEF OnRspSettlementInfoConfirm, TypeOK, TraderTypeOK
  <2> QED BY <1>2, <1>5, <2>1, <2>3
<1>9. CASE CallInsert
  <2>1. /\ Callback("insert") /\ calm' = calm
        /\ OnRspOrderInsert(Head(answers))
    BY <1>9 DEF CallInsert
  <2>2. told' \in [Orders -> Statuses] /\ astray' \in BOOLEAN
    BY <2>1, TellTypes DEF OnRspOrderInsert, Statuses
  <2>3. TraderTypeOK'
    BY <2>1, <2>2 DEF OnRspOrderInsert, TypeOK, TraderTypeOK
  <2> QED BY <1>2, <1>5, <2>1, <2>3
<1>10. CASE CallAction
  <2>1. /\ Callback("withdraw") /\ calm' = calm
        /\ OnRspOrderAction(Head(answers))
    BY <1>10 DEF CallAction
  <2>2. told' \in [Orders -> Statuses] /\ astray' \in BOOLEAN
    BY <2>1, TellTypes DEF OnRspOrderAction, Statuses
  <2>3. TraderTypeOK'
    BY <2>1, <2>2 DEF OnRspOrderAction, TypeOK, TraderTypeOK
  <2> QED BY <1>2, <1>5, <2>1, <2>3
<1>11. CASE CallQuery
  <2>1. calm' = calm
    BY <1>11 DEF CallQuery
  <2>2. CASE Callback("order") /\ OnRspQryOrder(Head(answers))
    <3>1. Head(answers).status \in ExchangeStatuses
      BY <1>1, <2>2 DEF Callback
    <3>2. told' \in [Orders -> Statuses] /\ astray' \in BOOLEAN
      BY <2>2, <3>1, StatusTypes, TellTypes DEF OnRspQryOrder
    <3>3. m_InitQueryNum' \in Nat
      BY <2>2 DEF OnRspQryOrder, TypeOK, TraderTypeOK
    <3>4. TraderTypeOK'
      BY <2>2, <3>2, <3>3 DEF OnRspQryOrder, TypeOK, TraderTypeOK
    <3> QED BY <1>2, <1>5, <2>1, <2>2, <3>4
  <2>3. CASE Callback("trade") /\ OnRspQryTrade(Head(answers))
    <3>1. told' \in [Orders -> Statuses] /\ astray' \in BOOLEAN
      BY <2>3, TellTypes DEF OnRspQryTrade, Statuses
    <3>2. TraderTypeOK'
      BY <2>3, <3>1 DEF OnRspQryTrade, TypeOK, TraderTypeOK
    <3> QED BY <1>2, <1>5, <2>1, <2>3, <3>2
  <2> QED BY <1>11, <2>2, <2>3 DEF CallQuery
<1>12. CASE CallReturn
  <2> DEFINE e == journal[read + 1]
  <2>1. read + 1 \in 1 .. Len(journal) /\ read' = read + 1
    BY <1>12 DEF CallReturn, TypeOK
  <2>2. e \in Events
    BY <2>1 DEF TypeOK
  <2> HIDE DEF e
  <2>3. TraderTypeOK'
    <3>1. CASE e.status = "Trade"
      <4>1. OnRtnTrade(e)
        BY <1>12, <3>1 DEF CallReturn, e
      <4>2. astray' \in BOOLEAN
        BY <4>1, Zenon DEF OnRtnTrade, TypeOK, TraderTypeOK
      <4> QED BY <4>1, <4>2 DEF OnRtnTrade, TypeOK, TraderTypeOK
    <3>2. CASE e.status # "Trade"
      <4>1. OnRtnOrder(e)
        BY <1>12, <3>2 DEF CallReturn, e
      <4>2. SetOrderStatus(e.status) \in Statuses
        BY <2>2, <3>2, StatusTypes DEF Events
      <4>3. told' \in [Orders -> Statuses] /\ astray' \in BOOLEAN
        BY <4>1, <4>2, TellTypes DEF OnRtnOrder
      <4> QED BY <4>1, <4>3 DEF OnRtnOrder, TypeOK, TraderTypeOK
    <3> QED BY <3>1, <3>2
  <2>4. read' \in 0 .. Len(journal)
    BY <2>1 DEF TypeOK
  <2> QED BY <1>12, <2>3, <2>4 DEF CallReturn, threads, bounds, TypeOK
<1> QED BY <1>6, <1>7, <1>8, <1>9, <1>10, <1>11, <1>12 DEF CallbackStep

LEMMA TypesStep ==
  ASSUME TypeInv, CancelInv, [Next]_vars
  PROVE  TypeInv'
<1>1. CASE UNCHANGED vars
  BY <1>1 DEF vars, trader, exchange, threads, bounds, TypeInv, TypeOK,
    TraderTypeOK
<1> QED BY <1>1, TypesStart, TypesStrategy, TypesConnection, TypesExchange,
      TypesCallback DEF Next

-----------------------------------------------------------------------------
(* Cancels are about orders of the strategies.                             *)

LEMMA CancelAdd ==
  ASSUME TypeInv, CancelInv, NEW c \in Commands, addCommand(c), up' = up,
         c.kind = "withdraw" => c.order \in Orders
  PROVE  CancelInv'
<1>1. commandQueue' = Append(commandQueue, c)
  BY DEF addCommand
<1>2. In(commandQueue') = In(commandQueue) \cup {c}
  BY <1>1, LineAppend DEF TypeInv, TypeOK, TraderTypeOK
<1> QED BY <1>2 DEF CancelInv

LEMMA CancelSame ==
  ASSUME CancelInv, UNCHANGED <<commandQueue, up>>
  PROVE  CancelInv'
<1> QED BY DEF CancelInv

LEMMA CancelDone ==
  ASSUME TypeInv, CancelInv, up # <<>>, up' = Tail(up),
         commandQueue' = commandQueue
  PROVE  CancelInv'
<1>1. In(up) = {Head(up)} \cup In(Tail(up))
  BY LineTail DEF TypeInv, TypeOK
<1> QED BY <1>1 DEF CancelInv

LEMMA CancelStep ==
  ASSUME TypeInv, CancelInv, [Next]_vars
  PROVE  CancelInv'
<1>1. \A kind \in Kinds : /\ Simple(kind) \in Commands
                          /\ Simple(kind).kind = kind
  BY SimpleIsCommand
<1>2. ASSUME NEW kind \in Kinds, kind # "withdraw", addCommand(Simple(kind)),
             up' = up
      PROVE  CancelInv'
  BY <1>1, <1>2, CancelAdd
<1>3. CASE StartStep
  <2>1. CASE CreateTrader \/ BecomesTradable \/ QueriesSent
    BY <2>1, CancelSame DEF CreateTrader, BecomesTradable, QueriesSent,
      trader, exchange
  <2>2. CASE StartTimeout \/ Stop
    BY <1>2, <2>2 DEF StartTimeout, Stop, reqUserLogout, exchange, Kinds
  <2>3. ASSUME NEW o \in InitOrders, QueryInit(o) PROVE CancelInv'
    <3>1. up' = up /\ \/ commandQueue' = commandQueue
                      \/ addCommand(Simple("order"))
      BY <2>3 DEF QueryInit, reqQryOrder, exchange
    <3> QED BY <1>2, <3>1, CancelSame DEF Kinds
  <2>4. CASE ExchangeReady
    <3> DEFINE t == Times(Cardinality(Indexed), Simple("trade"))
               p == Times(Cardinality(InitOrders), Simple("position"))
    <3>1. /\ t \in Seq(Commands) /\ p \in Seq(Commands)
          /\ \A m \in In(t) : m.kind = "trade"
          /\ \A m \in In(p) : m.kind = "position"
      BY CardinalityTypes, TimesTypes DEF Kinds
    <3>2. commandQueue' = commandQueue \o t \o p /\ up' = up
      BY <2>4 DEF ExchangeReady, exchange
    <3> HIDE DEF t, p
    <3>3. /\ commandQueue \o t \in Seq(Commands)
          /\ In(commandQueue \o t) = In(commandQueue) \cup In(t)
      BY <3>1, LineConcat DEF TypeInv, TypeOK, TraderTypeOK
    <3>4. In(commandQueue') = In(commandQueue) \cup In(t) \cup In(p)
      <4> DEFINE ct == commandQueue \o t
      <4>1. commandQueue' = ct \o p /\ ct \in Seq(Commands)
        BY <3>2, <3>3
      <4> HIDE DEF ct
      <4>2. In(ct \o p) = In(ct) \cup In(p)
        BY <3>1, <4>1, LineConcat
      <4> QED BY <3>3, <4>1, <4>2 DEF ct
    <3> QED BY <3>1, <3>2, <3>4 DEF CancelInv
  <2> QED BY <1>3, <2>1, <2>2, <2>3, <2>4 DEF StartStep
<1>4. CASE StrategyStep
  <2>1. ASSUME NEW o \in Orders, AddDropped(o) \/ AddReads(o)
        PROVE  CancelInv'
    BY <2>1, CancelSame DEF AddDropped, AddReads, trader, exchange
  <2>2. ASSUME NEW o \in Orders, Delete(o) PROVE CancelInv'
    <3>1. up' = up /\ reqOrderAction(o)
      BY <2>2 DEF Delete, exchange
    <3>2. CASE References(o) = {}
      BY <3>1, <3>2, CancelSame DEF reqOrderAction
    <3>3. CASE References(o) # {}
      <4> DEFINE c == Order("withdraw", o, FirstReference(o))
      <4>1. FirstReference(o) \in Nat
        BY <3>3, FirstIsOne DEF TypeInv, TypeOK
      <4>2. c \in Commands /\ c.order \in Orders
        BY <4>1 DEF Order, Commands, Kinds
      <4>3. addCommand(c)
        BY <3>1, <3>3 DEF reqOrderAction
      <4> HIDE DEF c
      <4> QED BY <3>1, <4>2, <4>3, CancelAdd
    <3> QED BY <3>2, <3>3
  <2>3. ASSUME NEW o \in Orders, Query(o) PROVE CancelInv'
    <3>1. up' = up /\ \/ commandQueue' = commandQueue
                      \/ addCommand(Simple("order"))
      BY <2>3 DEF Query, reqQryOrder, exchange
    <3> QED BY <1>2, <3>1, CancelSame DEF Kinds
  <2>4. CASE AddQueues
    <3> DEFINE c == Order("insert", adding.order, adding.ref)
    <3>1. c \in Commands /\ c.kind = "insert"
      BY <2>4 DEF AddQueues, TypeInv, TypeOK, Order, Commands, Kinds
    <3>2. addCommand(c) /\ up' = up
      BY <2>4 DEF AddQueues, reqOrderInsert, exchange
    <3> HIDE DEF c
    <3> QED BY <3>1, <3>2, CancelAdd
  <2> QED BY <1>4, <2>1, <2>2, <2>3, <2>4 DEF StrategyStep
<1>5. CASE Execute
  <2>1. /\ commandQueue # <<>> /\ commandQueue' = Tail(commandQueue)
        /\ up' = up \/ up' = Append(up, Head(commandQueue))
    BY <1>5 DEF Execute, executed
  <2>2. /\ Head(commandQueue) \in Commands
        /\ In(commandQueue) = {Head(commandQueue)} \cup In(commandQueue')
    BY <2>1, LineTail DEF TypeInv, TypeOK, TraderTypeOK
  <2>3. In(up') \subseteq In(up) \cup {Head(commandQueue)}
    <3>1. CASE up' = up
      BY <3>1
    <3>2. CASE up' = Append(up, Head(commandQueue))
      <4>1. In(Append(up, Head(commandQueue)))
              = In(up) \cup {Head(commandQueue)}
        BY <2>2, LineAppend DEF TypeInv, TypeOK
      <4> QED BY <3>2, <4>1
    <3> QED BY <2>1, <3>1, <3>2
  <2> QED BY <2>2, <2>3 DEF CancelInv
<1>6. CASE Connect
  BY <1>6, CancelSame DEF Connect, trader
<1>7. CASE \E kept \in 0 .. Len(answers) : Drop(kept)
  <2>1. commandQueue' = commandQueue /\ up' = <<>>
    BY <1>7 DEF Drop, trader
  <2>2. In(up') = {}
    BY <2>1, NoReply
  <2> QED BY <2>1, <2>2 DEF CancelInv
<1>8. CASE ExchangeStep
  <2>1. CASE \E o \in Orders : Fill(o)
    BY <2>1, CancelSame DEF Fill, trader
  <2>2. CASE ~\E o \in Orders : Fill(o)
    <3>1. up # <<>> /\ up' = Tail(up) /\ commandQueue' = commandQueue
      BY <1>8, <2>2 DEF ExchangeStep, AcceptLogin, AcceptConfirm,
        RefuseSession, AcceptInsert, RefuseInsert, AcceptWithdraw,
        RefuseWithdraw, AnswerQuery, Request, Done, trader
    <3> QED BY <3>1, CancelDone
  <2> QED BY <2>1, <2>2
<1>9. CASE CallbackStep
  <2>1. up' = up
    BY <1>9 DEF CallbackStep, CallConnected, CallLogin, CallConfirm,
      CallInsert, CallAction, CallQuery, CallReturn, Callback
  <2>2. \/ commandQueue' = commandQueue
        \/ addCommand(Simple("login"))
        \/ addCommand(Simple("confirm"))
        \/ addCommand(Simple("instruments"))
    BY <1>9 DEF CallbackStep, CallConnected, CallLogin, CallConfirm,
      CallInsert, CallAction, CallQuery, CallReturn, OnFrontConnected,
      OnRspUserLogin, OnRspSettlementInfoConfirm, OnRspOrderInsert,
      OnRspOrderAction, OnRspQryOrder, OnRspQryTrade, OnRtnOrder, OnRtnTrade
  <2> QED BY <1>2, <2>1, <2>2, CancelSame DEF Kinds
<1>10. CASE UNCHANGED vars
  BY <1>10, CancelSame DEF vars, trader, exchange
<1> QED BY <1>3, <1>4, <1>5, <1>6, <1>7, <1>8, <1>9, <1>10 DEF Next

-----------------------------------------------------------------------------
(* Calm steps.                                                             *)

\* Steps that only move messages, and send new ones that are right.
LEMMA Traffic ==
  ASSUME CalmInv, calm,
         UNCHANGED <<client_orders_index, maxOrderRef, told, astray, journal,
                     largest>>,
         refused \subseteq refused',
         Line', IndexInv', AddingInv',
         \A m \in Messages' : m \in Messages \/ RequestOK(m),
         \A m \in In(answers') : m \in In(answers) \/ AnswerOK(m)',
         \A o \in Orders : fate'[o] = "added" => fate[o] = "added",
         \A m \in Messages :
           m.kind = "insert" =>
             \/ \E n \in Messages' : n.kind = "insert" /\ n.order = m.order
             \/ m.order \in Orders /\ fate'[m.order] # "added"
  PROVE  CalmInv'
<1>1. \A ref : Client(ref)' = Client(ref)
  BY DEF Client
<1>2. \A o : Status(o)' = Status(o)
  BY DEF Status
<1>3. (\A m \in Messages : RequestOK(m))'
  BY <1>1, <1>2 DEF CalmInv, RequestOK
<1>4. \A m \in In(answers') : AnswerOK(m)'
  <2>1. ASSUME NEW m \in In(answers) PROVE AnswerOK(m)'
    BY <1>1, <1>2, <2>1 DEF CalmInv, AnswerOK, RowOK
  <2> QED BY <2>1
<1>5. (\A e \in In(journal) : EventOK(e))'
  BY <1>1, <1>2 DEF CalmInv, EventOK
<1>6. ASSUME NEW o \in Orders, fate'[o] = "added" PROVE Kept(o)'
  <2>1. Kept(o)
    BY <1>6 DEF CalmInv
  <2>2. CASE Status(o) # "None" \/ told[o] # "None"
    BY <1>2, <2>2 DEF Kept
  <2>3. CASE \E m \in Messages : m.kind = "insert" /\ m.order = o
    BY <1>6, <2>3 DEF Kept
  <2> QED BY <2>1, <2>2, <2>3 DEF Kept
<1>7. ToldIsTrue' /\ ~astray'
  BY <1>2 DEF CalmInv, ToldIsTrue
<1> QED BY <1>3, <1>4, <1>5, <1>6, <1>7 DEF CalmInv

\* A message that leads to an order.
LEMMA LedTo ==
  ASSUME NEW ref, NEW o \in Orders, Client(ref) = o
  PROVE  ref \in DOMAIN client_orders_index /\ client_orders_index[ref] = o
<1>1. o # None
  BY OrderAssumption
<1> QED BY <1>1 DEF Client

\* What is known of the requests of an order that has not been taken yet.
LEMMA NotYet ==
  ASSUME CalmInv, TypeInv, NEW o \in Orders, fate[o] = "new"
  PROVE  /\ References(o) = {}
         /\ Status(o) = "None"
         /\ told[o] = "None"
         /\ \A m \in Messages : ~(m.kind = "insert" /\ m.order = o)
<1>1. \A r \in DOMAIN client_orders_index : client_orders_index[r] # o
  BY DEF CalmInv, IndexInv
<1>2. References(o) = {}
  BY <1>1 DEF References
<1>3. \A ref : Client(ref) # o
  BY <1>1, LedTo
<1>4. Status(o) = "None"
  <2>1. SUFFICES ASSUME Status(o) # "None" PROVE FALSE
    OBVIOUS
  <2>2. PICK e \in In(journal) : e.order = o
    BY <2>1, StatusKnown DEF Status, TypeInv, TypeOK
  <2> QED BY <1>3, <2>2 DEF CalmInv, EventOK
<1>5. told[o] = "None"
  BY DEF CalmInv, IndexInv
<1>6. \A m \in Messages : ~(m.kind = "insert" /\ m.order = o)
  BY <1>3 DEF CalmInv, RequestOK
<1> QED BY <1>2, <1>4, <1>5, <1>6

\* What is in a sequence has its type.
LEMMA InType ==
  ASSUME NEW S, NEW s \in Seq(S), NEW m \in In(s)
  PROVE  m \in S
<1>1. PICK i \in DOMAIN s : m = s[i]
  BY DEF In
<1> QED BY <1>1

\* References are numbers.
LEMMA RefsNat ==
  ASSUME TypeInv
  PROVE  /\ \A m \in Messages : m.ref \in Nat
         /\ \A e \in In(journal) : e.ref \in Nat
<1>1. answers \in Seq(Answers) /\ up \in Seq(Commands)
      /\ commandQueue \in Seq(Commands) /\ journal \in Seq(Events)
  BY DEF TypeInv, TypeOK, TraderTypeOK
<1>2. ASSUME NEW m \in Messages PROVE m.ref \in Nat
  <2>1. m \in Answers \/ m \in Commands
    BY <1>1, <1>2, InType DEF Messages
  <2> QED BY <2>1 DEF Answers, Commands
<1>3. ASSUME NEW e \in In(journal) PROVE e.ref \in Nat
  <2>1. e \in Events
    BY <1>1, <1>3, InType
  <2> QED BY <2>1 DEF Events
<1> QED BY <1>2, <1>3

\* Typing facts in the form the steps need.
LEMMA Sequences ==
  ASSUME TypeInv
  PROVE  /\ answers \in Seq(Answers)
         /\ up \in Seq(Commands)
         /\ commandQueue \in Seq(Commands)
         /\ journal \in Seq(Events)
         /\ maxOrderRef \in Nat /\ largest \in Nat
         /\ told \in [Orders -> Statuses]
<1> QED BY DEF TypeInv, TypeOK, TraderTypeOK

LEMMA CalmInit == Init => CalmInv
<1> SUFFICES ASSUME Init PROVE CalmInv
  OBVIOUS
<1> DEFINE e == Event(None, 1, "NoTradeQueueing")
<1>1. In(answers) = {} /\ In(up) = {} /\ In(commandQueue) = {}
  BY NoReply DEF Init, TraderInit
<1>2. Messages = {}
  BY <1>1 DEF Messages
<1>3. InLine(<<>>)
  BY DEF InLine
<1>4. Line
  <2>1. answers = <<>> /\ up = <<>> /\ commandQueue = <<>>
    BY DEF Init, TraderInit
  <2> QED BY <1>1, <1>3, <2>1 DEF Line, LineOK, Before
<1>5. client_orders_index = [ref \in {} |-> None] /\ tradable = FALSE
  BY DEF Init, TraderInit
<1>6. DOMAIN client_orders_index = {}
  BY <1>5
<1>7. /\ told = [o \in Orders |-> "None"] /\ fate = [o \in Orders |-> "new"]
      /\ adding = Nobody /\ astray = FALSE /\ largest = 1
      /\ journal = <<e>>
  BY DEF Init, TraderInit
<1>8. IndexInv /\ AddingInv
  BY <1>5, <1>6, <1>7 DEF IndexInv, AddingInv
<1>9. In(journal) = {e}
  BY <1>7 DEF In
<1>10. EventOK(e)
  <2>1. e.order = None /\ e.ref = 1
    BY DEF Event
  <2> QED BY <1>6, <1>7, <2>1, OrderAssumption DEF EventOK, Client
<1>11. ToldIsTrue
  BY <1>7 DEF ToldIsTrue
<1>12. \A o \in Orders : fate[o] # "added"
  BY <1>7
<1> HIDE DEF e
<1> QED BY <1>1, <1>2, <1>4, <1>7, <1>8, <1>9, <1>10, <1>11, <1>12
      DEF CalmInv

\* A command that is put into the queue, with all else as it was.
LEMMA CalmAdd ==
  ASSUME TypeInv, CalmInv, calm, NEW c \in Commands, addCommand(c),
         UNCHANGED <<client_orders_index, maxOrderRef, told, astray, exchange,
                     fate>>, IndexInv', AddingInv',
         RequestOK(c), \A m \in Messages : Follows(m, c)
  PROVE  CalmInv'
<1>1. commandQueue' = Append(commandQueue, c)
  BY DEF addCommand
<1>2. In(commandQueue') = In(commandQueue) \cup {c}
  BY <1>1, LineAppend, Sequences
<1>3. LineOK(answers, up, Append(commandQueue, c))
  BY LineAdd, Sequences DEF CalmInv, Line, Messages
<1>4. Line'
  BY <1>1, <1>3 DEF Line, exchange
<1>5. Messages' = Messages \cup {c}
  BY <1>2 DEF Messages, exchange
<1> QED BY <1>4, <1>5, Traffic DEF CalmInv, exchange

LEMMA PartsSame ==
  ASSUME CalmInv, start' = "creating" => start = "creating",
         UNCHANGED <<client_orders_index, maxOrderRef, tradable, told, largest,
                     fate, adding>>
  PROVE  IndexInv' /\ AddingInv'
<1>1. IndexInv'
  BY DEF CalmInv, IndexInv
<1>2. AddingInv'
  BY DEF CalmInv, AddingInv
<1> QED BY <1>1, <1>2

\* Nothing that matters here changes.
LEMMA CalmQuiet ==
  ASSUME TypeInv, CalmInv, calm, IndexInv', AddingInv',
         UNCHANGED <<client_orders_index, maxOrderRef, told, astray, exchange,
                     commandQueue>>,
         \A o \in Orders : fate'[o] = "added" => fate[o] = "added"
  PROVE  CalmInv'
<1>1. Messages' = Messages /\ In(answers') = In(answers)
  BY DEF Messages, exchange
<1>2. Line'
  BY DEF CalmInv, Line, exchange
<1> QED BY <1>1, <1>2, Traffic DEF exchange

\* A query, a logout: commands that are about no order.
LEMMA CalmSimple ==
  ASSUME TypeInv, CalmInv, calm, IndexInv', AddingInv',
         UNCHANGED <<client_orders_index, maxOrderRef, told, astray, exchange,
                     fate>>,
         NEW kind \in Kinds \ {"insert", "withdraw", "login", "confirm"},
         addCommand(Simple(kind))
  PROVE  CalmInv'
<1> DEFINE c == Simple(kind)
<1>1. c \in Commands /\ c.kind = kind
  BY SimpleIsCommand
<1> HIDE DEF c
<1>2. RequestOK(c)
  BY <1>1 DEF RequestOK
<1>3. \A m \in Messages : Follows(m, c)
  BY <1>1, Anywhere DEF Neutral
<1>4. addCommand(c)
  BY DEF c
<1> QED BY <1>1, <1>2, <1>3, <1>4, CalmAdd

LEMMA CalmStart ==
  ASSUME TypeInv, CalmInv, calm, StartStep
  PROVE  CalmInv'
<1>1. CASE CreateTrader \/ BecomesTradable \/ QueriesSent
  <2>1. /\ UNCHANGED <<client_orders_index, maxOrderRef, tradable, told,
                       astray, exchange, commandQueue, fate, adding>>
        /\ start' # "creating"
    BY <1>1 DEF CreateTrader, BecomesTradable, QueriesSent, Goto, trader
  <2>2. IndexInv' /\ AddingInv'
    BY <2>1, PartsSame DEF exchange
  <2> QED BY <2>1, <2>2, CalmQuiet
<1>2. CASE StartTimeout \/ Stop
  <2>1. /\ UNCHANGED <<client_orders_index, maxOrderRef, tradable, told,
                       astray, exchange, fate, adding>>
        /\ start' # "creating"
        /\ addCommand(Simple("logout"))
    BY <1>2 DEF StartTimeout, Stop, Goto, reqUserLogout
  <2>2. IndexInv' /\ AddingInv'
    BY <2>1, PartsSame DEF exchange
  <2> QED BY <2>1, <2>2, CalmSimple DEF Kinds
<1>3. ASSUME NEW o \in InitOrders, QueryInit(o) PROVE CalmInv'
  <2>1. /\ UNCHANGED <<client_orders_index, maxOrderRef, tradable, told,
                       astray, exchange, fate, adding, start>>
        /\ \/ commandQueue' = commandQueue
           \/ addCommand(Simple("order"))
    BY <1>3 DEF QueryInit, reqQryOrder
  <2>2. IndexInv' /\ AddingInv'
    BY <2>1, PartsSame DEF exchange
  <2> QED BY <2>1, <2>2, CalmQuiet, CalmSimple DEF Kinds
<1>4. CASE ExchangeReady
  <2> DEFINE t == Times(Cardinality(Indexed), Simple("trade"))
             p == Times(Cardinality(InitOrders), Simple("position"))
             ct == commandQueue \o t
  <2>1. /\ t \in Seq(Commands) /\ p \in Seq(Commands)
        /\ \A m \in In(t) : m.kind = "trade"
        /\ \A m \in In(p) : m.kind = "position"
    BY CardinalityTypes, TimesTypes DEF Kinds
  <2>2. /\ UNCHANGED <<client_orders_index, maxOrderRef, tradable, told,
                       astray, exchange, fate, adding>>
        /\ start' # "creating"
        /\ commandQueue' = ct \o p
    BY <1>4 DEF ExchangeReady, Goto
  <2>3. IndexInv' /\ AddingInv'
    BY <2>2, PartsSame DEF exchange
  <2> HIDE DEF t, p
  <2>4. /\ \A m \in In(t) : Neutral(m) /\ RequestOK(m)
        /\ \A m \in In(p) : Neutral(m) /\ RequestOK(m)
    BY <2>1 DEF Neutral, RequestOK
  <2>5. /\ ct \in Seq(Commands)
        /\ In(ct) = In(commandQueue) \cup In(t)
        /\ LineOK(answers, up, ct)
    BY <2>1, <2>4, Sequences, LineConcat, LineMore DEF CalmInv, Line
  <2> HIDE DEF ct
  <2>6. /\ In(commandQueue') = In(ct) \cup In(p)
        /\ LineOK(answers, up, commandQueue')
    <3>1. In(ct \o p) = In(ct) \cup In(p) /\ LineOK(answers, up, ct \o p)
      BY <2>1, <2>4, <2>5, Sequences, LineConcat, LineMore
    <3> QED BY <2>2, <3>1
  <2>7. Line'
    BY <2>2, <2>6 DEF Line, exchange
  <2>8. Messages' = Messages \cup In(t) \cup In(p)
    BY <2>2, <2>5, <2>6 DEF Messages, exchange
  <2> QED BY <2>2, <2>3, <2>4, <2>7, <2>8, Traffic DEF exchange
<1> QED BY <1>1, <1>2, <1>3, <1>4 DEF StartStep

\* No login is under way: anything but an order may be put into the queue.
LEMMA NoLogin ==
  ASSUME ~LoginUnderWay
  PROVE  \A m \in Messages : m.kind # "login"
<1> QED BY DEF LoginUnderWay, Messages, In

\* An order is taken: a message for it, and its place in the index.
LEMMA CalmInsert ==
  ASSUME TypeInv, CalmInv, calm, calm', AddQueues
  PROVE  CalmInv'
<1>1. PICK o \in Orders :
        /\ o = adding.order /\ adding # Nobody /\ fate[o] = "new"
        /\ tradable /\ adding.ref = maxOrderRef /\ maxOrderRef > largest
        /\ start # "creating"
  BY DEF AddQueues, TypeInv, CalmInv, AddingInv
<1>2. \A m \in Messages : m.kind # "login"
  BY NoLogin DEF AddQueues
<1>3. /\ References(o) = {}
      /\ Status(o) = "None"
      /\ told[o] = "None"
      /\ \A m \in Messages : ~(m.kind = "insert" /\ m.order = o)
  BY <1>1, NotYet
<1>4. PICK c \in Commands :
        /\ c = Order("insert", o, maxOrderRef)
        /\ c.kind = "insert" /\ c.order = o /\ c.ref = maxOrderRef
  <2> DEFINE d == Order("insert", o, maxOrderRef)
  <2>1. /\ d \in Commands
        /\ d.kind = "insert" /\ d.order = o /\ d.ref = maxOrderRef
    BY <1>1, Sequences DEF Order, Commands, Kinds
  <2> HIDE DEF d
  <2> QED BY <2>1 DEF d
<1>5. /\ client_orders_index' =
           [r \in DOMAIN client_orders_index \cup {maxOrderRef} |->
              IF r = maxOrderRef THEN o ELSE client_orders_index[r]]
      /\ maxOrderRef' = maxOrderRef + 1
      /\ commandQueue' = Append(commandQueue, c)
      /\ UNCHANGED <<tradable, told, astray, exchange, start>>
      /\ adding' = Nobody
      /\ fate' = [fate EXCEPT ![o] = "added"]
  BY <1>1, <1>4 DEF AddQueues, reqOrderInsert, addCommand
<1>6. fate'[o] = "added" /\ \A p \in Orders : p # o => fate'[p] = fate[p]
  BY <1>1, <1>5 DEF TypeInv, TypeOK
<1>7. /\ \A r \in Nat : r < maxOrderRef => Client(r)' = Client(r)
      /\ \A r : r = maxOrderRef => Client(r)' = o
  <2>1. o # None
    BY <1>1, OrderAssumption
  <2>2. \A r \in Nat : r < maxOrderRef => r # maxOrderRef
    BY Sequences
  <2>3. \A r : r # maxOrderRef =>
          (r \in DOMAIN client_orders_index' <=>
             r \in DOMAIN client_orders_index)
    BY <1>5
  <2>4. \A r \in DOMAIN client_orders_index :
          r # maxOrderRef => client_orders_index'[r] = client_orders_index[r]
    BY <1>5
  <2>5. /\ maxOrderRef \in DOMAIN client_orders_index'
        /\ client_orders_index'[maxOrderRef] = o
    BY <1>5
  <2>6. \A r : r # maxOrderRef => Client(r)' = Client(r)
    BY <2>3, <2>4 DEF Client
  <2>7. \A r : r = maxOrderRef => Client(r)' = o
    BY <2>5 DEF Client
  <2> QED BY <2>2, <2>6, <2>7
<1>8. In(commandQueue') = In(commandQueue) \cup {c}
  <2>1. In(Append(commandQueue, c)) = In(commandQueue) \cup {c}
    BY <1>4, LineAppend, Sequences
  <2> QED BY <1>5, <2>1
<1>9. Messages' = Messages \cup {c} /\ In(answers') = In(answers)
  BY <1>5, <1>8 DEF Messages, exchange
<1>10. Line'
  <2>1. \A m \in Messages : Follows(m, c)
    BY <1>2, <1>3, <1>4 DEF Follows
  <2>2. LineOK(answers, up, Append(commandQueue, c))
    BY <1>4, <2>1, LineAdd, Sequences DEF CalmInv, Line, Messages
  <2> QED BY <1>5, <2>2 DEF Line, exchange
<1>11. \A p : Status(p)' = Status(p)
  BY <1>5 DEF Status, exchange
<1>12. IndexInv'
  <2>1. /\ \A r \in DOMAIN client_orders_index' :
             \/ r = maxOrderRef /\ client_orders_index'[r] = o
             \/ /\ r # maxOrderRef /\ r \in DOMAIN client_orders_index
                /\ client_orders_index'[r] = client_orders_index[r]
                /\ client_orders_index[r] # o
    BY <1>3, <1>5 DEF References
  <2>2. \A r \in DOMAIN client_orders_index :
          client_orders_index[r] \in Orders
    BY DEF TypeInv, TypeOK, TraderTypeOK
  <2>3. \A r \in DOMAIN client_orders_index' :
          fate'[client_orders_index'[r]] \in {"added", "lost"}
    BY <1>6, <2>1, <2>2 DEF CalmInv, IndexInv
  <2>4. \A r, q \in DOMAIN client_orders_index' :
          client_orders_index'[r] = client_orders_index'[q] => r = q
    BY <2>1 DEF CalmInv, IndexInv
  <2>5. \A p \in Orders : told'[p] # "None" => fate'[p] \in {"added", "lost"}
    BY <1>3, <1>5, <1>6 DEF CalmInv, IndexInv
  <2> QED BY <2>3, <2>4, <2>5 DEF IndexInv
<1>13. AddingInv'
  <2>1. maxOrderRef' > largest'
    BY <1>1, <1>5, Sequences DEF exchange
  <2> QED BY <1>1, <1>5, <2>1 DEF AddingInv
<1>14. ASSUME NEW m \in Messages PROVE RequestOK(m)'
  <2>1. RequestOK(m) /\ m.ref \in Nat
    BY <1>14, RefsNat DEF CalmInv
  <2>2. m.ref < maxOrderRef => m.ref < maxOrderRef'
    BY <1>5, <2>1, Sequences
  <2>3. maxOrderRef > largest => maxOrderRef' > largest'
    BY <1>5, Sequences DEF exchange
  <2> QED BY <1>5, <1>7, <1>11, <2>1, <2>2, <2>3 DEF RequestOK
<1>15. ASSUME NEW m, m = c PROVE RequestOK(m)'
  <2>1. maxOrderRef < maxOrderRef'
    BY <1>5, Sequences
  <2>2. /\ m.kind = "insert" /\ m.order = o /\ m.ref = maxOrderRef
        /\ o \in Orders
    BY <1>4, <1>15
  <2>3. Status(o)' = "None" /\ told'[o] # "Rejected"
    BY <1>3, <1>5, <1>11
  <2> QED BY <1>7, <2>1, <2>2, <2>3 DEF RequestOK
<1>16. \A r \in Nat : r <= largest => r < maxOrderRef
  BY <1>1, Sequences
<1>17. ASSUME NEW m \in In(answers) PROVE AnswerOK(m)'
  <2>1. AnswerOK(m) /\ m.ref \in Nat
    BY <1>17, RefsNat DEF CalmInv, Messages
  <2>2. RowOK(m) => RowOK(m)'
    BY <1>5, <1>7, <1>11, <1>16, <2>1 DEF RowOK, exchange
  <2> QED BY <1>5, <2>1, <2>2 DEF AnswerOK, exchange
<1>18. ASSUME NEW e \in In(journal) PROVE EventOK(e)'
  <2>1. EventOK(e) /\ e.ref \in Nat
    BY <1>18, RefsNat DEF CalmInv
  <2> QED BY <1>5, <1>7, <1>11, <1>16, <2>1 DEF EventOK, exchange
<1>19. In(journal') = In(journal)
  BY <1>5 DEF exchange
<1>20. ASSUME NEW p \in Orders, fate'[p] = "added" PROVE Kept(p)'
  <2>1. CASE p = o
    BY <1>4, <1>9, <2>1 DEF Kept
  <2>2. CASE p # o
    <3>1. Kept(p)
      BY <1>6, <1>20, <2>2 DEF CalmInv
    <3> QED BY <1>5, <1>9, <1>11, <3>1 DEF Kept
  <2> QED BY <2>1, <2>2
<1>21. ToldIsTrue' /\ ~astray'
  BY <1>5, <1>11 DEF CalmInv, ToldIsTrue, exchange
<1> QED BY <1>9, <1>10, <1>12, <1>13, <1>14, <1>15, <1>17, <1>18, <1>19,
      <1>20, <1>21 DEF CalmInv

LEMMA CalmStrategy ==
  ASSUME TypeInv, CalmInv, calm, calm', StrategyStep
  PROVE  CalmInv'
<1>1. ASSUME NEW o \in Orders, AddDropped(o) PROVE CalmInv'
  <2>1. /\ UNCHANGED <<client_orders_index, maxOrderRef, tradable, told,
                       astray, exchange, commandQueue, adding, start>>
        /\ start = "creating" /\ fate[o] = "new"
        /\ fate' = [fate EXCEPT ![o] = "dropped"]
    BY <1>1 DEF AddDropped, trader
  <2>2. fate'[o] = "dropped" /\ \A p \in Orders : p # o => fate'[p] = fate[p]
    BY <2>1 DEF TypeInv, TypeOK
  <2>3. \A r \in DOMAIN client_orders_index :
          client_orders_index[r] \in Orders
    BY DEF TypeInv, TypeOK, TraderTypeOK
  <2>4. IndexInv'
    BY <2>1, <2>2, <2>3 DEF CalmInv, IndexInv
  <2>5. AddingInv'
    BY <2>1 DEF CalmInv, AddingInv, exchange
  <2> QED BY <2>1, <2>2, <2>4, <2>5, CalmQuiet
<1>2. ASSUME NEW o \in Orders, AddReads(o) PROVE CalmInv'
  <2>1. /\ UNCHANGED <<client_orders_index, maxOrderRef, tradable, told,
                       astray, exchange, commandQueue, fate, start>>
        /\ start # "creating" /\ fate[o] = "new" /\ tradable
        /\ adding' = [order |-> o, ref |-> maxOrderRef]
    BY <1>2 DEF AddReads, trader
  <2>2. IndexInv'
    BY <2>1 DEF CalmInv, IndexInv
  <2>3. AddingInv'
    BY <2>1 DEF CalmInv, AddingInv, exchange
  <2> QED BY <2>1, <2>2, <2>3, CalmQuiet
<1>3. ASSUME NEW o \in Orders, Delete(o) PROVE CalmInv'
  <2>1. /\ UNCHANGED <<client_orders_index, maxOrderRef, tradable, told,
                       astray, exchange, fate, adding, start>>
        /\ ~LoginUnderWay
        /\ \A ref \in References(o) : ref < maxOrderRef
        /\ reqOrderAction(o)
    BY <1>3 DEF Delete, reqOrderAction
  <2>2. IndexInv' /\ AddingInv'
    BY <2>1, PartsSame DEF exchange
  <2>3. CASE References(o) = {}
    <3>1. commandQueue' = commandQueue
      BY <2>1, <2>3 DEF reqOrderAction
    <3> QED BY <2>1, <2>2, <3>1, CalmQuiet
  <2>4. CASE References(o) # {}
    <3>1. /\ FirstReference(o) \in References(o)
          /\ FirstReference(o) \in Nat
      BY <2>4, FirstIsOne DEF TypeInv, TypeOK
    <3>2. PICK c \in Commands :
            /\ c = Order("withdraw", o, FirstReference(o))
            /\ c.kind = "withdraw" /\ c.order = o
            /\ c.ref \in References(o)
      <4> DEFINE d == Order("withdraw", o, FirstReference(o))
      <4>1. /\ d \in Commands
            /\ d.kind = "withdraw" /\ d.order = o
            /\ d.ref \in References(o)
        BY <3>1 DEF Order, Commands, Kinds
      <4> HIDE DEF d
      <4> QED BY <4>1 DEF d
    <3>3. addCommand(c)
      BY <2>1, <2>4, <3>2 DEF reqOrderAction
    <3>4. Client(c.ref) = o
      BY <3>2 DEF References, Client
    <3>5. RequestOK(c)
      BY <2>1, <3>2, <3>4 DEF RequestOK
    <3>6. \A m \in Messages : Follows(m, c)
      BY <2>1, <3>2, NoLogin DEF Follows
    <3> QED BY <2>1, <2>2, <3>3, <3>5, <3>6, CalmAdd
  <2> QED BY <2>3, <2>4
<1>4. ASSUME NEW o \in Orders, Query(o) PROVE CalmInv'
  <2>1. /\ UNCHANGED <<client_orders_index, maxOrderRef, tradable, told,
                       astray, exchange, fate, adding, start>>
        /\ \/ commandQueue' = commandQueue
           \/ addCommand(Simple("order"))
    BY <1>4 DEF Query, reqQryOrder, threads
  <2>2. IndexInv' /\ AddingInv'
    BY <2>1, PartsSame DEF exchange
  <2> QED BY <2>1, <2>2, CalmQuiet, CalmSimple DEF Kinds
<1> QED BY <1>1, <1>2, <1>3, <1>4, CalmInsert DEF StrategyStep

\* A command is sent: it goes from one end of the line to the next.
LEMMA CalmExecute ==
  ASSUME TypeInv, CalmInv, calm, Execute
  PROVE  CalmInv'
<1> DEFINE c == Head(commandQueue)
<1>1. /\ commandQueue # <<>> /\ commandQueue' = Tail(commandQueue)
      /\ up' = Append(up, c)
      /\ UNCHANGED <<client_orders_index, maxOrderRef, tradable, told, astray,
                     answers, journal, largest, refused, fate, adding, start>>
  BY DEF Execute, executed, threads
<1>2. /\ c \in Commands
      /\ In(commandQueue) = {c} \cup In(Tail(commandQueue))
  BY <1>1, LineTail, Sequences
<1>3. In(Append(up, c)) = In(up) \cup {c}
  BY <1>2, LineAppend, Sequences
<1>4. LineOK(answers, Append(up, c), Tail(commandQueue))
  BY <1>1, LineSend, Sequences DEF CalmInv, Line
<1>5. Line'
  BY <1>1, <1>4 DEF Line
<1>6. Messages' = Messages
  <2>1. Messages' = In(commandQueue') \cup In(up') \cup In(answers')
    BY DEF Messages
  <2> QED BY <1>1, <1>2, <1>3, <2>1 DEF Messages
<1>7. IndexInv' /\ AddingInv'
  BY <1>1, PartsSame
<1> QED BY <1>1, <1>5, <1>6, <1>7, Traffic

LEMMA CalmConnect ==
  ASSUME TypeInv, CalmInv, calm, Connect
  PROVE  CalmInv'
<1>1. PICK c \in Answers : /\ c = Answer("connected", None, 0, "None", TRUE)
                           /\ c.kind = "connected"
  <2> DEFINE d == Answer("connected", None, 0, "None", TRUE)
  <2>1. d \in Answers /\ d.kind = "connected"
    BY DEF Answer, Answers
  <2> HIDE DEF d
  <2> QED BY <2>1 DEF d
<1>2. /\ answers' = Append(answers, c)
      /\ UNCHANGED <<client_orders_index, maxOrderRef, tradable, told, astray,
                     up, commandQueue, journal, largest, refused, fate, adding,
                     start>>
  BY <1>1 DEF Connect, trader, threads
<1>3. In(answers') = In(answers) \cup {c}
  <2>1. In(Append(answers, c)) = In(answers) \cup {c}
    BY LineAppend, Sequences
  <2> QED BY <1>2, <2>1
<1>4. LineOK(Append(answers, c), up, commandQueue)
  BY <1>1, LineFront, Sequences DEF CalmInv, Line, Neutral
<1>5. Line'
  BY <1>2, <1>4 DEF Line
<1>6. Messages' = Messages \cup {c}
  <2>1. Messages' = In(commandQueue') \cup In(up') \cup In(answers')
    BY DEF Messages
  <2> QED BY <1>2, <1>3, <2>1 DEF Messages
<1>7. IndexInv' /\ AddingInv'
  BY <1>2, PartsSame
<1>8. RequestOK(c) /\ AnswerOK(c)'
  BY <1>1 DEF RequestOK, AnswerOK
<1> QED BY <1>2, <1>3, <1>5, <1>6, <1>7, <1>8, Traffic

\* What is lost is known to be.
LEMMA CalmDrop ==
  ASSUME TypeInv, CalmInv, calm, NEW kept \in 0 .. Len(answers), Drop(kept)
  PROVE  CalmInv'
<1> DEFINE Lost(o) ==
             \/ \E i \in DOMAIN up : up[i].kind = "insert" /\ up[i].order = o
             \/ \E i \in kept + 1 .. Len(answers) :
                  answers[i].kind = "insert" /\ answers[i].order = o
           front == SubSeq(answers, 1, kept)
<1>1. /\ up' = <<>> /\ answers' = front
      /\ fate' = [o \in Orders |-> IF Lost(o) THEN "lost" ELSE fate[o]]
      /\ UNCHANGED <<client_orders_index, maxOrderRef, tradable, told, astray,
                     commandQueue, journal, largest, refused, adding, start>>
  BY DEF Drop, trader
<1>2. In(up') = {}
  BY <1>1, NoReply
<1>3. /\ In(front) \subseteq In(answers)
      /\ \A m \in In(answers) \ In(front) :
           \E i \in kept + 1 .. Len(answers) : m = answers[i]
      /\ LineOK(front, <<>>, commandQueue)
  BY LinePrefix, LineBreak, Sequences DEF CalmInv, Line
<1>4. \A m \in In(up) \cup (In(answers) \ In(front)) :
        m.kind = "insert" => Lost(m.order)
  BY <1>3 DEF In
<1> HIDE DEF front, Lost
<1>5. \A o \in Orders : fate'[o] = IF Lost(o) THEN "lost" ELSE fate[o]
  BY <1>1
<1>6. Line'
  BY <1>1, <1>3 DEF Line
<1>7. Messages' = In(commandQueue) \cup In(front)
  <2>1. Messages' = In(commandQueue') \cup In(up') \cup In(answers')
    BY DEF Messages
  <2> QED BY <1>1, <1>2, <2>1
<1>8. \A o \in Orders : Lost(o) => fate[o] # "new"
  <2>1. ASSUME NEW o \in Orders, Lost(o)
        PROVE  \E m \in Messages : m.kind = "insert" /\ m.order = o
    BY <2>1, Sequences DEF Lost, Messages, In
  <2> QED BY <2>1, NotYet
<1>9. IndexInv'
  <2>1. \A r \in DOMAIN client_orders_index :
          client_orders_index[r] \in Orders
    BY DEF TypeInv, TypeOK, TraderTypeOK
  <2> QED BY <1>1, <1>5, <2>1 DEF CalmInv, IndexInv
<1>10. AddingInv'
  BY <1>1, <1>5, <1>8 DEF CalmInv, AddingInv, TypeInv
<1>11. \A o \in Orders : fate'[o] = "added" => fate[o] = "added"
  BY <1>5
<1>12. ASSUME NEW m \in Messages, m.kind = "insert"
       PROVE  \/ \E n \in Messages' : n.kind = "insert" /\ n.order = m.order
              \/ m.order \in Orders /\ fate'[m.order] # "added"
  <2>1. CASE m \in Messages'
    BY <1>12, <2>1
  <2>2. CASE m \notin Messages'
    <3>1. m \in In(up) \cup (In(answers) \ In(front))
      BY <1>7, <2>2 DEF Messages
    <3>2. m.order \in Orders
      BY <1>12 DEF CalmInv, RequestOK
    <3> QED BY <1>4, <1>5, <1>12, <3>1, <3>2
  <2> QED BY <2>1, <2>2
<1>13. Messages' \subseteq Messages /\ In(answers') \subseteq In(answers)
  BY <1>1, <1>3, <1>7 DEF Messages
<1> QED BY <1>1, <1>6, <1>9, <1>10, <1>11, <1>12, <1>13, Traffic

\* A request is answered, or a query is.
LEMMA CalmReply ==
  ASSUME TypeInv, CalmInv, calm, up # <<>>, NEW r \in Seq(Answers), Done(r),
         InLine(r),
         \A m \in In(r) :
           /\ \/ Neutral(m)
              \/ m.kind = Head(up).kind /\ m.order = Head(up).order
           /\ RequestOK(m)
           /\ AnswerOK(m)',
         UNCHANGED <<journal, largest>>,
         refused \subseteq refused',
         Head(up).kind = "insert" =>
           \E m \in In(r) : m.kind = "insert" /\ m.order = Head(up).order
  PROVE  CalmInv'
<1>1. /\ up' = Tail(up) /\ answers' = answers \o r
      /\ UNCHANGED <<client_orders_index, maxOrderRef, tradable, told, astray,
                     commandQueue, fate, adding, start>>
  BY DEF Done, trader, threads
<1>2. In(up) = {Head(up)} \cup In(Tail(up))
  BY LineTail, Sequences
<1>3. In(answers') = In(answers) \cup In(r)
  <2>1. In(answers \o r) = In(answers) \cup In(r)
    BY LineConcat, Sequences
  <2> QED BY <1>1, <2>1
<1>4. LineOK(answers \o r, Tail(up), commandQueue)
  BY LineReply, Sequences DEF CalmInv, Line
<1>5. Line'
  BY <1>1, <1>4 DEF Line
<1>6. Messages' =
        In(commandQueue) \cup In(Tail(up)) \cup In(answers) \cup In(r)
  <2>1. Messages' = In(commandQueue') \cup In(up') \cup In(answers')
    BY DEF Messages
  <2> QED BY <1>1, <1>3, <2>1
<1>7. IndexInv' /\ AddingInv'
  BY <1>1, PartsSame
<1>8. \A m \in Messages' : m \in Messages \/ RequestOK(m)
  BY <1>2, <1>6 DEF Messages
<1>9. ASSUME NEW m \in Messages, m.kind = "insert"
      PROVE  \E n \in Messages' : n.kind = "insert" /\ n.order = m.order
  <2>1. CASE m = Head(up)
    BY <1>6, <1>9, <2>1
  <2>2. CASE m # Head(up)
    BY <1>2, <1>6, <1>9, <2>2 DEF Messages
  <2> QED BY <2>1, <2>2
<1> QED BY <1>1, <1>3, <1>5, <1>7, <1>8, <1>9, Traffic

\* A reply that repeats the request.
LEMMA CalmAnswer ==
  ASSUME TypeInv, CalmInv, calm, up # <<>>, NEW ref \in Nat,
         NEW ok \in BOOLEAN, Done(Reply(Head(up), ref, ok)),
         UNCHANGED <<journal, largest>>,
         refused \subseteq refused',
         Head(up).kind \in {"login", "confirm", "insert", "withdraw"},
         Head(up).kind = "login" /\ ok => ref = largest,
         Head(up).kind \in {"insert", "withdraw"} => ref = Head(up).ref,
         Head(up).kind = "withdraw" => Head(up).order \in refused'
  PROVE  CalmInv'
<1>1. Head(up) \in Commands /\ Head(up) \in In(up)
  BY LineTail, Sequences
<1>2. RequestOK(Head(up))
  BY <1>1 DEF CalmInv, Messages
<1>3. PICK c \in Commands : c = Head(up)
  BY <1>1
<1>4. PICK r \in Seq(Answers) : r = Reply(c, ref, ok)
  BY <1>3, ReplyTypes
<1>5. PICK a : a = Answer(c.kind, c.order, ref, "None", ok)
  OBVIOUS
<1>6. a.kind = c.kind /\ a.order = c.order /\ a.ref = ref /\ a.ok = ok
  BY <1>5 DEF Answer
<1>7. In(r) = {a} /\ InLine(r)
  BY <1>4, <1>5, ReplyTypes
<1>8. RequestOK(a)
  BY <1>2, <1>3, <1>6 DEF RequestOK
<1>9. AnswerOK(a)'
  BY <1>3, <1>6 DEF AnswerOK
<1>10. Done(r)
  BY <1>3, <1>4
<1> QED BY <1>3, <1>6, <1>7, <1>8, <1>9, <1>10, CalmReply

\* Every row of an answer says what an event says.
LEMMA CalmRows ==
  ASSUME TypeInv, CalmInv, calm, up # <<>>, Head(up).kind # "insert",
         NEW kind \in {"order", "trade"},
         NEW wanted \in SUBSET (ExchangeStatuses \cup {"Trade"}),
         kind = "trade" => wanted = {"Trade"},
         Done(Rows(kind, wanted)), UNCHANGED <<journal, largest, refused>>
  PROVE  CalmInv'
<1>1. PICK r : r = Rows(kind, wanted)
  OBVIOUS
<1>2. /\ r \in Seq(Answers)
      /\ \A m \in In(r) :
           /\ m.kind = kind
           /\ \E e \in In(journal) :
                /\ e.status \in wanted
                /\ m.order = e.order
                /\ m.ref = e.ref
                /\ m.status = IF e.status = "Trade" THEN "AllTraded"
                                                    ELSE e.status
  BY <1>1, RowsAre, Sequences DEF Kinds
<1>3. \A m \in In(r) : Neutral(m) /\ RequestOK(m)
  BY <1>2 DEF Neutral, RequestOK
<1>4. \A ref : Client(ref)' = Client(ref)
  BY DEF Done, trader, Client
<1>5. \A o : Status(o)' = Status(o)
  BY DEF Status
<1>6. ASSUME NEW m \in In(r) PROVE AnswerOK(m)'
  <2>1. PICK e \in In(journal) :
          /\ e.status \in wanted
          /\ m.order = e.order
          /\ m.ref = e.ref
          /\ m.status = IF e.status = "Trade" THEN "AllTraded" ELSE e.status
    BY <1>2, <1>6
  <2>2. EventOK(e)
    BY DEF CalmInv
  <2>3. kind = "trade" => e.status = "Trade"
    BY <2>1
  <2>4. RowOK(m)'
    BY <1>2, <1>4, <1>5, <1>6, <2>1, <2>2, <2>3 DEF EventOK, RowOK
  <2> QED BY <1>2, <1>6, <2>4 DEF AnswerOK
<1>7. InLine(r)
  BY <1>3, Anywhere DEF InLine, In
<1>8. Done(r)
  BY <1>1
<1> QED BY <1>2, <1>3, <1>6, <1>7, <1>8, CalmReply

\* An order that is at the exchange is cancelled, or filled.
LEMMA StatusMoves ==
  ASSUME TypeInv, CalmInv, calm,
         NEW o \in Orders, Status(o) = "NoTradeQueueing",
         NEW x \in {"Canceled", "AllTraded"},
         \A p : Status(p)' = IF p = o THEN x ELSE Status(p),
         UNCHANGED <<client_orders_index, maxOrderRef, tradable, told, astray,
                     largest, refused, fate, adding, start, answers>>,
         Line',
         Messages' \subseteq Messages,
         \A m \in Messages : m.kind = "insert" => m \in Messages',
         \A e \in In(journal') : e \in In(journal) \/ EventOK(e)'
  PROVE  CalmInv'
<1>1. IndexInv' /\ AddingInv'
  BY PartsSame
<1>2. \A ref : Client(ref)' = Client(ref)
  BY DEF Client
<1>3. ASSUME NEW m \in Messages PROVE RequestOK(m)'
  <2>1. RequestOK(m)
    BY <1>3 DEF CalmInv
  <2>2. m.kind = "insert" => m.order # o
    BY <2>1 DEF RequestOK
  <2> QED BY <1>2, <2>1, <2>2 DEF RequestOK
<1>4. ASSUME NEW m \in In(answers) PROVE AnswerOK(m)'
  <2>1. AnswerOK(m)
    BY <1>4 DEF CalmInv
  <2>2. RowOK(m) => RowOK(m)'
    BY <1>2 DEF RowOK
  <2> QED BY <2>1, <2>2 DEF AnswerOK
<1>5. ASSUME NEW e \in In(journal) PROVE EventOK(e)'
  <2>1. EventOK(e)
    BY <1>5 DEF CalmInv
  <2> QED BY <1>2, <2>1 DEF EventOK
<1>6. ASSUME NEW p \in Orders, fate'[p] = "added" PROVE Kept(p)'
  <2>1. Kept(p)
    BY <1>6 DEF CalmInv
  <2> QED BY <2>1 DEF Kept
<1>7. ToldIsTrue' /\ ~astray'
  BY DEF CalmInv, ToldIsTrue
<1>8. In(answers') = In(answers)
  OBVIOUS
<1> QED BY <1>1, <1>3, <1>4, <1>5, <1>6, <1>7, <1>8 DEF CalmInv

\* A request is taken without an answer.
LEMMA Taken ==
  ASSUME TypeInv, CalmInv, up # <<>>, Done(<<>>)
  PROVE  /\ answers' = answers
         /\ Line'
         /\ Head(up) \in Commands /\ Head(up) \in Messages
         /\ Messages' \subseteq Messages
         /\ \A m \in Messages : m # Head(up) => m \in Messages'
         /\ \A m \in In(answers) : Follows(m, Head(up))
         /\ \A m \in Messages' : m \in In(answers) \/ Follows(Head(up), m)
<1>1. /\ Head(up) \in In(up) /\ Head(up) \in Commands
      /\ In(up) = {Head(up)} \cup In(Tail(up))
      /\ \A m \in In(Tail(up)) : Follows(Head(up), m)
  BY LineTail, Sequences DEF CalmInv, Line, LineOK
<1>2. answers' = answers /\ up' = Tail(up) /\ commandQueue' = commandQueue
  <2>1. answers \o <<>> = answers
    BY Sequences
  <2> QED BY <2>1 DEF Done, trader
<1>3. LineOK(answers \o <<>>, Tail(up), commandQueue)
  <2> DEFINE r == <<>>
  <2>1. r \in Seq(Answers) /\ In(r) = {} /\ InLine(r)
    BY NoReply
  <2> HIDE DEF r
  <2>2. LineOK(answers \o r, Tail(up), commandQueue)
    BY <2>1, LineReply, Sequences DEF CalmInv, Line
  <2> QED BY <2>2 DEF r
<1>4. Line'
  BY <1>2, <1>3 DEF Line, Done
<1>5. Messages' = In(commandQueue) \cup In(Tail(up)) \cup In(answers)
  <2>1. Messages' = In(commandQueue') \cup In(up') \cup In(answers')
    BY DEF Messages
  <2> QED BY <1>2, <2>1
<1>6. \A m \in In(answers) : Follows(m, Head(up))
  BY <1>1 DEF CalmInv, Line, LineOK, Before
<1>7. \A m \in In(commandQueue) : Follows(Head(up), m)
  BY <1>1 DEF CalmInv, Line, LineOK, Before
<1> QED BY <1>1, <1>2, <1>4, <1>5, <1>6, <1>7 DEF Messages

\* The exchange accepts an order: no login is on its way back, no other message
\* brings the order again, and nothing was told of it that is not so now.
LEMMA CalmAccept ==
  ASSUME TypeInv, CalmInv, calm, AcceptInsert
  PROVE  CalmInv'
<1>1. PICK c \in Commands :
        /\ c = Head(up) /\ c.kind = "insert" /\ c.ref > largest
        /\ c.ref \in Nat
        /\ up # <<>> /\ Done(<<>>)
  <2>1. /\ up # <<>> /\ Done(<<>>) /\ Head(up).kind = "insert"
        /\ Head(up).ref > largest
    BY DEF AcceptInsert, Request
  <2>2. Head(up) \in Commands
    BY <2>1, LineTail, Sequences
  <2>3. Head(up).ref \in Nat
    BY <2>2 DEF Commands
  <2> QED BY <2>1, <2>2, <2>3
<1>2. PICK o : o = c.order
  OBVIOUS
<1>3. PICK e \in Events : /\ e = Event(o, c.ref, "NoTradeQueueing")
                          /\ e.order = o /\ e.ref = c.ref
                          /\ e.status = "NoTradeQueueing"
  <2> DEFINE d == Event(o, c.ref, "NoTradeQueueing")
  <2>1. o \in Orders \cup {None}
    BY <1>1, <1>2 DEF Commands
  <2>2. d \in Events /\ d.order = o /\ d.ref = c.ref
        /\ d.status = "NoTradeQueueing"
    BY <1>1, <2>1 DEF Event, Events, ExchangeStatuses
  <2> HIDE DEF d
  <2> QED BY <2>2 DEF d
<1>4. /\ journal' = Append(journal, e) /\ largest' = c.ref
      /\ UNCHANGED <<client_orders_index, maxOrderRef, tradable, told, astray,
                     refused, fate, adding, start>>
  BY <1>1, <1>2, <1>3 DEF AcceptInsert, Done, trader, threads
<1>5. /\ answers' = answers /\ Line'
      /\ c \in Messages
      /\ Messages' \subseteq Messages
      /\ \A m \in Messages : m # c => m \in Messages'
      /\ \A m \in In(answers) : Follows(m, c)
      /\ \A m \in Messages' : m \in In(answers) \/ Follows(c, m)
  BY <1>1, Taken
<1>6. /\ o \in Orders /\ Client(c.ref) = o /\ c.ref < maxOrderRef
      /\ Status(o) = "None" /\ told[o] # "Rejected"
  BY <1>1, <1>2, <1>5 DEF CalmInv, RequestOK
<1>7. \A p : Status(p)' = IF p = o THEN "NoTradeQueueing" ELSE Status(p)
  BY <1>3, <1>4, StatusAppend, Sequences DEF Status
<1>8. In(journal') = In(journal) \cup {e}
  <2>1. In(Append(journal, e)) = In(journal) \cup {e}
    BY LineAppend, Sequences
  <2> QED BY <1>4, <2>1
<1>9. \A ref : Client(ref)' = Client(ref)
  BY <1>4 DEF Client
<1>10. \A r \in Nat : r <= largest => r <= largest'
  BY <1>1, <1>4, Sequences
<1>11. ASSUME NEW m \in Messages' PROVE RequestOK(m)'
  <2>1. RequestOK(m)
    BY <1>5, <1>11 DEF CalmInv
  <2>2. m.kind = "insert" => m.order # o
    BY <1>1, <1>2, <1>5, <1>11 DEF Follows
  <2>3. maxOrderRef > largest'
    BY <1>4, <1>6, <1>1, Sequences
  <2> QED BY <1>4, <1>7, <1>9, <2>1, <2>2, <2>3 DEF RequestOK
<1>12. ASSUME NEW m \in In(answers) PROVE AnswerOK(m)'
  <2>1. AnswerOK(m) /\ m.ref \in Nat
    BY <1>12, RefsNat DEF CalmInv, Messages
  <2>2. m.kind # "login"
    BY <1>1, <1>5, <1>12 DEF Follows
  <2>3. RowOK(m) => RowOK(m)'
    BY <1>6, <1>7, <1>9, <1>10, <2>1 DEF RowOK
  <2> QED BY <1>4, <2>1, <2>2, <2>3 DEF AnswerOK
<1>13. ASSUME NEW f \in In(journal) PROVE EventOK(f)'
  <2>1. EventOK(f) /\ f.ref \in Nat
    BY <1>13, RefsNat DEF CalmInv
  <2> QED BY <1>6, <1>7, <1>9, <1>10, <2>1 DEF EventOK
<1>14. EventOK(e)'
  <2>1. e.ref <= largest'
    BY <1>1, <1>3, <1>4
  <2> QED BY <1>3, <1>6, <1>7, <1>9, <2>1 DEF EventOK
<1>15. ASSUME NEW p \in Orders, fate'[p] = "added" PROVE Kept(p)'
  <2>1. CASE p = o
    BY <1>7, <2>1 DEF Kept
  <2>2. CASE p # o
    <3>1. Kept(p)
      BY <1>4, <1>15 DEF CalmInv
    <3> QED BY <1>2, <1>4, <1>5, <1>7, <2>2, <3>1 DEF Kept
  <2> QED BY <2>1, <2>2
<1>16. ToldIsTrue' /\ ~astray'
  BY <1>4, <1>6, <1>7 DEF CalmInv, ToldIsTrue
<1>17. IndexInv'
  BY <1>4 DEF CalmInv, IndexInv
<1>18. AddingInv'
  <2>1. maxOrderRef' > largest'
    BY <1>1, <1>4, <1>6, Sequences
  <2> QED BY <1>4, <2>1 DEF CalmInv, AddingInv
<1>19. In(answers') = In(answers)
  BY <1>5
<1> QED BY <1>5, <1>8, <1>11, <1>12, <1>13, <1>14, <1>15, <1>16, <1>17,
      <1>18, <1>19 DEF CalmInv

\* An order has one reference, at the exchange and in its cancel.
LEMMA SameReference ==
  ASSUME TypeInv, CalmInv, NEW o \in Orders, NEW r, NEW q,
         Client(r) = o, Client(q) = o
  PROVE  r = q
<1>1. /\ r \in DOMAIN client_orders_index /\ client_orders_index[r] = o
      /\ q \in DOMAIN client_orders_index /\ client_orders_index[q] = o
  BY LedTo
<1> QED BY <1>1 DEF CalmInv, IndexInv

LEMMA CalmCancel ==
  ASSUME TypeInv, CalmInv, calm, AcceptWithdraw
  PROVE  CalmInv'
<1>1. PICK c \in Commands :
        /\ c = Head(up) /\ c.kind = "withdraw"
        /\ Status(c.order) = "NoTradeQueueing"
        /\ up # <<>> /\ Done(<<>>)
  <2>1. /\ up # <<>> /\ Done(<<>>) /\ Head(up).kind = "withdraw"
        /\ Status(Head(up).order) = "NoTradeQueueing"
    BY DEF AcceptWithdraw, Request
  <2>2. Head(up) \in Commands
    BY <2>1, LineTail, Sequences
  <2> QED BY <2>1, <2>2
<1>2. /\ answers' = answers /\ Line'
      /\ c \in Messages
      /\ Messages' \subseteq Messages
      /\ \A m \in Messages : m # c => m \in Messages'
  BY <1>1, Taken
<1>3. PICK o \in Orders : o = c.order /\ Client(c.ref) = o
  BY <1>1, <1>2 DEF CalmInv, RequestOK
<1>4. PICK e \in Events : /\ e = Event(o, c.ref, "Canceled")
                          /\ e.order = o /\ e.ref = c.ref
                          /\ e.status = "Canceled"
  <2> DEFINE d == Event(o, c.ref, "Canceled")
  <2>1. c.ref \in Nat
    BY <1>2, RefsNat
  <2>2. d \in Events /\ d.order = o /\ d.ref = c.ref /\ d.status = "Canceled"
    BY <2>1 DEF Event, Events, ExchangeStatuses
  <2> HIDE DEF d
  <2> QED BY <2>2 DEF d
<1>5. /\ journal' = Append(journal, e)
      /\ UNCHANGED <<client_orders_index, maxOrderRef, tradable, told, astray,
                     largest, refused, fate, adding, start>>
  BY <1>1, <1>3, <1>4 DEF AcceptWithdraw, Done, trader, threads
<1>6. \A p : Status(p)' = IF p = o THEN "Canceled" ELSE Status(p)
  BY <1>4, <1>5, StatusAppend, Sequences DEF Status
<1>7. In(journal') = In(journal) \cup {e}
  <2>1. In(Append(journal, e)) = In(journal) \cup {e}
    BY LineAppend, Sequences
  <2> QED BY <1>5, <2>1
<1>8. PICK f \in In(journal) : f.order = o
  BY <1>1, <1>3, StatusKnown, Sequences DEF Status
<1>9. Client(f.ref) = o /\ f.ref <= largest
  BY <1>8 DEF CalmInv, EventOK
<1>10. c.ref = f.ref
  BY <1>3, <1>9, SameReference
<1>11. Client(c.ref)' = Client(c.ref)
  BY <1>5 DEF Client
<1>12. EventOK(e)'
  BY <1>3, <1>4, <1>5, <1>6, <1>9, <1>10, <1>11 DEF EventOK
<1>13. Status(o) = "NoTradeQueueing"
  BY <1>1, <1>3
<1>14. \A m \in Messages : m.kind = "insert" => m \in Messages'
  BY <1>1, <1>2
<1> QED BY <1>2, <1>5, <1>6, <1>7, <1>12, <1>13, <1>14, StatusMoves

LEMMA CalmFill ==
  ASSUME TypeInv, CalmInv, calm, NEW o \in Orders, Fill(o)
  PROVE  CalmInv'
<1>1. Status(o) = "NoTradeQueueing"
  BY DEF Fill
<1>2. PICK f \in Events :
        /\ f = journal[CHOOSE i \in DOMAIN journal : journal[i].order = o]
        /\ f \in In(journal) /\ f.order = o
  BY <1>1, EventOf, Sequences
<1>3. PICK a \in Events, b \in Events :
        /\ a = Event(o, f.ref, "AllTraded") /\ b = Event(o, f.ref, "Trade")
        /\ a.order = o /\ a.ref = f.ref /\ a.status = "AllTraded"
        /\ b.order = o /\ b.ref = f.ref /\ b.status = "Trade"
  <2> DEFINE d(status) == Event(o, f.ref, status)
  <2>1. f.ref \in Nat
    BY DEF Events
  <2>2. \A status \in {"AllTraded", "Trade"} :
          /\ d(status) \in Events
          /\ d(status).order = o /\ d(status).ref = f.ref
          /\ d(status).status = status
    BY <2>1 DEF Event, Events, ExchangeStatuses
  <2> HIDE DEF d
  <2> QED BY <2>2 DEF d
<1>4. /\ journal' = Append(Append(journal, a), b)
      /\ UNCHANGED <<client_orders_index, maxOrderRef, tradable, told, astray,
                     largest, refused, fate, adding, start, answers, up,
                     commandQueue>>
  BY <1>2, <1>3 DEF Fill, trader, threads
<1>5. /\ Append(journal, a) \in Seq(Events)
      /\ In(Append(journal, a)) = In(journal) \cup {a}
  BY LineAppend, Sequences
<1>6. In(journal') = In(journal) \cup {a, b}
  <2>1. PICK s : s = Append(journal, a)
    OBVIOUS
  <2>2. s \in Seq(Events) /\ In(s) = In(journal) \cup {a}
    BY <1>5, <2>1
  <2>3. In(Append(s, b)) = In(s) \cup {b}
    BY <2>2, LineAppend
  <2>4. journal' = Append(s, b)
    BY <1>4, <2>1
  <2> QED BY <2>2, <2>3, <2>4
<1>7. \A p : Status(p)' = IF p = o THEN "AllTraded" ELSE Status(p)
  <2>1. \A p : StatusIn(Append(journal, a), p)
                 = IF p = o THEN "AllTraded" ELSE Status(p)
    BY <1>3, StatusAppend, Sequences DEF Status
  <2>2. \A p : StatusIn(Append(Append(journal, a), b), p)
                 = StatusIn(Append(journal, a), p)
    BY <1>3, <1>5, StatusAppend
  <2> QED BY <1>4, <2>1, <2>2 DEF Status
<1>8. Client(f.ref) = o /\ f.ref <= largest
  BY <1>2 DEF CalmInv, EventOK
<1>9. Client(f.ref)' = Client(f.ref)
  BY <1>4 DEF Client
<1>10. EventOK(a)' /\ EventOK(b)'
  BY <1>3, <1>4, <1>7, <1>8, <1>9 DEF EventOK
<1>11. Line' /\ Messages' = Messages
  BY <1>4 DEF CalmInv, Line, Messages
<1> QED BY <1>1, <1>4, <1>6, <1>7, <1>10, <1>11, StatusMoves

LEMMA CalmExchange ==
  ASSUME TypeInv, CalmInv, calm, ExchangeStep
  PROVE  CalmInv'
<1>1. ASSUME up # <<>>
      PROVE  /\ Head(up).ref \in Nat
  <2>1. Head(up) \in Commands
    BY <1>1, LineTail, Sequences
  <2> QED BY <2>1 DEF Commands
<1>2. CASE AcceptLogin
  <2>1. largest \in Nat
    BY Sequences
  <2> QED BY <1>2, <2>1, CalmAnswer DEF AcceptLogin, Request
<1>3. CASE AcceptConfirm
  BY <1>3, CalmAnswer DEF AcceptConfirm, Request
<1>4. CASE RefuseSession
  BY <1>4, CalmAnswer DEF RefuseSession, Request
<1>5. CASE RefuseInsert
  BY <1>1, <1>5, CalmAnswer DEF RefuseInsert, Request
<1>6. CASE RefuseWithdraw
  BY <1>1, <1>6, CalmAnswer DEF RefuseWithdraw, Request
<1>7. CASE AnswerQuery
  <2>1. /\ up # <<>> /\ Head(up).kind \notin {"insert", "withdraw"}
        /\ UNCHANGED <<journal, largest, refused>>
    BY <1>7 DEF AnswerQuery, Request
  <2>2. CASE Done(Rows("order", ExchangeStatuses))
    BY <2>1, <2>2, CalmRows
  <2>3. CASE Done(Rows("trade", {"Trade"}))
    BY <2>1, <2>3, CalmRows
  <2>4. CASE Done(<<>>)
    <3>1. PICK r : r = <<>>
      OBVIOUS
    <3>2. r \in Seq(Answers) /\ In(r) = {} /\ InLine(r) /\ Done(r)
      BY <2>4, <3>1, NoReply
    <3> QED BY <2>1, <3>2, CalmReply
  <2> QED BY <1>7, <2>2, <2>3, <2>4 DEF AnswerQuery
<1> QED BY <1>2, <1>3, <1>4, <1>5, <1>6, <1>7, CalmAccept, CalmCancel,
      CalmFill DEF ExchangeStep

-----------------------------------------------------------------------------
(* Callbacks.                                                              *)

\* The answer in front.
LEMMA Called ==
  ASSUME TypeInv, CalmInv, NEW kind, Callback(kind)
  PROVE  \E m \in Answers :
           /\ m = Head(answers) /\ m.kind = kind
           /\ m \in In(answers) /\ RequestOK(m) /\ AnswerOK(m)
           /\ answers' = Tail(answers) /\ answers' \in Seq(Answers)
           /\ In(answers) = {m} \cup In(answers')
           /\ LineOK(answers', up, commandQueue)
           /\ \A n \in In(answers') \cup In(up) \cup In(commandQueue) :
                Follows(m, n)
           /\ UNCHANGED <<up, journal, largest, refused, fate, adding, start>>
<1>1. /\ answers # <<>> /\ Head(answers).kind = kind
      /\ answers' = Tail(answers)
      /\ UNCHANGED <<up, journal, largest, refused, fate, adding, start>>
  BY DEF Callback
<1>2. /\ Tail(answers) \in Seq(Answers)
      /\ Head(answers) \in Answers /\ Head(answers) \in In(answers)
      /\ In(answers) = {Head(answers)} \cup In(Tail(answers))
  BY <1>1, LineTail, Sequences
<1>3. /\ LineOK(Tail(answers), up, commandQueue)
      /\ \A n \in In(Tail(answers)) \cup In(up) \cup In(commandQueue) :
           Follows(Head(answers), n)
  BY <1>1, LineCall, Sequences DEF CalmInv, Line
<1>4. RequestOK(Head(answers)) /\ AnswerOK(Head(answers))
  BY <1>2 DEF CalmInv, Messages
<1>5. PICK m \in Answers : m = Head(answers)
  BY <1>2
<1>6. PICK t : t = Tail(answers)
  OBVIOUS
<1>7. /\ m.kind = kind /\ m \in In(answers) /\ RequestOK(m) /\ AnswerOK(m)
      /\ t \in Seq(Answers)
      /\ In(answers) = {m} \cup In(t)
      /\ LineOK(t, up, commandQueue)
      /\ \A n \in In(t) \cup In(up) \cup In(commandQueue) : Follows(m, n)
  BY <1>1, <1>2, <1>3, <1>4, <1>5, <1>6
<1>8. answers' = t
  BY <1>1, <1>6
<1> QED BY <1>1, <1>5, <1>7, <1>8

\* Something true is told of the order that a message is about.
LEMMA CalmTell ==
  ASSUME TypeInv, CalmInv, calm, NEW m, NEW status \in Statuses \ {"None"},
         Tell(m, status), Client(m.ref) = m.order,
         UNCHANGED <<client_orders_index, maxOrderRef, tradable, largest,
                     journal, refused, fate, adding, start>>,
         Line',
         Messages' \subseteq Messages, In(answers') \subseteq In(answers),
         \A n \in Messages : n.kind = "insert" =>
                               n \in Messages' \/ n.order = m.order,
         m.order \in Orders =>
           /\ status = "Rejected" =>
                /\ Status(m.order) = "None"
                /\ \A n \in Messages' : ~(n.kind = "insert"
                                          /\ n.order = m.order)
           /\ status = "Filled" => Status(m.order) = "AllTraded"
           /\ status = "Cancelled" => \/ Status(m.order) = "Canceled"
                                      \/ m.order \in refused
           /\ status \in {"Pending", "Working"} => Status(m.order) # "None"
  PROVE  CalmInv'
<1>1. /\ \A o \in Orders : told'[o] = IF o = m.order THEN status ELSE told[o]
      /\ ~astray'
  BY DEF Tell, CalmInv
<1>2. \A ref : Client(ref)' = Client(ref)
  BY DEF Client
<1>3. \A o : Status(o)' = Status(o)
  BY DEF Status
<1>4. IndexInv'
  <2>1. ASSUME NEW o \in Orders, told'[o] # "None"
        PROVE  fate'[o] \in {"added", "lost"}
    <3>1. CASE o = m.order
      BY <3>1, LedTo DEF CalmInv, IndexInv
    <3>2. CASE o # m.order
      BY <1>1, <2>1, <3>2 DEF CalmInv, IndexInv
    <3> QED BY <3>1, <3>2
  <2> QED BY <2>1 DEF CalmInv, IndexInv
<1>5. AddingInv'
  BY DEF CalmInv, AddingInv
<1>6. ASSUME NEW n \in Messages' PROVE RequestOK(n)'
  <2>1. RequestOK(n)
    BY <1>6 DEF CalmInv
  <2>2. n.kind = "insert" => told'[n.order] # "Rejected"
    BY <1>1, <1>6, <2>1 DEF RequestOK
  <2> QED BY <1>2, <1>3, <2>1, <2>2 DEF RequestOK
<1>7. ASSUME NEW n \in In(answers) PROVE AnswerOK(n)'
  <2>1. AnswerOK(n)
    BY <1>7 DEF CalmInv
  <2> QED BY <1>2, <1>3, <2>1 DEF AnswerOK, RowOK
<1>8. (\A e \in In(journal) : EventOK(e))'
  BY <1>2, <1>3 DEF CalmInv, EventOK
<1>9. ASSUME NEW o \in Orders, fate'[o] = "added" PROVE Kept(o)'
  <2>1. Kept(o)
    BY <1>9 DEF CalmInv
  <2>2. CASE o = m.order
    BY <1>1, <2>2 DEF Kept
  <2>3. CASE o # m.order
    BY <1>1, <1>3, <2>1, <2>3 DEF Kept
  <2> QED BY <2>2, <2>3
<1>10. ToldIsTrue'
  BY <1>1, <1>3 DEF CalmInv, ToldIsTrue
<1> QED BY <1>1, <1>4, <1>5, <1>6, <1>7, <1>8, <1>9, <1>10 DEF CalmInv

LEMMA CalmConnected ==
  ASSUME TypeInv, CalmInv, calm, CallConnected
  PROVE  CalmInv'
<1>1. PICK m \in Answers :
        /\ m.kind = "connected"
        /\ answers' \in Seq(Answers)
        /\ In(answers) = {m} \cup In(answers')
        /\ LineOK(answers', up, commandQueue)
        /\ UNCHANGED <<up, journal, largest, refused, fate, adding, start>>
  BY Called DEF CallConnected
<1>2. PICK c \in Commands : c = Simple("login") /\ c.kind = "login"
  BY SimpleIsCommand DEF Kinds
<1>3. /\ commandQueue' = Append(commandQueue, c)
      /\ UNCHANGED <<client_orders_index, maxOrderRef, tradable, told, astray>>
  BY <1>2 DEF CallConnected, OnFrontConnected, addCommand
<1>4. In(commandQueue') = In(commandQueue) \cup {c}
  <2>1. In(Append(commandQueue, c)) = In(commandQueue) \cup {c}
    BY LineAppend, Sequences
  <2> QED BY <1>3, <2>1
<1>5. LineOK(answers', up, Append(commandQueue, c))
  BY <1>1, <1>2, LineAdd, Sequences, Anywhere
<1>6. Line'
  BY <1>1, <1>3, <1>5 DEF Line
<1>7. Messages' = In(commandQueue) \cup {c} \cup In(up) \cup In(answers')
  BY <1>1, <1>4 DEF Messages
<1>8. RequestOK(c)
  BY <1>2 DEF RequestOK
<1>9. IndexInv' /\ AddingInv'
  BY <1>1, <1>3, PartsSame
<1>10. \A n \in Messages' : n \in Messages \/ RequestOK(n)
  BY <1>1, <1>7, <1>8 DEF Messages
<1>11. \A n \in Messages : n.kind = "insert" => n \in Messages'
  BY <1>1, <1>7 DEF Messages
<1> QED BY <1>1, <1>3, <1>6, <1>9, <1>10, <1>11, Traffic

\* The login answer: what is behind it in the line is no order and no cancel,
\* so nothing under way has a reference that maxOrderRef could fall below.
LEMMA CalmLogin ==
  ASSUME TypeInv, CalmInv, calm, calm', CallLogin
  PROVE  CalmInv'
<1>1. PICK m \in Answers :
        /\ m = Head(answers) /\ m.kind = "login"
        /\ AnswerOK(m)
        /\ answers' \in Seq(Answers)
        /\ In(answers) = {m} \cup In(answers')
        /\ LineOK(answers', up, commandQueue)
        /\ \A n \in In(answers') \cup In(up) \cup In(commandQueue) :
             Follows(m, n)
        /\ UNCHANGED <<up, journal, largest, refused, fate, adding, start>>
  BY Called DEF CallLogin
<1>2. /\ OnRspUserLogin(m) /\ adding = Nobody
      /\ UNCHANGED <<client_orders_index, tradable, told, astray>>
  BY <1>1 DEF CallLogin, OnRspUserLogin
<1>3. CASE ~m.ok
  <2>1. UNCHANGED <<maxOrderRef, commandQueue>>
    BY <1>2, <1>3 DEF OnRspUserLogin
  <2>2. IndexInv' /\ AddingInv'
    BY <1>1, <1>2, <2>1, PartsSame
  <2>3. Line'
    BY <1>1, <2>1 DEF Line
  <2>4. Messages' = In(commandQueue) \cup In(up) \cup In(answers')
    BY <1>1, <2>1 DEF Messages
  <2>5. /\ Messages' \subseteq Messages
        /\ \A n \in Messages : n.kind = "insert" => n \in Messages'
    BY <1>1, <2>4 DEF Messages
  <2> QED BY <1>1, <1>2, <2>1, <2>2, <2>3, <2>5, Traffic
<1>4. CASE m.ok
  <2>1. PICK c \in Commands : c = Simple("confirm") /\ c.kind = "confirm"
    BY SimpleIsCommand DEF Kinds
  <2>2. /\ commandQueue' = Append(commandQueue, c)
        /\ maxOrderRef' = largest + 1
    BY <1>1, <1>2, <1>4, <2>1 DEF OnRspUserLogin, addCommand, AnswerOK
  <2>3. maxOrderRef' > largest'
    BY <1>1, <2>2, Sequences
  <2>4. In(commandQueue') = In(commandQueue) \cup {c}
    <3>1. In(Append(commandQueue, c)) = In(commandQueue) \cup {c}
      BY LineAppend, Sequences
    <3> QED BY <2>2, <3>1
  <2>5. LineOK(answers', up, Append(commandQueue, c))
    BY <1>1, <2>1, LineAdd, Sequences, Anywhere DEF Neutral
  <2>6. Line'
    BY <1>1, <2>2, <2>5 DEF Line
  <2>7. Messages' = In(commandQueue) \cup {c} \cup In(up) \cup In(answers')
    BY <1>1, <2>4 DEF Messages
  <2>8. \A n \in Messages' : n.kind \notin {"insert", "withdraw"}
    BY <1>1, <2>1, <2>7 DEF Follows
  <2>9. \A n \in Messages' : RequestOK(n)'
    BY <2>3, <2>8 DEF RequestOK
  <2>10. \A ref : Client(ref)' = Client(ref)
    BY <1>2 DEF Client
  <2>11. \A o : Status(o)' = Status(o)
    BY <1>1 DEF Status
  <2>12. ASSUME NEW n \in In(answers') PROVE AnswerOK(n)'
    <3>1. AnswerOK(n)
      BY <1>1, <2>12 DEF CalmInv
    <3> QED BY <1>1, <2>10, <2>11, <3>1 DEF AnswerOK, RowOK
  <2>13. (\A e \in In(journal) : EventOK(e))'
    BY <1>1, <2>10, <2>11 DEF CalmInv, EventOK
  <2>14. ASSUME NEW o \in Orders, fate'[o] = "added" PROVE Kept(o)'
    <3>1. Kept(o)
      BY <1>1, <2>14 DEF CalmInv
    <3>2. \A n \in Messages : n.kind # "insert"
      BY <1>1, <2>7, <2>8 DEF Messages
    <3> QED BY <1>2, <2>11, <3>1, <3>2 DEF Kept
  <2>15. IndexInv'
    BY <1>1, <1>2 DEF CalmInv, IndexInv
  <2>16. AddingInv'
    BY <1>1, <1>2, <2>3 DEF CalmInv, AddingInv
  <2>17. ToldIsTrue' /\ ~astray'
    BY <1>1, <1>2, <2>11 DEF CalmInv, ToldIsTrue
  <2> QED BY <2>6, <2>9, <2>12, <2>13, <2>14, <2>15, <2>16, <2>17 DEF CalmInv
<1> QED BY <1>3, <1>4

\* The session is confirmed: the next reference is above all accepted ones.
LEMMA CalmConfirm ==
  ASSUME TypeInv, CalmInv, calm, CallConfirm
  PROVE  CalmInv'
<1>1. PICK m \in Answers :
        /\ m = Head(answers) /\ m.kind = "confirm"
        /\ RequestOK(m)
        /\ answers' \in Seq(Answers)
        /\ In(answers) = {m} \cup In(answers')
        /\ LineOK(answers', up, commandQueue)
        /\ UNCHANGED <<up, journal, largest, refused, fate, adding, start>>
  BY Called DEF CallConfirm
<1>2. /\ OnRspSettlementInfoConfirm(m)
      /\ UNCHANGED <<client_orders_index, maxOrderRef, told, astray>>
  BY <1>1 DEF CallConfirm, OnRspSettlementInfoConfirm
<1>3. CASE ~m.ok
  <2>1. UNCHANGED <<tradable, commandQueue>>
    BY <1>2, <1>3 DEF OnRspSettlementInfoConfirm
  <2>2. IndexInv' /\ AddingInv'
    BY <1>1, <1>2, <2>1, PartsSame
  <2>3. Line'
    BY <1>1, <2>1 DEF Line
  <2>4. Messages' = In(commandQueue) \cup In(up) \cup In(answers')
    BY <1>1, <2>1 DEF Messages
  <2>5. /\ Messages' \subseteq Messages
        /\ \A n \in Messages : n.kind = "insert" => n \in Messages'
    BY <1>1, <2>4 DEF Messages
  <2> QED BY <1>1, <1>2, <2>1, <2>2, <2>3, <2>5, Traffic
<1>4. CASE m.ok
  <2>1. PICK c \in Commands : c = Simple("instruments")
                              /\ c.kind = "instruments"
    BY SimpleIsCommand DEF Kinds
  <2>2. commandQueue' = Append(commandQueue, c) /\ tradable' = TRUE
    BY <1>2, <1>4, <2>1 DEF OnRspSettlementInfoConfirm, addCommand
  <2>3. In(commandQueue') = In(commandQueue) \cup {c}
    <3>1. In(Append(commandQueue, c)) = In(commandQueue) \cup {c}
      BY LineAppend, Sequences
    <3> QED BY <2>2, <3>1
  <2>4. LineOK(answers', up, Append(commandQueue, c))
    BY <1>1, <2>1, LineAdd, Sequences, Anywhere DEF Neutral
  <2>5. Line'
    BY <1>1, <2>2, <2>4 DEF Line
  <2>6. Messages' = In(commandQueue) \cup {c} \cup In(up) \cup In(answers')
    BY <1>1, <2>3 DEF Messages
  <2>7. RequestOK(c)
    BY <2>1 DEF RequestOK
  <2>8. \A n \in Messages' : n \in Messages \/ RequestOK(n)
    BY <1>1, <2>6, <2>7 DEF Messages
  <2>9. \A n \in Messages : n.kind = "insert" => n \in Messages'
    BY <1>1, <2>6 DEF Messages
  <2>10. IndexInv'
    BY <1>1, <1>2 DEF CalmInv, IndexInv
  <2>11. AddingInv'
    <3>1. maxOrderRef > largest
      BY <1>1 DEF RequestOK
    <3> QED BY <1>1, <1>2, <2>2, <3>1 DEF CalmInv, AddingInv
  <2> QED BY <1>1, <1>2, <2>5, <2>8, <2>9, <2>10, <2>11, Traffic
<1> QED BY <1>3, <1>4

\* What is told by a callback is true.
LEMMA CalmTold ==
  ASSUME TypeInv, CalmInv, calm,
         CallInsert \/ CallAction \/ CallQuery
  PROVE  CalmInv'
<1>1. ASSUME NEW kind, Callback(kind),
             UNCHANGED <<client_orders_index, maxOrderRef, tradable,
                         commandQueue>>,
             NEW status \in Statuses \ {"None"},
             Tell(Head(answers), status),
             kind \in {"insert", "withdraw", "order", "trade"},
             kind = "insert" => status = "Rejected",
             kind = "withdraw" => status = "Cancelled",
             kind = "trade" => status = "Filled",
             kind = "order" => status = SetOrderStatus(Head(answers).status)
      PROVE  CalmInv'
  <2>1. PICK m \in Answers :
          /\ m = Head(answers) /\ m.kind = kind
          /\ m \in In(answers) /\ RequestOK(m) /\ AnswerOK(m)
          /\ In(answers) = {m} \cup In(answers')
          /\ LineOK(answers', up, commandQueue)
          /\ \A n \in In(answers') \cup In(up) \cup In(commandQueue) :
               Follows(m, n)
          /\ UNCHANGED <<up, journal, largest, refused, fate, adding, start>>
    BY <1>1, Called
  <2>2. Line'
    BY <1>1, <2>1 DEF Line
  <2>3. Messages' = In(commandQueue) \cup In(up) \cup In(answers')
    BY <1>1, <2>1 DEF Messages
  <2>4. /\ Messages' \subseteq Messages /\ In(answers') \subseteq In(answers)
        /\ \A n \in Messages : n = m \/ n \in Messages'
    BY <2>1, <2>3 DEF Messages
  <2>5. Client(m.ref) = m.order
    BY <1>1, <2>1 DEF RequestOK, AnswerOK, RowOK
  <2>6. Tell(m, status)
    BY <1>1, <2>1
  <2>7. CASE kind = "insert"
    <3>1. status = "Rejected" /\ m.kind = "insert"
      BY <1>1, <2>1, <2>7
    <3>2. Status(m.order) = "None"
      BY <2>1, <3>1 DEF RequestOK
    <3>3. \A n \in Messages' : ~(n.kind = "insert" /\ n.order = m.order)
      BY <2>1, <2>3, <3>1 DEF Follows
    <3> QED BY <1>1, <2>1, <2>2, <2>4, <2>5, <2>6, <3>1, <3>2, <3>3, CalmTell
  <2>8. CASE kind = "withdraw"
    <3>1. status = "Cancelled" /\ m.kind = "withdraw"
      BY <1>1, <2>1, <2>8
    <3>2. m.order \in refused
      BY <2>1, <3>1 DEF AnswerOK
    <3> QED BY <1>1, <2>1, <2>2, <2>4, <2>5, <2>6, <3>1, <3>2, CalmTell
  <2>9. CASE kind \in {"order", "trade"}
    <3>1. RowOK(m) /\ m.kind # "insert"
      BY <2>1, <2>9 DEF AnswerOK
    <3>2. CASE kind = "trade"
      <4>1. status = "Filled" /\ m.kind = "trade"
        BY <1>1, <2>1, <3>2
      <4> QED BY <1>1, <2>1, <2>2, <2>4, <2>5, <2>6, <3>1, <4>1, CalmTell
            DEF RowOK
    <3>3. CASE kind = "order"
      <4>1. m.status \in ExchangeStatuses /\ status = SetOrderStatus(m.status)
        BY <1>1, <2>1, <3>3 DEF TypeInv
      <4>2. /\ status # "Rejected"
            /\ status = "Filled" => m.status = "AllTraded"
            /\ status = "Cancelled" => m.status = "Canceled"
        BY <4>1 DEF ExchangeStatuses, SetOrderStatus
      <4> QED BY <1>1, <2>1, <2>2, <2>4, <2>5, <2>6, <3>1, <4>2, CalmTell
            DEF RowOK
    <3> QED BY <2>9, <3>2, <3>3
  <2> QED BY <1>1, <2>7, <2>8, <2>9
<1>2. CASE CallInsert
  BY <1>1, <1>2 DEF CallInsert, OnRspOrderInsert, Statuses
<1>3. CASE CallAction
  BY <1>1, <1>3 DEF CallAction, OnRspOrderAction, Statuses
<1>4. CASE Callback("trade") /\ OnRspQryTrade(Head(answers))
  BY <1>1, <1>4 DEF OnRspQryTrade, Statuses
<1>5. CASE Callback("order") /\ OnRspQryOrder(Head(answers))
  <2>1. Head(answers) \in In(answers) /\ Head(answers).kind = "order"
    BY <1>5, Called
  <2>2. Head(answers).status \in ExchangeStatuses
    BY <2>1 DEF TypeInv
  <2>3. SetOrderStatus(Head(answers).status) \in Statuses \ {"None"}
    BY <2>2 DEF ExchangeStatuses, SetOrderStatus, Statuses
  <2> QED BY <1>1, <1>5, <2>3 DEF OnRspQryOrder
<1> QED BY <1>2, <1>3, <1>4, <1>5 DEF CallQuery

\* So is what happened to the orders of the day.
LEMMA CalmReturn ==
  ASSUME TypeInv, CalmInv, calm, CallReturn
  PROVE  CalmInv'
<1>1. PICK e : e = journal[read + 1]
  OBVIOUS
<1>2. e \in In(journal) /\ e \in Events
  <2>1. read + 1 \in DOMAIN journal
    BY Sequences DEF CallReturn, TypeInv, TypeOK
  <2> QED BY <1>1, <2>1, Sequences DEF In
<1>3. EventOK(e)
  BY <1>2 DEF CalmInv
<1>4. UNCHANGED <<client_orders_index, maxOrderRef, tradable, commandQueue,
                  answers, up, journal, largest, refused, fate, adding, start>>
  BY DEF CallReturn, OnRtnTrade, OnRtnOrder, threads
<1>5. Line' /\ Messages' = Messages /\ In(answers') = In(answers)
  BY <1>4 DEF CalmInv, Line, Messages
<1>6. CASE e.status = "Trade"
  <2>1. OnRtnTrade(e)
    BY <1>1, <1>6 DEF CallReturn
  <2>2. told' = told /\ astray' = astray
    BY <1>3, <2>1 DEF OnRtnTrade, EventOK, CalmInv, TypeInv, TypeOK,
      TraderTypeOK
  <2>3. IndexInv' /\ AddingInv'
    BY <1>4, <2>2, PartsSame
  <2> QED BY <1>4, <1>5, <2>2, <2>3, Traffic
<1>7. CASE e.status # "Trade"
  <2>1. OnRtnOrder(e)
    BY <1>1, <1>7 DEF CallReturn
  <2>2. e.status \in ExchangeStatuses
    BY <1>2, <1>7 DEF Events
  <2>3. PICK status : status = SetOrderStatus(e.status)
    OBVIOUS
  <2>4. /\ status \in Statuses \ {"None"}
        /\ status # "Rejected"
        /\ status = "Filled" => e.status = "AllTraded"
        /\ status = "Cancelled" => e.status = "Canceled"
    BY <2>2, <2>3 DEF ExchangeStatuses, SetOrderStatus, Statuses
  <2>5. Tell(e, status)
    BY <2>1, <2>3 DEF OnRtnOrder
  <2> QED BY <1>3, <1>4, <1>5, <2>4, <2>5, CalmTell DEF EventOK
<1> QED BY <1>6, <1>7

-----------------------------------------------------------------------------
(* The theorems.                                                           *)

\* Once it is not calm, it does not become so again.
LEMMA CalmEnds ==
  ASSUME TypeInv, [Next]_vars, calm'
  PROVE  calm
<1>1. calm \in BOOLEAN
  BY DEF TypeInv, TypeOK
<1>2. CASE StartStep
  BY <1>2 DEF StartStep, CreateTrader, BecomesTradable, StartTimeout,
    QueryInit, QueriesSent, ExchangeReady, Stop
<1>3. CASE StrategyStep
  BY <1>3 DEF StrategyStep, AddDropped, AddReads, AddQueues, Delete, Query,
    threads
<1>4. CASE Execute \/ Connect \/ \E kept \in 0 .. Len(answers) : Drop(kept)
  BY <1>4 DEF Execute, Connect, Drop, threads
<1>5. CASE ExchangeStep
  BY <1>5 DEF ExchangeStep, AcceptLogin, AcceptConfirm, RefuseSession,
    AcceptInsert, RefuseInsert, AcceptWithdraw, RefuseWithdraw, AnswerQuery,
    Fill, Done, threads
<1>6. CASE CallbackStep
  BY <1>6 DEF CallbackStep, CallConnected, CallLogin, CallConfirm, CallInsert,
    CallAction, CallQuery, CallReturn, threads
<1>7. CASE UNCHANGED vars
  BY <1>7 DEF vars, threads
<1> QED BY <1>2, <1>3, <1>4, <1>5, <1>6, <1>7 DEF Next

LEMMA CalmStep ==
  ASSUME TypeInv, CalmInv, calm, calm', [Next]_vars
  PROVE  CalmInv'
<1>1. CASE UNCHANGED vars
  <2>1. /\ UNCHANGED <<client_orders_index, maxOrderRef, tradable, told,
                       astray, exchange, commandQueue, fate, adding, start>>
    BY <1>1 DEF vars, trader, threads
  <2>2. IndexInv' /\ AddingInv'
    BY <2>1, PartsSame DEF exchange
  <2> QED BY <2>1, <2>2, CalmQuiet
<1>2. CASE CallbackStep
  BY <1>2, CalmConnected, CalmLogin, CalmConfirm, CalmTold, CalmReturn
     DEF CallbackStep
<1> QED BY <1>1, <1>2, CalmStart, CalmStrategy, CalmExecute, CalmConnect,
      CalmDrop, CalmExchange DEF Next

\* The inductive invariant: types, cancels of orders only, and as long as no
\* order or cancel was ill-timed, messages, answers, events and what was told
\* are about the orders they seem to be about.
THEOREM Invariant == Spec => []IInv
<1>1. Init => IInv
  <2>1. ASSUME Init PROVE CancelInv
    <3>1. In(commandQueue) = {} /\ In(up) = {}
      BY <2>1, NoReply DEF Init, TraderInit
    <3> QED BY <3>1 DEF CancelInv
  <2> QED BY <2>1, TypesInit, CalmInit DEF IInv
<1>2. IInv /\ [Next]_vars => IInv'
  <2>1. SUFFICES ASSUME IInv, [Next]_vars PROVE IInv'
    OBVIOUS
  <2>2. TypeInv' /\ CancelInv'
    BY <2>1, TypesStep, CancelStep DEF IInv
  <2>3. ASSUME calm' PROVE CalmInv'
    BY <2>1, <2>3, CalmEnds, CalmStep DEF IInv
  <2> QED BY <2>2, <2>3 DEF IInv
<1> QED BY <1>1, <1>2, PTL DEF Spec

\* Every state of the gateway and of the exchange behind it is typed.
THEOREM TypeCorrect == Spec => []TypeOK
<1>1. IInv => TypeOK
  BY DEF IInv, TypeInv
<1> QED BY <1>1, Invariant, PTL

\* Nothing is told of the wrong order, though maxOrderRef is set back with
\* every login and the index keeps references of lost orders.
THEOREM AnswersRight == Spec => []AnswersReach
<1>1. IInv => AnswersReach
  BY DEF IInv, CalmInv, AnswersReach
<1> QED BY <1>1, Invariant, PTL

\* An order that was taken is in the queue, on its way, at the exchange or
\* answered, unless it was lost with a connection.
THEOREM OrdersKept == Spec => []NoOrderForgotten
<1>1. IInv => NoOrderForgotten
  <2>1. SUFFICES ASSUME IInv, calm, NEW o \in Orders, fate[o] = "added"
                 PROVE  \/ \E i \in DOMAIN commandQueue :
                             commandQueue[i].order = o
                        \/ \E i \in DOMAIN up : up[i].order = o
                        \/ \E i \in DOMAIN answers : answers[i].order = o
                        \/ Status(o) # "None"
                        \/ told[o] # "None"
    BY DEF NoOrderForgotten
  <2>2. Kept(o)
    BY <2>1 DEF IInv, CalmInv
  <2> QED BY <2>2 DEF Kept, Messages, In
<1> QED BY <1>1, Invariant, PTL

\* What a strategy was told of the end of an order is so at the exchange.
THEOREM ToldTrue == Spec => []ToldIsTrue
<1>1. IInv => ToldIsTrue
  BY DEF IInv, CalmInv, ToldIsTrue
<1> QED BY <1>1, Invariant, PTL

=============================================================================
