--------------------------- MODULE ContainerProof ---------------------------
(***************************************************************************)
(* What is left of a list when elements are taken out, and sums: the       *)
(* lemmas that the proofs about records, orders and market data rest on.   *)
(* Remaining and Sum are recursive functions, so they go by induction on   *)
(* lengths and cardinalities; the induction is over a SET of numbers,      *)
(* which needs no theorem with an operator as its parameter.               *)
(***************************************************************************)
EXTENDS Containers, FiniteSetTheorems, WellFoundedInduction, TLAPS

\* A set of numbers that is not empty has a least element.
LEMMA Minimum ==
  ASSUME NEW T \in SUBSET Nat, T # {}
  PROVE  \E x \in T : \A y \in T : ~ (y < x)
<1> DEFINE R == {ss \in Nat \X Nat : ss[1] < ss[2]}
<1>1. IsWellFoundedOn(R, Nat)
  BY NatLessThanWellFounded DEF OpToRel
<1>2. \E x \in T : \A y \in T : ~ (<<y, x>> \in R)
  <2> HIDE DEF R
  <2> QED BY <1>1, WFMin
<1>3. \A x, y \in T : y < x => <<y, x>> \in R
  OBVIOUS
<1> QED BY <1>2, <1>3

\* A set that has 0, and n + 1 with every n, has every number.
LEMMA Induction ==
  ASSUME NEW S, 0 \in S, \A n \in Nat : n \in S => n + 1 \in S
  PROVE  Nat \subseteq S
<1> SUFFICES ASSUME Nat \ S # {} PROVE FALSE
  OBVIOUS
<1>1. PICK x \in Nat \ S : \A y \in Nat \ S : ~ (y < x)
  BY Minimum
<1>2. x # 0 /\ x - 1 \in Nat /\ x - 1 < x
  BY <1>1
<1>3. x - 1 \in S
  BY <1>1, <1>2
<1> QED BY <1>1, <1>2, <1>3

\* The recursive function in Remaining exists and is what its equation says.
LEMMA RemainingDef ==
  ASSUME NEW E, NEW s \in Seq(E), NEW D
  PROVE  \E f :
           /\ Remaining(s, D) = f[Len(s)]
           /\ f[0] = <<>>
           /\ \A n \in 1 .. Len(s) :
                f[n] = IF s[n] \in D THEN f[n - 1]
                                     ELSE Append(f[n - 1], s[n])
<1> DEFINE Step(f, n) == IF n = 0 THEN <<>>
                         ELSE IF s[n] \in D THEN f[n - 1]
                         ELSE Append(f[n - 1], s[n])
           Upto == {k \in Nat : \E f : f = [n \in 0 .. k |-> Step(f, n)]}
<1>1. 0 \in Upto
  <2>1. [n \in 0 .. 0 |-> <<>>] = [n \in 0 .. 0 |->
           Step([m \in 0 .. 0 |-> <<>>], n)]
    OBVIOUS
  <2> QED BY <2>1
<1>2. ASSUME NEW k \in Nat, k \in Upto PROVE k + 1 \in Upto
  <2>1. PICK f : f = [n \in 0 .. k |-> Step(f, n)]
    BY <1>2
  <2> DEFINE g == [n \in 0 .. k + 1 |-> IF n <= k THEN f[n] ELSE Step(f, n)]
             h == [n \in 0 .. k + 1 |-> Step(g, n)]
  <2>2. \A n \in 0 .. k + 1 : g[n] = Step(g, n)
    <3> TAKE n \in 0 .. k + 1
    <3>1. n # 0 => g[n - 1] = f[n - 1]
      OBVIOUS
    <3>2. n <= k => f[n] = Step(f, n)
      <4>1. n <= k => n \in 0 .. k
        OBVIOUS
      <4> HIDE DEF Step
      <4> QED BY <2>1, <4>1
    <3> QED BY <3>1, <3>2
  <2>3. \A n \in 0 .. k + 1 : h[n] = Step(g, n)
    <3> HIDE DEF Step, g
    <3> QED OBVIOUS
  <2>4. g = h
    <3>1. \A n \in 0 .. k + 1 : g[n] = h[n]
      BY <2>2, <2>3
    <3>2. g = [n \in 0 .. k + 1 |-> g[n]]
      <4> HIDE DEF Step
      <4> QED OBVIOUS
    <3>3. h = [n \in 0 .. k + 1 |-> h[n]]
      <4> HIDE DEF Step, g
      <4> QED OBVIOUS
    <3> HIDE DEF g, h
    <3> QED BY <3>1, <3>2, <3>3
  <2>5. \E e : e = [n \in 0 .. k + 1 |-> Step(e, n)]
    <3>1. g = [n \in 0 .. k + 1 |-> Step(g, n)]
      BY <2>4
    <3> HIDE DEF g, h, Step
    <3> QED BY <3>1
  <2> HIDE DEF g, h, Step
  <2> QED BY <2>5
<1>3. Len(s) \in Upto
  <2>1. \A k \in Nat : k \in Upto => k + 1 \in Upto
    BY <1>2
  <2>2. Len(s) \in Nat
    OBVIOUS
  <2> HIDE DEF Upto
  <2> QED BY <1>1, <2>1, <2>2, Induction
<1> DEFINE Left == CHOOSE f : f = [n \in 0 .. Len(s) |-> Step(f, n)]
<1>4. Left = [n \in 0 .. Len(s) |-> Step(Left, n)]
  <2>1. \E f : f = [n \in 0 .. Len(s) |-> Step(f, n)]
    BY <1>3
  <2> HIDE DEF Step
  <2> QED BY <2>1
<1>5. Remaining(s, D) = Left[Len(s)]
  BY DEF Remaining
<1>6. \A n \in 0 .. Len(s) : Left[n] = Step(Left, n)
  <2> HIDE DEF Left, Step
  <2> QED BY <1>4
<1>7. Left[0] = <<>>
  <2> HIDE DEF Left
  <2> QED BY <1>6
<1>8. \A n \in 1 .. Len(s) :
        Left[n] = IF s[n] \in D THEN Left[n - 1]
                                ELSE Append(Left[n - 1], s[n])
  <2> HIDE DEF Left
  <2> QED BY <1>6
<1> HIDE DEF Left
<1> QED BY <1>5, <1>7, <1>8

\* What remains of a list without repetitions: the elements that are not taken
\* out, each once and in the same order.
LEMMA RemainingFacts ==
  ASSUME NEW E, NEW s \in Seq(E), NEW D,
         \A i, j \in DOMAIN s : i # j => s[i] # s[j]
  PROVE  LET r == Remaining(s, D)
         IN  /\ r \in Seq(E)
             /\ {r[i] : i \in DOMAIN r} = {s[i] : i \in DOMAIN s} \ D
             /\ \A i, j \in DOMAIN r : i # j => r[i] # r[j]
             /\ \A i, j \in DOMAIN r : i < j =>
                  \E k, l \in DOMAIN s : k < l /\ s[k] = r[i] /\ s[l] = r[j]
<1>1. PICK f :
        /\ Remaining(s, D) = f[Len(s)]
        /\ f[0] = <<>>
        /\ \A n \in 1 .. Len(s) :
             f[n] = IF s[n] \in D THEN f[n - 1] ELSE Append(f[n - 1], s[n])
  BY RemainingDef
<1> DEFINE Fits(q, n) ==
             /\ q \in Seq(E)
             /\ {q[i] : i \in DOMAIN q} = {s[i] : i \in 1 .. n} \ D
             /\ \A i, j \in DOMAIN q : i # j => q[i] # q[j]
             /\ \A i, j \in DOMAIN q : i < j =>
                  \E k, l \in 1 .. n : k < l /\ s[k] = q[i] /\ s[l] = q[j]
           Good(n) == Fits(f[n], n)
           T == {n \in Nat : n <= Len(s) => Good(n)}
<1>2. 0 \in T
  <2>1. <<>> \in Seq(E) /\ DOMAIN <<>> = {} /\ 1 .. 0 = {}
    OBVIOUS
  <2>2. {s[i] : i \in 1 .. 0} = {}
    BY <2>1
  <2>3. {f[0][i] : i \in DOMAIN f[0]} = {}
    BY <1>1, <2>1
  <2>4. Good(0)
    BY <1>1, <2>1, <2>2, <2>3
  <2> HIDE DEF Good
  <2> QED BY <2>4
<1>3. ASSUME NEW n \in Nat, n \in T PROVE n + 1 \in T
  <2> SUFFICES ASSUME n + 1 <= Len(s) PROVE Good(n + 1)
    <3> HIDE DEF Good
    <3> QED OBVIOUS
  <2>1. Good(n) /\ n + 1 \in DOMAIN s /\ s[n + 1] \in E
    <3>1. n <= Len(s) /\ n + 1 \in DOMAIN s /\ s[n + 1] \in E
      OBVIOUS
    <3> HIDE DEF Good
    <3> QED BY <1>3, <3>1
  <2> DEFINE q == f[n]
             e == s[n + 1]
  <2>2. f[n + 1] = IF e \in D THEN q ELSE Append(q, e)
    BY <1>1
  <2>3. {s[i] : i \in 1 .. n + 1} = {s[i] : i \in 1 .. n} \cup {e}
    OBVIOUS
  <2>4. e \notin {q[i] : i \in DOMAIN q}
    <3>1. \A i \in 1 .. n : i \in DOMAIN s /\ s[i] # e
      BY <2>1
    <3> QED BY <2>1, <3>1
  <2>5. CASE e \in D
    <3>1. f[n + 1] = q
      BY <2>2, <2>5
    <3>2. Fits(q, n)
      BY <2>1
    <3> HIDE DEF q, e
    <3>3. {s[i] : i \in 1 .. n + 1} \ D = {s[i] : i \in 1 .. n} \ D
      BY <2>3, <2>5
    <3>4. Fits(q, n + 1)
      BY <3>2, <3>3
    <3> HIDE DEF Fits
    <3> QED BY <3>1, <3>4
  <2>6. CASE e \notin D
    <3>1. f[n + 1] = Append(q, e)
      BY <2>2, <2>6
    <3>2. q \in Seq(E) /\ e \in E
      BY <2>1
    <3>3. {s[i] : i \in 1 .. n + 1} \ D = ({s[i] : i \in 1 .. n} \ D) \cup {e}
      BY <2>3, <2>6
    <3>4. {q[i] : i \in DOMAIN q} = {s[i] : i \in 1 .. n} \ D
      BY <2>1
    <3>5. \A i, j \in DOMAIN q : i # j => q[i] # q[j]
      BY <2>1
    <3>12. \A i, j \in DOMAIN q : i < j =>
            \E k, l \in 1 .. n : k < l /\ s[k] = q[i] /\ s[l] = q[j]
      BY <2>1
    <3> HIDE DEF q
    <3> DEFINE r == Append(q, e)
    <3>6. /\ r \in Seq(E)
          /\ DOMAIN r = DOMAIN q \cup {Len(q) + 1}
          /\ \A i \in DOMAIN q : r[i] = q[i]
          /\ r[Len(q) + 1] = e
      BY <3>2
    <3> HIDE DEF r
    <3>13. \A i, j \in DOMAIN r : i < j =>
            \E k, l \in 1 .. n + 1 : k < l /\ s[k] = r[i] /\ s[l] = r[j]
      <4> TAKE i, j \in DOMAIN r
      <4> HAVE i < j
      <4>1. i \in DOMAIN q
        BY <3>2, <3>6
      <4>2. CASE j \in DOMAIN q
        BY <3>6, <3>12, <4>1, <4>2
      <4>3. CASE j = Len(q) + 1
        <5>1. PICK k \in 1 .. n : s[k] = q[i]
          BY <3>4, <4>1
        <5>2. k \in 1 .. n + 1 /\ n + 1 \in 1 .. n + 1 /\ k < n + 1
          OBVIOUS
        <5>3. s[k] = r[i] /\ s[n + 1] = r[j]
          BY <3>6, <4>1, <4>3, <5>1
        <5> QED BY <5>2, <5>3
      <4> QED BY <3>6, <4>2, <4>3
    <3> HIDE DEF e
    <3>7. {r[i] : i \in DOMAIN r} = {q[i] : i \in DOMAIN q} \cup {e}
      BY <3>6
    <3>8. \A i, j \in DOMAIN r : i # j => r[i] # r[j]
      BY <3>6, <3>5, <2>4
    <3>9. f[n + 1] = r
      BY <3>1 DEF r
    <3>10. {r[i] : i \in DOMAIN r} = {s[i] : i \in 1 .. n + 1} \ D
      BY <3>3, <3>4, <3>7
    <3>11. Fits(r, n + 1)
      BY <3>6, <3>8, <3>10, <3>13
    <3> HIDE DEF Fits
    <3> QED BY <3>9, <3>11
  <2> QED BY <2>5, <2>6
<1>4. Len(s) \in T
  <2>1. \A n \in Nat : n \in T => n + 1 \in T
    BY <1>3
  <2>2. Len(s) \in Nat
    OBVIOUS
  <2> HIDE DEF T
  <2> QED BY <1>2, <2>1, <2>2, Induction
<1>5. DOMAIN s = 1 .. Len(s)
  OBVIOUS
<1>6. Good(Len(s))
  <2> HIDE DEF Good
  <2> QED BY <1>4
<1>7. Fits(Remaining(s, D), Len(s))
  <2> HIDE DEF Fits
  <2> QED BY <1>1, <1>6
<1>8. {s[i] : i \in 1 .. Len(s)} = {s[i] : i \in DOMAIN s}
  BY <1>5
<1> DEFINE q == Remaining(s, D)
<1>9. \A i, j \in DOMAIN q : i < j =>
        \E k, l \in DOMAIN s : k < l /\ s[k] = q[i] /\ s[l] = q[j]
  <2>1. \A i, j \in DOMAIN q : i < j =>
          \E k, l \in 1 .. Len(s) : k < l /\ s[k] = q[i] /\ s[l] = q[j]
    BY <1>7
  <2> HIDE DEF q
  <2> QED BY <1>5, <2>1
<1>10. /\ q \in Seq(E)
       /\ {q[i] : i \in DOMAIN q} = {s[i] : i \in DOMAIN s} \ D
       /\ \A i, j \in DOMAIN q : i # j => q[i] # q[j]
  <2>1. /\ q \in Seq(E)
        /\ {q[i] : i \in DOMAIN q} = {s[i] : i \in 1 .. Len(s)} \ D
        /\ \A i, j \in DOMAIN q : i # j => q[i] # q[j]
    BY <1>7
  <2> HIDE DEF q
  <2> QED BY <1>8, <2>1
<1> QED BY <1>9, <1>10

\* What remains of 1, 2, ..., N without the first k.
LEMMA RemainingTail ==
  ASSUME NEW N \in Nat, NEW k \in 0 .. N, NEW D,
         D = 1 .. k
  PROVE  Remaining([i \in 1 .. N |-> i], D) = [i \in 1 .. N - k |-> k + i]
<1> DEFINE s == [i \in 1 .. N |-> i]
<1>1. s \in Seq(Nat) /\ Len(s) = N /\ \A i \in 1 .. N : s[i] = i
  OBVIOUS
<1> HIDE DEF s
<1>2. PICK f :
        /\ Remaining(s, D) = f[Len(s)]
        /\ f[0] = <<>>
        /\ \A n \in 1 .. Len(s) :
             f[n] = IF s[n] \in D THEN f[n - 1] ELSE Append(f[n - 1], s[n])
  BY <1>1, RemainingDef
<1> DEFINE Good(n) == f[n] = IF n <= k THEN <<>>
                             ELSE [i \in 1 .. n - k |-> k + i]
           T == {n \in Nat : n <= N => Good(n)}
<1>3. 0 \in T
  BY <1>2
<1>4. ASSUME NEW n \in Nat, n \in T PROVE n + 1 \in T
  <2> SUFFICES ASSUME n + 1 <= N PROVE Good(n + 1)
    OBVIOUS
  <2>1. f[n + 1] = IF n + 1 <= k THEN f[n] ELSE Append(f[n], n + 1)
    BY <1>1, <1>2
  <2>2. CASE n + 1 <= k
    BY <1>4, <2>1, <2>2
  <2>3. CASE n = k
    <3>1. f[n + 1] = Append(f[n], n + 1) /\ f[n] = <<>>
      BY <1>4, <2>1, <2>3
    <3>2. [i \in 1 .. n + 1 - k |-> k + i] = <<n + 1>>
      BY <2>3
    <3> QED BY <2>3, <3>1, <3>2
  <2>4. CASE n > k
    <3> DEFINE q == [i \in 1 .. n - k |-> k + i]
    <3>1. f[n + 1] = Append(q, n + 1)
      BY <1>4, <2>1, <2>4
    <3>2. q \in Seq(Nat) /\ Len(q) = n - k
      BY <2>4
    <3>3. \A i \in 1 .. n - k : q[i] = k + i
      OBVIOUS
    <3> HIDE DEF q
    <3>4. Append(q, n + 1) = [i \in 1 .. n + 1 - k |-> k + i]
      <4>1. Append(q, n + 1) \in Seq(Nat) /\ Len(Append(q, n + 1)) = n + 1 - k
        BY <3>2, <2>4
      <4>2. \A i \in 1 .. n + 1 - k : Append(q, n + 1)[i] = k + i
        BY <3>2, <3>3, <2>4
      <4> QED BY <4>1, <4>2
    <3>5. f[n + 1] = [i \in 1 .. n + 1 - k |-> k + i]
      BY <3>1, <3>4
    <3> HIDE DEF q
    <3> QED BY <2>4, <3>5
  <2> QED BY <2>2, <2>3, <2>4
<1>5. N \in T
  <2>1. \A n \in Nat : n \in T => n + 1 \in T
    BY <1>4
  <2> HIDE DEF T
  <2> QED BY <1>3, <2>1, Induction
<1>6. Good(N)
  BY <1>5
<1>7. [i \in 1 .. N - k |-> k + i] = <<>> \/ N > k
  OBVIOUS
<1> QED BY <1>1, <1>2, <1>6, <1>7 DEF s

-----------------------------------------------------------------------------
\* t is the recursive function in Sum.
IsTotal(t, f, S) ==
  \A T \in SUBSET S : t[T] = IF T = {} THEN 0
                             ELSE LET x == CHOOSE x \in T : TRUE
                                  IN  f[x] + t[T \ {x}]

\* It exists: by induction on the number of elements of the sets.
LEMMA SumDef ==
  ASSUME NEW S, IsFiniteSet(S), NEW f
  PROVE  \E t : /\ Sum(f, S) = t[S]
                /\ IsTotal(t, f, S)
<1> DEFINE Step(t, T) == IF T = {} THEN 0
                         ELSE LET x == CHOOSE x \in T : TRUE
                              IN  f[x] + t[T \ {x}]
           Small(n) == {T \in SUBSET S : Cardinality(T) <= n}
           Upto == {n \in Nat : \E t : t = [T \in Small(n) |-> Step(t, T)]}
<1>1. \A T \in SUBSET S : IsFiniteSet(T) /\ Cardinality(T) \in Nat
                          /\ Cardinality(T) <= Cardinality(S)
  BY FS_Subset, FS_CardinalityType
<1>2. \A T \in SUBSET S : Cardinality(T) = 0 <=> T = {}
  BY <1>1, FS_EmptySet
<1>3. ASSUME NEW T \in SUBSET S, T # {}
      PROVE  /\ (CHOOSE x \in T : TRUE) \in T
             /\ \A x \in T : /\ T \ {x} \in SUBSET S
                             /\ Cardinality(T \ {x}) = Cardinality(T) - 1
  BY <1>1, <1>3, FS_RemoveElement
<1>4. 0 \in Upto
  <2>1. \E t : t = [T \in Small(0) |-> 0]
    OBVIOUS
  <2>2. PICK t : t = [T \in Small(0) |-> 0]
    BY <2>1
  <2>3. \A T \in Small(0) : T = {}
    BY <1>1, <1>2
  <2>4. \A T \in Small(0) : Step(t, T) = 0
    BY <2>3
  <2>5. t = [T \in Small(0) |-> Step(t, T)]
    <3> HIDE DEF Step, Small
    <3> QED BY <2>2, <2>4
  <2> HIDE DEF Step, Small
  <2> QED BY <2>5
<1>5. ASSUME NEW n \in Nat, n \in Upto PROVE n + 1 \in Upto
  <2>1. PICK t : t = [T \in Small(n) |-> Step(t, T)]
    BY <1>5
  <2> DEFINE u == [T \in Small(n + 1) |->
                     IF T \in Small(n) THEN t[T] ELSE Step(t, T)]
             v == [T \in Small(n + 1) |-> Step(u, T)]
  <2>2. ASSUME NEW T \in Small(n + 1)
        PROVE  u[T] = Step(u, T)
    <3>1. T # {} => \A x \in T : T \ {x} \in Small(n)
      BY <1>1, <1>3
    <3>2. Small(n) \subseteq Small(n + 1)
      BY <1>1
    <3>3. T # {} => \A x \in T : u[T \ {x}] = t[T \ {x}]
      <4> HIDE DEF Step, Small
      <4> QED BY <3>1, <3>2
    <3>4. Step(u, T) = Step(t, T)
      <4>1. T # {} => (CHOOSE x \in T : TRUE) \in T
        BY <1>3
      <4> HIDE DEF u, Small
      <4> QED BY <3>3, <4>1
    <3>5. T \in Small(n) => t[T] = Step(t, T)
      <4> HIDE DEF Step, Small
      <4> QED BY <2>1
    <3>6. u[T] = IF T \in Small(n) THEN t[T] ELSE Step(t, T)
      <4> HIDE DEF Step, Small
      <4> QED OBVIOUS
    <3> HIDE DEF u, Step, Small
    <3> QED BY <3>4, <3>5, <3>6
  <2>3. u = v
    <3>1. u = [T \in Small(n + 1) |-> u[T]]
      <4> HIDE DEF Step, Small
      <4> QED OBVIOUS
    <3>2. v = [T \in Small(n + 1) |-> v[T]]
      <4> HIDE DEF Step, Small, u
      <4> QED OBVIOUS
    <3>3. \A T \in Small(n + 1) : v[T] = Step(u, T)
      <4> HIDE DEF Step, Small, u
      <4> QED OBVIOUS
    <3> HIDE DEF u, v, Step, Small
    <3> QED BY <2>2, <3>1, <3>2, <3>3
  <2>4. u = [T \in Small(n + 1) |-> Step(u, T)]
    BY <2>3
  <2> HIDE DEF u, Step, Small
  <2> QED BY <2>4
<1>6. Cardinality(S) \in Upto
  <2>1. \A n \in Nat : n \in Upto => n + 1 \in Upto
    BY <1>5
  <2>2. Cardinality(S) \in Nat
    BY <1>1
  <2> HIDE DEF Upto
  <2> QED BY <1>4, <2>1, <2>2, Induction
<1>7. Small(Cardinality(S)) = SUBSET S
  BY <1>1
<1>8. \E t : t = [T \in SUBSET S |-> Step(t, T)]
  <2>1. \E t : t = [T \in Small(Cardinality(S)) |-> Step(t, T)]
    BY <1>6
  <2> HIDE DEF Small, Step
  <2> QED BY <1>7, <2>1
<1> DEFINE Total == CHOOSE t : t = [T \in SUBSET S |-> Step(t, T)]
<1>9. Total = [T \in SUBSET S |-> Step(Total, T)]
  <2> HIDE DEF Step
  <2> QED BY <1>8
<1>10. Sum(f, S) = Total[S]
  BY DEF Sum
<1>11. \A T \in SUBSET S : Total[T] = Step(Total, T)
  <2> HIDE DEF Total, Step
  <2> QED BY <1>9
<1>12. IsTotal(Total, f, S)
  <2> HIDE DEF Total
  <2> QED BY <1>11 DEF IsTotal
<1> HIDE DEF Total
<1> QED BY <1>10, <1>12

\* The values of the recursive function: natural numbers, to which every
\* element of the set adds its own.
LEMMA SumParts ==
  ASSUME NEW S, IsFiniteSet(S), NEW f, \A x \in S : f[x] \in Nat,
         NEW t,
         IsTotal(t, f, S)
  PROVE  \A T \in SUBSET S : /\ t[T] \in Nat
                             /\ \A x \in T : t[T] = f[x] + t[T \ {x}]
<1> DEFINE First(T) == CHOOSE x \in T : TRUE
           Good(T) == /\ t[T] \in Nat
                      /\ \A x \in T : t[T] = f[x] + t[T \ {x}]
           Upto == {n \in Nat : \A T \in SUBSET S :
                                  Cardinality(T) <= n => Good(T)}
<1>1. \A T \in SUBSET S : IsFiniteSet(T) /\ Cardinality(T) \in Nat
                          /\ Cardinality(T) <= Cardinality(S)
  BY FS_Subset, FS_CardinalityType
<1>2. \A T \in SUBSET S : Cardinality(T) = 0 <=> T = {}
  BY <1>1, FS_EmptySet
<1>3. ASSUME NEW T \in SUBSET S, NEW x \in T
      PROVE  T \ {x} \in SUBSET S /\ Cardinality(T \ {x}) = Cardinality(T) - 1
  BY <1>1, FS_RemoveElement
<1>4. t[{}] = 0
  BY DEF IsTotal
<1>5. \A T \in SUBSET S : T # {} => /\ First(T) \in T
                                    /\ t[T] = f[First(T)] + t[T \ {First(T)}]
  BY DEF IsTotal
<1> HIDE DEF First
<1>6. Good({})
  BY <1>4
<1>7. 0 \in Upto
  <2>1. \A T \in SUBSET S : Cardinality(T) <= 0 => T = {}
    BY <1>1, <1>2
  <2> HIDE DEF Good
  <2> QED BY <1>6, <2>1
<1>8. ASSUME NEW n \in Nat, n \in Upto PROVE n + 1 \in Upto
  <2> SUFFICES ASSUME NEW T \in SUBSET S, Cardinality(T) <= n + 1, T # {}
               PROVE  Good(T)
    <3> HIDE DEF Good
    <3> QED BY <1>6
  <2>1. \A x \in T : T \ {x} \in SUBSET S /\ Good(T \ {x})
    <3> TAKE x \in T
    <3>1. T \ {x} \in SUBSET S /\ Cardinality(T \ {x}) <= n
      BY <1>1, <1>3
    <3> HIDE DEF Good
    <3> QED BY <1>8, <3>1
  <2> DEFINE y == First(T)
  <2>2. y \in T /\ t[T] = f[y] + t[T \ {y}] /\ t[T \ {y}] \in Nat
    BY <1>5, <2>1
  <2>3. t[T] \in Nat
    BY <2>2
  <2>4. ASSUME NEW x \in T PROVE t[T] = f[x] + t[T \ {x}]
    <3>1. CASE x = y
      BY <2>2, <3>1
    <3>2. CASE x # y
      <4> DEFINE W == T \ {x, y}
      <4>1. (T \ {x}) \ {y} = W /\ (T \ {y}) \ {x} = W
        OBVIOUS
      <4>2. t[T \ {x}] = f[y] + t[W]
        BY <2>1, <2>2, <3>2, <4>1
      <4>3. t[T \ {y}] = f[x] + t[W]
        BY <2>1, <2>2, <3>2, <4>1
      <4>4. W \in SUBSET S /\ t[W] \in Nat
        <5>1. T \ {x} \in SUBSET S /\ y \in T \ {x} /\ Good(T \ {x})
          BY <2>1, <2>2, <3>2
        <5>2. Cardinality(W) <= n
          <6>1. Cardinality(T \ {x}) = Cardinality(T) - 1
            BY <1>3
          <6>2. Cardinality((T \ {x}) \ {y}) = Cardinality(T \ {x}) - 1
            BY <1>3, <5>1
          <6>3. Cardinality(T) \in Nat
            BY <1>1
          <6> HIDE DEF y, W
          <6> QED BY <4>1, <6>1, <6>2, <6>3
        <5> HIDE DEF W
        <5>3. W \in SUBSET S
          BY DEF W
        <5> QED BY <1>8, <5>2, <5>3
      <4>5. f[x] \in Nat /\ f[y] \in Nat
        BY <2>2
      <4> HIDE DEF W, y
      <4> QED BY <2>2, <4>2, <4>3, <4>4, <4>5
    <3> QED BY <3>1, <3>2
  <2> QED BY <2>3, <2>4
<1>9. Cardinality(S) \in Upto
  <2>1. \A n \in Nat : n \in Upto => n + 1 \in Upto
    BY <1>8
  <2>2. Cardinality(S) \in Nat
    BY <1>1
  <2> HIDE DEF Upto
  <2> QED BY <1>7, <2>1, <2>2, Induction
<1> HIDE DEF Good
<1>10. \A T \in SUBSET S : Good(T)
  BY <1>1, <1>9
<1> QED BY <1>10 DEF Good

\* Over the same elements, with the same quantities, it is the same.
LEMMA SumSame ==
  ASSUME NEW S, IsFiniteSet(S), NEW f, NEW g, \A x \in S : f[x] \in Nat,
         \A x \in S : g[x] = f[x], NEW R \in SUBSET S,
         NEW t, NEW u,
         IsTotal(t, f, S),
         IsTotal(u, g, R)
  PROVE  u[R] = t[R]
<1> DEFINE First(T) == CHOOSE x \in T : TRUE
           Upto == {n \in Nat : \A T \in SUBSET R :
                                  Cardinality(T) <= n => u[T] = t[T]}
<1>1. \A T \in SUBSET R : IsFiniteSet(T) /\ Cardinality(T) \in Nat
                          /\ Cardinality(T) <= Cardinality(R)
  BY FS_Subset, FS_CardinalityType
<1>2. \A T \in SUBSET R : Cardinality(T) = 0 <=> T = {}
  BY <1>1, FS_EmptySet
<1>3. \A T \in SUBSET R : T = {} => u[T] = t[T]
  BY DEF IsTotal
<1>4. \A T \in SUBSET R : T # {} =>
        /\ First(T) \in T
        /\ t[T] = f[First(T)] + t[T \ {First(T)}]
        /\ u[T] = g[First(T)] + u[T \ {First(T)}]
  <2> TAKE T \in SUBSET R
  <2>1. T \in SUBSET S
    OBVIOUS
  <2> QED BY <2>1 DEF IsTotal
<1> HIDE DEF First
<1>5. 0 \in Upto
  <2>1. \A T \in SUBSET R : Cardinality(T) <= 0 => T = {}
    BY <1>1, <1>2
  <2> QED BY <1>3, <2>1
<1>6. ASSUME NEW n \in Nat, n \in Upto PROVE n + 1 \in Upto
  <2> SUFFICES ASSUME NEW T \in SUBSET R, Cardinality(T) <= n + 1, T # {}
               PROVE  u[T] = t[T]
    BY <1>3
  <2> DEFINE y == First(T)
  <2>1. y \in T /\ t[T] = f[y] + t[T \ {y}] /\ u[T] = g[y] + u[T \ {y}]
    BY <1>4
  <2>2. T \ {y} \in SUBSET R /\ Cardinality(T \ {y}) <= n
    BY <1>1, <2>1, FS_RemoveElement
  <2>3. u[T \ {y}] = t[T \ {y}]
    <3> HIDE DEF y
    <3> QED BY <1>6, <2>2
  <2>4. g[y] = f[y]
    BY <2>1
  <2> QED BY <2>1, <2>3, <2>4
<1>7. Cardinality(R) \in Upto
  <2>1. \A n \in Nat : n \in Upto => n + 1 \in Upto
    BY <1>6
  <2>2. Cardinality(R) \in Nat
    BY <1>1
  <2> HIDE DEF Upto
  <2> QED BY <1>5, <2>1, <2>2, Induction
<1> QED BY <1>1, <1>7

\* A sum of natural numbers is one, and that over nothing is 0.
LEMMA SumNat ==
  ASSUME NEW S, IsFiniteSet(S), NEW f, \A x \in S : f[x] \in Nat
  PROVE  Sum(f, S) \in Nat /\ (S = {} => Sum(f, S) = 0)
<1>1. PICK t : /\ Sum(f, S) = t[S]
               /\ IsTotal(t, f, S)
  BY SumDef
<1>2. t[S] \in Nat
  BY <1>1, SumParts
<1>3. S = {} => t[S] = 0
  BY <1>1 DEF IsTotal
<1> QED BY <1>1, <1>2, <1>3

\* Only the quantities of the elements of the set count.
LEMMA SumEqual ==
  ASSUME NEW S, IsFiniteSet(S), NEW f, NEW g, \A x \in S : f[x] \in Nat,
         \A x \in S : g[x] = f[x]
  PROVE  Sum(g, S) = Sum(f, S)
<1>1. PICK t : /\ Sum(f, S) = t[S]
               /\ IsTotal(t, f, S)
  BY SumDef
<1>2. PICK u : /\ Sum(g, S) = u[S]
               /\ IsTotal(u, g, S)
  BY SumDef
<1>3. u[S] = t[S]
  BY <1>1, <1>2, SumSame
<1> QED BY <1>1, <1>2, <1>3

\* One element of the set adds its quantity to that of the others.
LEMMA SumOne ==
  ASSUME NEW S, IsFiniteSet(S), NEW f, \A x \in S : f[x] \in Nat, NEW x \in S
  PROVE  Sum(f, S) = f[x] + Sum(f, S \ {x})
<1> DEFINE R == S \ {x}
<1>1. PICK t : /\ Sum(f, S) = t[S]
               /\ IsTotal(t, f, S)
  BY SumDef
<1>2. R \in SUBSET S /\ IsFiniteSet(R)
  BY FS_Subset
<1> HIDE DEF R
<1>3. PICK u : /\ Sum(f, R) = u[R]
               /\ IsTotal(u, f, R)
  BY <1>2, SumDef
<1>4. t[S] = f[x] + t[R]
  BY <1>1, SumParts DEF R
<1>5. u[R] = t[R]
  BY <1>1, <1>2, <1>3, SumSame
<1> QED BY <1>1, <1>3, <1>4, <1>5 DEF R

\* When one element comes, goes or changes, the sum moves by as much.
LEMMA SumMove ==
  ASSUME NEW S, IsFiniteSet(S), NEW f, \A y \in S : f[y] \in Nat,
         NEW R, IsFiniteSet(R), NEW g, \A y \in R : g[y] \in Nat,
         NEW x, S \ {x} = R \ {x}, \A y \in S \ {x} : g[y] = f[y]
  PROVE  Sum(g, R) + (IF x \in S THEN f[x] ELSE 0)
           = Sum(f, S) + (IF x \in R THEN g[x] ELSE 0)
<1> DEFINE B == S \ {x}
<1>1. /\ IsFiniteSet(B) /\ \A y \in B : f[y] \in Nat
      /\ \A y \in B : g[y] = f[y]
  BY FS_Subset
<1>2. Sum(g, B) = Sum(f, B) /\ Sum(f, B) \in Nat
  <2> HIDE DEF B
  <2> QED BY <1>1, SumEqual, SumNat
<1>3. Sum(f, S) = (IF x \in S THEN f[x] ELSE 0) + Sum(f, B)
  <2>1. CASE x \in S
    BY <2>1, SumOne
  <2>2. CASE x \notin S
    <3>1. B = S
      BY <2>2
    <3> QED BY <1>2, <2>2, <3>1
  <2> QED BY <2>1, <2>2
<1>4. Sum(g, R) = (IF x \in R THEN g[x] ELSE 0) + Sum(g, B)
  <2>1. CASE x \in R
    BY <2>1, SumOne
  <2>2. CASE x \notin R
    <3>1. B = R
      BY <2>2
    <3> QED BY <1>2, <2>2, <3>1
  <2> QED BY <2>1, <2>2
<1>5. (x \in S => f[x] \in Nat) /\ (x \in R => g[x] \in Nat)
  OBVIOUS
<1> HIDE DEF B
<1> QED BY <1>2, <1>3, <1>4, <1>5
=============================================================================
