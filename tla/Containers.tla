----------------------------- MODULE Containers -----------------------------
(***************************************************************************)
(* Lists from which elements are taken out (std::list::remove, erase), and *)
(* sums over the entries of a map.  Both are recursive functions: more can *)
(* be shown about them than about SelectSeq and a fold.                    *)
(***************************************************************************)
EXTENDS Integers, Sequences

\* What is left of s without the elements in D.
Remaining(s, D) ==
  LET Left[n \in 0 .. Len(s)] ==
        IF n = 0 THEN <<>>
        ELSE IF s[n] \in D THEN Left[n - 1]
        ELSE Append(Left[n - 1], s[n])
  IN  Left[Len(s)]

\* The quantities f[x] of the elements of the set S, in all.
Sum(f, S) ==
  LET Total[T \in SUBSET S] ==
        IF T = {} THEN 0
        ELSE LET x == CHOOSE x \in T : TRUE IN f[x] + Total[T \ {x}]
  IN  Total[S]

=============================================================================
