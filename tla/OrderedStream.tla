--------------------------- MODULE OrderedStream ---------------------------
(***************************************************************************)
(* What the increment pipeline of a channel promises to the book manager:  *)
(* from where it begins, every message of every packet is handled exactly  *)
(* once, in sequence order, with nothing left out in between.              *)
(***************************************************************************)
EXTENDS Naturals

CONSTANTS Seqs, MsgCount

VARIABLES
  first,    \* where the stream begins, 0 while that is not known
  handled   \* messages handled of each packet

Init ==
  /\ first = 0
  /\ handled = [s \in Seqs |-> 0]

Join ==
  /\ first = 0
  /\ first' \in Nat \ {0}
  /\ UNCHANGED handled

Handle(seq) ==
  /\ first # 0
  /\ first <= seq
  /\ handled[seq] < MsgCount[seq]
  /\ \A s \in Seqs : first <= s /\ s < seq => handled[s] = MsgCount[s]
  /\ handled' = [handled EXCEPT ![seq] = @ + 1]
  /\ UNCHANGED first

Next == Join \/ \E seq \in Seqs : Handle(seq)

Spec == Init /\ [][Next]_<<first, handled>>
=============================================================================
