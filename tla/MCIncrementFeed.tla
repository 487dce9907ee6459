-------------------------- MODULE MCIncrementFeed --------------------------
(* Bounded instances of IncrementFeed.                                     *)
EXTENDS IncrementFeed

\* One heartbeat packet (no message), one packet with two messages.
MCMsgCount == [s \in Seqs |-> IF s = 2 THEN 2 ELSE IF s = 3 THEN 0 ELSE 1]
=============================================================================
