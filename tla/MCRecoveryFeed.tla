--------------------------- MODULE MCRecoveryFeed ---------------------------
(* Bounded instances of RecoveryFeed.                                      *)
EXTENDS RecoveryFeed

\* The second packet carries two messages.
MCUpto == [k \in 0 .. Packets |-> IF k < 2 THEN k ELSE k + 1]
=============================================================================
