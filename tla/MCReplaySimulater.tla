------------------------- MODULE MCReplaySimulater -------------------------
(* A small exchange for TLC: pages of two of three records, a market that   *)
(* is empty, one-sided, wide, or away from the orders of the strategy.      *)
EXTENDS ReplaySimulater

MCStamps == <<3, 4, 9>>

Row(b, s, v) == [best |-> [buy |-> b, sell |-> s],
                 size |-> [buy |-> 2, sell |-> 3],
                 volume |-> [buy |-> v, sell |-> v]]

MCBook == {<<"c", Row(1, 2, 2)>>, <<"c", Row(0, 1, 0)>>,
           <<"c", Row(NoPrice, 2, 1)>>, <<"c", Row(2, NoPrice, 1)>>,
           <<"d", Row(1, 2, 2)>>}

Wish(c, side, market, p) ==
  [contract |-> c, side |-> side, market |-> market, price |-> p]

MCWanted == {Wish("c", "buy", FALSE, 1), Wish("c", "sell", FALSE, 2),
             Wish("c", "sell", TRUE, 0), Wish("d", "buy", FALSE, 2)}
=============================================================================
