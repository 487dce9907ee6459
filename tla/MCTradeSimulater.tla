------------------------- MODULE MCTradeSimulater --------------------------
(* Three orders, two prices a cent apart and one that the conversion of     *)
(* prices does not return: 1.13 * 100 is 112.99..., and 112 is 1.12.        *)
EXTENDS TradeSimulater

MCPrices == {111, 112}
MCInexact == {113}

Wish(side, p, n, tif) ==
  [side |-> side, market |-> p = NoPrice, price |-> p, quantity |-> n,
   filled |-> 0, tif |-> tif]

MCWanted == {Wish("buy", 111, 1, "GFD"), Wish("buy", 112, 2, "GFD"),
             Wish("sell", 111, 2, "GFD"), Wish("sell", 112, 1, "GFD"),
             Wish("sell", NoPrice, 2, "GFD"), Wish("buy", NoPrice, 1, "GFD"),
             Wish("buy", 112, 2, "FAK"), Wish("sell", 111, 3, "FOK"),
             Wish("buy", 113, 1, "GFD")}
=============================================================================
