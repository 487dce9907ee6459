--------------------------- MODULE MCMarketBooks ---------------------------
(* Bounded instances of MarketBooks.                                       *)
EXTENDS MarketBooks, TLC

CONSTANTS i1, i2

Symmetry == Permutations({i1, i2})
=============================================================================
