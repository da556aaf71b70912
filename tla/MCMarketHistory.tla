--------------------------- MODULE MCMarketHistory ---------------------------
(* Instances of MarketHistory for TLC.                                     *)
EXTENDS MarketHistory
=============================================================================
