--------------------------- MODULE MCTradeJournal ---------------------------
(* Instances of TradeJournal for TLC.                                      *)
EXTENDS TradeJournal
=============================================================================
