-------------------------- MODULE MCOutcomeReplay ---------------------------
(* A grid of three intervals, 4-6-8-10, the kill switch at 2 and 12, and an  *)
(* entry on a level or between two.  The prices lie between the levels, on   *)
(* one of them, and on both sides of the kill switch.                        *)
EXTENDS OutcomeReplay

GridBots == [family : {"grid"}, direction : {"neutral", "long", "short"}, entry : {6, 7}]
TrendBots == [family : {"trend"}, direction : {"long", "short"}, entry : {6}]
MCBots == GridBots \cup TrendBots

=============================================================================
