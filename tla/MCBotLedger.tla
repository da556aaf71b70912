----------------------------- MODULE MCBotLedger ----------------------------
(* Bot b1 is booked by a round trip and a funding payment on the exchange,   *)
(* with two snapshots of the round trip, or by hand; bot b2 by hand.         *)
EXTENDS RiskStream

CONSTANTS b1, b2

MCBots == {b1, b2}
MCSnaps == {1, 2}
MCEvents == {11, 12, 13}
MCTrades == {21, 22}
MCBotOf == [x \in Items |-> IF x = 21 THEN b2 ELSE b1]
MCNet == [x \in Booked |-> CASE x = 11 -> -1 [] x = 12 -> 3 [] x = 13 -> -1
                             [] x = 21 -> 2 [] x = 22 -> -1]
MCSide == [x \in Events |-> CASE x = 12 -> "sell" [] x = 13 -> "funding" [] OTHER -> "buy"]
MCCovers == [s \in Snaps |-> {11, 12}]
MCClean == {1}

=============================================================================
