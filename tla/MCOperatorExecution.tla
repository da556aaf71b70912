------------------------ MODULE MCOperatorExecution -------------------------
(* One symbol: a1 and a2 of one chain, s1 of another chain with the same     *)
(* contract, b1 against them all.                                            *)
EXTENDS OperatorExecution, TLC

CONSTANTS a1, a2, s1, b1

MCSymbol == [r \in Recs |-> "BTCUSDT"]
MCContract == [r \in Recs |-> IF r = b1 THEN "trend/short" ELSE "grid/long"]
MCRoot == [r \in Recs |-> IF r = a2 THEN a1 ELSE r]
\* There is one symbol: the two caps bind alike.
MCLimits == [bots : 1..2, symbol : {2}]

\* The requests are alike, and no property of the run is about a particular one.
RequestsAreAlike == Permutations(Reqs)

=============================================================================
