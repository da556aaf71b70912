------------------------- MODULE MCRecommenderCycle -------------------------
(* An instance of RecommenderCycle for TLC.                                *)
EXTENDS RecommenderCycle

View(all, struct, coherence, trend) ==
  [all |-> all, struct |-> struct, coherence |-> coherence, trend |-> trend]
Side0 == [weight |-> 0, strong |-> 0, broad |-> FALSE, benchmarks |-> FALSE]
Calm == [down |-> Side0, up |-> Side0, wide |-> FALSE, chaos |-> FALSE, active |-> TRUE, covered |-> TRUE]
Falling(weight, strong) == [Calm EXCEPT !.down = [Side0 EXCEPT !.weight = weight, !.strong = strong]]
Sample(view, jump, market) == [view |-> view, jump |-> jump, market |-> market]

Up == View(40, 40, 80, 60)
\* Up and down; up in a falling market, and after a sharp fall of the symbol; one that its
\* structure overrules, a neutral one, and a weak turn.
MCSamples ==
  {Sample(Up, "none", Calm), Sample(View(-40, -40, 80, 60), "none", Calm),
   Sample(Up, "none", Falling(6, 3)), Sample(Up, "down", Falling(3, 1)),
   Sample(View(30, -20, 60, 40), "none", Calm), Sample(View(10, 0, 50, 20), "up", Calm), Sample(View(-15, -5, 50, 40), "none", Calm)}

Ready(utility) == [block |-> FALSE, score |-> TRUE, thesis |-> TRUE, evidence |-> TRUE, utility |-> utility]
Infeasible == [Ready(0) EXCEPT !.block = TRUE]
Unproven == [Ready(0) EXCEPT !.evidence = FALSE]
Offer(grid, trend) == [b \in Bots |-> IF b = "futures_grid" THEN grid ELSE trend]

\* Each bot wins once, one edge is noise; one bot alone, and one without evidence.
MCOffers ==
  {Offer(Ready(60), Ready(30)), Offer(Ready(30), Ready(60)), Offer(Ready(40), Ready(41)),
   Offer(Unproven, Infeasible)}
=============================================================================
