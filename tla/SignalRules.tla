---------------------------- MODULE SignalRules ----------------------------
(***************************************************************************)
(* The rules a recommender cycle decides by, as operators: the direction   *)
(* of the timeframes and its hysteresis, the market shock guard and the    *)
(* fast veto with their cooldowns, and the choice between two strategies.  *)
(*                                                                         *)
(* Scores, coherence and trendiness are hundredths, utilities tenths of a  *)
(* basis point; what a score or a return is computed from is left open.    *)
(***************************************************************************)
EXTENDS Integers, FiniteSets, FiniteSetsExt

CONSTANTS
  Gap,      \* _persistence_fresh_gap
  Hold,     \* hold_sec of the market shock guard
  Release   \* release_sec of the fast veto

ASSUME RulesAssumption == {Gap, Hold, Release} \subseteq Nat

Directions == {"long", "short", "neutral"}

Magnitude(x) == IF x < 0 THEN -x ELSE x

\* The side of a score beyond a threshold.
Side(x, threshold) ==
  IF x > threshold THEN "long" ELSE IF x < -threshold THEN "short" ELSE "neutral"

-----------------------------------------------------------------------------
(* The direction of the timeframes: view has the weighted score of all,    *)
(* the score of the structural ones, coherence and trendiness.             *)

Regime(view) ==
  IF view.trend >= 48 /\ view.coherence >= 50 THEN "trend"
  ELSE IF view.trend <= 25 THEN "range" ELSE "transition"

Bias(view) == Side(view.all, 10)

RangeBiased(view) ==
  /\ Regime(view) = "range"
  /\ Bias(view) # "neutral" /\ Side(view.struct, 10) = Bias(view)
  /\ Magnitude(view.all) >= 15 /\ Magnitude(view.struct) >= 10 /\ view.coherence >= 62

BeforeVeto(view) ==
  IF Magnitude(view.all) < 12 THEN "neutral"
  ELSE IF Regime(view) = "range" THEN (IF RangeBiased(view) THEN Bias(view) ELSE "neutral")
  ELSE Side(view.all, 0)

StructuralVeto(view) ==
  /\ Side(view.struct, 10) # "neutral" /\ Magnitude(view.struct) >= 18
  /\ BeforeVeto(view) # Side(view.struct, 10)

\* aggregate_direction: strong structure overrules, or silences, the other timeframes.
RawDirection(view) ==
  IF ~StructuralVeto(view) THEN BeforeVeto(view)
  ELSE IF view.coherence >= 55 THEN Side(view.struct, 10) ELSE "neutral"

\* A range may keep a direction only when its score is clear and coherent.
DirectionalRange(view) ==
  /\ Regime(view) = "range" /\ RawDirection(view) # "neutral"
  /\ Bias(view) = RawDirection(view)
  /\ Magnitude(view.all) >= 15 /\ view.coherence >= 62

\* The direction this view could enter from a neutral one.
Entered(view) ==
  IF DirectionalRange(view) THEN RawDirection(view)
  ELSE IF Magnitude(view.all) < 14 \/ view.trend < 28 THEN "neutral"
  ELSE IF Regime(view) = "range" /\ Magnitude(view.all) < 18 THEN "neutral"
  ELSE RawDirection(view)

Opposite(d, e) == {d, e} = {"long", "short"}

WeakFlip(view) == Magnitude(view.all) < 18 \/ view.coherence < 58

\* thesis: direction, and the time of the last cycle that looked (0: never).
FreshThesis(thesis, now) == thesis.ts > 0 /\ now - thesis.ts <= Gap

\* _stabilize_direction_agg: a direction fades slowly and turns round only on proof.
Stabilized(view, thesis, now) ==
  LET held == IF FreshThesis(thesis, now) THEN thesis.direction ELSE "neutral"
      weaker == Entered(view) = "neutral" /\ Magnitude(view.all) >= 9 /\ Regime(view) # "range"
      weakFlip == Opposite(Entered(view), held) /\ WeakFlip(view)
  IN IF held # "neutral" /\ (weaker \/ weakFlip) THEN held ELSE Entered(view)

-----------------------------------------------------------------------------
(* The market shock guard.  market: the weights of the signals that point  *)
(* down and up, how many of them are strong, whether the breadth and both  *)
(* benchmarks confirm them; a wide move, chaos, and whether the symbols     *)
(* that have fresh data are any and are enough.                            *)

Lockdowns == {"red_down", "red_up", "chaos"}
Guarded == {"amber_down", "amber_up"}
ShockStates == Lockdowns \union Guarded \union {"normal"}

Severity(state) == IF state \in Lockdowns THEN 2 ELSE IF state \in Guarded THEN 1 ELSE 0

Red(side, other) == side.weight >= 5 /\ side.strong >= 2 /\ side.weight > other.weight

Amber(side, other) ==
  side.weight >= 3 /\ (side.strong >= 1 \/ side.broad \/ side.benchmarks) /\ side.weight > other.weight

Seen(market) ==
  IF market.chaos THEN "chaos"
  ELSE IF Red(market.down, market.up) THEN "red_down"
  ELSE IF Red(market.up, market.down) THEN "red_up"
  ELSE IF Amber(market.down, market.up) THEN "amber_down"
  ELSE IF Amber(market.up, market.down) THEN "amber_up" ELSE "normal"

\* Few fresh symbols prove nothing, unless both benchmarks or chaos do.
Proven(market) ==
  /\ market.active
  /\ market.covered \/ market.down.benchmarks \/ market.up.benchmarks \/ market.chaos

\* compute_market_shock, before it looks at the state it stored last.
RawShock(market) == IF Proven(market) THEN Seen(market) ELSE "normal"

\* guard_blocks_neutral
BlocksNeutral(market) ==
  LET side == IF RawShock(market) = "amber_down" THEN market.down ELSE market.up
  IN \/ RawShock(market) \in Lockdowns
     \/ RawShock(market) \in Guarded /\ side.weight >= 4 /\ (side.strong >= 2 \/ side.broad \/ market.wide)

\* Whether the stored state outlasts a milder one.
Holds(shock, state, now) ==
  /\ shock.ts > 0 /\ now - shock.ts <= Hold
  /\ Severity(shock.state) > Severity(state)
  /\ Severity(shock.state) = 2 \/ (state = "normal" /\ now - shock.ts <= Hold \div 2)

\* Mutant: the cooldown starts again with every cycle.
RenewedShock(shock, market, now) ==
  [state |-> IF Holds(shock, RawShock(market), now) THEN shock.state ELSE RawShock(market),
   ts |-> now, blocksNeutral |-> BlocksNeutral(market)]

\* _stabilize_market_shock: a held state keeps the time at which it was seen.
StabilizedShock(shock, market, now) ==
  LET held == Holds(shock, RawShock(market), now)
  IN [state |-> IF held THEN shock.state ELSE RawShock(market),
      ts |-> IF held THEN shock.ts ELSE now, blocksNeutral |-> BlocksNeutral(market)]

\* apply_market_shock_gate
ShockBlocks(shock, direction) ==
  \/ shock.state \in Lockdowns
  \/ shock.state = "amber_down" /\ direction = "long"
  \/ shock.state = "amber_up" /\ direction = "short"
  \/ shock.state \in Guarded /\ direction = "neutral" /\ shock.blocksNeutral

\* A fast move against a direction: jump is where the last minutes went.
Triggers(jump, direction) ==
  \/ direction = "long" /\ jump = "down"
  \/ direction = "short" /\ jump = "up"
  \/ direction = "neutral" /\ jump # "none"

\* _stabilize_fast_veto; the time of a veto that is off is never asked.
StabilizedVeto(veto, jump, direction, now) ==
  LET held == ~Triggers(jump, direction) /\ veto.on /\ now - veto.ts <= Release
  IN [on |-> Triggers(jump, direction) \/ held,
      ts |-> IF held THEN veto.ts ELSE IF Triggers(jump, direction) THEN now ELSE 0]

-----------------------------------------------------------------------------
(* The choice between the strategies of a symbol: utility is a function    *)
(* from the actionable candidates that have a comparable one.              *)

MinPositiveUtility == 5
MinAbsoluteUtilityEdge == 20

Eligible(utility) == {b \in DOMAIN utility : utility[b] > MinPositiveUtility}

\* The best candidate; select_strategy breaks a tie, but a tie is never clear.
Best(utility) ==
  CHOOSE b \in Eligible(utility) : \A c \in Eligible(utility) : utility[b] >= utility[c]

\* An edge of less than two points and of less than a tenth is noise.
ClearWinner(utility) ==
  LET rest == Eligible(utility) \ {Best(utility)}
      runner == Max({utility[b] : b \in rest})
      edge == utility[Best(utility)] - runner
  IN rest = {} \/ edge >= MinAbsoluteUtilityEdge \/ 10 * edge >= runner

\* select_strategy: the winner, or nobody.
NoWinner == "nobody"
Winner(utility) ==
  IF Eligible(utility) # {} /\ ClearWinner(utility) THEN Best(utility) ELSE NoWinner
=============================================================================
