----------------------------- MODULE GridLedger -----------------------------
(***************************************************************************)
(* The arithmetic grid of src/app/grid_math.py and the order ledger with   *)
(* which src/app/outcomes.py replays it over one minute candle at a time.  *)
(*                                                                         *)
(* A ledger is what the replay carries from one price segment to the next: *)
(* the signed slots resting at each level, the replacement orders that a   *)
(* fill of this candle created (they rest from the next candle on), the    *)
(* position, the cash, the notional traded at the grid fee and at the      *)
(* market fee, and how the bot was stopped.  "bad" is ledger_invalid, or   *)
(* any other return of None: there will be no label, for whatever reason.  *)
(*                                                                         *)
(* Prices are integers, the quantity of one slot is the unit, rates are    *)
(* parts of Scale.                                                         *)
(***************************************************************************)
EXTENDS Integers, FiniteSets, Functions

CONSTANTS Lower, Step, GridCount,   \* the grid: GridCount intervals
          KsLower, KsUpper,         \* the kill switch
          GridFee, MarketFee,       \* half-leg fees, parts of Scale
          Scale

ASSUME GridAssumption ==
  /\ Lower \in Nat \ {0} /\ Step \in Nat \ {0} /\ GridCount \in Nat \ {0}
  /\ KsLower \in Nat \ {0} /\ KsUpper \in Nat /\ KsLower < Lower
  /\ KsUpper > Lower + Step * GridCount
  /\ GridFee \in Nat /\ MarketFee \in Nat /\ Scale \in Nat \ {0}

Indices == 0 .. GridCount
Level(i) == Lower + Step * i
Magnitude(n) == IF n < 0 THEN -n ELSE n
Opposed(a, b) == a * b < 0

-----------------------------------------------------------------------------
(* arithmetic_grid_commitment.  When the reference lies on a level that    *)
(* level is idle; between two levels one neighbour is.                     *)
OnLine(e) == \E i \in Indices : Level(i) = e
Cell(e) == (e - Lower) \div Step

BuyIndices(direction, e) ==
  IF OnLine(e) THEN {i \in Indices : Level(i) < e}
  ELSE {i \in Indices : i < Cell(e) + (IF direction = "short" THEN 0 ELSE 1)}

SellIndices(direction, e) ==
  IF OnLine(e) THEN {i \in Indices : Level(i) > e}
  ELSE {i \in Indices : i > Cell(e) + (IF direction = "short" THEN 0 ELSE 1)}

InitialPosition(direction, e) ==
  CASE direction = "long"  -> Cardinality(SellIndices(direction, e))
    [] direction = "short" -> -Cardinality(BuyIndices(direction, e))
    [] OTHER               -> 0

(* The position the margin of the bot is sized for.                        *)
MaxAbsPosition(direction, e) ==
  LET buys  == Cardinality(BuyIndices(direction, e))
      sells == Cardinality(SellIndices(direction, e))
  IN  IF direction = "neutral" THEN (IF buys > sells THEN buys ELSE sells)
      ELSE buys + sells

(* arithmetic_grid_cross_margin_stress: the loss of every slot that may be *)
(* open when a monotonic move reaches the kill switch on the adverse side. *)
LossAtLower == [i \in Indices |-> Level(i) - KsLower]
LossAtUpper == [i \in Indices |-> KsUpper - Level(i)]

LongStressOfOrders(direction, e) ==   \* forgets the initial position
  SumFunctionOnSet(LossAtLower, BuyIndices(direction, e))
LongStress(direction, e) ==
  (IF direction = "long" THEN InitialPosition(direction, e) * (e - KsLower) ELSE 0)
  + SumFunctionOnSet(LossAtLower, BuyIndices(direction, e))

ShortStress(direction, e) ==
  (IF direction = "short" THEN -InitialPosition(direction, e) * (KsUpper - e) ELSE 0)
  + SumFunctionOnSet(LossAtUpper, SellIndices(direction, e))

WorstLoss(direction, e) ==
  CASE direction = "long"  -> LongStress(direction, e)
    [] direction = "short" -> ShortStress(direction, e)
    [] OTHER -> IF LongStress(direction, e) > ShortStress(direction, e)
                THEN LongStress(direction, e) ELSE ShortStress(direction, e)

-----------------------------------------------------------------------------
Opening(direction, e) ==
  LET slots == InitialPosition(direction, e)
  IN  [orders  |-> [i \in Indices |->
                      IF i \in BuyIndices(direction, e) THEN 1
                      ELSE IF i \in SellIndices(direction, e) THEN -1 ELSE 0],
       pending |-> [i \in Indices |-> 0],
       pos     |-> slots,
       cash    |-> -(slots * e),
       turn    |-> 0,
       market  |-> Magnitude(slots) * e,
       prev    |-> e,
       peak    |-> Magnitude(slots) * e,
       funding |-> 0,
       used    |-> 0,
       stop    |-> "none",
       liq     |-> 0,
       bad     |-> FALSE]

Void(l) == [l EXCEPT !.bad = TRUE]
Over(l) == l.bad \/ l.stop # "none"
Boundary(l) == IF l.stop = "upper" THEN KsUpper ELSE KsLower

(* consume_observed_candle_volume                                          *)
Consume(l, slots, capacity) ==
  IF l.used + slots > capacity THEN Void(l) ELSE [l EXCEPT !.used = @ + slots]

(* activate_pending_orders                                                 *)
Activate(l) ==
  IF \E i \in Indices : Opposed(l.orders[i], l.pending[i]) THEN Void(l)
  ELSE [l EXCEPT !.orders  = [i \in Indices |-> l.orders[i] + l.pending[i]],
                 !.pending = [i \in Indices |-> 0]]

(* apply_funding_event: only adverse settlements are charged, and one that *)
(* is not stored is harmless only while no position is held.               *)
PayFunding(l, rate, price) ==
  CASE rate = "none"    -> l
    [] rate = "missing" -> IF l.pos = 0 THEN l ELSE Void(l)
    [] rate = "longs"   -> [l EXCEPT !.funding = @ - (IF l.pos > 0 THEN l.pos * price ELSE 0)]
    [] rate = "shorts"  -> [l EXCEPT !.funding = @ + (IF l.pos < 0 THEN l.pos * price ELSE 0)]

(* gap_crosses_kill_switch                                                 *)
GapCrosses(l, target) ==
  \/ target > KsUpper /\ l.prev < KsUpper
  \/ target < KsLower /\ l.prev > KsLower

-----------------------------------------------------------------------------
(* process_segment.  A resting order is filled only when the price trades  *)
(* through its level; each fill leaves a replacement on the other side of  *)
(* the interval, which a later segment of the same candle must not cross.  *)
Breach(from, to) ==
  IF from < KsUpper /\ KsUpper <= to THEN "upper"
  ELSE IF to <= KsLower /\ KsLower < from THEN "lower" ELSE "none"

Terminal(from, to) ==
  CASE Breach(from, to) = "upper" -> KsUpper
    [] Breach(from, to) = "lower" -> KsLower
    [] OTHER                      -> to

Crossed(slots, from, to) ==
  IF to > from
  THEN {i \in Indices : slots[i] < 0 /\ Level(i) >= from /\ Level(i) < to}
  ELSE {i \in Indices : slots[i] > 0 /\ Level(i) <= from /\ Level(i) > to /\ to < from}

(* The fills of one segment all have one sign.  add_order refuses an order *)
(* at a level where the opposite one rests or is pending.                  *)
Paid(slots) == [i \in Indices |-> slots[i] * Level(i)]
Born(slots, filled, side) ==
  [i \in Indices |-> IF i + side \in filled THEN -slots[i + side] ELSE 0]

FillInBothBooks(l, filled, side) ==   \* the filled order keeps resting
  LET born == Born(l.orders, filled, side)
      paid == SumFunctionOnSet(Paid(l.orders), filled)
  IN  [l EXCEPT !.pending = [i \in Indices |-> l.pending[i] + born[i]],
                !.cash    = @ - paid,
                !.turn    = @ + Magnitude(paid),
                !.pos     = @ + SumFunctionOnSet(l.orders, filled)]

Fill(l, filled, side) ==
  LET rest == [i \in Indices |-> IF i \in filled THEN 0 ELSE l.orders[i]]
      born == Born(l.orders, filled, side)
      paid == SumFunctionOnSet(Paid(l.orders), filled)
      slots == SumFunctionOnSet(l.orders, filled)
  IN  IF \E i \in Indices : Opposed(rest[i], born[i]) \/ Opposed(l.pending[i], born[i])
      THEN Void(l)
      ELSE [l EXCEPT !.orders  = rest,
                     !.pending = [i \in Indices |-> l.pending[i] + born[i]],
                     !.cash    = @ - paid,
                     !.turn    = @ + Magnitude(paid),
                     !.pos     = @ + slots]

Highest(a, b) == IF a > b THEN a ELSE b

Reach(l, to) ==
  [l EXCEPT !.prev = to, !.peak = Highest(@, Magnitude(l.pos) * to)]

(* The stop closes the position at the boundary, or at the observed price  *)
(* beyond it when the continuation harms the position.                     *)
Liquidate(l, side, target, capacity) ==
  LET price == IF (side = "upper" /\ l.pos < 0) \/ (side = "lower" /\ l.pos > 0)
               THEN target
               ELSE IF side = "upper" THEN KsUpper ELSE KsLower
  IN  [Consume(l, Magnitude(l.pos), capacity) EXCEPT
         !.stop = side, !.liq = price, !.peak = Highest(@, Magnitude(l.pos) * price)]

Segment(l, target, capacity) ==
  IF Over(l) THEN l
  ELSE LET side   == Breach(l.prev, target)
           to     == Terminal(l.prev, target)
           filled == Crossed(l.orders, l.prev, to)
           slots  == Magnitude(SumFunctionOnSet(l.orders, filled))
           kept   == Fill(Consume(l, slots, capacity), filled,
                          IF to > l.prev THEN 1 ELSE -1)
       IN  IF Crossed(l.pending, l.prev, to) # {} \/ kept.bad THEN Void(l)
           ELSE IF side = "none" THEN Reach(kept, to)
           ELSE Liquidate(Reach(kept, to), side, target, capacity)

-----------------------------------------------------------------------------
(* The part of the minute loop that comes before the candle's own path:    *)
(* replacements start to rest, the initial position is bought out of the   *)
(* first candle, funding is settled, and the gap from the last close to    *)
(* this open is the candle's first segment.                                *)
StartMinute(l, open, capacity, first, rate) ==
  LET active  == Activate([l EXCEPT !.used = 0])
      entered == IF first THEN Consume(active, Magnitude(active.pos), capacity) ELSE active
      settled == PayFunding(entered, rate, open)
  IN  IF Over(l) THEN l
      ELSE IF settled.bad \/ GapCrosses(l, open) THEN Void(l)
      ELSE Segment(settled, open, capacity)

(* simulate_intrabar_path for the two and three targets the loop uses, and *)
(* equivalent_ledger.                                                      *)
Path2(l, a, b, capacity) == Segment(Segment(l, a, capacity), b, capacity)
Path3(l, a, b, c, capacity) == Segment(Path2(l, a, b, capacity), c, capacity)
Agreed(left, right) == IF left = right THEN left ELSE Void(left)

(* What the loop makes of a candle of which only the four prices are known.*)
ReplayEndpoints(l, c) ==   \* the excursions of the candle are left out
  IF c.high >= KsUpper /\ c.low <= KsLower THEN Void(l) ELSE Segment(l, c.close, c.vol)

ReplayCandle(l, c) ==
  LET top    == Highest(c.open, c.close)
      bottom == IF c.open < c.close THEN c.open ELSE c.close
  IN  IF Over(l) THEN l
      ELSE CASE c.high >= KsUpper /\ c.low <= KsLower -> Void(l)
             [] c.high >= KsUpper /\ c.low > KsLower ->
                  Agreed(Segment(l, c.high, c.vol), Path2(l, c.low, c.high, c.vol))
             [] c.high < KsUpper /\ c.low <= KsLower ->
                  Agreed(Segment(l, c.low, c.vol), Path2(l, c.high, c.low, c.vol))
             [] OTHER ->
                  CASE c.high > top /\ c.low >= bottom -> Path2(l, c.high, c.close, c.vol)
                    [] c.high <= top /\ c.low < bottom -> Path2(l, c.low, c.close, c.vol)
                    [] c.high > top /\ c.low < bottom ->
                         Agreed(Path3(l, c.high, c.low, c.close, c.vol),
                                Path3(l, c.low, c.high, c.close, c.vol))
                    [] OTHER -> Segment(l, c.close, c.vol)

(* The end of the window: the boundary candle has its own volume, which    *)
(* the last gap's fills and the final close of the position share.         *)
Finish(l, exit, capacity, rate) ==
  LET settled == PayFunding([l EXCEPT !.used = 0], rate, exit)
      last    == Segment(Activate(settled), exit, capacity)
  IN  IF Over(l) THEN l
      ELSE IF settled.bad \/ GapCrosses(l, exit) THEN Void(l)
      ELSE IF Over(last) THEN last
      ELSE [Consume(last, Magnitude(last.pos), capacity) EXCEPT !.liq = exit]

(* The value of the label, before it is divided by the commitment.         *)
Net(l) ==
  Scale * (l.cash + l.pos * l.liq)
  - GridFee * l.turn - MarketFee * (l.market + Magnitude(l.pos) * l.liq)
  + l.funding

=============================================================================
