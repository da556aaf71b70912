---------------------------- MODULE TrendPosition ----------------------------
(***************************************************************************)
(* _directional_trend_outcome of src/app/outcomes.py: one position with a  *)
(* take profit and a stop loss, walked over exact minute candles until the *)
(* first touch that the candles can order.                                 *)
(*                                                                         *)
(* A position is its event so far ("open" while it runs), the price of its *)
(* exit, the signed funding it has been charged, and whether the label is  *)
(* already out of reach ("bad", the returns of None).                      *)
(***************************************************************************)
EXTENDS Integers

CONSTANTS Below, Above   \* the protective prices, Below < entry < Above

ASSUME TrendAssumption ==
  Below \in Nat \ {0} /\ Above \in Nat /\ Below < Above

TakeProfit(direction) == IF direction = "long" THEN Above ELSE Below
StopLoss(direction)   == IF direction = "long" THEN Below ELSE Above
Sign(direction)       == IF direction = "long" THEN 1 ELSE -1

(* p is at the price q or further in the direction of the profit.          *)
AtLeast(direction, p, q) == Sign(direction) * p >= Sign(direction) * q

Entered(e) == [event |-> "open", entry |-> e, exit |-> 0, funding |-> 0, bad |-> FALSE]

Exit(t, event, price) == [t EXCEPT !.event = event, !.exit = price]

Best(direction, c)  == IF direction = "long" THEN c.high ELSE c.low
Worst(direction, c) == IF direction = "long" THEN c.low ELSE c.high

(* A settlement is charged only when the position outlives its minute.     *)
Charge(t, direction, rate, price) ==
  CASE rate = "none"    -> t
    [] rate = "missing" -> [t EXCEPT !.bad = TRUE]
    [] rate = "longs"   -> [t EXCEPT !.funding = @ - Sign(direction) * price]
    [] rate = "shorts"  -> [t EXCEPT !.funding = @ + Sign(direction) * price]

(* One candle of the walk.  A gap beyond the stop leaves at the open, one  *)
(* beyond the profit at the profit; a candle that reaches both is not      *)
(* ordered by its four prices.                                             *)
ProfitFirst(t, direction, c, rate) ==   \* takes the profit of an unordered candle
  CASE t.bad \/ t.event # "open" -> t
    [] ~t.bad /\ t.event = "open" /\ AtLeast(direction, Best(direction, c), TakeProfit(direction)) ->
         Exit(t, "TP_FIRST", TakeProfit(direction))
    [] ~t.bad /\ t.event = "open" /\ ~AtLeast(direction, Best(direction, c), TakeProfit(direction))
         /\ AtLeast(direction, StopLoss(direction), Worst(direction, c)) ->
         Exit(t, "SL_FIRST", StopLoss(direction))
    [] OTHER -> Charge(t, direction, rate, c.open)
WalkCandle(t, direction, c, rate) ==
  LET tp  == TakeProfit(direction)
      sl  == StopLoss(direction)
      won  == AtLeast(direction, Best(direction, c), tp)
      lost == AtLeast(direction, sl, Worst(direction, c))
  IN  IF t.bad \/ t.event # "open" THEN t
      ELSE IF AtLeast(direction, sl, c.open) THEN Exit(t, "SL_FIRST", c.open)
      ELSE IF AtLeast(direction, c.open, tp) THEN Exit(t, "TP_FIRST", tp)
      ELSE CASE won /\ lost -> [t EXCEPT !.bad = TRUE]
             [] won /\ ~lost -> Exit(t, "TP_FIRST", tp)
             [] lost /\ ~won -> Exit(t, "SL_FIRST", sl)
             [] OTHER -> Charge(t, direction, rate, c.open)

AtHorizon(t, exit) ==
  IF t.bad \/ t.event # "open" THEN t ELSE Exit(t, "HORIZON_EXIT", exit)

(* The label's value in parts of scale, a fee being charged on the entry.  *)
NetReturn(t, direction, scale, fee) ==
  scale * Sign(direction) * (t.exit - t.entry) - fee * t.entry + t.funding

=============================================================================
