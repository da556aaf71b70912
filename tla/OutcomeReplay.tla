---------------------------- MODULE OutcomeReplay ----------------------------
(***************************************************************************)
(* What a label says against what the market did.  Trades arrive one by    *)
(* one and make up minute candles; the outcome worker sees the candles     *)
(* only, or, for a minute that an uninterrupted stream of public trades    *)
(* covers, the trades themselves (observed_trade_path).                    *)
(*                                                                         *)
(* "book" is the replay the worker computes from that evidence.  "tape" is *)
(* the same replay fed with every trade: what the worker would compute had *)
(* every minute been covered.  "reached" is the protective boundary the    *)
(* trades reached first.  The worker reads candles after the horizon, the  *)
(* model feeds them to the book as they close: the order is the same.      *)
(***************************************************************************)
EXTENDS GridLedger, TrendPosition

CONSTANTS Bots,        \* records: family, direction, entry
          Prices,      \* the prices of the trades
          Volumes,     \* the volumes of the candles, in slots
          Rates,       \* what is known of a settlement: see PayFunding
          Evidence,    \* subset of {"candle", "trades", "mismatch"}
          Minutes,     \* length of the horizon
          MaxTrades    \* trades in one minute

\* A grid is labelled only with a commitment: its entry lies between its outer levels.
ASSUME ReplayAssumption ==
  \A b \in Bots : b.family = "grid" =>
    /\ b.direction \in {"neutral", "long", "short"}
    /\ b.entry \in Lower .. Level(GridCount)
ASSUME EvidenceAssumption ==
  /\ Rates \subseteq {"none", "missing", "longs", "shorts"}
  /\ Evidence \subseteq {"candle", "trades", "mismatch"}

\* Candles without a positive price are refused.
ASSUME PriceAssumption == Prices \subseteq Nat \ {0}

VARIABLES bot,         \* the recommendation that is labelled
          minute,      \* minutes closed
          candle,      \* the minute being traded, or NoCandle
          trades,      \* trades in it so far
          book,        \* the worker's replay
          exact,       \* the book, fed with the trades of this minute
          tape,        \* the replay of every trade
          reached,     \* the boundary the trades reached first
          label        \* a label, kept or unavailable, or none so far

replayVars == <<bot, minute, candle, trades, book, exact, tape, reached, label>>

NoCandle == [vol |-> -1]
NoLabel(state) == [state |-> state, stop |-> "none", net |-> 0, success |-> FALSE]
Grid == bot.family = "grid"

Start(b) == IF b.family = "grid" THEN Opening(b.direction, b.entry) ELSE Entered(b.entry)

ReplayInit ==
  /\ bot \in Bots
  /\ minute = 0 /\ candle = NoCandle /\ trades = 0
  /\ book = Start(bot) /\ exact = Start(bot) /\ tape = Start(bot)
  /\ reached = "none" /\ label = NoLabel("open")

UpperBound == IF Grid THEN KsUpper ELSE Above
LowerBound == IF Grid THEN KsLower ELSE Below
Touch(p) == IF reached # "none" THEN reached
            ELSE IF p >= UpperBound THEN "upper"
            ELSE IF p <= LowerBound THEN "lower" ELSE "none"

(* The label a finished replay stands for, with the side it stopped at.    *)
GridLabel(r) ==
  [state |-> "kept", stop |-> r.stop, net |-> Net(r),
   success |-> r.stop = "none" /\ Net(r) > 0]

TrendLabel(r) ==
  LET net == NetReturn(r, bot.direction, Scale, MarketFee)
  IN  [state |-> "kept",
       stop |-> CASE r.event = "HORIZON_EXIT" -> "none"
                  [] r.event = "TP_FIRST" -> IF bot.direction = "long" THEN "upper" ELSE "lower"
                  [] r.event = "SL_FIRST" -> IF bot.direction = "long" THEN "lower" ELSE "upper",
       net |-> net, success |-> r.event # "SL_FIRST" /\ net > 0]

Label(r) == IF r.bad THEN NoLabel("unavailable")
            ELSE IF Grid THEN GridLabel(r) ELSE TrendLabel(r)

Decided(r) == IF Grid THEN Over(r) ELSE r.bad \/ r.event # "open"
Unlabelled == label.state = "open"
Kept == label.state = "kept"

-----------------------------------------------------------------------------
(* A minute begins with its first trade.  The volume is the minute's       *)
(* total, which bounds the fills of every replay of it.                    *)
OpenMinute ==
  \E p \in Prices, v \in Volumes, rate \in Rates :
    /\ Unlabelled /\ candle = NoCandle /\ minute < Minutes
    /\ minute = 0 => p = bot.entry
    /\ candle' = [open |-> p, high |-> p, low |-> p, close |-> p, vol |-> v, rate |-> rate]
    /\ trades' = 1
    /\ book' = IF Grid THEN StartMinute(book, p, v, minute = 0, rate) ELSE book
    /\ exact' = book'
    /\ tape' = IF Grid THEN StartMinute(tape, p, v, minute = 0, rate) ELSE tape
    /\ reached' = Touch(p)
    /\ UNCHANGED <<bot, minute, label>>

Trade ==
  \E p \in Prices :
    /\ Unlabelled /\ candle # NoCandle /\ trades < MaxTrades
    /\ candle' = [candle EXCEPT !.close = p, !.high = Highest(@, p),
                                !.low = IF p < @ THEN p ELSE @]
    /\ trades' = trades + 1
    /\ exact' = IF Grid THEN Segment(exact, p, candle.vol) ELSE exact
    /\ tape' = IF Grid THEN Segment(tape, p, candle.vol) ELSE tape
    /\ reached' = Touch(p)
    /\ UNCHANGED <<bot, minute, book, label>>

(* The candle closes and the worker's loop goes over it.  A covered minute *)
(* is replayed from its trades, unless they do not make up the candle.     *)
Observe(evidence) ==
  CASE ~Grid -> WalkCandle(book, bot.direction, candle, candle.rate)
    [] Grid /\ evidence = "candle" -> ReplayCandle(book, candle)
    [] Grid /\ evidence = "trades" -> exact
    [] Grid /\ evidence = "mismatch" -> IF Over(book) THEN book ELSE Void(book)

CloseMinute ==
  \E evidence \in Evidence :
    /\ Unlabelled /\ candle # NoCandle
    /\ book' = Observe(evidence)
    /\ exact' = book'
    /\ candle' = NoCandle /\ trades' = 0 /\ minute' = minute + 1
    /\ label' = IF Decided(book') THEN Label(book') ELSE label
    /\ UNCHANGED <<bot, tape, reached>>

(* The first trade of the candle after the horizon is the exit.            *)
Horizon ==
  \E p \in Prices, v \in Volumes, rate \in Rates :
    /\ Unlabelled /\ candle = NoCandle /\ minute = Minutes
    /\ book' = IF Grid THEN Finish(book, p, v, rate) ELSE AtHorizon(book, p)
    /\ exact' = book'
    /\ tape' = IF Grid THEN Finish(tape, p, v, rate) ELSE tape
    /\ reached' = IF Grid THEN Touch(p) ELSE reached
    /\ label' = Label(book')
    /\ UNCHANGED <<bot, minute, candle, trades>>

ReplayNext == OpenMinute \/ Trade \/ CloseMinute \/ Horizon

ReplaySpec == ReplayInit /\ [][ReplayNext]_replayVars

-----------------------------------------------------------------------------
(* A label that is kept never reports more than the trades themselves      *)
(* would have given, and exactly that unless the bot was stopped: what the *)
(* four prices of a candle leave open has been censored, not guessed.      *)
LabelMatchesTape ==
  (Grid /\ Kept /\ ~tape.bad) =>
    /\ label.stop = tape.stop
    /\ label.net <= Net(tape)
    /\ label.stop = "none" => label.net = Net(tape)

(* The protective boundary a label names is the first that a trade         *)
(* reached, and a label that names none means that no trade reached one.   *)
LabelNamesTheFirstTouch == Kept => label.stop = reached

(* The position never exceeds the one the bot's margin is sized for, and   *)
(* each fill is answered by one replacement: the slots resting below are   *)
(* what the position can still grow by.                                    *)
Ledgers == IF Grid THEN {book, exact, tape} ELSE {}

Resting(l, s) == [i \in Indices |-> Highest(s * l.orders[i], 0) + Highest(s * l.pending[i], 0)]
RestingBuys(l) == SumFunction(Resting(l, 1))

PositionWithinCommitment ==
  \A l \in Ledgers : ~l.bad =>
    /\ Magnitude(l.pos) <= MaxAbsPosition(bot.direction, bot.entry)
    /\ l.pos + RestingBuys(l) =
         InitialPosition(bot.direction, bot.entry)
         + Cardinality(BuyIndices(bot.direction, bot.entry))

(* Stopped at the kill switch itself, the grid has lost no more than the   *)
(* stress with which its leverage was approved.                            *)
StopWithinStress ==
  \A l \in Ledgers : (~l.bad /\ l.stop # "none") =>
    l.cash + l.pos * Boundary(l) >= -WorstLoss(bot.direction, bot.entry)

(* outcomes.py:1931 calls a one-sided excursion "unambiguous", and         *)
(* README.md:378 says that a segment of the same candle that would cross a *)
(* new replacement makes the outcome unavailable.                          *)
KeptLabelsHaveOneReplay == (Grid /\ Kept) => ~tape.bad

ReplayTypeOK ==
  /\ bot \in Bots /\ minute \in 0 .. Minutes /\ trades \in 0 .. MaxTrades
  /\ reached \in {"none", "upper", "lower"}
  /\ (candle = NoCandle) <=> (trades = 0)
  /\ candle # NoCandle => candle.low <= candle.open /\ candle.close <= candle.high

-----------------------------------------------------------------------------
(* Why position and loss stay inside: what holds of the books of a grid    *)
(* whatever path the prices took.  On the side s of the grid, 1 the lower  *)
(* and -1 the upper, the slots on order are what the position can grow by, *)
(* and what closing at the kill switch would yield now covers what those   *)
(* orders have still to lose there, up to the stress.                      *)
KillSwitch(s) == IF s = 1 THEN KsLower ELSE KsUpper
LossAt(s) == IF s = 1 THEN LossAtLower ELSE LossAtUpper
OpeningOrders(s, b) ==
  IF s = 1 THEN BuyIndices(b.direction, b.entry) ELSE SellIndices(b.direction, b.entry)
StressAt(s, b) ==
  InitialPosition(b.direction, b.entry) * (b.entry - KillSwitch(s))
  + SumFunctionOnSet(LossAt(s), OpeningOrders(s, b))

SlotsAddUp(l, s, b) ==
  s * l.pos + SumFunction(Resting(l, s)) =
    s * InitialPosition(b.direction, b.entry) + Cardinality(OpeningOrders(s, b))

LossIsCovered(l, s, b) ==
  l.cash + l.pos * KillSwitch(s) >=
    SumFunction([i \in Indices |-> Resting(l, s)[i] * LossAt(s)[i]]) - StressAt(s, b)

\* A replacement lies inside the grid, for no buy rests at the top and no sell at the bottom.
EndsHold(l) ==
  /\ l.orders[0] >= 0 /\ l.pending[0] >= 0
  /\ l.orders[GridCount] <= 0 /\ l.pending[GridCount] <= 0

BooksAreSound(l, b) ==
  EndsHold(l) /\ \A s \in {1, -1} : SlotsAddUp(l, s, b) /\ LossIsCovered(l, s, b)

ReplayInvariant == \A l \in Ledgers : BooksAreSound(l, bot)

-----------------------------------------------------------------------------
(* Why a label matches the tape.  As long as a grid is not stopped, what a *)
(* stretch of prices makes of its ledger depends on how far they went up   *)
(* and down and not on their order: on the way up it has sold what rested  *)
(* below the top, on the way down it has bought what rested above the      *)
(* bottom, or it is void.                                                  *)
Sold(k, top) == {i \in Indices : k.orders[i] < 0 /\ Level(i) < top}
Bought(k, bottom) == {i \in Indices : k.orders[i] > 0 /\ Level(i) > bottom}
Notional(slots) == [i \in Indices |-> Magnitude(slots[i]) * Level(i)]

Traded(k, l, top, bottom) ==
  LET up     == Sold(k, top)
      down   == Bought(k, bottom)
      filled == up \union down
  IN  /\ l.orders = [i \in Indices |-> IF i \in filled THEN 0 ELSE k.orders[i]]
      /\ l.pending = [i \in Indices |-> k.pending[i] + (Born(k.orders, up, 1)[i]
                                                         + Born(k.orders, down, -1)[i])]
      /\ l.pos = k.pos + SumFunctionOnSet(k.orders, filled)
      /\ l.cash = k.cash - SumFunctionOnSet(Paid(k.orders), filled)
      /\ l.turn = k.turn + SumFunctionOnSet(Notional(k.orders), filled)
      /\ l.market = k.market /\ l.funding = k.funding

(* All that a label can be made of: the volume used is counted anew in     *)
(* each minute, and the peak is the path's own.                            *)
Alike(k, l) ==
  /\ k.orders = l.orders /\ k.pending = l.pending /\ k.pos = l.pos /\ k.cash = l.cash
  /\ k.turn = l.turn /\ k.market = l.market /\ k.funding = l.funding
  /\ k.prev = l.prev /\ k.stop = l.stop /\ k.liq = l.liq

Faces(l) ==
  \A i \in Indices :
    /\ l.orders[i] < 0 \/ l.pending[i] < 0 => Level(i) >= l.prev
    /\ l.orders[i] > 0 \/ l.pending[i] > 0 => Level(i) <= l.prev

Ready(l) ==
  ~l.bad =>
    /\ {l.turn, l.market, l.funding, l.prev, l.liq} \subseteq Int
    /\ l.stop = "none" => Faces(l) /\ KsLower < l.prev /\ l.prev < KsUpper

(* A replay l of every trade, against the ledger k with which the minute   *)
(* began and the candle c that the trades make up.                         *)
Follows(k, l, c) ==
  \/ k.bad \/ l.bad
  \/ k.stop # "none" /\ Alike(k, l)
  \/ /\ k.stop = "none" /\ l.stop = "none" /\ KsLower < c.low /\ c.high < KsUpper
     /\ l.prev = c.close /\ l.liq = k.liq /\ Traded(k, l, c.high, c.low)
  \/ /\ k.stop = "none" /\ l.stop = "upper"
     /\ \E low \in c.low .. k.prev, p \in KsUpper .. c.high :
          Traded(k, l, KsUpper, low) /\ l.liq = (IF l.pos < 0 THEN p ELSE KsUpper)
  \/ /\ k.stop = "none" /\ l.stop = "lower"
     /\ \E high \in k.prev .. c.high, p \in c.low .. KsLower :
          Traded(k, l, high, KsLower) /\ l.liq = (IF l.pos > 0 THEN p ELSE KsLower)

CandleFields == {"open", "high", "low", "close", "vol", "rate"}
WholeCandle(c) ==
  /\ c = [f \in CandleFields |-> c[f]]
  /\ {c.open, c.high, c.low, c.close} \subseteq Int
  /\ c.low <= c.open /\ c.open <= c.high /\ c.low <= c.close /\ c.close <= c.high
CandleHolds(k, c) == WholeCandle(c) /\ (~Over(k) => c.open = k.prev)

TapeInvariant ==
  Grid =>
    /\ LabelMatchesTape
    /\ Unlabelled =>
         /\ Ready(book) /\ Ready(exact)
         /\ exact.bad \/ tape.bad \/ Alike(exact, tape)
         /\ candle = NoCandle => exact = book /\ ~Over(book)
         /\ candle # NoCandle => CandleHolds(book, candle) /\ Follows(book, tape, candle)

-----------------------------------------------------------------------------
(* Why a label names the first touch.  The four prices of a candle tell    *)
(* whether a boundary was reached, and which if it was one of them; a      *)
(* candle that opens beyond a boundary has reached that one first.         *)
Tells(c, side, lower, upper) ==
  /\ side = "none" <=> lower < c.low /\ c.high < upper
  /\ side = "upper" => c.high >= upper
  /\ side = "lower" => c.low <= lower
  /\ c.open >= upper => side = "upper"
  /\ c.open <= lower => side = "lower"

PositionRuns(t) ==
  t = [f \in {"event", "entry", "exit", "funding", "bad"} |-> t[f]] /\ t.event = "open" /\ ~t.bad

TouchInvariant ==
  /\ reached \in {"none", "upper", "lower"}
  /\ LabelNamesTheFirstTouch
  /\ Unlabelled =>
       /\ candle = NoCandle => reached = "none"
       /\ candle # NoCandle =>
            /\ WholeCandle(candle) /\ candle.rate \in Rates
            /\ Tells(candle, reached, LowerBound, UpperBound)
       /\ ~Grid => PositionRuns(book)
       /\ Grid =>
            /\ Ready(book) /\ Ready(exact)
            /\ candle = NoCandle => ~Over(book) /\ exact = book
            /\ candle # NoCandle =>
                 /\ CandleHolds(book, candle)
                 /\ book.bad \/ book.stop \in {"none", reached}
                 /\ exact.bad \/ exact.stop = reached

=============================================================================
