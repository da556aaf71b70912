-------------------------- MODULE CalibrationFolds --------------------------
(***************************************************************************)
(* What a calibration fit proves from the outcomes it is given: the        *)
(* monetary gates, the purged chronological folds, and the candidate whose *)
(* last fold becomes the model in use.                                     *)
(*                                                                         *)
(* A row is [id, ts, avail, win, ret]: when it was recommended, when its   *)
(* label could first be known, and the label.  The bounded history is so   *)
(* short that all recency weights are equal.  What the optimiser makes of  *)
(* the numbers is a choice: "skilled", whether the features beat score and *)
(* base rate, and "chosen", the rows the publication gate would take.      *)
(***************************************************************************)
EXTENDS Integers, FiniteSets, Sequences, FiniteSetsExt

CONSTANTS
  MinSamples,     \* CALIB_MIN_SAMPLES
  FeatureSamples, \* logreg_min_samples
  Returns         \* the net return of a won and of a lost row, in units of 0.01

ASSUME FoldsAssumption ==
  /\ {MinSamples, FeatureSamples} \subseteq Nat \ {0}
  /\ Returns \in [BOOLEAN -> Int]

Larger(a, b) == IF a > b THEN a ELSE b
Smaller(a, b) == IF a < b THEN a ELSE b

---------------------------------------------------------------------------
(* Money.                                                                  *)

\* The square of the one-sided 95 % critical value of Student's t for n observations,
\* in hundredths.
Critical2 == <<0, 3986, 853, 554, 455, 406, 378, 359>>

\* The lower bound of the mean of n values with this sum and these squares is positive:
\* the mean is, and n mean^2 > t^2 variance.
BoundedAboveZero(n, sum, squares) ==
  /\ n >= 2
  /\ sum > 0
  /\ 100 * sum * sum * (n - 1) > Critical2[n] * (n * squares - sum * sum)

\* All the rows recommended at one moment are one decision; it ends with its last label.
Decisions(rows) ==
  {[ts |-> t, end |-> Max({r.avail : r \in {q \in rows : q.ts = t}}),
    rows |-> {q \in rows : q.ts = t}] : t \in {r.ts : r \in rows}}

\* A set in the order of a relation.
Ordered(S, R) == [n \in 1..Cardinality(S) |-> CHOOSE x \in S : Cardinality({y \in S : <<y, x>> \in R}) = n - 1]

\* Of decisions in some order, those that do not overlap the last one taken.
Apart(d) ==
  LET step(t, next) == IF t # <<>> /\ next.ts < t[Len(t)].end THEN t ELSE Append(t, next)
      taken[n \in 0..Len(d)] == IF n = 0 THEN <<>> ELSE step(taken[n - 1], d[n])
  IN  taken[Len(d)]

StartsFirst(S) == {p \in S \X S : p[1].ts < p[2].ts}
EndsFirst(S) == {p \in S \X S : p[1].end < p[2].end \/ (p[1].end = p[2].end /\ p[1].ts < p[2].ts)}

\* Mutant: the decision that starts first is taken first.
CohortsByStart(rows) ==
  LET d == Decisions({r \in rows : r.avail > r.ts}) IN Apart(Ordered(d, StartsFirst(d)))

\* Earliest end first: the decisions that do not overlap those already taken.
Cohorts(rows) ==
  LET d == Decisions({r \in rows : r.avail > r.ts}) IN Apart(Ordered(d, EndsFirst(d)))

Ret(r) == Returns[r.win]
SumOf(rows) == MapThenSumSet(Ret, rows)
RowsBounded(rows) ==
  BoundedAboveZero(Cardinality(rows), SumOf(rows), MapThenSumSet(LAMBDA r : Ret(r) * Ret(r), rows))
\* The same for the means of the cohorts, times a multiple of their sizes.
CohortsBounded(cohorts) ==
  LET mean(i) == (60 * SumOf(cohorts[i].rows)) \div Cardinality(cohorts[i].rows)
  IN  BoundedAboveZero(Len(cohorts), MapThenSumSet(mean, DOMAIN cohorts),
                       MapThenSumSet(LAMBDA i : mean(i) * mean(i), DOMAIN cohorts))

\* The status of a set of rows that must hold so many rows and so many cohorts.
Money(rows, minimum, cohorts) ==
  IF Cardinality(rows) < Larger(2, minimum) \/ Len(Cohorts(rows)) < Larger(2, cohorts) THEN "insufficient"
  ELSE IF SumOf(rows) <= 0 THEN "negative"
  ELSE IF ~ RowsBounded(rows) \/ ~ CohortsBounded(Cohorts(rows)) THEN "uncertain"
  ELSE "positive"

---------------------------------------------------------------------------
(* Folds.                                                                  *)

TerminalCohorts == Smaller(5, Larger(2, MinSamples))
ClusterFloor == Larger(1, Smaller(20, (MinSamples + 3) \div 4))

\* The first rows of the decisions, as positions.
Heads(rows) == {i \in DOMAIN rows : i = 1 \/ rows[i].ts # rows[i - 1].ts}

\* Where the terminal block of n rows starts: at the latest decision that leaves it its
\* cohorts and its rows, or at the first one.
TerminalHead(heads, n) ==
  Max({1} \union {h \in heads : /\ Cardinality({g \in heads : g >= h}) >= TerminalCohorts
                                /\ n - h + 1 >= MinSamples})

Width(n) == Larger(MinSamples, n \div (Smaller(5, Larger(2, n \div MinSamples)) + 1))

\* The starts of the blocks: decisions at least a width apart, and the terminal one.
Starts(heads, terminal, width) ==
  LET after(t) == IF t = <<>> THEN width ELSE t[Len(t)] - 1 + width
      taken[h \in 0..terminal - 1] ==
        IF h = 0 THEN <<>>
        ELSE IF h \in heads \ {1} /\ h - 1 >= after(taken[h - 1]) THEN Append(taken[h - 1], h) ELSE taken[h - 1]
  IN  Append(taken[terminal - 1], terminal)

\* The validation blocks, each with its first and last position.
Blocks(rows) ==
  LET n == Len(rows)
      heads == Heads(rows)
      terminal == TerminalHead(heads, n)
      starts == Starts(heads, terminal, Width(n))
  IN  IF \/ n < Larger(6, 2 * MinSamples)
         \/ Cardinality(heads) <= TerminalCohorts
         \/ terminal - 1 < MinSamples
         \/ n - terminal + 1 < MinSamples
      THEN <<>>
      ELSE [k \in DOMAIN starts |->
              [first |-> starts[k], last |-> IF k < Len(starts) THEN starts[k + 1] - 1 ELSE n]]

\* Mutant: all earlier rows, whenever their label was known.
TrainUnpurged(rows, block) == {rows[i] : i \in 1..block.first - 1}

\* The rows a block's model may learn from: those known before its first decision.
Train(rows, block) ==
  {rows[i] : i \in {j \in 1..block.first - 1 : rows[j].ts < rows[block.first].ts
                                              /\ rows[j].ts <= rows[j].avail
                                              /\ rows[j].avail < rows[block.first].ts}}

Wins(rows) == Cardinality({r \in rows : r.win})
Minority(rows) == Smaller(Wins(rows), Cardinality(rows) - Wins(rows))
\* label_balance_stats as fit_platt reads it: enough of both labels, and no near certainty.
Balanced(rows) ==
  /\ 2 * Minority(rows) >= MinSamples
  /\ 100 * Wins(rows) >= 15 * Cardinality(rows)
  /\ 100 * Wins(rows) <= 85 * Cardinality(rows)

\* The blocks a model can be fitted for.
Folds(rows) ==
  LET blocks == Blocks(rows)
      fold(b) == [first |-> b.first, last |-> b.last, train |-> Train(rows, b),
                  held |-> {rows[i] : i \in b.first..b.last}]
  IN  {f \in {fold(blocks[k]) : k \in DOMAIN blocks} :
         /\ f.first - 1 >= MinSamples
         /\ Cardinality(f.train) >= MinSamples
         /\ 2 * Minority(f.train) >= MinSamples}
\* Those it can also be compared on with the score and the base rate.
Compared(folds) == {f \in folds : Balanced(f.train)}

\* The rows folds predict: those of all folds serve the calibration on top.
Predicted(folds) == UNION {f.held : f \in folds}
\* The fold of the last pipeline that was fitted.
Final(folds) == CHOOSE f \in Compared(folds) : \A g \in Compared(folds) : g.first <= f.first

---------------------------------------------------------------------------
(* The fit.                                                                *)

NoMoney == [status |-> "not_evaluated", samples |-> 0, cohorts |-> 0]
NoSkill == [status |-> "not_evaluated", samples |-> 0, cohorts |-> 0]
NoModel == [state |-> "none", fitted |-> FALSE, status |-> "unknown", ts |-> 0, returns |-> 0, sum |-> 0,
            oof |-> "not_evaluated", samples |-> 0, skill |-> NoSkill,
            selected |-> NoMoney, terminal |-> NoMoney, train |-> {}, proof |-> {},
            policy |-> FALSE, matured |-> 0, labeled |-> 0, censored |-> 0, unresolved |-> 0, invalid |-> 0]

Report(rows, minimum, cohorts) ==
  [status |-> Money(rows, minimum, cohorts), samples |-> Cardinality(rows), cohorts |-> Len(Cohorts(rows))]

\* The last pipeline was judged on the end of the history of n rows.
Comparable(folds, n) == Compared(folds) # {} /\ Final(folds).last = n

\* The comparison of the folds: accepted if the last one has its rows and its cohorts.
Skill(held, skilled) ==
  LET cohorts == Cardinality({r.ts : r \in held})
      enough == Cardinality(held) >= MinSamples /\ cohorts >= TerminalCohorts
  IN  [status |-> IF skilled /\ enough THEN "accepted" ELSE "rejected",
       samples |-> Cardinality(held), cohorts |-> cohorts]

\* Everything that has to hold for the candidate of the last fold to be used.
Activated(m) ==
  /\ m.skill.status = "accepted"
  /\ m.selected.status = "positive"
  /\ m.terminal.status = "positive"
  /\ m.skill.samples >= MinSamples
  /\ m.skill.cohorts >= TerminalCohorts

\* A model that has passed the monetary gates, compared out of fold.
WithSkill(m, folds, skilled, chosen) ==
  [m EXCEPT !.skill = Skill(Final(folds).held, skilled),
            !.selected = Report(chosen, MinSamples, ClusterFloor),
            !.terminal = Report(chosen \intersect Final(folds).held, MinSamples, TerminalCohorts)]

\* Why it is not activated.
Refusal(m, folds) ==
  IF Cardinality(Predicted(folds)) < MinSamples \/ ~ Balanced(Predicted(folds)) THEN "insufficient"
  ELSE IF m.skill.status # "accepted" THEN "no_skill"
  ELSE IF m.selected.status # "positive" THEN "selected_policy_unproven"
  ELSE IF m.terminal.status # "positive" THEN "terminal_selected_policy_unproven"
  ELSE "none"

\* Only the candidate of the last fold can be activated: it has not seen what it is judged on.
Validated(m, folds) ==
  LET v == [m EXCEPT !.samples = Cardinality(Predicted(folds))]
  IN  IF Refusal(m, folds) # "none" \/ ~ Activated(m) THEN [v EXCEPT !.oof = Refusal(m, folds)]
      ELSE [v EXCEPT !.oof = "sufficient", !.fitted = TRUE, !.train = Final(folds).train,
                     !.proof = {<<f.train, f.held>> : f \in Compared(folds)}]

\* The rows that can be trained on: their label is known, and not before the row itself.
Sanitized(rows, now) == {r \in rows : r.ts <= r.avail /\ r.avail <= now}

\* Rows in the order of their decisions.
Earlier(S) == {p \in S \X S : p[1].ts < p[2].ts \/ (p[1].ts = p[2].ts /\ p[1].id < p[2].id)}
InOrder(rows) == Ordered(rows, Earlier(rows))

Priced(rows, now) ==
  [NoModel EXCEPT !.state = "model", !.ts = now, !.returns = Cardinality(rows), !.sum = SumOf(rows),
                  !.status = Money(rows, MinSamples, ClusterFloor)]
Unskilled(m) == [m EXCEPT !.skill = [NoSkill EXCEPT !.status = "insufficient"]]

\* What fit_logreg can come to: money first, then the balance of the labels, then the
\* features, and the candidate against the rows it has not seen.
Fits(fetched, now) ==
  LET all == Sanitized(fetched, now)
      rows == InOrder(all)
      folds == Folds(rows)
      m == Priced(all, now)
  IN  IF m.status # "positive" \/ ~ Balanced(all) THEN {m}
      ELSE IF Len(rows) < FeatureSamples THEN {[Unskilled(m) EXCEPT !.oof = "insufficient"]}
      ELSE IF ~ Comparable(folds, Len(rows)) THEN {Validated(Unskilled(m), folds)}
      ELSE {Validated(WithSkill(m, folds, skilled, chosen), folds) :
              skilled \in BOOLEAN, chosen \in SUBSET Predicted(Compared(folds))}
=============================================================================
