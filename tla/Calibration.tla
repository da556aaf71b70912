----------------------------- MODULE Calibration -----------------------------
(***************************************************************************)
(* The life of the calibration models: label roots are published, labelled *)
(* late, censored and pruned; once an interval the recommender refits the  *)
(* global and the bot's model from the labels it can see, keeps them in    *)
(* app_config, and in every cycle checks them against all matured roots.   *)
(*                                                                         *)
(* One bot, one policy fingerprint: the global model is fitted from the    *)
(* same rows.  A cycle keeps nothing in memory, so a restart is a cycle    *)
(* that is not run.                                                        *)
(***************************************************************************)
EXTENDS CalibrationFolds

CONSTANTS
  MaxNow,         \* bound of the clock
  MaxRoots,       \* bound of the published roots
  Batches,        \* the roots a cycle may publish: sequences of [fate, delay]
  Horizon,        \* POLICY_LABEL_HORIZONS_SEC with its grace
  Retention,      \* age at which prune_old_data removes a root
  RefitInterval,  \* CALIB_REFIT_INTERVAL_SEC
  CensoredPercent \* the share of censored roots a model may tolerate

Fates == {"won", "lost", "censored", "invalid"}

ASSUME CalibrationAssumption ==
  /\ {MaxNow, Horizon} \subseteq Nat \ {0}
  /\ {MaxRoots, Retention, RefitInterval, CensoredPercent} \subseteq Nat
  /\ Batches \subseteq Seq([fate : Fates, delay : Nat])

VARIABLES
  now,    \* the clock
  roots,  \* the label roots, as they were published
  first,  \* the first one that is not pruned
  saved,  \* the models in app_config
  used,   \* the models a cycle decides with, until it is over
  ran     \* the last cycle

vars == <<now, roots, first, saved, used, ran>>

Models == {"global", "bot"}
Init ==
  /\ now = 1 /\ roots = <<>> /\ first = 1 /\ ran = 0
  /\ saved = [k \in Models |-> NoModel]
  /\ used = [k \in Models |-> NoModel]

---------------------------------------------------------------------------
(* What a cycle can see.                                                   *)

Kept == first..Len(roots)
Matured == {i \in Kept : roots[i].ts + Horizon <= now}
Written == {i \in Matured : roots[i].avail <= now}
Labeled == {i \in Written : roots[i].fate \in {"won", "lost"}}
Censored == {i \in Written : roots[i].fate = "censored"}
Invalid == {i \in Written : roots[i].fate = "invalid"}
Unresolved == Matured \ (Labeled \union Censored)

Row(i) == [id |-> i, ts |-> roots[i].ts, avail |-> roots[i].avail, win |-> roots[i].fate = "won"]
\* get_outcomes_with_recs: every labelled root, whatever its order.
Fetched == {Row(i) : i \in Labeled}

Most(a, b) == Larger(0, a - b)

\* The conclusion survives an adverse return for every censored root; how adverse it
\* is taken to be, beyond 0.01, depends on the spread ("mild").
Tolerated(m, mild) ==
  /\ mild
  /\ 100 * Cardinality(Censored) <= CensoredPercent * Cardinality(Matured)
  /\ m.sum > Cardinality(Censored)

\* A model is set against all matured roots: unknown or invalid ones, labels it has not
\* seen, or rows it has seen that are gone, make it unusable.
Gated(m, mild) ==
  LET positive == m.status = "positive"
      g == [m EXCEPT !.policy = TRUE, !.matured = Cardinality(Matured), !.labeled = Cardinality(Labeled),
                     !.censored = Cardinality(Censored),
                     !.unresolved = Cardinality(Unresolved)
                                    + (IF positive THEN Most(m.returns, Cardinality(Matured)) ELSE 0),
                     !.invalid = Larger(Cardinality(Invalid), Most(Cardinality(Labeled), m.returns))]
  IN  IF g.unresolved > 0 \/ g.invalid > 0 \/ (positive /\ Censored # {} /\ ~ Tolerated(m, mild))
      THEN [g EXCEPT !.status = "censored", !.fitted = FALSE, !.train = {}, !.proof = {}]
      ELSE g

\* The stored evidence of a fitted model says that it may be used.
Evident(m) ==
  /\ m.status = "positive" /\ m.oof = "sufficient" /\ m.samples >= MinSamples
  /\ m.skill.status = "accepted" /\ m.skill.samples >= MinSamples /\ m.skill.cohorts >= TerminalCohorts
  /\ m.selected.status = "positive" /\ m.terminal.status = "positive"

SelectedReadable(m) ==
  m.selected.status = "positive" =>
    m.selected.samples >= MinSamples /\ m.selected.cohorts >= ClusterFloor
TerminalReadable(m) ==
  m.terminal.status = "positive" =>
    m.terminal.samples >= MinSamples /\ m.terminal.cohorts >= TerminalCohorts
DenominatorReadable(m) ==
  m.policy /\ m.labeled + m.censored + m.unresolved <= m.matured /\ m.invalid <= m.labeled

\* load_logreg_from_db: what does not fit together is not read at all.
Readable(m) ==
  /\ m.state = "model"
  /\ m.status \in {"negative", "uncertain", "positive"} => m.returns > 0
  /\ m.oof = "sufficient" => m.samples >= MinSamples
  /\ SelectedReadable(m) /\ TerminalReadable(m) /\ DenominatorReadable(m)
  /\ m.fitted => Evident(m)

Load(k) == IF Readable(saved[k]) THEN saved[k] ELSE NoModel
Fresh(m) == m.state = "model" /\ now - m.ts < RefitInterval
Persistable(m) == m.fitted \/ m.status \in {"negative", "uncertain", "positive", "censored"}
\* A stored loss outweighs everything but new positive evidence.
Vetoes(m, fit) == m.status = "negative" /\ fit.status # "positive"

\* Mutant: a fresh model is used as it was stored.
GlobalModelAsStored(fit, mild) ==
  IF Fresh(Load("global")) THEN Load("global")
  ELSE IF Vetoes(Load("global"), fit) THEN Gated(Load("global"), mild) ELSE fit
\* Mutant: the fit is stored before it is compared, as for the bots.
GlobalSavedAtOnce(fit) == IF Fresh(Load("global")) THEN saved["global"] ELSE fit

\* What _load_or_fit_global_logreg returns, and what it leaves in app_config.
GlobalModel(fit, mild) ==
  IF Fresh(Load("global")) \/ Vetoes(Load("global"), fit) THEN Gated(Load("global"), mild) ELSE fit
GlobalSaved(fit) ==
  IF Fresh(Load("global")) \/ Vetoes(Load("global"), fit) THEN saved["global"] ELSE fit

\* _load_or_fit_bot_logregs: the fit is stored as soon as it says something, before it
\* is compared with what was stored.  Without rows nothing is fitted.
BotFit(fit) == IF Labeled = {} THEN [NoModel EXCEPT !.state = "model", !.status = "insufficient", !.ts = now] ELSE fit
BotModel(fit, mild) ==
  IF Fresh(Load("bot")) \/ Vetoes(Load("bot"), BotFit(fit)) THEN Gated(Load("bot"), mild) ELSE BotFit(fit)
BotSaved(fit) ==
  IF Fresh(Load("bot")) \/ (Vetoes(Load("bot"), BotFit(fit)) /\ ~ Persistable(BotFit(fit)))
  THEN saved["bot"] ELSE BotFit(fit)

---------------------------------------------------------------------------
(* Steps.                                                                  *)

\* The roots of one cycle have its timestamp; what becomes of each, and when that is
\* known, is up to the market and the labeler.
Published(batch) ==
  roots \o [n \in DOMAIN batch |->
             [ts |-> now, avail |-> now + Horizon + batch[n].delay, fate |-> batch[n].fate]]

\* The recommender's cycle: both models are loaded, or fitted from the same rows, and
\* the roots it decides on are published.
Cycle ==
  /\ ran < now
  /\ \E fitted \in Fits(Fetched, now), mild \in BOOLEAN :
       \E fit \in {Gated(fitted, mild)} :
         /\ used' = [k \in Models |-> IF k = "global" THEN GlobalModel(fit, mild) ELSE BotModel(fit, mild)]
         /\ saved' = [k \in Models |-> IF k = "global" THEN GlobalSaved(fit) ELSE BotSaved(fit)]
  /\ \E batch \in Batches :
       /\ Len(roots) + Len(batch) <= MaxRoots
       /\ roots' = Published(batch)
  /\ ran' = now
  /\ UNCHANGED <<now, first>>

\* prune_old_data: the rows of old roots are removed, with their outcomes.
Prune ==
  /\ first' \in first + 1 .. Len(roots) + 1
  /\ \A i \in Kept : i < first' <=> roots[i].ts < now - Retention
  /\ UNCHANGED <<now, roots, saved, used, ran>>

Tick ==
  /\ now < MaxNow
  /\ now' = now + 1
  /\ used' = [k \in Models |-> NoModel]
  /\ UNCHANGED <<roots, first, saved, ran>>

Next ==
  \/ Cycle
  \/ Prune
  \/ Tick

Spec == Init /\ [][Next]_vars

---------------------------------------------------------------------------
(* Properties.                                                             *)

Actionable(m) == m.fitted /\ Evident(m)

\* Every variable has its type.
TypeOK ==
  /\ now \in 1..MaxNow /\ ran \in 0..now
  /\ roots \in Seq([ts : 1..now, avail : Nat, fate : Fates])
  /\ first \in 1..Len(roots) + 1
  /\ \A k \in Models : saved[k].ts \in 0..now /\ used[k].ts \in 0..now

\* The comparison a stored model rests on was made on the future of each of its folds:
\* no model of a fold knew a label that was not out before the first decision it was
\* judged on, and the coefficients in use are those of the last fold
\* (_time_series_oof_skill_diagnostics, _purged_train_indices).
ProvenOnTheFuture ==
  \A k \in Models :
    /\ \A p \in saved[k].proof : \A t \in p[1], h \in p[2] : t.avail < h.ts
    /\ saved[k].fitted =>
         \E p \in saved[k].proof :
           /\ p[1] = saved[k].train
           /\ \A q \in saved[k].proof : \A h \in q[2] : \E last \in p[2] : h.ts <= last.ts

\* A model that makes a cycle's rows actionable accounts for every root matured by then:
\* none is unlabelled, invalid or unknown to the fit, no more were censored than it
\* tolerates, and what was fitted is there still, however long ago that was
\* (_apply_outcome_observability_gate).
ActionableCoversTheCohort ==
  [][ran' # ran => \A k \in Models : Actionable(used'[k]) =>
       /\ Unresolved = {}
       /\ Cardinality(Labeled) <= used'[k].returns
       /\ used'[k].returns <= Cardinality(Matured)
       /\ 100 * Cardinality(Censored) <= CensoredPercent * Cardinality(Matured)
       /\ now - used'[k].ts < Larger(RefitInterval, 1)]_vars

\* What the fit proves survives app_config: a fitted model, and a veto, are read back as
\* they were stored (save_logreg_to_db, load_logreg_from_db).
EvidenceSurvivesStorage ==
  \A k \in Models : saved[k].fitted \/ saved[k].status = "negative" => Load(k) = saved[k]

\* Validation blocks hold whole decisions and follow each other to the end of the
\* history; the last has the rows and the decisions the activation asks for, and there
\* are rows before the first (_chronological_validation_blocks).
BlocksAreWholeDecisions ==
  ran = now => \E rows \in {InOrder(Sanitized(Fetched, now))} : \E blocks \in {Blocks(rows)} :
    blocks # <<>> =>
      /\ \A b \in DOMAIN blocks :
           /\ 1 < blocks[b].first /\ blocks[b].first <= blocks[b].last
           /\ rows[blocks[b].first - 1].ts < rows[blocks[b].first].ts
           /\ b > 1 => blocks[b].first = blocks[b - 1].last + 1
      /\ \E last \in {blocks[Len(blocks)]} :
           /\ last.last = Len(rows)
           /\ last.last - last.first + 1 >= MinSamples
           /\ Cardinality({rows[i].ts : i \in last.first..last.last}) >= TerminalCohorts

\* The cohorts that count as independent evidence are decisions that do not overlap, and
\* no choice of such decisions has more of them (_temporal_cluster_return_diagnostics).
CohortsAreMostNumerous ==
  ran = now => \E rows \in {{Row(i) : i \in Labeled}} : \E cohorts \in {Cohorts(rows)} :
    LET disjoint(S) == \A a, b \in S : a = b \/ a.end <= b.ts \/ b.end <= a.ts
    IN  /\ disjoint({cohorts[i] : i \in DOMAIN cohorts})
        /\ \A S \in SUBSET Decisions(rows) : disjoint(S) => Cardinality(S) <= Len(cohorts)

\* Confirmed negative expectancy is preserved until a new cohort is positive: nothing
\* inconclusive replaces it (docs/TRADING_LOGIC.md; _fit_bot_logregs does).
NegativeIsKept ==
  [][\A k \in Models : saved[k].status = "negative" =>
        saved'[k].status \in {"negative", "positive"}]_vars

\* The model stored for all bots keeps its loss, as it was computed, until a fit is
\* positive (_load_or_fit_global_logreg).
GlobalNegativeIsKept ==
  [][saved["global"].status = "negative" =>
        saved'["global"] = saved["global"] \/ saved'["global"].status = "positive"]_vars
=============================================================================
