-------------------------- MODULE CalibrationProofs -------------------------
(***************************************************************************)
(* The calibration models for every history, every choice of the optimiser *)
(* and every horizon: a loss found for all bots is kept until a fit is     *)
(* positive, and what a cycle acts on accounts for every matured root.     *)
(***************************************************************************)
EXTENDS Calibration, FiniteSetTheorems, TLAPS

---------------------------------------------------------------------------
(* What a cycle sees is finite.                                            *)

LEMMA Bounds ==
  /\ MaxNow \in Nat /\ MaxNow > 0 /\ Horizon \in Nat /\ Horizon > 0 /\ Retention \in Nat
  /\ RefitInterval \in Nat /\ CensoredPercent \in Nat
BY CalibrationAssumption

\* Nothing that matured is counted twice, and everything is counted.
LEMMA SeenIsFinite ==
  ASSUME TypeOK
  PROVE  /\ IsFiniteSet(Matured)
         /\ \A S \in {Labeled, Censored, Invalid, Unresolved, Matured} : IsFiniteSet(S) /\ Cardinality(S) \in Nat
         /\ Unresolved = {} => Cardinality(Labeled) + Cardinality(Censored) = Cardinality(Matured)
         /\ Cardinality(Unresolved) = 0 => Unresolved = {}
<1>1. Len(roots) \in Nat /\ first \in Nat
  BY DEF TypeOK
<1>2. IsFiniteSet(Kept)
  BY <1>1, FS_Interval DEF Kept
<1>3. IsFiniteSet(Matured)
  BY <1>2, FS_Subset DEF Matured
<1>4. \A S \in {Labeled, Censored, Invalid, Unresolved, Matured} : S \subseteq Matured
  BY DEF Labeled, Censored, Invalid, Unresolved, Written
<1>5. \A S \in {Labeled, Censored, Invalid, Unresolved, Matured} : IsFiniteSet(S) /\ Cardinality(S) \in Nat
  BY <1>3, <1>4, FS_Subset, FS_CardinalityType
<1>6. Cardinality(Unresolved) = 0 => Unresolved = {}
  BY <1>5, FS_EmptySet
<1>7. Labeled \intersect Censored = {}
  BY DEF Labeled, Censored
<1>8. ASSUME Unresolved = {} PROVE Cardinality(Labeled) + Cardinality(Censored) = Cardinality(Matured)
  <2>1. Labeled \union Censored = Matured
    BY <1>4, <1>8 DEF Unresolved
  <2>2. Cardinality(Labeled \union Censored) =
          Cardinality(Labeled) + Cardinality(Censored) - Cardinality(Labeled \intersect Censored)
    BY <1>5, FS_Union
  <2>3. Cardinality({}) = 0
    BY FS_EmptySet
  <2>4. Cardinality(Labeled) \in Nat /\ Cardinality(Censored) \in Nat
    BY <1>5
  <2>5. Cardinality(Labeled \intersect Censored) = 0
    BY <1>7, <2>3
  <2>6. Cardinality(Labeled \union Censored) = Cardinality(Labeled) + Cardinality(Censored)
    BY <2>2, <2>4, <2>5
  <2> QED BY <2>1, <2>6
<1> QED BY <1>3, <1>5, <1>6, <1>8

\* A model has these fields, whatever is in them.
Fields == {"state", "fitted", "status", "ts", "returns", "sum", "oof", "samples", "skill", "selected", "terminal",
           "train", "proof", "policy", "matured", "labeled", "censored", "unresolved", "invalid"}
IsModel(m) == m = [f \in Fields |-> m[f]]

\* The gate over a model's counters, in the parts that decide whether it stands.
Doubt(m) ==
  \/ Cardinality(Unresolved) + (IF m.status = "positive" THEN Most(m.returns, Cardinality(Matured)) ELSE 0) > 0
  \/ Larger(Cardinality(Invalid), Most(Cardinality(Labeled), m.returns)) > 0

Withdrawn(m, mild) == Doubt(m) \/ (m.status = "positive" /\ Censored # {} /\ ~ Tolerated(m, mild))

\* What the gate leaves of a model.
LEMMA GatedFields ==
  ASSUME NEW m, IsModel(m), NEW mild \in BOOLEAN
  PROVE  LET g == Gated(m, mild) IN
         /\ IsModel(g)
         /\ g.state = m.state /\ g.ts = m.ts /\ g.returns = m.returns /\ g.oof = m.oof /\ g.samples = m.samples
         /\ g.skill = m.skill /\ g.selected = m.selected /\ g.terminal = m.terminal /\ g.policy = TRUE
         /\ g.matured = Cardinality(Matured) /\ g.labeled = Cardinality(Labeled) /\ g.censored = Cardinality(Censored)
         /\ g.invalid = Larger(Cardinality(Invalid), Most(Cardinality(Labeled), m.returns))
         /\ g.unresolved = Cardinality(Unresolved)
                           + (IF m.status = "positive" THEN Most(m.returns, Cardinality(Matured)) ELSE 0)
         /\ Withdrawn(m, mild) => g.status = "censored" /\ g.fitted = FALSE /\ g.proof = {}
         /\ ~ Withdrawn(m, mild) => g.status = m.status /\ g.fitted = m.fitted /\ g.train = m.train /\ g.proof = m.proof
<1> DEFINE u == Cardinality(Unresolved) + (IF m.status = "positive" THEN Most(m.returns, Cardinality(Matured)) ELSE 0)
           v == Larger(Cardinality(Invalid), Most(Cardinality(Labeled), m.returns))
           c == [m EXCEPT !.policy = TRUE, !.matured = Cardinality(Matured), !.labeled = Cardinality(Labeled),
                          !.censored = Cardinality(Censored), !.unresolved = u, !.invalid = v]
           w == [c EXCEPT !.status = "censored", !.fitted = FALSE, !.train = {}, !.proof = {}]
<1>1. Gated(m, mild) = IF Withdrawn(m, mild) THEN w ELSE c
  <2>1. c.unresolved = u /\ c.invalid = v
    BY DEF IsModel, Fields
  <2> HIDE DEF u, v
  <2> QED BY <2>1 DEF Gated, Withdrawn, Doubt, u, v
<1> HIDE DEF u, v
<1>2. /\ IsModel(c)
      /\ c.state = m.state /\ c.ts = m.ts /\ c.returns = m.returns /\ c.oof = m.oof /\ c.samples = m.samples
      /\ c.skill = m.skill /\ c.selected = m.selected /\ c.terminal = m.terminal /\ c.policy = TRUE
      /\ c.matured = Cardinality(Matured) /\ c.labeled = Cardinality(Labeled) /\ c.censored = Cardinality(Censored)
      /\ c.invalid = v /\ c.unresolved = u /\ c.status = m.status /\ c.fitted = m.fitted
      /\ c.train = m.train /\ c.proof = m.proof
  BY DEF IsModel, Fields
<1> HIDE DEF c
<1>3. /\ IsModel(w)
      /\ w.state = c.state /\ w.ts = c.ts /\ w.returns = c.returns /\ w.oof = c.oof /\ w.samples = c.samples
      /\ w.skill = c.skill /\ w.selected = c.selected /\ w.terminal = c.terminal /\ w.policy = c.policy
      /\ w.matured = c.matured /\ w.labeled = c.labeled /\ w.censored = c.censored
      /\ w.invalid = c.invalid /\ w.unresolved = c.unresolved /\ w.status = "censored" /\ w.fitted = FALSE
      /\ w.proof = {}
  BY <1>2 DEF IsModel, Fields
<1> HIDE DEF w
<1> QED BY <1>1, <1>2, <1>3 DEF u, v


\* What a fit is priced at is not touched by the folds.
Prices(m, f) ==
  /\ IsModel(f) /\ f.state = m.state /\ f.ts = m.ts /\ f.returns = m.returns /\ f.status = m.status

LEMMA FoldsKeepPrices ==
  ASSUME NEW m, IsModel(m), NEW folds, NEW skilled, NEW chosen
  PROVE  /\ Prices(m, Unskilled(m)) /\ Prices(m, WithSkill(m, folds, skilled, chosen)) /\ Prices(m, Validated(m, folds))
         /\ Prices(m, [Unskilled(m) EXCEPT !.oof = "insufficient"])
<1> USE DEF Prices, IsModel, Fields
<1>1. Prices(m, Unskilled(m)) /\ Prices(m, [Unskilled(m) EXCEPT !.oof = "insufficient"])
  BY DEF Unskilled
<1>2. Prices(m, WithSkill(m, folds, skilled, chosen))
  BY DEF WithSkill
<1>3. Prices(m, Validated(m, folds))
  <2> DEFINE v == [m EXCEPT !.samples = Cardinality(Predicted(folds))]
  <2>1. Prices(m, v)
    OBVIOUS
  <2>2. Prices(m, [v EXCEPT !.oof = Refusal(m, folds)])
    BY <2>1
  <2>3. Prices(m, [v EXCEPT !.oof = "sufficient", !.fitted = TRUE, !.train = Final(folds).train,
                            !.proof = {<<f.train, f.held>> : f \in Compared(folds)}])
    BY <2>1, ZenonT(60)
  <2> HIDE DEF v, Prices, IsModel, Fields
  <2> QED BY <2>2, <2>3 DEF Validated, v
<1> QED BY <1>1, <1>2, <1>3

\* What a fit says of the rows it was given.
IsFit(f, n) ==
  /\ IsModel(f) /\ f.state = "model" /\ f.ts = n /\ f.returns \in Nat
  /\ f.status # "positive" =>
       f.fitted = FALSE /\ f.oof = "not_evaluated" /\ f.selected = NoMoney /\ f.terminal = NoMoney
  /\ f.status = "negative" => f.returns > 0

LEMMA FitFields ==
  ASSUME NEW rows, IsFiniteSet(rows), NEW n, NEW f \in Fits(rows, n)
  PROVE  IsFit(f, n)
<1> DEFINE all == Sanitized(rows, n)
           m == Priced(all, n)
<1>1. /\ IsModel(m) /\ m.state = "model" /\ m.ts = n /\ m.returns = Cardinality(all)
      /\ m.status = Money(all, MinSamples, ClusterFloor)
      /\ m.fitted = FALSE /\ m.oof = "not_evaluated" /\ m.selected = NoMoney /\ m.terminal = NoMoney
  BY ZenonT(60) DEF Priced, NoModel, IsModel, Fields
<1>2. all \subseteq rows
  BY DEF Sanitized
<1>3. Cardinality(all) \in Nat
  BY <1>2, FS_Subset, FS_CardinalityType
<1>4. Money(all, MinSamples, ClusterFloor) = "negative" => Cardinality(all) > 0
  BY <1>3, FoldsAssumption DEF Money, Larger
<1> HIDE DEF m, all
<1>5. CASE f = m
  BY <1>1, <1>3, <1>4, <1>5 DEF IsFit
<1>6. CASE m.status = "positive" /\ Prices(m, f)
  BY <1>1, <1>3, <1>4, <1>6 DEF Prices, IsFit
<1>7. f = m \/ (m.status = "positive" /\ Prices(m, f))
  <2> DEFINE folds == Folds(InOrder(all))
  <2>1. CASE m.status # "positive" \/ ~ Balanced(all)
    BY <2>1 DEF Fits, m, all
  <2> SUFFICES ASSUME ~ (m.status # "positive" \/ ~ Balanced(all)) PROVE m.status = "positive" /\ Prices(m, f)
    BY <2>1
  <2>2. \/ f = [Unskilled(m) EXCEPT !.oof = "insufficient"]
        \/ f = Validated(Unskilled(m), folds)
        \/ \E skilled \in BOOLEAN, chosen \in SUBSET Predicted(Compared(folds)) :
             f = Validated(WithSkill(m, folds, skilled, chosen), folds)
    BY DEF Fits, m, all
  <2>3. Prices(m, Validated(Unskilled(m), folds))
    <3>1. Prices(m, Unskilled(m))
      BY <1>1, FoldsKeepPrices
    <3>2. Prices(Unskilled(m), Validated(Unskilled(m), folds))
      BY <3>1, FoldsKeepPrices DEF Prices
    <3> QED BY <3>1, <3>2 DEF Prices
  <2>4. ASSUME NEW skilled, NEW chosen PROVE Prices(m, Validated(WithSkill(m, folds, skilled, chosen), folds))
    <3> DEFINE w == WithSkill(m, folds, skilled, chosen)
    <3>1. Prices(m, w)
      BY <1>1, FoldsKeepPrices
    <3> HIDE DEF w
    <3>2. Prices(w, Validated(w, folds))
      BY <3>1, FoldsKeepPrices DEF Prices
    <3>3. Prices(m, Validated(w, folds))
      BY <3>1, <3>2 DEF Prices
    <3> QED BY <3>3 DEF w
  <2> QED BY <1>1, <2>2, <2>3, <2>4, FoldsKeepPrices
<1> QED BY <1>5, <1>6, <1>7

---------------------------------------------------------------------------
(* Types, and what is stored.                                              *)

Roots(n) == [ts : 1..n, avail : Nat, fate : Fates]

\* The labelled roots that a cycle fits are finitely many.
LEMMA FetchedIsFinite == ASSUME TypeOK PROVE IsFiniteSet(Fetched)
<1>1. IsFiniteSet(Labeled)
  BY SeenIsFinite
<1>2. PICK seq \in Seq(Labeled) : \A i \in Labeled : \E n \in 1..Len(seq) : seq[n] = i
  BY <1>1 DEF IsFiniteSet
<1> DEFINE rows == [n \in 1..Len(seq) |-> Row(seq[n])]
<1>3. rows \in Seq(Fetched) /\ Len(rows) = Len(seq)
  BY DEF Fetched
<1>4. \A r \in Fetched : \E n \in 1..Len(rows) : rows[n] = r
  BY <1>2, <1>3 DEF Fetched
<1> HIDE DEF rows
<1> QED BY <1>3, <1>4 DEF IsFiniteSet

\* A stored model is a whole one, and a stored loss can be read.
Stored ==
  /\ \A k \in Models : IsModel(saved[k]) /\ saved[k].returns \in Nat
  /\ saved["global"].status = "negative" => Readable(saved["global"])

StoredInvariant == TypeOK /\ Stored

\* What a fit of this cycle comes to.
LEMMA FitIsGated ==
  ASSUME TypeOK, NEW fitted \in Fits(Fetched, now), NEW mild \in BOOLEAN, NEW fit, fit = Gated(fitted, mild)
  PROVE  /\ IsModel(fit) /\ fit.returns \in Nat
         /\ fit.returns = fitted.returns /\ fit.ts = now
         /\ fit.status = "negative" => Readable(fit)
<1>1. IsFit(fitted, now)
  BY FetchedIsFinite, FitFields
<1>0. IsModel(fitted) /\ fitted.state = "model" /\ fitted.ts = now /\ fitted.returns \in Nat
  BY <1>1 DEF IsFit
<1>2. /\ IsModel(fit) /\ fit.returns = fitted.returns /\ fit.ts = now
  BY <1>0, GatedFields
<1>3. ASSUME fit.status = "negative" PROVE Readable(fit)
  <2>1. ~ Withdrawn(fitted, mild) /\ fitted.status = "negative" /\ fit.fitted = fitted.fitted
    BY <1>0, <1>3, GatedFields
  <2>2. /\ fit.state = "model" /\ fit.oof = "not_evaluated" /\ fit.selected = NoMoney /\ fit.terminal = NoMoney
        /\ fit.policy = TRUE /\ fit.fitted = FALSE /\ fit.returns > 0
    <3>1. /\ fit.state = fitted.state /\ fit.oof = fitted.oof /\ fit.selected = fitted.selected
          /\ fit.terminal = fitted.terminal /\ fit.policy = TRUE
      BY <1>0, GatedFields
    <3>2. /\ fitted.fitted = FALSE /\ fitted.oof = "not_evaluated" /\ fitted.selected = NoMoney
          /\ fitted.terminal = NoMoney /\ fitted.returns > 0
      BY <1>1, <2>1 DEF IsFit
    <3> QED BY <1>0, <1>2, <2>1, <3>1, <3>2
  <2>3. /\ fit.unresolved = Cardinality(Unresolved) + 0 /\ fit.labeled = Cardinality(Labeled)
        /\ fit.censored = Cardinality(Censored) /\ fit.matured = Cardinality(Matured)
        /\ fit.invalid = Larger(Cardinality(Invalid), Most(Cardinality(Labeled), fitted.returns))
    BY <1>0, <2>1, GatedFields
  <2>4. \A S \in {Labeled, Censored, Invalid, Unresolved, Matured} : Cardinality(S) \in Nat
    BY SeenIsFinite
  <2>5. Cardinality(Unresolved) = 0
    BY <2>1, <2>4 DEF Withdrawn, Doubt
  <2>6. Cardinality(Labeled) + Cardinality(Censored) = Cardinality(Matured)
    BY <2>5, SeenIsFinite
  <2>7. fit.invalid <= fit.labeled
    BY <1>0, <2>1, <2>3, <2>4 DEF Withdrawn, Doubt, Larger, Most
  <2>8. fit.labeled + fit.censored + fit.unresolved <= fit.matured
    BY <2>3, <2>4, <2>5, <2>6
  <2> QED BY <2>2, <2>7, <2>8 DEF Readable, SelectedReadable, TerminalReadable, DenominatorReadable, NoMoney
<1> QED BY <1>0, <1>2, <1>3

\* The global model that a cycle stores is the one that was stored, or its fit.
LEMMA GlobalIsKept ==
  ASSUME Stored, NEW fit, fit.status = "negative" => Readable(fit)
  PROVE  /\ GlobalSaved(fit) \in {saved["global"], fit}
         /\ saved["global"].status = "negative" => GlobalSaved(fit) = saved["global"] \/ fit.status = "positive"
         /\ GlobalSaved(fit).status = "negative" => Readable(GlobalSaved(fit))
<1>1. GlobalSaved(fit) \in {saved["global"], fit}
  BY DEF GlobalSaved
<1>2. ASSUME saved["global"].status = "negative", fit.status # "positive" PROVE GlobalSaved(fit) = saved["global"]
  <2>1. Load("global") = saved["global"]
    BY <1>2 DEF Stored, Load
  <2>2. Vetoes(Load("global"), fit)
    BY <1>2, <2>1 DEF Vetoes
  <2> QED BY <2>2 DEF GlobalSaved
<1> QED BY <1>1, <1>2 DEF Stored

\* The bot's model that a cycle stores is whole as well.
LEMMA BotIsWhole ==
  ASSUME TypeOK, Stored, NEW fit, IsModel(fit), fit.returns \in Nat, fit.ts = now
  PROVE  /\ IsModel(BotSaved(fit)) /\ BotSaved(fit).returns \in Nat /\ BotSaved(fit).ts \in 0..now
         /\ IsModel(BotFit(fit)) /\ BotFit(fit).returns \in Nat /\ BotFit(fit).ts = now
<1>1. /\ IsModel(BotFit(fit)) /\ BotFit(fit).returns \in Nat /\ BotFit(fit).ts = now
  BY ZenonT(60) DEF BotFit, NoModel, IsModel, Fields
<1>2. BotSaved(fit) \in {saved["bot"], BotFit(fit)}
  BY DEF BotSaved
<1>3. now \in 0..now
  BY Bounds DEF TypeOK
<1> QED BY <1>1, <1>2, <1>3 DEF Stored, TypeOK, Models

\* What is read back is what was stored, or nothing.
LEMMA LoadedIsWhole ==
  ASSUME TypeOK, Stored, NEW k \in Models
  PROVE  IsModel(Load(k)) /\ Load(k).returns \in Nat /\ Load(k).ts \in 0..now
<1>1. IsModel(NoModel) /\ NoModel.returns \in Nat /\ NoModel.ts = 0
  BY DEF NoModel, IsModel, Fields
<1>2. 0 \in 0..now
  BY Bounds DEF TypeOK
<1> QED BY <1>1, <1>2 DEF Load, Stored, TypeOK

\* The models a cycle decides with are stored ones under the gate, or its fit.
LEMMA UsedIsDated ==
  ASSUME TypeOK, Stored, NEW fit, IsModel(fit), fit.returns \in Nat, fit.ts = now, NEW mild \in BOOLEAN
  PROVE  GlobalModel(fit, mild).ts \in 0..now /\ BotModel(fit, mild).ts \in 0..now
<1>1. now \in 0..now
  BY Bounds DEF TypeOK
<1>2. ASSUME NEW k \in Models PROVE Gated(Load(k), mild).ts \in 0..now
  <2>1. IsModel(Load(k)) /\ Load(k).ts \in 0..now
    BY LoadedIsWhole
  <2>2. Gated(Load(k), mild).ts = Load(k).ts
    BY <2>1, GatedFields
  <2> QED BY <2>1, <2>2
<1>3. BotFit(fit).ts = now
  BY BotIsWhole
<1> QED BY <1>1, <1>2, <1>3 DEF GlobalModel, BotModel, Models

LEMMA PublishedIsTyped ==
  ASSUME TypeOK, NEW batch \in Batches
  PROVE  /\ Published(batch) \in Seq(Roots(now))
         /\ Len(Published(batch)) \in Nat /\ Len(Published(batch)) >= Len(roots)
<1>1. batch \in Seq([fate : Fates, delay : Nat])
  BY CalibrationAssumption
<1> DEFINE new == [n \in DOMAIN batch |->
                    [ts |-> now, avail |-> now + Horizon + batch[n].delay, fate |-> batch[n].fate]]
<1>2. \A n \in DOMAIN batch : batch[n].delay \in Nat /\ batch[n].fate \in Fates
  <2> DEFINE Kinds == [fate : Fates, delay : Nat]
  <2>1. \A k \in Kinds : k.delay \in Nat /\ k.fate \in Fates
    OBVIOUS
  <2>2. batch \in Seq(Kinds)
    BY <1>1
  <2> HIDE DEF Kinds
  <2>3. \A n \in DOMAIN batch : batch[n] \in Kinds
    BY <2>2
  <2> QED BY <2>1, <2>3
<1>3. now \in 1..now /\ now \in Nat
  BY Bounds DEF TypeOK
<1>4. \A n \in DOMAIN batch : new[n] \in Roots(now)
  BY <1>2, <1>3, Bounds DEF Roots
<1>5. new \in Seq(Roots(now)) /\ Len(new) = Len(batch)
  BY <1>1, <1>4
<1>6. roots \in Seq(Roots(now))
  BY DEF TypeOK, Roots
<1> HIDE DEF new
<1>7. roots \o new \in Seq(Roots(now)) /\ Len(roots \o new) = Len(roots) + Len(new) /\ Len(roots) \in Nat /\ Len(new) \in Nat
  BY <1>5, <1>6
<1> QED BY <1>7 DEF Published, new

\* The models of a cycle: one fit, and what the two loaders make of it.
CycleOf(fit, mild) ==
  /\ used' = [k \in Models |-> IF k = "global" THEN GlobalModel(fit, mild) ELSE BotModel(fit, mild)]
  /\ saved' = [k \in Models |-> IF k = "global" THEN GlobalSaved(fit) ELSE BotSaved(fit)]

LEMMA CycleModels ==
  ASSUME TypeOK, Cycle
  PROVE  \E fitted \in Fits(Fetched, now), mild \in BOOLEAN : CycleOf(Gated(fitted, mild), mild)
BY DEF Cycle, CycleOf

LEMMA InitIsStored == ASSUME Init PROVE StoredInvariant
<1>1. IsModel(NoModel) /\ NoModel.returns \in Nat /\ NoModel.ts = 0 /\ NoModel.status = "unknown"
  BY DEF NoModel, IsModel, Fields
<1>2. saved["global"].status # "negative"
  BY <1>1 DEF Init, Models
<1>3. \A k \in Models : saved[k] = NoModel /\ used[k] = NoModel
  BY DEF Init
<1>4. roots \in Seq([ts : 1..now, avail : Nat, fate : Fates]) /\ Len(roots) = 0 /\ first = 1 /\ now = 1 /\ ran = 0
  BY DEF Init
<1> HIDE DEF Init
<1> QED BY <1>1, <1>2, <1>3, <1>4, Bounds DEF StoredInvariant, Stored, TypeOK

LEMMA CycleKeepsStored == ASSUME StoredInvariant, Cycle PROVE StoredInvariant'
<1> USE DEF StoredInvariant
<1>1. PICK fitted \in Fits(Fetched, now), mild \in BOOLEAN : CycleOf(Gated(fitted, mild), mild)
  BY CycleModels
<1> DEFINE fit == Gated(fitted, mild)
<1>2. IsModel(fit) /\ fit.returns \in Nat /\ fit.ts = now /\ (fit.status = "negative" => Readable(fit))
  BY FitIsGated
<1>3. CycleOf(fit, mild)
  BY <1>1
<1> HIDE DEF fit
<1>4. saved'["global"] = GlobalSaved(fit) /\ saved'["bot"] = BotSaved(fit)
  BY <1>3 DEF CycleOf, Models
<1>5. used'["global"] = GlobalModel(fit, mild) /\ used'["bot"] = BotModel(fit, mild)
  BY <1>3 DEF CycleOf, Models
<1>6. GlobalSaved(fit) \in {saved["global"], fit} /\ (GlobalSaved(fit).status = "negative" => Readable(GlobalSaved(fit)))
  BY <1>2, GlobalIsKept
<1>7. now' = now /\ first' = first /\ ran' = now
  BY DEF Cycle
<1>8. PICK batch \in Batches : roots' = Published(batch)
  BY DEF Cycle
<1>9. \A k \in Models : IsModel(saved'[k]) /\ saved'[k].returns \in Nat /\ saved'[k].ts \in 0..now
  <2>1. now \in 0..now
    BY Bounds DEF TypeOK
  <2>2. IsModel(GlobalSaved(fit)) /\ GlobalSaved(fit).returns \in Nat /\ GlobalSaved(fit).ts \in 0..now
    BY <1>2, <1>6, <2>1 DEF Stored, TypeOK, Models
  <2>3. IsModel(BotSaved(fit)) /\ BotSaved(fit).returns \in Nat /\ BotSaved(fit).ts \in 0..now
    BY <1>2, BotIsWhole
  <2> QED BY <1>4, <2>2, <2>3 DEF Models
<1>10. Stored'
  <2>1. saved'["global"].status = "negative" => Readable(saved'["global"])
    BY <1>4, <1>6
  <2> QED BY <1>9, <2>1 DEF Stored, Readable, SelectedReadable, TerminalReadable, DenominatorReadable, Evident
<1>11. TypeOK'
  <2>1. roots' \in Seq(Roots(now)) /\ Len(roots') \in Nat /\ Len(roots') >= Len(roots)
    BY <1>8, PublishedIsTyped
  <2>2. Len(roots) \in Nat /\ first \in 1..Len(roots) + 1 /\ now \in 1..MaxNow
    BY DEF TypeOK
  <2>3. first' \in 1..Len(roots') + 1
    BY <1>7, <2>1, <2>2
  <2>4. \A k \in Models : used'[k].ts \in 0..now
    BY <1>2, <1>5, UsedIsDated DEF Models
  <2>5. now' \in 1..MaxNow /\ ran' \in 0..now'
    BY <1>7, <2>2, Bounds
  <2> QED BY <1>7, <1>9, <2>1, <2>3, <2>4, <2>5 DEF TypeOK, Roots
<1> QED BY <1>10, <1>11

LEMMA PruneKeepsStored == ASSUME StoredInvariant, Prune PROVE StoredInvariant'
<1>1. now' = now /\ roots' = roots /\ saved' = saved /\ used' = used /\ ran' = ran
  BY DEF Prune
<1>2. first' \in 1..Len(roots) + 1
  <2>1. first \in 1..Len(roots) + 1 /\ Len(roots) \in Nat
    BY DEF StoredInvariant, TypeOK
  <2>2. first' \in first + 1 .. Len(roots) + 1
    BY DEF Prune
  <2> QED BY <2>1, <2>2
<1>3. TypeOK'
  BY <1>1, <1>2 DEF StoredInvariant, TypeOK
<1>4. Stored'
  BY <1>1 DEF StoredInvariant, Stored, Readable, SelectedReadable, TerminalReadable, DenominatorReadable, Evident
<1> QED BY <1>3, <1>4 DEF StoredInvariant

LEMMA TickKeepsStored == ASSUME StoredInvariant, Tick PROVE StoredInvariant'
<1>1. /\ now < MaxNow /\ now' = now + 1 /\ roots' = roots /\ saved' = saved /\ first' = first /\ ran' = ran
      /\ used' = [k \in Models |-> NoModel]
  BY DEF Tick
<1>2. now \in 1..MaxNow /\ ran \in 0..now /\ roots \in Seq(Roots(now)) /\ first \in 1..Len(roots) + 1
  BY DEF StoredInvariant, TypeOK, Roots
<1>3. NoModel.ts = 0
  BY DEF NoModel
<1>4. \A k \in Models : saved[k].ts \in 0..now
  BY DEF StoredInvariant, TypeOK
<1>5. roots \in Seq(Roots(now + 1))
  <2>1. Roots(now) \subseteq Roots(now + 1)
    BY <1>2, Bounds DEF Roots
  <2> QED BY <1>2, <2>1
<1>6. \A k \in Models : saved'[k].ts \in 0..now + 1 /\ used'[k].ts \in 0..now + 1
  BY <1>1, <1>2, <1>3, <1>4, Bounds
<1>7. now + 1 \in 1..MaxNow /\ ran \in 0..now + 1
  BY <1>1, <1>2, Bounds
<1>8. TypeOK'
  BY <1>1, <1>2, <1>5, <1>6, <1>7 DEF TypeOK, Roots
<1>9. Stored'
  BY <1>1 DEF StoredInvariant, Stored, Readable, SelectedReadable, TerminalReadable, DenominatorReadable, Evident
<1> QED BY <1>8, <1>9 DEF StoredInvariant

LEMMA NextKeepsStored == ASSUME StoredInvariant, [Next]_vars PROVE StoredInvariant'
<1>1. CASE Cycle
  BY <1>1, CycleKeepsStored
<1>2. CASE Prune
  BY <1>2, PruneKeepsStored
<1>3. CASE Tick
  BY <1>3, TickKeepsStored
<1>4. CASE UNCHANGED vars
  <2>1. now' = now /\ roots' = roots /\ saved' = saved /\ used' = used /\ ran' = ran /\ first' = first
    BY <1>4 DEF vars
  <2> QED BY <2>1 DEF StoredInvariant, TypeOK, Stored, Readable, SelectedReadable, TerminalReadable,
                      DenominatorReadable, Evident
<1> QED BY <1>1, <1>2, <1>3, <1>4 DEF Next

\* Types, whole models, and a stored loss of the global model that can be read back: the
\* inductive invariant the promises below rest on.
THEOREM ModelsAreStored == Spec => []StoredInvariant
<1>1. Init => StoredInvariant
  BY InitIsStored
<1>2. StoredInvariant /\ [Next]_vars => StoredInvariant'
  BY NextKeepsStored
<1> QED BY <1>1, <1>2, PTL DEF Spec

\* Every variable has its type.
THEOREM ModelsAreTyped == Spec => []TypeOK
<1>1. StoredInvariant => TypeOK
  BY DEF StoredInvariant
<1> QED BY <1>1, ModelsAreStored, PTL

---------------------------------------------------------------------------
(* The promises.                                                           *)

\* The model stored for all bots keeps its loss until a fit is positive
\* (_load_or_fit_global_logreg), for every history of labels.
THEOREM NegativeHolds == Spec => GlobalNegativeIsKept
<1>1. ASSUME StoredInvariant, [Next]_vars
      PROVE  [saved["global"].status = "negative" =>
               saved'["global"] = saved["global"] \/ saved'["global"].status = "positive"]_vars
  <2>1. CASE Cycle
    <3>1. PICK fitted \in Fits(Fetched, now), mild \in BOOLEAN : CycleOf(Gated(fitted, mild), mild)
      BY <1>1, <2>1, CycleModels DEF StoredInvariant
    <3> DEFINE fit == Gated(fitted, mild)
    <3>2. fit.status = "negative" => Readable(fit)
      BY <1>1, FitIsGated DEF StoredInvariant
    <3>3. saved'["global"] = GlobalSaved(fit)
      BY <3>1 DEF CycleOf, Models
    <3> HIDE DEF fit
    <3>4. /\ GlobalSaved(fit) \in {saved["global"], fit}
          /\ saved["global"].status = "negative" => GlobalSaved(fit) = saved["global"] \/ fit.status = "positive"
      BY <1>1, <3>2, GlobalIsKept DEF StoredInvariant
    <3> QED BY <3>3, <3>4
  <2>2. CASE Prune \/ Tick \/ UNCHANGED vars
    BY <2>2 DEF Prune, Tick, vars
  <2> QED BY <1>1, <2>1, <2>2 DEF Next
<1> QED BY <1>1, ModelsAreStored, PTL DEF Spec, GlobalNegativeIsKept

\* What an actionable model must account for, but for its age.
Covered(g) ==
  /\ Unresolved = {}
  /\ Cardinality(Labeled) <= g.returns
  /\ g.returns <= Cardinality(Matured)
  /\ 100 * Cardinality(Censored) <= CensoredPercent * Cardinality(Matured)

LEMMA GateCovers ==
  ASSUME TypeOK, NEW m, IsModel(m), m.returns \in Nat, NEW mild \in BOOLEAN, NEW g, g = Gated(m, mild), Actionable(g)
  PROVE  m.status = "positive" /\ g.ts = m.ts /\ Covered(g)
<1>1. g.status = "positive"
  BY DEF Actionable, Evident
<1>2. ~ Withdrawn(m, mild) /\ m.status = "positive" /\ g.ts = m.ts /\ g.returns = m.returns
  BY <1>1, GatedFields
<1>3. \A S \in {Labeled, Censored, Invalid, Unresolved, Matured} : Cardinality(S) \in Nat
  BY SeenIsFinite
<1>4. /\ Cardinality(Unresolved) = 0
      /\ Cardinality(Labeled) <= m.returns /\ m.returns <= Cardinality(Matured)
  BY <1>2, <1>3 DEF Withdrawn, Doubt, Larger, Most
<1>5. Unresolved = {}
  BY <1>4, SeenIsFinite
<1>6. 100 * Cardinality(Censored) <= CensoredPercent * Cardinality(Matured)
  <2>1. CASE Censored = {}
    <3>1. Cardinality(Censored) = 0
      BY <2>1, FS_EmptySet
    <3> QED BY <1>3, <3>1, Bounds
  <2>2. CASE Censored # {}
    BY <1>2, <2>2 DEF Withdrawn, Tolerated
  <2> QED BY <2>1, <2>2
<1> QED BY <1>2, <1>4, <1>5, <1>6 DEF Covered

\* A loaded model is used while it is fresh, or for its loss: then it is not actionable.
LEMMA LoadedCovers ==
  ASSUME TypeOK, Stored, NEW k \in Models, NEW mild \in BOOLEAN, NEW fit, NEW g, g = Gated(Load(k), mild),
         Fresh(Load(k)) \/ Vetoes(Load(k), fit), Actionable(g)
  PROVE  Covered(g) /\ now - g.ts < RefitInterval /\ g.ts \in 0..now
<1>1. Load(k).status = "positive" /\ g.ts = Load(k).ts /\ Covered(g)
  BY LoadedIsWhole, GateCovers
<1>2. Fresh(Load(k))
  BY <1>1 DEF Vetoes
<1>3. Load(k).ts \in 0..now
  BY LoadedIsWhole
<1> QED BY <1>1, <1>2, <1>3 DEF Fresh

\* A model that makes rows actionable accounts for every matured root, and for the labels
\* a later writer added (_apply_outcome_observability_gate): whatever was published,
\* pruned or refitted before.
THEOREM CoverageHolds == Spec => ActionableCoversTheCohort
<1> DEFINE Promise(g) == Covered(g) /\ now - g.ts < Larger(RefitInterval, 1)
<1>1. ASSUME StoredInvariant, Next, ran' # ran, NEW k \in Models, Actionable(used'[k])
      PROVE  Promise(used'[k])
  <2>0. TypeOK /\ Stored
    BY <1>1 DEF StoredInvariant
  <2>1. Cycle
    BY <1>1 DEF Next, Prune, Tick
  <2>2. PICK fitted \in Fits(Fetched, now), mild \in BOOLEAN : CycleOf(Gated(fitted, mild), mild)
    BY <2>0, <2>1, CycleModels
  <2> DEFINE fit == Gated(fitted, mild)
  <2>3. ASSUME Actionable(fit) PROVE Promise(fit)
    <3>0. IsFit(fitted, now)
      BY <2>0, FetchedIsFinite, FitFields
    <3>1. IsModel(fitted) /\ fitted.returns \in Nat /\ fitted.ts = now
      BY <3>0 DEF IsFit
    <3>2. fit.ts = fitted.ts /\ Covered(fit)
      BY <2>0, <2>3, <3>1, GateCovers
    <3> QED BY <2>0, <3>1, <3>2, Bounds DEF Larger, TypeOK
  <2>4. used'[k] = (IF k = "global" THEN GlobalModel(fit, mild) ELSE BotModel(fit, mild))
    BY <2>2 DEF CycleOf
  <2>5. ASSUME NEW other, Fresh(Load(k)) \/ Vetoes(Load(k), other), used'[k] = Gated(Load(k), mild)
        PROVE  Promise(used'[k])
    <3>1. Covered(used'[k]) /\ now - used'[k].ts < RefitInterval /\ used'[k].ts \in 0..now
      BY <1>1, <2>0, <2>5, LoadedCovers
    <3> QED BY <2>0, <3>1, Bounds DEF Larger, TypeOK
  <2>6. ~ Actionable([NoModel EXCEPT !.state = "model", !.status = "insufficient", !.ts = now])
    BY DEF Actionable, NoModel
  <2> HIDE DEF fit, Promise
  <2>7. CASE used'[k] = fit
    BY <1>1, <2>3, <2>7
  <2>8. CASE used'[k] # fit
    BY <1>1, <2>4, <2>5, <2>6, <2>8 DEF GlobalModel, BotModel, BotFit, Models
  <2> QED BY <2>7, <2>8
<1>2. ASSUME StoredInvariant, [Next]_vars
      PROVE  [ran' # ran => \A k \in Models : Actionable(used'[k]) =>
                /\ Unresolved = {}
                /\ Cardinality(Labeled) <= used'[k].returns
                /\ used'[k].returns <= Cardinality(Matured)
                /\ 100 * Cardinality(Censored) <= CensoredPercent * Cardinality(Matured)
                /\ now - used'[k].ts < Larger(RefitInterval, 1)]_vars
  <2>1. CASE Next /\ ran' # ran
    BY <1>1, <1>2, <2>1 DEF Covered
  <2>2. CASE ran' = ran
    BY <2>2
  <2>3. CASE UNCHANGED vars
    BY <2>3
  <2> QED BY <1>2, <2>1, <2>2, <2>3
<1> QED BY <1>2, ModelsAreStored, PTL DEF Spec, ActionableCoversTheCohort

---------------------------------------------------------------------------
(* Folds: the order of the rows, the blocks, and what is proved on them.   *)

\* Some number of a set of naturals is the least.
LEMMA LeastNumber ==
  ASSUME NEW T, T \subseteq Nat, T # {}
  PROVE  \E n \in T : \A m \in T : n <= m
<1>1. PICK n \in T : \A m \in T : ~ (<<m, n>> \in OpToRel(<, Nat))
  BY NatLessThanWellFounded, WFMin
<1>2. \A m \in T : ~ (m < n)
  BY <1>1 DEF OpToRel
<1> QED BY <1>2

LEMMA GreatestNumber ==
  ASSUME NEW n \in Nat, NEW T, T \subseteq 0..n, T # {}
  PROVE  Max(T) \in T /\ \A m \in T : m <= Max(T)
<1> DEFINE below == {k \in Nat : n - k \in T}
<1>1. below # {}
  <2>1. PICK m \in T : TRUE
    OBVIOUS
  <2>2. n - m \in below
    BY <2>1
  <2> QED BY <2>2
<1>2. PICK k \in below : \A j \in below : k <= j
  BY <1>1, LeastNumber
<1>3. n - k \in T /\ \A m \in T : n - k >= m
  <2> SUFFICES ASSUME NEW m \in T PROVE n - k >= m
    OBVIOUS
  <2>1. n - m \in below
    OBVIOUS
  <2> QED BY <1>2, <2>1
<1> QED BY <1>3, Zenon DEF Max

\* A function that tells its arguments apart.
LEMMA ApartIsInjective ==
  ASSUME NEW S, NEW T, NEW f \in [S -> T], \A x, y \in S : x # y => f[x] # f[y]
  PROVE  f \in Injection(S, T)
BY DEF Injection, IsInjective

\* A strict order of a set.
Orders(R, S) ==
  /\ \A x \in S : <<x, x>> \notin R
  /\ \A x, y, z \in S : <<x, y>> \in R /\ <<y, z>> \in R => <<x, z>> \in R
  /\ \A x, y \in S : x # y => <<x, y>> \in R \/ <<y, x>> \in R

\* A finite set in a strict order: everything is there, and nothing out of place.
LEMMA OrderedIsSorted ==
  ASSUME NEW S, IsFiniteSet(S), NEW R, Orders(R, S)
  PROVE  /\ Ordered(S, R) \in Seq(S) /\ Len(Ordered(S, R)) = Cardinality(S) /\ Cardinality(S) \in Nat
         /\ \A x \in S : \E i \in 1..Cardinality(S) : Ordered(S, R)[i] = x
         /\ \A i, j \in 1..Cardinality(S) : i < j => <<Ordered(S, R)[i], Ordered(S, R)[j]>> \in R
<1> DEFINE n == Cardinality(S)
           Before(r) == {q \in S : <<q, r>> \in R}
           rank == [r \in S |-> Cardinality(Before(r))]
<1>1. n \in Nat
  BY FS_CardinalityType
<1>2. \A q, r \in S : <<q, r>> \in R => Before(q) \subseteq Before(r) /\ q \in Before(r) /\ q \notin Before(q)
  BY DEF Orders
<1>3. \A r \in S : IsFiniteSet(Before(r)) /\ Cardinality(Before(r)) \in Nat
  BY FS_Subset, FS_CardinalityType
<1>4. \A q, r \in S : <<q, r>> \in R => rank[q] < rank[r]
  <2> SUFFICES ASSUME NEW q \in S, NEW r \in S, <<q, r>> \in R PROVE rank[q] < rank[r]
    OBVIOUS
  <2>1. Before(q) \subseteq Before(r) /\ Before(q) # Before(r)
    BY <1>2
  <2>2. Cardinality(Before(q)) <= Cardinality(Before(r)) /\ Cardinality(Before(q)) # Cardinality(Before(r))
    BY <1>3, <2>1, FS_Subset
  <2> QED BY <1>3, <2>2
<1>5. \A q, r \in S : q # r => <<q, r>> \in R \/ <<r, q>> \in R
  BY DEF Orders
<1>6. \A r \in S : rank[r] \in 0..n - 1
  <2> SUFFICES ASSUME NEW r \in S PROVE rank[r] \in 0..n - 1
    OBVIOUS
  <2>1. Before(r) \subseteq S /\ r \notin Before(r)
    BY DEF Orders
  <2>2. Cardinality(Before(r)) <= n /\ Cardinality(Before(r)) # n
    BY <2>1, FS_Subset
  <2> QED BY <1>1, <1>3, <2>2
<1> HIDE DEF Before
<1>7. rank \in Injection(S, 0..n - 1)
  <2>1. \A q, r \in S : q # r => rank[q] # rank[r]
    <3> HIDE DEF rank
    <3> SUFFICES ASSUME NEW q \in S, NEW r \in S, q # r PROVE rank[q] # rank[r]
      OBVIOUS
    <3>1. rank[q] \in Int /\ rank[r] \in Int
      BY <1>1, <1>6
    <3>2. CASE <<q, r>> \in R
      BY <1>4, <3>1, <3>2
    <3>3. CASE <<r, q>> \in R
      BY <1>4, <3>1, <3>3
    <3> QED BY <1>5, <3>2, <3>3
  <2>2. rank \in [S -> 0..n - 1]
    BY <1>6
  <2> HIDE DEF rank, n
  <2> QED BY <2>1, <2>2, ApartIsInjective
<1>8. rank \in Surjection(S, 0..n - 1)
  <2>1. IsFiniteSet(0..n - 1) /\ Cardinality(0..n - 1) = n
    BY <1>1, FS_Interval
  <2> HIDE DEF rank
  <2> QED BY <1>7, <2>1, FS_Injection
<1>9. \A i \in 1..n : \E r \in S : rank[r] = i - 1
  <2> HIDE DEF rank
  <2>1. \A i \in 1..n : i - 1 \in 0..n - 1
    BY <1>1
  <2> QED BY <1>8, <2>1 DEF Surjection
<1>10. \A i \in 1..n : Ordered(S, R)[i] \in S /\ rank[Ordered(S, R)[i]] = i - 1
  <2> SUFFICES ASSUME NEW i \in 1..n PROVE Ordered(S, R)[i] \in S /\ rank[Ordered(S, R)[i]] = i - 1
    OBVIOUS
  <2>1. Ordered(S, R)[i] = CHOOSE r \in S : Cardinality(Before(r)) = i - 1
    BY DEF Ordered, Before
  <2>2. \E r \in S : Cardinality(Before(r)) = i - 1
    BY <1>9
  <2> QED BY <2>1, <2>2
<1>11. Ordered(S, R) \in Seq(S) /\ Len(Ordered(S, R)) = n
  <2>1. Ordered(S, R) \in [1..n -> S]
    BY <1>10 DEF Ordered
  <2> QED BY <1>1, <2>1
<1> DEFINE s == Ordered(S, R)
<1> HIDE DEF s, rank
<1>12. \A i \in 1..n : s[i] \in S /\ rank[s[i]] = i - 1
  BY <1>10 DEF s
<1>13. \A i, j \in 1..n : i < j => <<s[i], s[j]>> \in R
  <2> SUFFICES ASSUME NEW i \in 1..n, NEW j \in 1..n, i < j PROVE <<s[i], s[j]>> \in R
    OBVIOUS
  <2>1. rank[s[i]] = i - 1 /\ rank[s[j]] = j - 1 /\ s[i] \in S /\ s[j] \in S
    BY <1>12
  <2>2. s[i] # s[j] /\ <<s[j], s[i]>> \notin R
    BY <1>4, <2>1
  <2> QED BY <1>5, <2>1, <2>2
<1>14. ASSUME NEW x \in S PROVE \E i \in 1..n : s[i] = x
  <2>1. rank[x] \in 0..n - 1
    BY <1>6
  <2>2. rank[x] + 1 \in 1..n
    BY <1>1, <2>1
  <2>3. rank[s[rank[x] + 1]] = rank[x] /\ s[rank[x] + 1] \in S
    BY <1>12, <2>1, <2>2
  <2>4. s[rank[x] + 1] = x
    <3> DEFINE y == s[rank[x] + 1]
    <3>1. y \in S /\ rank[y] = rank[x]
      BY <2>3
    <3> HIDE DEF y
    <3>2. <<x, y>> \notin R /\ <<y, x>> \notin R
      BY <1>4, <2>1, <3>1
    <3> QED BY <1>5, <3>1, <3>2 DEF y
  <2> QED BY <2>2, <2>4
<1> QED BY <1>1, <1>11, <1>13, <1>14 DEF s

\* Rows that can be told apart, and dated.
Dated(rows) ==
  /\ IsFiniteSet(rows)
  /\ \A r \in rows : r.ts \in Int /\ r.id \in Int
  /\ \A q, r \in rows : q.id = r.id => q = r

\* In order, they are all there, and their decisions follow each other.
LEMMA OrderIsChronological ==
  ASSUME NEW rows, Dated(rows)
  PROVE  /\ InOrder(rows) \in Seq(rows)
         /\ Len(InOrder(rows)) = Cardinality(rows) /\ Cardinality(rows) \in Nat
         /\ \A i, j \in 1..Cardinality(rows) : i <= j => InOrder(rows)[i].ts <= InOrder(rows)[j].ts
<1> DEFINE R == Earlier(rows)
           s == InOrder(rows)
           n == Cardinality(rows)
<1>1. \A q, r \in rows : <<q, r>> \in R <=> q.ts < r.ts \/ (q.ts = r.ts /\ q.id < r.id)
  BY DEF Earlier
<1>2. \A r \in rows : r.ts \in Int /\ r.id \in Int
  BY DEF Dated
<1>3. \A q, r \in rows : q.id = r.id => q = r
  BY DEF Dated
<1> HIDE DEF R
<1>4. Orders(R, rows)
  BY <1>1, <1>2, <1>3 DEF Orders
<1>5. /\ s \in Seq(rows) /\ Len(s) = n /\ n \in Nat
      /\ \A i, j \in 1..n : i < j => <<s[i], s[j]>> \in R
  BY <1>4, OrderedIsSorted DEF InOrder, Dated, R
<1> HIDE DEF s, n
<1>6. ASSUME NEW i \in 1..n, NEW j \in 1..n, i <= j PROVE s[i].ts <= s[j].ts
  <2>1. s[i] \in rows /\ s[j] \in rows
    BY <1>5
  <2>2. CASE i = j
    BY <1>2, <2>1, <2>2
  <2>3. CASE i < j
    <3>1. <<s[i], s[j]>> \in R
      BY <1>5, <2>3
    <3> QED BY <1>1, <1>2, <2>1, <3>1
  <2> QED BY <1>6, <2>2, <2>3
<1> QED BY <1>5, <1>6 DEF s, n

\* A function that is defined step by step exists.
Iterates(f, F, b, N, T) == f \in [0..N -> T] /\ f[0] = b /\ \A n \in 1..N : f[n] = F[n][f[n - 1]]

LEMMA StepByStep ==
  ASSUME NEW T, NEW N \in Nat, NEW b \in T, NEW F \in [1..N -> [T -> T]]
  PROVE  \E f : Iterates(f, F, b, N, T)
<1> DEFINE Runs(n) == \E f \in [0..n -> T] : f[0] = b /\ \A k \in 1..n : f[k] = F[k][f[k - 1]]
           stuck == {n \in 0..N : ~ Runs(n)}
<1>1. Runs(0)
  <2> DEFINE f == [k \in 0..0 |-> b]
  <2>1. f \in [0..0 -> T] /\ f[0] = b
    OBVIOUS
  <2>2. \A k \in 1..0 : f[k] = F[k][f[k - 1]]
    OBVIOUS
  <2> HIDE DEF f
  <2> QED BY <2>1, <2>2
<1>2. ASSUME NEW n \in 0..N - 1, Runs(n) PROVE Runs(n + 1)
  <2>1. PICK f \in [0..n -> T] : f[0] = b /\ \A k \in 1..n : f[k] = F[k][f[k - 1]]
    BY <1>2
  <2> DEFINE g == [k \in 0..n + 1 |-> IF k = n + 1 THEN F[n + 1][f[n]] ELSE f[k]]
  <2>2. F[n + 1][f[n]] \in T
    <3>1. f[n] \in T /\ n + 1 \in 1..N
      BY <2>1
    <3> QED BY <3>1
  <2>3. g \in [0..n + 1 -> T]
    BY <2>1, <2>2
  <2>4. g[0] = b /\ g[n + 1] = F[n + 1][g[n]]
    <3>1. g[n + 1] = F[n + 1][f[n]] /\ g[n] = f[n] /\ g[0] = f[0]
      OBVIOUS
    <3> HIDE DEF g
    <3> QED BY <2>1, <3>1
  <2>5. \A k \in 1..n : g[k] = f[k] /\ g[k - 1] = f[k - 1]
    OBVIOUS
  <2>6. \A k \in 1..n + 1 : k \in 1..n \/ k = n + 1
    OBVIOUS
  <2> HIDE DEF g
  <2>7. \A k \in 1..n + 1 : g[k] = F[k][g[k - 1]]
    BY <2>1, <2>4, <2>5, <2>6
  <2> QED BY <2>3, <2>4, <2>7
<1> HIDE DEF Runs
<1>3. ASSUME stuck # {} PROVE FALSE
  <2>1. stuck \subseteq Nat
    OBVIOUS
  <2>2. PICK n \in stuck : \A m \in stuck : n <= m
    <3> HIDE DEF stuck
    <3> QED BY <1>3, <2>1, LeastNumber
  <2>3. n # 0
    BY <1>1
  <2>4. n - 1 \notin stuck /\ n - 1 \in 0..N - 1
    BY <2>2, <2>3
  <2>5. Runs(n - 1 + 1)
    BY <1>2, <2>4
  <2> QED BY <2>5
<1>4. N \in 0..N /\ N \notin stuck
  BY <1>3
<1>5. Runs(N)
  BY <1>4
<1> QED BY <1>5 DEF Runs, Iterates

\* The starts of the blocks are positions up to the terminal one.
LEMMA StartsArePositions ==
  ASSUME NEW heads, NEW terminal \in Nat \ {0}, NEW width \in Int
  PROVE  /\ Starts(heads, terminal, width) \in Seq(1..terminal)
         /\ Starts(heads, terminal, width) # <<>>
<1> DEFINE S == 1..terminal
           N == terminal - 1
           After(t) == IF t = <<>> THEN width ELSE t[Len(t)] - 1 + width
           Step(t, h) == IF h \in heads \ {1} /\ h - 1 >= After(t) THEN Append(t, h) ELSE t
           Run(f) == f = [h \in 0..N |-> IF h = 0 THEN <<>> ELSE Step(f[h - 1], h)]
           taken == CHOOSE f : Run(f)
<1>1. \A t \in Seq(S), h \in S : Step(t, h) \in Seq(S)
  <2>1. \A t \in Seq(S), h \in S : Append(t, h) \in Seq(S)
    BY DEF S
  <2> HIDE DEF S, After
  <2> QED BY <2>1
<1>2. Starts(heads, terminal, width) = Append(taken[N], terminal)
  BY Zenon DEF Starts
<1> HIDE DEF Step, S
<1>3. \A t \in Seq(S), h \in 1..N : Step(t, h) \in Seq(S)
  BY <1>1 DEF S
<1>4. Run(taken)
  <2> DEFINE F == [h \in 1..N |-> [t \in Seq(S) |-> Step(t, h)]]
  <2>1. F \in [1..N -> [Seq(S) -> Seq(S)]]
    BY <1>3
  <2>2. \A t \in Seq(S), h \in 1..N : F[h][t] = Step(t, h)
    OBVIOUS
  <2>3. <<>> \in Seq(S) /\ N \in Nat
    OBVIOUS
  <2> HIDE DEF F, N
  <2>4. PICK f \in [0..N -> Seq(S)] : f[0] = <<>> /\ \A h \in 1..N : f[h] = F[h][f[h - 1]]
    <3> HIDE DEF Run
    <3>1. \E f : Iterates(f, F, <<>>, N, Seq(S))
      BY <2>1, <2>3, StepByStep
    <3> QED BY <3>1 DEF Iterates
  <2>5. \A h \in 1..N : f[h] = Step(f[h - 1], h)
    <3> SUFFICES ASSUME NEW h \in 1..N PROVE f[h] = Step(f[h - 1], h)
      OBVIOUS
    <3>1. f[h - 1] \in Seq(S)
      BY <2>3
    <3> QED BY <2>2, <2>4, <3>1
  <2>6. Run(f)
    BY <2>3, <2>4, <2>5
  <2> QED BY <2>6, Zenon
<1> HIDE DEF taken
<1>5. taken[0] = <<>> /\ \A h \in 1..N : taken[h] = Step(taken[h - 1], h)
  <2>1. \A h \in 0..N : taken[h] = IF h = 0 THEN <<>> ELSE Step(taken[h - 1], h)
    BY <1>4
  <2>2. 0 \in 0..N /\ \A h \in 1..N : h \in 0..N /\ h # 0
    OBVIOUS
  <2> HIDE DEF N
  <2> QED BY <2>1, <2>2
<1>6. \A n \in 0..N : taken[n] \in Seq(S)
  <2> DEFINE bad == {n \in 0..N : taken[n] \notin Seq(S)}
  <2> SUFFICES ASSUME bad # {} PROVE FALSE
    OBVIOUS
  <2>1. bad \subseteq Nat
    OBVIOUS
  <2>2. PICK n \in bad : \A m \in bad : n <= m
    <3> HIDE DEF bad
    <3> QED BY <2>1, LeastNumber
  <2>3. n # 0
    <3>1. <<>> \in Seq(S)
      OBVIOUS
    <3> QED BY <1>5, <3>1
  <2>4. n \in 1..N /\ n - 1 \in 0..N /\ n - 1 \notin bad
    BY <2>2, <2>3
  <2> QED BY <1>3, <1>5, <2>4
<1>7. taken[N] \in Seq(S)
  BY <1>6
<1> QED BY <1>2, <1>7 DEF S

\* The validation blocks lie in the history.
LEMMA BlocksArePositions ==
  ASSUME NEW S, NEW rows \in Seq(S), NEW k \in DOMAIN Blocks(rows)
  PROVE  Blocks(rows)[k].first \in 1..Len(rows) /\ Blocks(rows)[k].last \in 0..Len(rows)
<1> DEFINE n == Len(rows)
           heads == Heads(rows)
           terminal == TerminalHead(heads, n)
           starts == Starts(heads, terminal, Width(n))
<1>1. n \in Nat /\ heads \subseteq 1..n
  BY DEF Heads
<1>2. CASE Blocks(rows) = <<>>
  BY <1>2
<1>3. CASE Blocks(rows) # <<>>
  <2>1. n >= 6
    BY <1>1, <1>3, FoldsAssumption DEF Blocks, Larger
  <2>2. terminal \in 1..n
    <3> DEFINE late == {h \in heads : /\ Cardinality({g \in heads : g >= h}) >= TerminalCohorts
                                      /\ n - h + 1 >= MinSamples}
    <3>1. {1} \union late \subseteq 1..n /\ {1} \union late # {}
      BY <1>1, <2>1
    <3>2. 1..n \subseteq 0..n
      OBVIOUS
    <3> HIDE DEF late
    <3>3. Max({1} \union late) \in {1} \union late
      BY <1>1, <3>1, <3>2, GreatestNumber
    <3>4. Max({1} \union late) \in 1..n
      BY <3>1, <3>3
    <3> QED BY <3>4 DEF TerminalHead, late
  <2>3. Width(n) \in Int
    <3>1. MinSamples \in Nat /\ MinSamples > 0
      BY FoldsAssumption
    <3>2. n \div MinSamples \in Int
      BY <1>1, <3>1
    <3>3. Smaller(5, Larger(2, n \div MinSamples)) + 1 \in Nat /\ Smaller(5, Larger(2, n \div MinSamples)) + 1 > 0
      BY <3>2 DEF Smaller, Larger
    <3> HIDE DEF n
    <3>4. n \div (Smaller(5, Larger(2, n \div MinSamples)) + 1) \in Int
      BY <1>1, <3>3
    <3> QED BY <3>1, <3>4 DEF Width, Larger
  <2>4. starts \in Seq(1..terminal)
    <3> HIDE DEF terminal, heads
    <3> QED BY <1>1, <2>2, <2>3, StartsArePositions
  <2>5. Blocks(rows) = [i \in DOMAIN starts |->
                          [first |-> starts[i], last |-> IF i < Len(starts) THEN starts[i + 1] - 1 ELSE n]]
    BY <1>3, Zenon DEF Blocks
  <2> HIDE DEF starts, terminal, heads, n
  <2>6. k \in 1..Len(starts) /\ Len(starts) \in Nat
    BY <2>4, <2>5
  <2>7. \A i \in 1..Len(starts) : starts[i] \in 1..n
    BY <1>1, <2>2, <2>4
  <2>8. (IF k < Len(starts) THEN starts[k + 1] - 1 ELSE n) \in 0..n
    BY <1>1, <2>6, <2>7
  <2>9. /\ Blocks(rows)[k].first = starts[k]
        /\ Blocks(rows)[k].last = IF k < Len(starts) THEN starts[k + 1] - 1 ELSE n
    BY <2>4, <2>5, <2>6
  <2> QED BY <2>6, <2>7, <2>8, <2>9 DEF n
<1> QED BY <1>2, <1>3

\* A fold is trained on what was out before the first decision it is judged on, and its
\* rows are of the history.
LEMMA FoldsLookAhead ==
  ASSUME NEW rows, Dated(rows), \A r \in rows : r.avail \in Int, NEW f \in Folds(InOrder(rows))
  PROVE  /\ \A t \in f.train, h \in f.held : t.avail < h.ts
         /\ f.first \in 1..Cardinality(rows)
         /\ f.held = {InOrder(rows)[i] : i \in f.first..f.last}
         /\ \A h \in f.held : h \in rows /\ h.ts <= InOrder(rows)[Cardinality(rows)].ts
<1> DEFINE s == InOrder(rows)
           n == Cardinality(rows)
           fold(b) == [first |-> b.first, last |-> b.last, train |-> Train(s, b),
                       held |-> {s[i] : i \in b.first..b.last}]
<1>1. s \in Seq(rows) /\ Len(s) = n /\ n \in Nat /\ \A i, j \in 1..n : i <= j => s[i].ts <= s[j].ts
  BY OrderIsChronological
<1>2. PICK k \in DOMAIN Blocks(s) : f = fold(Blocks(s)[k])
  BY Zenon DEF Folds
<1> DEFINE b == Blocks(s)[k]
<1> HIDE DEF s, n
<1>3. b.first \in 1..n /\ b.last \in 0..n
  BY <1>1, BlocksArePositions
<1> HIDE DEF b
<1>4. f.first = b.first /\ f.last = b.last /\ f.train = Train(s, b) /\ f.held = {s[i] : i \in b.first..b.last}
  BY <1>2 DEF b
<1>5. \A i \in b.first..b.last : i \in 1..n /\ b.first <= i /\ i <= n
  BY <1>1, <1>3
<1>6. \A i \in 1..n : s[i] \in rows /\ s[i].ts \in Int /\ s[i].avail \in Int
  BY <1>1 DEF Dated
<1>7. \A t \in f.train : t.avail \in Int /\ t.avail < s[b.first].ts
  <2> SUFFICES ASSUME NEW t \in Train(s, b) PROVE t.avail \in Int /\ t.avail < s[b.first].ts
    BY <1>4
  <2>1. PICK i \in 1..b.first - 1 : t = s[i] /\ s[i].avail < s[b.first].ts
    BY DEF Train
  <2> QED BY <1>1, <1>3, <1>6, <2>1
<1>8. \A h \in f.held : h \in rows /\ h.ts \in Int /\ s[b.first].ts <= h.ts /\ h.ts <= s[n].ts
  <2> SUFFICES ASSUME NEW i \in b.first..b.last
               PROVE  s[i] \in rows /\ s[i].ts \in Int /\ s[b.first].ts <= s[i].ts /\ s[i].ts <= s[n].ts
    BY <1>4
  <2>1. i \in 1..n /\ b.first <= i /\ i <= n /\ n \in 1..n
    BY <1>1, <1>3, <1>5
  <2> QED BY <1>1, <1>3, <1>6, <2>1
<1>9. \A t \in f.train, h \in f.held : t.avail < h.ts
  <2>1. s[b.first].ts \in Int
    BY <1>3, <1>6
  <2> QED BY <1>7, <1>8, <2>1
<1> QED BY <1>3, <1>4, <1>8, <1>9 DEF s, n

LEMMA FinalIsCompared ==
  ASSUME NEW folds, NEW n \in Nat, \A f \in folds : f.first \in 1..n, Compared(folds) # {}
  PROVE  Final(folds) \in Compared(folds)
<1> DEFINE C == Compared(folds)
           firsts == {f.first : f \in C}
<1>1. \A f \in C : f.first \in 1..n
  BY DEF Compared
<1>2. firsts \subseteq 0..n /\ firsts # {}
  BY <1>1
<1>3. Max(firsts) \in firsts /\ \A i \in firsts : i <= Max(firsts)
  <2> HIDE DEF firsts
  <2> QED BY <1>2, GreatestNumber
<1>4. \E f \in C : \A g \in C : g.first <= f.first
  BY <1>3
<1> HIDE DEF C
<1>5. (CHOOSE f \in C : \A g \in C : g.first <= f.first) \in C
  BY <1>4
<1> QED BY <1>5 DEF Final, C

\* The comparison a model rests on, as ProvenOnTheFuture asks for it.
Proven(m) ==
  /\ \A p \in m.proof : \A t \in p[1], h \in p[2] : t.avail < h.ts
  /\ m.fitted =>
       \E p \in m.proof :
         /\ p[1] = m.train
         /\ \A q \in m.proof : \A h \in q[2] : \E last \in p[2] : h.ts <= last.ts

\* The rest of a fit does not touch it.
Unproven(m) == m.fitted = FALSE /\ m.proof = {}

LEMMA FitsAreProven ==
  ASSUME NEW rows, Dated(rows), \A r \in rows : r.avail \in Int, NEW n, NEW f \in Fits(rows, n)
  PROVE  Proven(f)
<1> DEFINE all == Sanitized(rows, n)
           m == Priced(all, n)
           folds == Folds(InOrder(all))
           size == Cardinality(all)
<1>1. Dated(all) /\ \A r \in all : r.avail \in Int
  <2>1. all \subseteq rows
    BY DEF Sanitized
  <2> QED BY <2>1, FS_Subset DEF Dated
<1>2. IsModel(m) /\ Unproven(m)
  BY ZenonT(60) DEF Priced, NoModel, IsModel, Fields, Unproven
<1>3. \A g : Unproven(g) => Proven(g)
  BY DEF Unproven, Proven
<1>4. Len(InOrder(all)) = size /\ size \in Nat
  BY <1>1, OrderIsChronological
<1> HIDE DEF m, all
<1>5. IsModel(Unskilled(m)) /\ Unproven(Unskilled(m)) /\ Unskilled(m).skill.status = "insufficient"
  BY <1>2 DEF Unskilled, IsModel, Fields, Unproven, NoSkill
<1>6. Unproven([Unskilled(m) EXCEPT !.oof = "insufficient"])
  BY <1>5 DEF IsModel, Fields, Unproven
<1>7. \A w : IsModel(w) /\ Unproven(w) /\ (Refusal(w, folds) # "none" \/ ~ Activated(w)) => Unproven(Validated(w, folds))
  BY DEF Validated, IsModel, Fields, Unproven
<1>8. Unproven(Validated(Unskilled(m), folds))
  <2>1. ~ Activated(Unskilled(m))
    BY <1>5 DEF Activated
  <2> QED BY <1>5, <1>7, <2>1
<1>9. ASSUME NEW w, IsModel(w), Unproven(w), Comparable(folds, size) PROVE Proven(Validated(w, folds))
  <2>1. CASE Refusal(w, folds) # "none" \/ ~ Activated(w)
    BY <1>3, <1>7, <1>9, <2>1
  <2>2. CASE ~ (Refusal(w, folds) # "none" \/ ~ Activated(w))
    <3> DEFINE last == Final(folds)
               v == Validated(w, folds)
    <3>1. v.train = last.train /\ v.proof = {<<g.train, g.held>> : g \in Compared(folds)}
      <4> DEFINE u == [w EXCEPT !.samples = Cardinality(Predicted(folds))]
      <4>1. v = [u EXCEPT !.oof = "sufficient", !.fitted = TRUE, !.train = last.train,
                          !.proof = {<<g.train, g.held>> : g \in Compared(folds)}]
        BY <2>2, Zenon DEF Validated
      <4>2. u = [x \in Fields |-> u[x]]
        BY <1>9 DEF IsModel, Fields
      <4> HIDE DEF u, v, last
      <4> QED BY <4>1, <4>2 DEF Fields
    <3>2. \A g \in folds : /\ \A t \in g.train, h \in g.held : t.avail < h.ts
                           /\ g.first \in 1..size /\ g.held = {InOrder(all)[i] : i \in g.first..g.last}
                           /\ \A h \in g.held : h.ts <= InOrder(all)[size].ts
      BY <1>1, FoldsLookAhead
    <3> HIDE DEF v, folds, size
    <3>3. last \in Compared(folds) /\ last \in folds /\ last.last = size
      <4>1. Compared(folds) # {} /\ last.last = size
        BY <1>9 DEF Comparable
      <4>2. last \in Compared(folds)
        BY <1>4, <3>2, <4>1, FinalIsCompared
      <4> QED BY <4>1, <4>2 DEF Compared
    <3> HIDE DEF last
    <3>4. InOrder(all)[size] \in last.held
      BY <1>4, <3>2, <3>3
    <3>5. Compared(folds) \subseteq folds
      BY DEF Compared
    <3>6. \A p \in v.proof : /\ \A t \in p[1], h \in p[2] : t.avail < h.ts
                             /\ \A h \in p[2] : h.ts <= InOrder(all)[size].ts
      BY <3>1, <3>2, <3>5
    <3>7. <<last.train, last.held>> \in v.proof
      BY <3>1, <3>3
    <3> QED BY <3>1, <3>4, <3>6, <3>7 DEF Proven, v
  <2> QED BY <2>1, <2>2
<1>10. ASSUME NEW skilled, NEW chosen
       PROVE  IsModel(WithSkill(m, folds, skilled, chosen)) /\ Unproven(WithSkill(m, folds, skilled, chosen))
  <2> HIDE DEF folds
  <2> QED BY <1>2 DEF WithSkill, IsModel, Fields, Unproven
<1>11. \/ f = m
       \/ f = [Unskilled(m) EXCEPT !.oof = "insufficient"]
       \/ f = Validated(Unskilled(m), folds)
       \/ /\ Comparable(folds, size)
          /\ \E skilled \in BOOLEAN, chosen \in SUBSET Predicted(Compared(folds)) :
               f = Validated(WithSkill(m, folds, skilled, chosen), folds)
  BY <1>4 DEF Fits, m, all
<1> HIDE DEF folds, size
<1> QED BY <1>2, <1>3, <1>6, <1>8, <1>9, <1>10, <1>11

\* The labelled roots are such rows.
LEMMA FetchedIsDated == ASSUME TypeOK PROVE Dated(Fetched) /\ \A r \in Fetched : r.avail \in Int
<1>1. \A i \in Labeled : i \in 1..Len(roots)
  BY DEF Labeled, Written, Matured, Kept, TypeOK
<1>2. \A i \in 1..Len(roots) : roots[i].ts \in Int /\ roots[i].avail \in Int
  <2> DEFINE R == [ts : 1..now, avail : Nat, fate : Fates]
  <2>1. \A r \in R : r.ts \in Int /\ r.avail \in Int
    BY DEF TypeOK
  <2>2. roots \in Seq(R)
    BY DEF TypeOK
  <2> HIDE DEF R
  <2>3. \A i \in 1..Len(roots) : roots[i] \in R
    BY <2>2
  <2> QED BY <2>1, <2>3
<1>3. \A i \in Labeled : Row(i).id = i /\ Row(i).id \in Int /\ Row(i).ts \in Int /\ Row(i).avail \in Int
  <2>1. \A i \in Labeled : Row(i).id = i /\ Row(i).ts = roots[i].ts /\ Row(i).avail = roots[i].avail
    BY DEF Row
  <2> QED BY <1>1, <1>2, <2>1
<1> QED BY <1>3, FetchedIsFinite DEF Dated, Fetched

\* The gate keeps the proof of a model it does not withdraw.
LEMMA GateKeepsProof ==
  ASSUME NEW m, IsModel(m), Proven(m), NEW mild \in BOOLEAN
  PROVE  Proven(Gated(m, mild))
<1>1. CASE Withdrawn(m, mild)
  <2>1. Gated(m, mild).fitted = FALSE /\ Gated(m, mild).proof = {}
    BY <1>1, GatedFields, ZenonT(60)
  <2> QED BY <2>1 DEF Proven
<1>2. CASE ~ Withdrawn(m, mild)
  <2>1. /\ Gated(m, mild).fitted = m.fitted
        /\ Gated(m, mild).train = m.train /\ Gated(m, mild).proof = m.proof
    BY <1>2, GatedFields, ZenonT(60)
  <2> QED BY <2>1 DEF Proven
<1> QED BY <1>1, <1>2

LEMMA CycleProves ==
  ASSUME StoredInvariant, \A k \in Models : Proven(saved[k]), Cycle, NEW k \in Models
  PROVE  Proven(saved'[k])
<1>1. TypeOK /\ Stored
  BY DEF StoredInvariant
<1>2. PICK fitted \in Fits(Fetched, now), mild \in BOOLEAN : CycleOf(Gated(fitted, mild), mild)
  BY <1>1, CycleModels
<1> DEFINE fit == Gated(fitted, mild)
<1>3. Proven(fit)
  <2>1. IsFit(fitted, now)
    BY <1>1, FetchedIsFinite, FitFields
  <2>2. Proven(fitted)
    BY <1>1, FetchedIsDated, FitsAreProven
  <2> QED BY <2>1, <2>2, GateKeepsProof DEF IsFit
<1>4. CycleOf(fit, mild)
  BY <1>2
<1> HIDE DEF fit
<1>5. Proven([NoModel EXCEPT !.state = "model", !.status = "insufficient", !.ts = now])
  BY DEF Proven, NoModel
<1>6. BotFit(fit) \in {[NoModel EXCEPT !.state = "model", !.status = "insufficient", !.ts = now], fit}
  BY DEF BotFit
<1>7. saved'[k] \in {saved["global"], saved["bot"], fit, BotFit(fit)}
  BY <1>4 DEF CycleOf, GlobalSaved, BotSaved
<1> QED BY <1>3, <1>5, <1>6, <1>7 DEF Models

\* The comparison a stored model rests on was made on the future of each of its folds, and
\* the coefficients in use are those of the last one: for every history of labels, however
\* late they came, and for every outcome of the optimiser (_purged_train_indices,
\* _time_series_oof_skill_diagnostics).
THEOREM ProofsLookAhead == Spec => []ProvenOnTheFuture
<1> DEFINE Inv == \A k \in Models : Proven(saved[k])
<1>1. Init => Inv
  BY DEF Init, Proven, NoModel
<1>2. ASSUME StoredInvariant, Inv, [Next]_vars PROVE Inv'
  <2>1. CASE Cycle
    <3>1. \A k \in Models : Proven(saved'[k])
      BY <1>2, <2>1, CycleProves
    <3> QED BY <3>1 DEF Proven
  <2>2. CASE Prune \/ Tick \/ UNCHANGED vars
    <3>1. saved' = saved
      BY <2>2 DEF Prune, Tick, vars
    <3> QED BY <1>2, <3>1 DEF Proven
  <2> QED BY <1>2, <2>1, <2>2 DEF Next
<1>3. Inv => ProvenOnTheFuture
  BY DEF ProvenOnTheFuture, Proven
<1> QED BY <1>1, <1>2, <1>3, ModelsAreStored, PTL DEF Spec

---------------------------------------------------------------------------
(* Cohorts: the decisions that count as independent evidence.             *)

\* What the greedy choice has of the first n of decisions that are in the order of their
\* ends: decisions that do not overlap, one of which ends in each decision that was met.
Chosen(t, n, d, D) ==
  /\ t \in Seq(D)
  /\ \A i, j \in 1..Len(t) : i < j => t[i].end <= t[j].ts
  /\ \A i \in 1..Len(t), m \in 1..Len(d) : n <= m => t[i].end <= d[m].end
  /\ \A m \in 1..n : \E i \in 1..Len(t) : d[m].ts < t[i].end /\ t[i].end <= d[m].end

Spans(D) == \A e \in D : e.ts \in Int /\ e.end \in Int /\ e.ts < e.end
EndsInOrder(d) == \A i, j \in 1..Len(d) : i <= j => d[i].end <= d[j].end

\* One decision more.
Further(t, next) == IF t # <<>> /\ next.ts < t[Len(t)].end THEN t ELSE Append(t, next)

LEMMA FurtherIsChosen ==
  ASSUME NEW D, Spans(D), NEW d \in Seq(D), EndsInOrder(d), NEW n \in 1..Len(d), NEW t, Chosen(t, n - 1, d, D)
  PROVE  Chosen(Further(t, d[n]), n, d, D)
<1> DEFINE next == d[n]
<1>0. t \in Seq(D) /\ Len(t) \in Nat /\ Len(d) \in Nat
  BY DEF Chosen
<1>1. next \in D /\ next.ts \in Int /\ next.end \in Int /\ next.ts < next.end
  BY DEF Spans
<1>2. \A i \in 1..Len(t) : t[i] \in D /\ t[i].ts \in Int /\ t[i].end \in Int /\ t[i].ts < t[i].end
  BY <1>0 DEF Spans
<1>3. \A i \in 1..Len(t) : t[i].end <= next.end /\ t[i].end <= t[Len(t)].end
  <2> SUFFICES ASSUME NEW i \in 1..Len(t) PROVE t[i].end <= next.end /\ t[i].end <= t[Len(t)].end
    OBVIOUS
  <2>1. t[i].end <= next.end
    BY DEF Chosen
  <2>2. CASE i = Len(t)
    BY <1>2, <2>1, <2>2
  <2>3. CASE i < Len(t)
    <3>1. Len(t) \in 1..Len(t)
      BY <1>0, <2>3
    <3>2. t[i].end <= t[Len(t)].ts
      BY <2>3, <3>1 DEF Chosen
    <3> QED BY <1>2, <2>1, <3>1, <3>2
  <2> QED BY <1>0, <2>2, <2>3
<1>4. \A m \in 1..Len(d) : n <= m => next.end <= d[m].end
  BY DEF EndsInOrder
<1>5. \A m \in 1..Len(d) : d[m].end \in Int /\ d[m].ts \in Int
  BY DEF Spans
<1>6. \A i, j \in 1..Len(t) : i < j => t[i].end <= t[j].ts
  BY DEF Chosen
<1>7. \A m \in 1..n - 1 : \E i \in 1..Len(t) : d[m].ts < t[i].end /\ t[i].end <= d[m].end
  BY DEF Chosen
<1>8. \A i \in 1..Len(t), m \in 1..Len(d) : n <= m => t[i].end <= d[m].end
  BY DEF Chosen
<1>9. CASE t # <<>> /\ next.ts < t[Len(t)].end
  <2>1. Further(t, next) = t /\ Len(t) \in 1..Len(t)
    BY <1>0, <1>9 DEF Further
  <2>2. \A m \in 1..n : \E i \in 1..Len(t) : d[m].ts < t[i].end /\ t[i].end <= d[m].end
    <3> SUFFICES ASSUME NEW m \in 1..n PROVE \E i \in 1..Len(t) : d[m].ts < t[i].end /\ t[i].end <= d[m].end
      OBVIOUS
    <3>1. CASE m = n
      BY <1>3, <1>9, <2>1, <3>1
    <3>2. CASE m \in 1..n - 1
      BY <1>7, <3>2
    <3> QED BY <3>1, <3>2
  <2> QED BY <1>0, <1>6, <1>8, <2>1, <2>2 DEF Chosen
<1>10. CASE ~ (t # <<>> /\ next.ts < t[Len(t)].end)
  <2> DEFINE u == Append(t, next)
  <2>1. Further(t, next) = u
    BY <1>10 DEF Further
  <2>2. u \in Seq(D) /\ Len(u) = Len(t) + 1 /\ u[Len(t) + 1] = next /\ \A i \in 1..Len(t) : u[i] = t[i]
    BY <1>0, <1>1
  <2> HIDE DEF u, next
  <2>3. \A i \in 1..Len(t) : t[i].end <= next.ts
    <3> SUFFICES ASSUME NEW i \in 1..Len(t) PROVE t[i].end <= next.ts
      OBVIOUS
    <3>1. t # <<>> /\ Len(t) \in 1..Len(t)
      BY <1>0
    <3> QED BY <1>1, <1>2, <1>3, <1>10, <3>1
  <2>4. \A i \in 1..Len(u) : i \in 1..Len(t) \/ i = Len(t) + 1
    BY <1>0, <2>2
  <2>5. \A i, j \in 1..Len(u) : i < j => u[i].end <= u[j].ts
    <3> SUFFICES ASSUME NEW i \in 1..Len(u), NEW j \in 1..Len(u), i < j PROVE u[i].end <= u[j].ts
      OBVIOUS
    <3>1. i \in 1..Len(t) /\ u[i] = t[i]
      BY <1>0, <2>2
    <3>2. CASE j = Len(t) + 1
      BY <2>2, <2>3, <3>1, <3>2
    <3>3. CASE j \in 1..Len(t)
      BY <1>6, <2>2, <3>1, <3>3
    <3> QED BY <2>4, <3>2, <3>3
  <2>6. \A i \in 1..Len(u), m \in 1..Len(d) : n <= m => u[i].end <= d[m].end
    BY <1>4, <1>8, <2>2, <2>4
  <2>7. \A m \in 1..n : \E i \in 1..Len(u) : d[m].ts < u[i].end /\ u[i].end <= d[m].end
    <3> SUFFICES ASSUME NEW m \in 1..n PROVE \E i \in 1..Len(u) : d[m].ts < u[i].end /\ u[i].end <= d[m].end
      OBVIOUS
    <3>1. CASE m = n
      <4>1. Len(t) + 1 \in 1..Len(u) /\ d[m].ts < u[Len(t) + 1].end /\ u[Len(t) + 1].end <= d[m].end
        BY <1>0, <1>1, <2>2, <3>1 DEF next
      <4> QED BY <4>1
    <3>2. CASE m \in 1..n - 1
      <4>1. PICK i \in 1..Len(t) : d[m].ts < t[i].end /\ t[i].end <= d[m].end
        BY <1>7, <3>2
      <4>2. i \in 1..Len(u) /\ u[i] = t[i]
        BY <1>0, <2>2
      <4> QED BY <4>1, <4>2
    <3> QED BY <3>1, <3>2
  <2>8. Chosen(u, n, d, D)
    BY <2>2, <2>5, <2>6, <2>7 DEF Chosen
  <2> QED BY <2>1, <2>8 DEF next
<1> QED BY <1>9, <1>10

LEMMA ApartIsChosen ==
  ASSUME NEW D, Spans(D), NEW d \in Seq(D), EndsInOrder(d)
  PROVE  Chosen(Apart(d), Len(d), d, D)
<1> DEFINE N == Len(d)
           Run(f) == f = [n \in 0..N |-> IF n = 0 THEN <<>> ELSE Further(f[n - 1], d[n])]
           taken == CHOOSE f : Run(f)
<1>1. Apart(d) = taken[N]
  BY Zenon DEF Apart, Further
<1>2. \A t \in Seq(D), n \in 1..N : Further(t, d[n]) \in Seq(D)
  BY DEF Further
<1>3. N \in Nat /\ <<>> \in Seq(D)
  OBVIOUS
<1> HIDE DEF N
<1>4. Run(taken)
  <2> DEFINE F == [n \in 1..N |-> [t \in Seq(D) |-> Further(t, d[n])]]
  <2>1. F \in [1..N -> [Seq(D) -> Seq(D)]]
    BY <1>2
  <2>2. \A t \in Seq(D), n \in 1..N : F[n][t] = Further(t, d[n])
    OBVIOUS
  <2> HIDE DEF F
  <2>3. PICK f : f \in [0..N -> Seq(D)] /\ f[0] = <<>> /\ \A n \in 1..N : f[n] = F[n][f[n - 1]]
    <3> HIDE DEF Run
    <3>1. \E f : Iterates(f, F, <<>>, N, Seq(D))
      BY <1>3, <2>1, StepByStep
    <3> QED BY <3>1 DEF Iterates
  <2>4. \A n \in 1..N : f[n] = Further(f[n - 1], d[n])
    <3> SUFFICES ASSUME NEW n \in 1..N PROVE f[n] = Further(f[n - 1], d[n])
      OBVIOUS
    <3>1. f[n - 1] \in Seq(D)
      BY <1>3, <2>3
    <3> QED BY <2>2, <2>3, <3>1
  <2>5. Run(f)
    BY <1>3, <2>3, <2>4
  <2> QED BY <2>5, Zenon
<1> HIDE DEF taken
<1>5. taken[0] = <<>> /\ \A n \in 1..N : taken[n] = Further(taken[n - 1], d[n])
  <2>1. \A n \in 0..N : taken[n] = IF n = 0 THEN <<>> ELSE Further(taken[n - 1], d[n])
    BY <1>4
  <2>2. 0 \in 0..N /\ \A n \in 1..N : n \in 0..N /\ n # 0
    BY <1>3
  <2> QED BY <2>1, <2>2
<1>6. \A n \in 0..N : Chosen(taken[n], n, d, D)
  <2> DEFINE bad == {n \in 0..N : ~ Chosen(taken[n], n, d, D)}
  <2> SUFFICES ASSUME bad # {} PROVE FALSE
    OBVIOUS
  <2>1. bad \subseteq Nat
    BY <1>3
  <2>2. PICK n \in bad : \A m \in bad : n <= m
    <3> HIDE DEF bad
    <3> QED BY <2>1, LeastNumber
  <2>3. n # 0
    <3>1. Chosen(<<>>, 0, d, D)
      BY <1>3 DEF Chosen
    <3> QED BY <1>5, <3>1
  <2>4. n \in 1..N /\ n - 1 \in 0..N /\ n - 1 \notin bad
    BY <1>3, <2>2, <2>3
  <2>5. Chosen(taken[n - 1], n - 1, d, D)
    BY <2>4
  <2>6. Chosen(taken[n], n, d, D)
    BY <1>5, <2>4, <2>5, FurtherIsChosen DEF N
  <2> QED BY <2>6
<1>7. N \in 0..N
  BY <1>3
<1> QED BY <1>1, <1>6, <1>7 DEF N

Disjoint(S) == \A a, b \in S : a = b \/ a.end <= b.ts \/ b.end <= a.ts

\* Rows with an end, all before a bound.
Ended(rows, n) ==
  /\ IsFiniteSet(rows)
  /\ \A r \in rows : r.ts \in Nat /\ r.avail \in 0..n /\ r.ts < r.avail

\* Decisions are finitely many, and one moment has one.
LEMMA DecisionsAreSpans ==
  ASSUME NEW n \in Nat, NEW rows, Ended(rows, n)
  PROVE  /\ IsFiniteSet(Decisions(rows)) /\ Spans(Decisions(rows))
         /\ \A d, e \in Decisions(rows) : d.ts = e.ts => d = e
<1> DEFINE Ends(t) == {r.avail : r \in {q \in rows : q.ts = t}}
           decision(t) == [ts |-> t, end |-> Max(Ends(t)), rows |-> {q \in rows : q.ts = t}]
           D == Decisions(rows)
           f == [r \in rows |-> decision(r.ts)]
<1>1. D = {decision(t) : t \in {r.ts : r \in rows}}
  BY DEF Decisions
<1>2. ASSUME NEW r \in rows PROVE Max(Ends(r.ts)) \in Int /\ r.ts < Max(Ends(r.ts)) /\ r.ts \in Int
  <2>1. Ends(r.ts) \subseteq 0..n /\ r.avail \in Ends(r.ts)
    BY DEF Ended
  <2>2. Ends(r.ts) # {}
    BY <2>1
  <2> HIDE DEF Ends
  <2>3. Max(Ends(r.ts)) \in Ends(r.ts) /\ \A m \in Ends(r.ts) : m <= Max(Ends(r.ts))
    BY <2>1, <2>2, GreatestNumber
  <2>4. Max(Ends(r.ts)) \in 0..n /\ r.avail <= Max(Ends(r.ts))
    BY <2>1, <2>3
  <2>5. r.ts \in Nat /\ r.avail \in 0..n /\ r.ts < r.avail
    BY DEF Ended
  <2> HIDE DEF Ended
  <2> QED BY <2>4, <2>5
<1> HIDE DEF Ends
<1>3. \A e \in D : \E r \in rows : e = decision(r.ts)
  BY <1>1
<1>4. \A r \in rows : decision(r.ts) \in D
  BY <1>1
<1>5. IsFiniteSet(D)
  <2> HIDE DEF decision, D
  <2>1. f \in Surjection(rows, D)
    BY <1>3, <1>4 DEF Surjection
  <2> HIDE DEF f
  <2> QED BY <2>1, FS_Surjection DEF Ended
<1>6. \A t : decision(t).ts = t /\ decision(t).end = Max(Ends(t))
  OBVIOUS
<1> HIDE DEF decision, D
<1>7. Spans(D)
  BY <1>2, <1>3, <1>6 DEF Spans
<1>8. \A d, e \in D : d.ts = e.ts => d = e
  BY <1>3, <1>6
<1> QED BY <1>5, <1>7, <1>8 DEF D

\* The decisions the code takes do not overlap, and no set of decisions that do not overlap
\* is larger: each of its decisions has the end of one that was taken, and no two the same.
LEMMA CohortsAreMost ==
  ASSUME NEW n \in Nat, NEW rows, Ended(rows, n)
  PROVE  /\ Disjoint({Cohorts(rows)[i] : i \in DOMAIN Cohorts(rows)})
         /\ \A S \in SUBSET Decisions(rows) : Disjoint(S) => Cardinality(S) <= Len(Cohorts(rows))
<1> DEFINE D == Decisions(rows)
           R == EndsFirst(D)
           d == Ordered(D, R)
           N == Cardinality(D)
           a == Apart(d)
<1>1. IsFiniteSet(D) /\ Spans(D) /\ \A e, f \in D : e.ts = f.ts => e = f
  BY DecisionsAreSpans
<1>2. Cohorts(rows) = a
  <2>1. {r \in rows : r.avail > r.ts} = rows
    BY DEF Ended
  <2> QED BY <2>1 DEF Cohorts
<1> HIDE DEF D
<1>3. \A e, f \in D : <<e, f>> \in R <=> e.end < f.end \/ (e.end = f.end /\ e.ts < f.ts)
  BY DEF EndsFirst
<1> HIDE DEF R
<1>4. Orders(R, D)
  BY <1>1, <1>3 DEF Orders, Spans
<1>5. /\ d \in Seq(D) /\ Len(d) = N /\ N \in Nat
      /\ \A e \in D : \E i \in 1..N : d[i] = e
      /\ \A i, j \in 1..N : i < j => <<d[i], d[j]>> \in R
  BY <1>1, <1>4, OrderedIsSorted
<1> HIDE DEF d, N
<1>6. EndsInOrder(d)
  <2> SUFFICES ASSUME NEW i \in 1..Len(d), NEW j \in 1..Len(d), i <= j PROVE d[i].end <= d[j].end
    BY DEF EndsInOrder
  <2>1. d[i] \in D /\ d[j] \in D /\ d[i].end \in Int /\ d[j].end \in Int
    BY <1>1, <1>5 DEF Spans
  <2>2. CASE i = j
    BY <2>1, <2>2
  <2>3. CASE i < j
    <3>1. <<d[i], d[j]>> \in R
      BY <1>5, <2>3
    <3> QED BY <1>3, <2>1, <3>1
  <2> QED BY <2>2, <2>3
<1>7. Chosen(a, Len(d), d, D)
  BY <1>1, <1>5, <1>6, ApartIsChosen
<1> HIDE DEF a
<1>8. a \in Seq(D) /\ Len(a) \in Nat /\ \A i, j \in 1..Len(a) : i < j => a[i].end <= a[j].ts
  BY <1>7 DEF Chosen
<1>9. \A e \in D : \E i \in 1..Len(a) : e.ts < a[i].end /\ a[i].end <= e.end
  <2> SUFFICES ASSUME NEW e \in D PROVE \E i \in 1..Len(a) : e.ts < a[i].end /\ a[i].end <= e.end
    OBVIOUS
  <2>1. PICK m \in 1..Len(d) : d[m] = e
    BY <1>5
  <2>2. \E i \in 1..Len(a) : d[m].ts < a[i].end /\ a[i].end <= d[m].end
    BY <1>7 DEF Chosen
  <2> QED BY <2>1, <2>2
<1>10. Disjoint({a[i] : i \in DOMAIN a})
  <2> SUFFICES ASSUME NEW i \in 1..Len(a), NEW j \in 1..Len(a)
               PROVE  a[i] = a[j] \/ a[i].end <= a[j].ts \/ a[j].end <= a[i].ts
    BY <1>8 DEF Disjoint
  <2>1. i = j \/ i < j \/ j < i
    OBVIOUS
  <2> QED BY <1>8, <2>1
<1>11. ASSUME NEW S \in SUBSET D, Disjoint(S) PROVE Cardinality(S) <= Len(a)
  <2> DEFINE g == [e \in S |-> CHOOSE i \in 1..Len(a) : e.ts < a[i].end /\ a[i].end <= e.end]
  <2>1. \A e \in S : g[e] \in 1..Len(a) /\ e.ts < a[g[e]].end /\ a[g[e]].end <= e.end
    <3> SUFFICES ASSUME NEW e \in S PROVE g[e] \in 1..Len(a) /\ e.ts < a[g[e]].end /\ a[g[e]].end <= e.end
      OBVIOUS
    <3>1. \E i \in 1..Len(a) : e.ts < a[i].end /\ a[i].end <= e.end
      BY <1>9
    <3> QED BY <3>1
  <2> HIDE DEF g
  <2>2. \A e \in S : e.ts \in Int /\ e.end \in Int
    BY <1>1 DEF Spans
  <2>3. \A i \in 1..Len(a) : a[i].end \in Int
    BY <1>1, <1>8 DEF Spans
  <2>4. \A e, f \in S : e # f => g[e] # g[f]
    <3> SUFFICES ASSUME NEW e \in S, NEW f \in S, g[e] = g[f], e # f PROVE FALSE
      OBVIOUS
    <3>1. e.end <= f.ts \/ f.end <= e.ts
      BY <1>11 DEF Disjoint
    <3> QED BY <2>1, <2>2, <2>3, <3>1
  <2>5. g \in Injection(S, 1..Len(a))
    <3>1. g \in [S -> 1..Len(a)]
      BY <2>1 DEF g
    <3> QED BY <2>4, <3>1, ApartIsInjective
  <2>6. IsFiniteSet(1..Len(a)) /\ Cardinality(1..Len(a)) = Len(a)
    <3>1. IsFiniteSet(1..Len(a)) /\ Cardinality(1..Len(a)) = IF 1 > Len(a) THEN 0 ELSE Len(a) - 1 + 1
      <4>1. 1 \in Int /\ Len(a) \in Int
        BY <1>8
      <4> QED BY <4>1, FS_Interval, Zenon
    <3> QED BY <1>8, <3>1
  <2> QED BY <2>5, <2>6, FS_Injection
<1> QED BY <1>2, <1>10, <1>11 DEF D

\* A label is out later than its row.
LabelsFollow == \A i \in 1..Len(roots) : roots[i].ts < roots[i].avail

LEMMA LabeledEnd == ASSUME TypeOK, LabelsFollow PROVE Ended({Row(i) : i \in Labeled}, now)
<1>1. \A i \in Labeled : i \in 1..Len(roots) /\ roots[i].avail <= now
  BY DEF Labeled, Written, Matured, Kept, TypeOK
<1>2. \A i \in 1..Len(roots) : roots[i].ts \in Nat /\ roots[i].avail \in Nat
  <2> DEFINE R == [ts : 1..now, avail : Nat, fate : Fates]
  <2>1. \A r \in R : r.ts \in Nat /\ r.avail \in Nat
    BY DEF TypeOK
  <2>2. roots \in Seq(R)
    BY DEF TypeOK
  <2> HIDE DEF R
  <2>3. \A i \in 1..Len(roots) : roots[i] \in R
    BY <2>2
  <2> QED BY <2>1, <2>3
<1>3. \A i \in Labeled : Row(i).ts = roots[i].ts /\ Row(i).avail = roots[i].avail
  BY DEF Row
<1>4. \A i \in Labeled : Row(i).ts \in Nat /\ Row(i).avail \in 0..now /\ Row(i).ts < Row(i).avail
  <2>1. \A i \in 1..Len(roots) : roots[i].ts < roots[i].avail
    BY DEF LabelsFollow
  <2>2. now \in Nat
    BY Bounds DEF TypeOK
  <2> QED BY <1>1, <1>2, <1>3, <2>1, <2>2
<1>5. IsFiniteSet({Row(i) : i \in Labeled})
  BY FetchedIsFinite DEF Fetched
<1> QED BY <1>4, <1>5 DEF Ended

LEMMA LabelsComeLater == ASSUME TypeOK, LabelsFollow, Cycle PROVE LabelsFollow'
<1>1. PICK batch \in Batches : roots' = Published(batch)
  BY DEF Cycle
<1> DEFINE new == [n \in DOMAIN batch |->
                    [ts |-> now, avail |-> now + Horizon + batch[n].delay, fate |-> batch[n].fate]]
<1>2. batch \in Seq([fate : Fates, delay : Nat])
  BY CalibrationAssumption
<1>3. \A n \in DOMAIN batch : batch[n].delay \in Nat /\ batch[n].fate \in Fates
  <2> DEFINE K == [fate : Fates, delay : Nat]
  <2>1. \A k \in K : k.delay \in Nat /\ k.fate \in Fates
    OBVIOUS
  <2>2. batch \in Seq(K)
    BY <1>2
  <2> HIDE DEF K
  <2>3. \A n \in DOMAIN batch : batch[n] \in K
    BY <2>2
  <2> QED BY <2>1, <2>3
<1>4. now \in Nat /\ now \in 1..now
  BY Bounds DEF TypeOK
<1>5. \A n \in DOMAIN batch : new[n] \in Roots(now) /\ new[n].ts < new[n].avail
  BY <1>3, <1>4, Bounds DEF Roots
<1>6. roots \in Seq(Roots(now)) /\ Len(roots) \in Nat
  BY DEF TypeOK, Roots
<1>7. new \in Seq(Roots(now)) /\ Len(new) = Len(batch) /\ Len(batch) \in Nat /\ DOMAIN batch = 1..Len(batch)
  BY <1>2, <1>5
<1> HIDE DEF new
<1>8. roots' = roots \o new
  BY <1>1 DEF Published, new
<1>9. \A i \in 1..Len(roots \o new) : (roots \o new)[i] = IF i <= Len(roots) THEN roots[i] ELSE new[i - Len(roots)]
  BY <1>6, <1>7
<1>10. Len(roots \o new) = Len(roots) + Len(new)
  BY <1>6, <1>7
<1> SUFFICES ASSUME NEW i \in 1..Len(roots \o new) PROVE (roots \o new)[i].ts < (roots \o new)[i].avail
  BY <1>8 DEF LabelsFollow
<1>11. CASE i <= Len(roots)
  BY <1>6, <1>9, <1>10, <1>11 DEF LabelsFollow
<1>12. CASE i > Len(roots)
  <2>1. i - Len(roots) \in 1..Len(batch)
    BY <1>6, <1>7, <1>10, <1>12
  <2> QED BY <1>5, <1>7, <1>6, <1>9, <1>12, <2>1
<1> QED BY <1>6, <1>10, <1>11, <1>12

\* What counts as independent evidence are decisions that do not overlap, and no choice of
\* such decisions has more of them (_temporal_cluster_return_diagnostics): the greedy
\* choice is the best for every history.
THEOREM CohortsAreBest == Spec => []CohortsAreMostNumerous
<1>1. Init => LabelsFollow
  BY DEF Init, LabelsFollow
<1>2. ASSUME TypeOK, LabelsFollow, [Next]_vars PROVE LabelsFollow'
  <2>1. CASE Cycle
    BY <1>2, <2>1, LabelsComeLater
  <2>2. CASE Prune \/ Tick \/ UNCHANGED vars
    <3>1. roots' = roots
      BY <2>2 DEF Prune, Tick, vars
    <3> QED BY <1>2, <3>1 DEF LabelsFollow
  <2> QED BY <1>2, <2>1, <2>2 DEF Next
<1>3. ASSUME TypeOK, LabelsFollow PROVE CohortsAreMostNumerous
  <2> DEFINE rows == {Row(i) : i \in Labeled}
  <2>1. Ended(rows, now) /\ now \in Nat
    BY <1>3, LabeledEnd, Bounds DEF TypeOK
  <2> HIDE DEF rows
  <2>2. /\ Disjoint({Cohorts(rows)[i] : i \in DOMAIN Cohorts(rows)})
        /\ \A S \in SUBSET Decisions(rows) : Disjoint(S) => Cardinality(S) <= Len(Cohorts(rows))
    BY <2>1, CohortsAreMost
  <2> QED BY <2>2 DEF CohortsAreMostNumerous, Disjoint, rows
<1> QED BY <1>1, <1>2, <1>3, ModelsAreTyped, PTL DEF Spec
=============================================================================
