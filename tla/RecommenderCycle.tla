-------------------------- MODULE RecommenderCycle --------------------------
(***************************************************************************)
(* The recommender's cycle for one symbol and its two bots: the gate that  *)
(* asks for a second closed candle, the direction it holds, the cooldowns  *)
(* of market shock guard and fast veto, the choice between the bots, and   *)
(* the label roots its rows become.                                        *)
(*                                                                         *)
(* A cycle reads its state from app_config and writes all of it in one     *)
(* commit; a cycle that fails leaves nothing but the fast veto, which      *)
(* lives in the process.  The reviewer is off, as it is by default; what   *)
(* becomes of a published row is RecommendationLifecycle's subject.        *)
(***************************************************************************)
EXTENDS SignalRules

CONSTANTS
  MaxNow,      \* bound of the clock; a tick is the interval of two cycles
  Horizon,     \* POLICY_LABEL_HORIZONS_SEC with its grace
  StaleAfter,  \* stale_data_max_sec: an older candle leaves the symbol out of the cycle
  FreshFor,    \* max_age_sec of the fast veto's own look at the candles
  Samples,     \* the market a cycle may see: view, jump and market, see SignalRules
  Offers       \* what the two bots may make of it, see Assessments

Bots == {"futures_grid", "directional_trend"}

\* block: a feasibility gate fails.  score: at least the minimum.  thesis, evidence:
\* the thesis, the calibrated evidence are sufficient.
Assessments == [block : BOOLEAN, score : BOOLEAN, thesis : BOOLEAN, evidence : BOOLEAN, utility : Nat]

ASSUME CycleAssumption ==
  /\ {MaxNow, Horizon, StaleAfter, FreshFor} \subseteq Nat
  /\ \A sample \in Samples : {sample.view.all, sample.view.coherence} \subseteq Int
  /\ Offers \subseteq [Bots -> Assessments]

VARIABLES
  now,     \* the clock
  candle,  \* the latest closed candle that is stored
  ran,     \* the last cycle
  gate,    \* PERSISTENCE_STATE_APP_KEY
  thesis,  \* DIRECTION_STATE_APP_KEY
  shock,   \* MARKET_SHOCK_APP_KEY
  veto,    \* _FAST_VETO_STATE
  latest,  \* recommendation_latest
  roots,   \* the label roots without a verdict
  seen     \* when the market was last in lockdown, and last moved against a direction

stored == <<gate, thesis, shock, latest, roots>>
vars == <<now, candle, ran, gate, thesis, shock, veto, latest, roots, seen>>

NoHits == [count |-> 0, ts |-> 0, evidence |-> 0]
Statuses == {"none", "recommended", "pending", "blocked", "no_trade", "suppressed"}
Roles == {"actionable_root", "shadow_no_trade", "shadow_competitor", "excluded"}
Rows == [status : Statuses, direction : Directions, role : Roles, policy : BOOLEAN,
         evidence : 0..MaxNow, ts : 0..MaxNow]
NoRow == [status |-> "none", direction |-> "neutral", role |-> "excluded", policy |-> FALSE,
          evidence |-> 0, ts |-> 0]

\* Every variable has its type.
TypeOK ==
  /\ now \in 1..MaxNow /\ candle \in 1..now /\ ran \in 0..now
  /\ gate \in [Bots -> [Directions -> [count : 0..MaxNow, ts : 0..now, evidence : 0..now]]]
  /\ thesis \in [direction : Directions, score : -100..100, coherence : 0..100, ts : 0..now]
  /\ shock \in [state : ShockStates, ts : 0..now, blocksNeutral : BOOLEAN]
  /\ veto \in [Directions -> [on : BOOLEAN, ts : 0..now]]
  /\ latest \in [Bots -> Rows]
  /\ roots \subseteq [bot : Bots, row : Rows]
  /\ seen \in [lockdown : 0..now, jump : [Directions -> 0..now]]

NoVeto == [d \in Directions |-> [on |-> FALSE, ts |-> 0]]

Init ==
  /\ now = 1 /\ candle = 1 /\ ran = 0
  /\ gate = [b \in Bots |-> [d \in Directions |-> NoHits]]
  /\ thesis = [direction |-> "neutral", score |-> 0, coherence |-> 0, ts |-> 0]
  /\ shock = [state |-> "normal", ts |-> 0, blocksNeutral |-> FALSE]
  /\ veto = NoVeto
  /\ latest = [b \in Bots |-> NoRow]
  /\ roots = {}
  /\ seen = [lockdown |-> 0, jump |-> [d \in Directions |-> 0]]

-----------------------------------------------------------------------------
(* The candidates of a cycle, and their statuses before the gate.          *)

\* _direction: the trend bot has no neutral one.
Rejected(bot, direction) == bot = "directional_trend" /\ direction = "neutral"

\* The regime and the strength a trend thesis needs.
TrendConfirmed(view) ==
  /\ Regime(view) = "trend" /\ view.trend >= 48 /\ view.coherence >= 55
  /\ Magnitude(view.all) >= 18 /\ Magnitude(view.struct) >= 12

Matured(root) == root.row.ts + Horizon <= now

\* get_policy_outcome_observability: a matured root of the policy without a verdict
\* withdraws the bot's model (_apply_outcome_observability_gate).
Unresolved(bot) == \E root \in roots : root.bot = bot /\ root.row.policy /\ Matured(root)

\* The calibrated evidence of a bot, unless its model is withdrawn.
EvidenceHolds(bot, offer) == offer.evidence /\ ~Unresolved(bot)

\* The candidate of a bot, given its direction and whether the market forbids it.
Candidate(bot, offer, direction, forbidden, view) ==
  LET thesisOk == offer.thesis /\ (bot = "directional_trend" => TrendConfirmed(view))
      blocked == (offer.block \/ forbidden) /\ ~Rejected(bot, direction)
      shadow == ~blocked /\ ~Rejected(bot, direction) /\ ~(offer.score /\ thesisOk /\ EvidenceHolds(bot, offer))
  IN [status |-> IF Rejected(bot, direction) \/ shadow THEN "no_trade"
                 ELSE IF blocked THEN "blocked" ELSE "recommended",
      direction |-> direction,
      role |-> IF shadow THEN "shadow_no_trade"
               ELSE IF blocked \/ Rejected(bot, direction) THEN "excluded" ELSE "actionable_root",
      policy |-> offer.score /\ thesisOk /\ ~blocked /\ ~Rejected(bot, direction),
      evidence |-> candle, ts |-> now]

Recommended(rows) == {b \in Bots : rows[b].status = "recommended"}

Competitor(row, status) == [row EXCEPT !.status = status, !.role = "shadow_competitor"]

\* _apply_strategy_router: the others make way for the winner, or everybody does.
Routed(rows, utility) ==
  [b \in Bots |-> IF b \notin Recommended(rows) \/ Winner(utility) = b THEN rows[b]
                  ELSE Competitor(rows[b], IF Winner(utility) = NoWinner THEN "no_trade" ELSE "suppressed")]

-----------------------------------------------------------------------------
(* The persistence gate.                                                   *)

RequiredHits == 2

Recent(hits) == hits.ts > 0 /\ now - hits.ts <= Gap

\* Mutant: another look at the same candle counts.
HitsOfLooks(hits) ==
  [count |-> IF Recent(hits) THEN hits.count + 1 ELSE 1, ts |-> now, evidence |-> candle]

\* _advance_persistence_gate: only a later candle is another confirmation.
Hits(hits) ==
  IF Recent(hits) /\ hits.evidence = candle THEN hits
  ELSE [count |-> IF Recent(hits) /\ candle > hits.evidence THEN hits.count + 1 ELSE 1,
        ts |-> now, evidence |-> candle]

\* What a row leaves of the hits of its bot in one direction: the row's own direction
\* advances, and clears the others when it does.
Advanced(direction, row, hits, own) ==
  IF row.status # "recommended" THEN NoHits
  ELSE IF direction = row.direction THEN Hits(hits)
  ELSE IF Hits(own) = own THEN hits ELSE NoHits

\* The gate after the rows of a cycle.
Gated(rows) ==
  [b \in Bots |->
     [d \in Directions |-> Advanced(d, rows[b], gate[b][d], gate[b][rows[b].direction])]]

\* A recommendation that lacks its second candle stays pending.
Confirmed(rows, hits) ==
  [b \in Bots |-> IF b \in Recommended(rows) /\ hits[b][rows[b].direction].count < RequiredHits
                  THEN [rows[b] EXCEPT !.status = "pending"] ELSE rows[b]]

-----------------------------------------------------------------------------
(* Label roots.                                                            *)

\* The pseudo-position of a root is open from the candle after its signal on.
StillOpen(root) == now < root.row.ts + 1 + Horizon

SameIdea(root, b, row) == root.bot = b /\ root.row.direction = row.direction

\* Mutant: an open root is found by its direction only while it was competing.
OpenShadowOfRole(b, row) ==
  \E root \in roots : SameIdea(root, b, row) /\ root.row.status = "no_trade" /\ StillOpen(root)
                      /\ root.row.role = row.role

\* _find_open_shadow_outcome_root
OpenShadow(b, row) ==
  \E root \in roots : SameIdea(root, b, row) /\ root.row.status = "no_trade" /\ StillOpen(root)
                      /\ root.row.role \in {"shadow_no_trade", "shadow_competitor"}

\* _find_open_publication_position
OpenPosition(b, row) ==
  \E root \in roots : SameIdea(root, b, row) /\ root.row.status = "recommended" /\ StillOpen(root)

\* _apply_recent_publication_dedupe: whether the row is a label root of its own.
LabelRoot(b, row) ==
  /\ ~Rejected(b, row.direction)
  /\ row.status = "no_trade" => ~OpenShadow(b, row)
  /\ row.status = "recommended" => ~OpenPosition(b, row)

\* outcome_eligible: a row whose outcome is scheduled.
Scheduled(row) == row.role # "excluded"

NewRoots(rows) ==
  {[bot |-> b, row |-> rows[b]] : b \in {c \in Bots : LabelRoot(c, rows[c]) /\ Scheduled(rows[c])}}

\* The rows compute_outcomes_cycle selects.
Selected(root) ==
  /\ root.row.status \notin {"blocked", "suppressed", "pending"}
  /\ root.row.status = "no_trade" => root.row.role = "shadow_no_trade"

-----------------------------------------------------------------------------
(* Actions.                                                                *)

\* Time passes, and the collector stores the candles that closed, some of them, or none.
Tick(c) ==
  /\ now < MaxNow /\ c \in candle..now + 1
  /\ now' = now + 1
  /\ candle' = c
  /\ UNCHANGED <<ran, stored, veto, seen>>

\* Whether the symbol has data for a cycle (the stale data gate).
DataIsFresh == now - candle <= StaleAfter

\* Whether the fast veto has: it asks for a younger candle than the cycle does.
Readable == now - candle <= FreshFor

\* compute_symbol_fast_veto: without data nothing is forbidden, what is remembered is
\* neither asked nor held.
FastVeto(direction, jump) ==
  IF Readable THEN StabilizedVeto(veto[direction], jump, direction, now)
  ELSE [on |-> FALSE, ts |-> 0]

\* What the cycle makes of the market.
LookOf(sample, direction) ==
  [view |-> sample.view, direction |-> direction,
   shock |-> StabilizedShock(shock, sample.market, now),
   veto |-> FastVeto(direction, sample.jump),
   lockdown |-> RawShock(sample.market) \in Lockdowns,
   jump |-> Readable /\ Triggers(sample.jump, direction)]

Looks == {LookOf(sample, Stabilized(sample.view, thesis, now)) : sample \in Samples}

Forbidden(look) == ShockBlocks(look.shock, look.direction) \/ look.veto.on

\* Mutant: a look without data forgets the veto it could not ask.
SeenWithoutData(look, saved, looked) ==
  /\ veto' = IF looked THEN [veto EXCEPT ![look.direction] = look.veto] ELSE veto
  /\ seen' = [lockdown |-> IF saved /\ look.lockdown THEN now ELSE seen.lockdown,
              jump |-> IF looked /\ look.jump THEN [seen.jump EXCEPT ![look.direction] = now] ELSE seen.jump]

\* The veto is remembered if the symbol was looked at and had data, the lockdown if it
\* was saved.
SeenBy(look, saved, looked) ==
  /\ veto' = IF looked /\ Readable THEN [veto EXCEPT ![look.direction] = look.veto] ELSE veto
  /\ seen' = [lockdown |-> IF saved /\ look.lockdown THEN now ELSE seen.lockdown,
              jump |-> IF looked /\ look.jump THEN [seen.jump EXCEPT ![look.direction] = now] ELSE seen.jump]

\* One run of run_recommender_once that commits.
Cycle(look, offers) ==
  /\ DataIsFresh
  /\ \E rows \in {[b \in Bots |-> Candidate(b, offers[b], look.direction, Forbidden(look), look.view)]} :
     \E routed \in {Routed(rows, [b \in Recommended(rows) |-> offers[b].utility])} :
       /\ ran' = now
       /\ thesis' = [direction |-> look.direction, score |-> look.view.all,
                   coherence |-> look.view.coherence, ts |-> now]
       /\ shock' = look.shock
       /\ gate' = Gated(routed)
       /\ latest' = Confirmed(routed, gate')
       /\ roots' = roots \union NewRoots(latest')
       /\ SeenBy(look, TRUE, TRUE)
       /\ UNCHANGED <<now, candle>>

\* The symbol's candle or its ticker is stale: the cycle publishes the other symbols without it.
SkipSymbol(look) ==
  /\ ran' = now
  /\ shock' = look.shock
  /\ SeenBy(look, TRUE, FALSE)
  /\ UNCHANGED <<now, candle, gate, thesis, latest, roots>>

\* The lease is lost or an exception raised before the commit: the process remembers
\* the veto of the cycle that nobody else will see, if it came to look at the symbol.
CycleFails(look, looked) ==
  /\ looked => DataIsFresh
  /\ ran' = now
  /\ SeenBy(look, FALSE, looked)
  /\ UNCHANGED <<now, candle, stored>>

\* Another process leads, or this one starts again.
Restart ==
  /\ veto # NoVeto
  /\ veto' = NoVeto
  /\ seen' = [seen EXCEPT !.jump = [d \in Directions |-> 0]]
  /\ UNCHANGED <<now, candle, ran, stored>>

\* compute_outcomes_cycle leaves a verdict on a matured row.
Label(root) ==
  /\ root \in roots /\ Matured(root) /\ Selected(root)
  /\ roots' = roots \ {root}
  /\ UNCHANGED <<now, candle, ran, gate, thesis, shock, veto, latest, seen>>

Next ==
  \/ \E c \in 1..MaxNow : Tick(c)
  \/ ran < now /\ \E look \in Looks :
       (\E offers \in Offers : Cycle(look, offers)) \/ SkipSymbol(look)
       \/ \E looked \in BOOLEAN : CycleFails(look, looked)
  \/ Restart
  \/ \E root \in roots : Label(root)

Spec == Init /\ [][Next]_vars

-----------------------------------------------------------------------------
(* Properties.                                                             *)

Published(b) == latest[b].status = "recommended"

\* A row becomes actionable only if the symbol's cycle before it already wanted the
\* same bot and direction, not long ago, and on an earlier candle unless that row was
\* actionable itself: no repeated look, gap, detour or restart counts as confirmation
\* (_advance_persistence_gate, _reset_persistence_gate).
ConfirmedByTheCycleBefore ==
  [][\A b \in Bots : latest'[b] # latest[b] /\ Published(b)' =>
       /\ latest[b].direction = latest'[b].direction
       /\ latest'[b].ts - latest[b].ts <= Gap
       /\ \/ latest[b].status = "recommended"
          \/ latest[b].status = "pending" /\ latest[b].evidence < latest'[b].evidence]_vars

\* The latest row of a bot follows no move against its direction too soon.
AfterTheMove(b) ==
  LET jump == seen.jump[latest[b].direction] IN jump = 0 \/ ran - jump > Release

\* Nothing is published while the market was in lockdown a moment ago, in whichever
\* process, or moved sharply against the direction in this one, if the cycle's candle was
\* young enough for the fast veto to be asked.
CooldownsHold ==
  \A b \in Bots : Published(b) /\ latest[b].ts = ran =>
    /\ seen.lockdown = 0 \/ ran - seen.lockdown > Hold
    /\ latest[b].ts - latest[b].evidence <= FreshFor => AfterTheMove(b)

\* The fast veto is held for its whole cooldown.  The code does not keep this: a candle
\* that is too old for the veto and young enough for the cycle lets an entry go at once.
VetoOutlastsTheCandle ==
  \A b \in Bots : Published(b) /\ latest[b].ts = ran => AfterTheMove(b)

\* A lockdown ends: the state is not held by its own echo, longer than Hold after the
\* market last gave a reason (effective_ts in _stabilize_market_shock).
LockdownsEnd == shock.state \in Lockdowns => seen.lockdown > 0 /\ shock.ts = seen.lockdown

\* The thesis turns from long to short or back within one cycle only on a view that is
\* neither weak nor incoherent, or after it was forgotten.
ReversalsAreProven ==
  [][Opposite(thesis.direction, thesis'.direction) /\ FreshThesis(thesis, thesis'.ts) =>
       Magnitude(thesis'.score) >= 18 /\ thesis'.coherence >= 58]_vars

\* A symbol never has two bots that are actionable or about to be (_apply_strategy_router).
OneStrategyActs ==
  \A b, c \in Bots : latest[b].status \in {"recommended", "pending"}
                     /\ latest[c].status \in {"recommended", "pending"} => b = c

Overlap(root, other) == Magnitude(root.row.ts - other.row.ts) <= Horizon

\* The no-trade roots of one bot and direction do not overlap, whether the thesis or
\* the router left them: a sample's market path is not counted twice.
NoTradeRootsDoNotOverlap ==
  \A root, other \in roots :
    /\ root # other /\ root.bot = other.bot /\ root.row.direction = other.row.direction
    /\ root.row.status = "no_trade" /\ other.row.status = "no_trade"
    => ~Overlap(root, other)

\* Every root that can withdraw its bot's model is one that the labeller selects.  The
\* code does not keep this: a row that waits for its second candle, and a competitor,
\* are roots of the policy that no outcome cycle ever takes.
CountedRootsAreSelected == \A root \in roots : root.row.policy => Selected(root)

\* The losing candidate's outcome matures as well.  The code does not keep this.
CompetitorsAreSelected ==
  \A root \in roots : root.row.role = "shadow_competitor" => Selected(root)

\* Competitors share one root while it is open.  The code does not keep this: only a
\* no_trade row is compared with the open roots, a suppressed one is not.
CompetitorRootsDoNotOverlap ==
  \A root, other \in roots :
    root # other /\ root.bot = other.bot /\ root.row.direction = other.row.direction
    /\ {root.row.role, other.row.role} = {"shadow_competitor"} => ~Overlap(root, other)
=============================================================================
