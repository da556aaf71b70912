----------------------- MODULE RecommenderCycleProofs -----------------------
(***************************************************************************)
(* The recommender's cycle for any markets, any candidates and any         *)
(* cooldowns: what counts as a confirmation, that one bot of a symbol acts *)
(* at a time, how long lockdowns and vetoes last, and that the no-trade    *)
(* samples do not overlap.                                                 *)
(***************************************************************************)
EXTENDS RecommenderCycle, TLAPS

---------------------------------------------------------------------------
(* Directions.                                                             *)

LEMMA Bounds == Gap \in Nat /\ Hold \in Nat /\ Release \in Nat /\ MaxNow \in Nat /\ Horizon \in Nat
BY RulesAssumption, CycleAssumption

LEMMA EnteredIsDirection == ASSUME NEW view PROVE Entered(view) \in Directions
<1>1. \A x, t : Side(x, t) \in Directions
  BY DEF Side, Directions
<1>2. "neutral" \in Directions
  BY DEF Directions
<1>3. RawDirection(view) \in Directions
  BY <1>1, <1>2 DEF RawDirection, BeforeVeto, Bias
<1> QED BY <1>2, <1>3 DEF Entered

LEMMA StabilizedIsDirection ==
  ASSUME NEW view, NEW t, t.direction \in Directions, NEW n
  PROVE  Stabilized(view, t, n) \in Directions
BY EnteredIsDirection DEF Stabilized, FreshThesis, Directions

---------------------------------------------------------------------------
(* The rows of a cycle.                                                    *)

IsRow(row) == row = [f \in {"status", "direction", "role", "policy", "evidence", "ts"} |-> row[f]]

Shadows == {"shadow_no_trade", "shadow_competitor"}
Active(row) == row.status \in {"recommended", "pending"}

\* A row of this cycle in a direction, before the gate.
RowOf(row, direction) ==
  /\ IsRow(row)
  /\ row.direction = direction /\ row.evidence = candle /\ row.ts = now
  /\ row.status \in {"no_trade", "blocked", "suppressed", "recommended"}
  /\ row.status = "no_trade" => row.role \in Shadows \union {"excluded"}

LEMMA CandidateRow ==
  ASSUME NEW b, NEW offer, NEW direction, NEW forbidden, NEW view
  PROVE  RowOf(Candidate(b, offer, direction, forbidden, view), direction)
<1> DEFINE blocked == (offer.block \/ forbidden) /\ ~Rejected(b, direction)
           ok == offer.thesis /\ (b = "directional_trend" => TrendConfirmed(view))
           shadow == ~blocked /\ ~Rejected(b, direction) /\ ~(offer.score /\ ok /\ EvidenceHolds(b, offer))
           status == IF Rejected(b, direction) \/ shadow THEN "no_trade" ELSE IF blocked THEN "blocked" ELSE "recommended"
           role == IF shadow THEN "shadow_no_trade"
                   ELSE IF blocked \/ Rejected(b, direction) THEN "excluded" ELSE "actionable_root"
           policy == offer.score /\ ok /\ ~blocked /\ ~Rejected(b, direction)
<1>1. status \in {"no_trade", "blocked", "recommended"}
      /\ (status = "no_trade" => role \in {"shadow_no_trade", "excluded"})
  OBVIOUS
<1>2. Candidate(b, offer, direction, forbidden, view) =
        [status |-> status, direction |-> direction, role |-> role, policy |-> policy, evidence |-> candle, ts |-> now]
  BY DEF Candidate
<1> HIDE DEF status, role, policy
<1> QED BY <1>1, <1>2 DEF RowOf, IsRow, Shadows

LEMMA CompetitorRow ==
  ASSUME NEW row, NEW direction, RowOf(row, direction), NEW status \in {"no_trade", "suppressed"}
  PROVE  RowOf(Competitor(row, status), direction) /\ Competitor(row, status).status = status
BY DEF RowOf, IsRow, Competitor, Shadows

\* The router leaves the winner its row.
LEMMA RoutedRow ==
  ASSUME NEW cand, NEW direction, \A b \in Bots : RowOf(cand[b], direction), NEW utility, NEW b \in Bots
  PROVE  /\ RowOf(Routed(cand, utility)[b], direction)
         /\ Routed(cand, utility)[b].status = "recommended" => Winner(utility) = b
<1>1. Routed(cand, utility)[b] =
        IF b \notin Recommended(cand) \/ Winner(utility) = b THEN cand[b]
        ELSE Competitor(cand[b], IF Winner(utility) = NoWinner THEN "no_trade" ELSE "suppressed")
  BY DEF Routed
<1>2. CASE b \notin Recommended(cand) \/ Winner(utility) = b
  BY <1>1, <1>2 DEF Recommended
<1>3. CASE ~ (b \notin Recommended(cand) \/ Winner(utility) = b)
  <2> DEFINE status == IF Winner(utility) = NoWinner THEN "no_trade" ELSE "suppressed"
  <2>1. status \in {"no_trade", "suppressed"} /\ Routed(cand, utility)[b] = Competitor(cand[b], status)
    BY <1>1, <1>3
  <2> HIDE DEF status
  <2>2. RowOf(Competitor(cand[b], status), direction) /\ Competitor(cand[b], status).status = status
    BY <2>1, CompetitorRow
  <2> QED BY <2>1, <2>2
<1> QED BY <1>2, <1>3

---------------------------------------------------------------------------
(* What a committed cycle leaves of a bot.                                 *)

Own(b, direction) == gate[b][direction]

\* The latest row, and the hits that go with it.
Made(b, direction) ==
  /\ IsRow(latest'[b])
  /\ latest'[b].direction = direction /\ latest'[b].evidence = candle /\ latest'[b].ts = now
  /\ latest'[b].status = "no_trade" => latest'[b].role \in Shadows \union {"excluded"}
  /\ ~ Active(latest'[b]) => \A d \in Directions : gate'[b][d] = NoHits
  /\ Active(latest'[b]) =>
       /\ gate'[b][direction] = Hits(Own(b, direction))
       /\ \A d \in Directions \ {direction} :
            gate'[b][d] = IF Hits(Own(b, direction)) = Own(b, direction) THEN gate[b][d] ELSE NoHits
       /\ latest'[b].status = "recommended" <=> ~ (gate'[b][direction].count < RequiredHits)

LEMMA CycleMakes ==
  ASSUME NEW look, look.direction \in Directions, NEW offers, Cycle(look, offers)
  PROVE  \E utility : \A b \in Bots : Made(b, look.direction) /\ (Active(latest'[b]) => Winner(utility) = b)
<1> DEFINE dir == look.direction
           cand == [b \in Bots |-> Candidate(b, offers[b], dir, Forbidden(look), look.view)]
           utility == [b \in Recommended(cand) |-> offers[b].utility]
           routed == Routed(cand, utility)
<1>1. gate' = Gated(routed) /\ latest' = Confirmed(routed, gate')
  BY DEF Cycle
<1>2. \A b \in Bots : RowOf(cand[b], dir)
  BY CandidateRow
<1> HIDE DEF cand, utility
<1>3. \A b \in Bots : RowOf(routed[b], dir) /\ (routed[b].status = "recommended" => Winner(utility) = b)
  BY <1>2, RoutedRow
<1> HIDE DEF routed
<1>4. ASSUME NEW b \in Bots PROVE Made(b, dir) /\ (Active(latest'[b]) => Winner(utility) = b)
  <2>1. RowOf(routed[b], dir)
    BY <1>3
  <2>2. \A d \in Directions : gate'[b][d] = Advanced(d, routed[b], gate[b][d], gate[b][dir])
    BY <1>1, <2>1 DEF Gated, RowOf
  <2>3. latest'[b] = IF routed[b].status = "recommended" /\ gate'[b][dir].count < RequiredHits
                     THEN [routed[b] EXCEPT !.status = "pending"] ELSE routed[b]
    BY <1>1, <2>1 DEF Confirmed, Recommended, RowOf
  <2>4. CASE routed[b].status # "recommended"
    <3>1. latest'[b] = routed[b] /\ ~ Active(routed[b])
      BY <2>1, <2>3, <2>4 DEF Active, RowOf
    <3>2. \A d \in Directions : gate'[b][d] = NoHits
      BY <2>2, <2>4 DEF Advanced
    <3> QED BY <2>1, <3>1, <3>2 DEF Made, RowOf
  <2>5. CASE routed[b].status = "recommended"
    <3>1. /\ IsRow(latest'[b]) /\ latest'[b].direction = dir /\ latest'[b].evidence = candle /\ latest'[b].ts = now
          /\ latest'[b].status = IF gate'[b][dir].count < RequiredHits THEN "pending" ELSE "recommended"
      BY <2>1, <2>3, <2>5 DEF RowOf, IsRow
    <3>2. gate'[b][dir] = Hits(Own(b, dir))
      BY <2>1, <2>2, <2>5 DEF Advanced, RowOf, Own
    <3>3. \A d \in Directions \ {dir} : gate'[b][d] = IF Hits(Own(b, dir)) = Own(b, dir) THEN gate[b][d] ELSE NoHits
      BY <2>1, <2>2, <2>5 DEF Advanced, RowOf, Own
    <3> QED BY <1>3, <2>5, <3>1, <3>2, <3>3 DEF Made, Active
  <2> QED BY <2>4, <2>5
<1> QED BY <1>4

---------------------------------------------------------------------------
(* What holds between two cycles.                                          *)

\* The clock, the direction that is held, and the two records that actions update in part.
Clocked ==
  /\ now \in Nat /\ now > 0 /\ candle \in Nat
  /\ thesis.direction \in Directions
  /\ seen = [lockdown |-> seen.lockdown, jump |-> seen.jump]

\* Hits are those of the latest row: its direction, its candle, no later than it.
Backed(b, hits) ==
  /\ Active(latest[b])
  /\ hits.count \in Nat /\ hits.count > 0 /\ hits.ts \in Nat /\ hits.ts > 0
  /\ latest[b].ts \in Nat /\ hits.ts <= latest[b].ts /\ latest[b].ts <= now
  /\ latest[b].evidence \in Nat /\ hits.evidence = latest[b].evidence
  /\ latest[b].status = "recommended" <=> ~ (hits.count < RequiredHits)

GateFollows ==
  \A b \in Bots, d \in Directions :
    gate[b][d] = NoHits \/ (latest[b].direction = d /\ Backed(b, gate[b][d]))

\* A root is no later than the clock, and a no-trade one is a shadow of some kind.
RootsArePast ==
  \A root \in roots :
    /\ root.row.ts \in Nat /\ root.row.ts <= now
    /\ root.row.status = "no_trade" => root.row.role \in Shadows

CycleInvariant ==
  /\ Clocked /\ GateFollows /\ RootsArePast
  /\ OneStrategyActs /\ LockdownsEnd /\ NoTradeRootsDoNotOverlap

LEMMA InitHolds == Init => CycleInvariant
<1> SUFFICES ASSUME Init PROVE CycleInvariant
  OBVIOUS
<1>1. Clocked /\ RootsArePast /\ NoTradeRootsDoNotOverlap
  BY DEF Init, Clocked, RootsArePast, NoTradeRootsDoNotOverlap, Directions
<1>2. GateFollows
  BY DEF Init, GateFollows
<1>3. OneStrategyActs
  BY DEF Init, OneStrategyActs, NoRow
<1>4. LockdownsEnd
  BY DEF Init, LockdownsEnd, Lockdowns
<1> QED BY <1>1, <1>2, <1>3, <1>4 DEF CycleInvariant

\* What a look is made of.
LEMMA LookMade ==
  ASSUME Clocked, NEW look \in Looks
  PROVE  /\ look.direction \in Directions
         /\ \E market : look.shock = StabilizedShock(shock, market, now)
                        /\ look.lockdown = (RawShock(market) \in Lockdowns)
<1>1. PICK sample \in Samples : look = LookOf(sample, Stabilized(sample.view, thesis, now))
  BY DEF Looks
<1>2. look.direction = Stabilized(sample.view, thesis, now)
  BY <1>1 DEF LookOf
<1>3. look.shock = StabilizedShock(shock, sample.market, now)
      /\ look.lockdown = (RawShock(sample.market) \in Lockdowns)
  BY <1>1 DEF LookOf
<1> QED BY <1>2, <1>3, StabilizedIsDirection DEF Clocked

\* A lockdown that is held keeps its time, and one that is seen takes the present.
LEMMA ShockKeepsTime ==
  ASSUME Clocked, LockdownsEnd, NEW market, shock' = StabilizedShock(shock, market, now),
         seen'.lockdown = IF RawShock(market) \in Lockdowns THEN now ELSE seen.lockdown
  PROVE  LockdownsEnd'
<1> DEFINE raw == RawShock(market)
<1> SUFFICES ASSUME shock'.state \in Lockdowns
             PROVE  seen'.lockdown > 0 /\ shock'.ts = seen'.lockdown
  BY DEF LockdownsEnd
<1>1. CASE Holds(shock, raw, now)
  <2>1. shock'.state = shock.state /\ shock'.ts = shock.ts
    BY <1>1 DEF StabilizedShock
  <2>2. Severity(shock.state) > Severity(raw)
    BY <1>1 DEF Holds
  <2>3. Severity(shock.state) = 2
    BY <2>1 DEF Severity
  <2>4. raw \notin Lockdowns
    BY <2>2, <2>3 DEF Severity
  <2> QED BY <2>1, <2>4 DEF LockdownsEnd
<1>2. CASE ~ Holds(shock, raw, now)
  <2>1. shock'.state = raw /\ shock'.ts = now
    BY <1>2 DEF StabilizedShock
  <2> QED BY <2>1 DEF Clocked
<1> QED BY <1>1, <1>2

LEMMA GateAfterCycle ==
  ASSUME Clocked, GateFollows, NEW direction \in Directions, NEW b \in Bots, Made(b, direction),
         now' = now
  PROVE  \A d \in Directions :
           gate'[b][d] = NoHits \/ (latest'[b].direction = d /\ Backed(b, gate[b][d])')
<1> DEFINE own == Own(b, direction)
<1>1. CASE ~ Active(latest'[b])
  BY <1>1 DEF Made
<1>2. CASE Active(latest'[b])
  <2>1. own = NoHits \/ (latest[b].direction = direction /\ Backed(b, own))
    BY DEF GateFollows, Own
  <2>2. gate'[b][direction] = Hits(own)
        /\ (latest'[b].status = "recommended" <=> ~ (gate'[b][direction].count < RequiredHits))
    BY <1>2 DEF Made
  <2>3. latest'[b].direction = direction /\ latest'[b].evidence = candle /\ latest'[b].ts = now
    BY DEF Made
  <2> HIDE DEF own
  <2>4. /\ Hits(own).count \in Nat /\ Hits(own).count > 0 /\ Hits(own).evidence = candle
        /\ Hits(own).ts \in Nat /\ Hits(own).ts > 0 /\ Hits(own).ts <= now
    <3>1. CASE Recent(own) /\ own.evidence = candle
      <4>1. own # NoHits
        BY <3>1 DEF Recent, NoHits
      <4>2. own.count \in Nat /\ own.count > 0 /\ own.ts \in Nat /\ own.ts > 0
        BY <2>1, <4>1 DEF Backed
      <4>3. Hits(own) = own
        BY <3>1 DEF Hits
      <4>4. own.ts <= now
        BY <2>1, <4>1, <4>2 DEF Backed, Clocked
      <4> QED BY <3>1, <4>2, <4>3, <4>4
    <3>2. CASE ~ (Recent(own) /\ own.evidence = candle)
      <4>1. Hits(own) = [count |-> IF Recent(own) /\ candle > own.evidence THEN own.count + 1 ELSE 1,
                         ts |-> now, evidence |-> candle]
        BY <3>2 DEF Hits
      <4>2. own.count \in Nat
        BY <2>1 DEF Backed, NoHits
      <4> QED BY <4>1, <4>2 DEF Clocked
    <3> QED BY <3>1, <3>2
  <2>5. Backed(b, gate[b][direction])'
    BY <1>2, <2>2, <2>3, <2>4 DEF Backed, Clocked
  <2>6. ASSUME NEW d \in Directions \ {direction} PROVE gate'[b][d] = NoHits
    <3>1. CASE Hits(own) = own
      <4>1. own # NoHits
        BY <2>4, <3>1 DEF NoHits
      <4>2. latest[b].direction = direction
        BY <2>1, <4>1
      <4>3. gate'[b][d] = gate[b][d]
        BY <1>2, <3>1 DEF Made, own
      <4> QED BY <4>2, <4>3 DEF GateFollows
    <3>2. CASE Hits(own) # own
      BY <1>2, <3>2 DEF Made, own
    <3> QED BY <3>1, <3>2
  <2> QED BY <2>3, <2>5, <2>6
<1> QED BY <1>1, <1>2

LEMMA CyclePreserves ==
  ASSUME CycleInvariant, NEW look \in Looks, NEW offers, Cycle(look, offers)
  PROVE  CycleInvariant'
<1>1. Clocked /\ GateFollows /\ RootsArePast /\ OneStrategyActs /\ LockdownsEnd /\ NoTradeRootsDoNotOverlap
  BY DEF CycleInvariant
<1>2. look.direction \in Directions
  BY <1>1, LookMade
<1>3. PICK utility : \A b \in Bots : Made(b, look.direction) /\ (Active(latest'[b]) => Winner(utility) = b)
  BY <1>2, CycleMakes
<1>4. /\ now' = now /\ candle' = candle /\ thesis'.direction = look.direction /\ shock' = look.shock
      /\ roots' = roots \union NewRoots(latest')
      /\ SeenBy(look, TRUE, TRUE)
  <2>1. PICK rows, routed :
          /\ thesis' = [direction |-> look.direction, score |-> look.view.all,
                        coherence |-> look.view.coherence, ts |-> now]
          /\ shock' = look.shock /\ roots' = roots \union NewRoots(latest')
          /\ SeenBy(look, TRUE, TRUE) /\ UNCHANGED <<now, candle>>
    BY Zenon DEF Cycle
  <2> QED BY <2>1
<1>5. seen' = [lockdown |-> seen'.lockdown, jump |-> seen'.jump]
      /\ seen'.lockdown = IF look.lockdown THEN now ELSE seen.lockdown
  BY <1>4 DEF SeenBy
<1>6. Clocked'
  BY <1>1, <1>2, <1>4, <1>5 DEF Clocked
<1>7. GateFollows'
  BY <1>1, <1>2, <1>3, <1>4, GateAfterCycle DEF GateFollows
<1>8. OneStrategyActs'
  <2>1. \A b, c \in Bots : Active(latest'[b]) /\ Active(latest'[c]) => b = c
    BY <1>3
  <2> QED BY <2>1 DEF OneStrategyActs, Active
<1>9. LockdownsEnd'
  <2>1. PICK market : look.shock = StabilizedShock(shock, market, now)
                      /\ look.lockdown = (RawShock(market) \in Lockdowns)
    BY <1>1, LookMade
  <2> QED BY <1>1, <1>4, <1>5, <2>1, ShockKeepsTime
<1>10. ASSUME NEW root \in NewRoots(latest')
       PROVE  \E b \in Bots :
                /\ root = [bot |-> b, row |-> latest'[b]]
                /\ LabelRoot(b, latest'[b]) /\ Scheduled(latest'[b])
  BY DEF NewRoots
<1>11. ASSUME NEW root \in NewRoots(latest')
       PROVE  /\ root.row.ts = now
              /\ root.row.status = "no_trade" => root.row.role \in Shadows /\ ~ OpenShadow(root.bot, root.row)
  <2>1. PICK b \in Bots :
             /\ root = [bot |-> b, row |-> latest'[b]]
             /\ LabelRoot(b, latest'[b]) /\ Scheduled(latest'[b])
    BY <1>10
  <2>2. Made(b, look.direction)
    BY <1>3
  <2>3. latest'[b].ts = now
        /\ (latest'[b].status = "no_trade" => latest'[b].role \in Shadows \union {"excluded"})
    BY <2>2 DEF Made
  <2>4. latest'[b].role # "excluded"
    BY <2>1 DEF Scheduled
  <2>5. latest'[b].status = "no_trade" => ~ OpenShadow(b, latest'[b])
    BY <2>1 DEF LabelRoot
  <2> QED BY <2>1, <2>3, <2>4, <2>5
<1>12. RootsArePast'
  BY <1>1, <1>4, <1>11 DEF RootsArePast, Clocked
<1>13. NoTradeRootsDoNotOverlap'
  <2> SUFFICES ASSUME NEW root \in roots', NEW other \in roots',
                      root # other, root.bot = other.bot, root.row.direction = other.row.direction,
                      root.row.status = "no_trade", other.row.status = "no_trade"
               PROVE  ~ Overlap(root, other)
    BY DEF NoTradeRootsDoNotOverlap
  <2>1. ASSUME NEW old \in roots, NEW new \in NewRoots(latest'),
               new.bot = old.bot, new.row.direction = old.row.direction,
               old.row.status = "no_trade", new.row.status = "no_trade"
        PROVE  new.row.ts - old.row.ts > Horizon /\ new.row.ts \in Nat /\ old.row.ts \in Nat
    <3>1. new.row.ts = now /\ ~ OpenShadow(new.bot, new.row)
      BY <1>11, <2>1
    <3>2. old.row.role \in {"shadow_no_trade", "shadow_competitor"} /\ old.row.ts \in Nat
      BY <1>1, <2>1 DEF RootsArePast, Shadows
    <3>3. ~ StillOpen(old)
      BY <2>1, <3>1, <3>2 DEF OpenShadow, SameIdea
    <3> QED BY <1>1, <3>1, <3>2, <3>3, Bounds DEF StillOpen, Clocked
  <2>2. CASE root \in roots /\ other \in roots
    BY <1>1, <2>2 DEF NoTradeRootsDoNotOverlap
  <2>3. CASE root \in roots /\ other \in NewRoots(latest')
    BY <2>1, <2>3, Bounds DEF Overlap, Magnitude
  <2>4. CASE root \in NewRoots(latest') /\ other \in roots
    BY <2>1, <2>4, Bounds DEF Overlap, Magnitude
  <2>5. CASE root \in NewRoots(latest') /\ other \in NewRoots(latest')
    BY <1>10, <2>5
  <2> QED BY <1>4, <2>2, <2>3, <2>4, <2>5
<1> QED BY <1>6, <1>7, <1>8, <1>9, <1>12, <1>13 DEF CycleInvariant

\* What the other steps leave alone.
LEMMA OthersPreserve ==
  ASSUME CycleInvariant, [Next]_vars,
         ~ \E look \in Looks, offers \in Offers : Cycle(look, offers)
  PROVE  CycleInvariant' /\ latest' = latest
<1>1. Clocked /\ GateFollows /\ RootsArePast /\ OneStrategyActs /\ LockdownsEnd /\ NoTradeRootsDoNotOverlap
  BY DEF CycleInvariant
<1>2. ASSUME now' \in Nat, now' >= now, candle' \in Nat, thesis' = thesis, gate' = gate, latest' = latest,
             roots' \subseteq roots, seen' = [lockdown |-> seen'.lockdown, jump |-> seen'.jump], LockdownsEnd'
      PROVE  CycleInvariant'
  <2>1. Clocked'
    BY <1>1, <1>2 DEF Clocked
  <2>2. GateFollows'
    <3> SUFFICES ASSUME NEW b \in Bots, NEW d \in Directions, gate[b][d] # NoHits
                 PROVE  latest[b].direction = d /\ Backed(b, gate[b][d])'
      BY <1>2 DEF GateFollows
    <3>1. latest[b].direction = d /\ Backed(b, gate[b][d])
      BY <1>1 DEF GateFollows
    <3>2. latest[b].ts <= now'
      BY <1>1, <1>2, <3>1 DEF Backed, Clocked
    <3> QED BY <1>2, <3>1, <3>2 DEF Backed, Active
  <2>3. RootsArePast'
    BY <1>1, <1>2 DEF RootsArePast, Clocked
  <2>4. OneStrategyActs' /\ NoTradeRootsDoNotOverlap'
    BY <1>1, <1>2 DEF OneStrategyActs, NoTradeRootsDoNotOverlap, Overlap
  <2> QED BY <1>2, <2>1, <2>2, <2>3, <2>4 DEF CycleInvariant
<1>3. CASE UNCHANGED vars
  BY <1>1, <1>2, <1>3 DEF vars, Clocked, LockdownsEnd
<1>4. ASSUME NEW c \in 1..MaxNow, Tick(c) PROVE CycleInvariant' /\ latest' = latest
  BY <1>1, <1>2, <1>4, Bounds DEF Tick, stored, Clocked, LockdownsEnd
<1>5. ASSUME NEW look \in Looks, SkipSymbol(look) PROVE CycleInvariant' /\ latest' = latest
  <2>1. /\ shock' = look.shock /\ seen' = [lockdown |-> seen'.lockdown, jump |-> seen'.jump]
        /\ seen'.lockdown = IF look.lockdown THEN now ELSE seen.lockdown
    BY <1>5 DEF SkipSymbol, SeenBy
  <2>2. PICK market : look.shock = StabilizedShock(shock, market, now)
                      /\ look.lockdown = (RawShock(market) \in Lockdowns)
    BY <1>1, LookMade
  <2>3. LockdownsEnd'
    BY <1>1, <2>1, <2>2, ShockKeepsTime
  <2> QED BY <1>1, <1>2, <1>5, <2>1, <2>3 DEF SkipSymbol, Clocked
<1>6. ASSUME NEW look \in Looks, NEW looked \in BOOLEAN, CycleFails(look, looked)
      PROVE  CycleInvariant' /\ latest' = latest
  BY <1>1, <1>2, <1>6 DEF CycleFails, SeenBy, stored, Clocked, LockdownsEnd
<1>7. CASE Restart
  <2>1. seen' = [lockdown |-> seen.lockdown, jump |-> seen'.jump]
    BY <1>1, <1>7 DEF Restart, Clocked
  <2> QED BY <1>1, <1>2, <1>7, <2>1 DEF Restart, stored, Clocked, LockdownsEnd
<1>8. ASSUME NEW root \in roots, Label(root) PROVE CycleInvariant' /\ latest' = latest
  BY <1>1, <1>2, <1>8 DEF Label, Clocked, LockdownsEnd
<1> QED BY <1>3, <1>4, <1>5, <1>6, <1>7, <1>8 DEF Next

LEMMA StepPreserves == CycleInvariant /\ [Next]_vars => CycleInvariant'
BY CyclePreserves, OthersPreserve

LEMMA CycleInvariantHolds == Spec => []CycleInvariant
BY InitHolds, StepPreserves, PTL DEF Spec

---------------------------------------------------------------------------

\* At most one bot of the symbol is actionable or about to be, whatever the candidates,
\* their utilities and the market of every cycle.
THEOREM OneBotActs == Spec => []OneStrategyActs
<1>1. CycleInvariant => OneStrategyActs
  BY DEF CycleInvariant
<1> QED BY <1>1, CycleInvariantHolds, PTL

\* A lockdown that is stored bears the time at which the market last gave a reason for
\* it, however long Hold is: it is not renewed by its own echo.
THEOREM LockdownsAreOver == Spec => []LockdownsEnd
<1>1. CycleInvariant => LockdownsEnd
  BY DEF CycleInvariant
<1> QED BY <1>1, CycleInvariantHolds, PTL

\* The no-trade roots of one bot and direction are further apart than the horizon of a
\* label, for any horizon.
THEOREM SamplesAreApart == Spec => []NoTradeRootsDoNotOverlap
<1>1. CycleInvariant => NoTradeRootsDoNotOverlap
  BY DEF CycleInvariant
<1> QED BY <1>1, CycleInvariantHolds, PTL

LEMMA PublicationIsConfirmed ==
  ASSUME CycleInvariant, [Next]_vars, NEW b \in Bots, latest'[b] # latest[b], Published(b)'
  PROVE  /\ latest[b].direction = latest'[b].direction
         /\ latest'[b].ts - latest[b].ts <= Gap
         /\ \/ latest[b].status = "recommended"
            \/ latest[b].status = "pending" /\ latest[b].evidence < latest'[b].evidence
<1>1. PICK look \in Looks, offers \in Offers : Cycle(look, offers)
  BY OthersPreserve
<1>2. Clocked /\ GateFollows
  BY DEF CycleInvariant
<1>3. look.direction \in Directions
  BY <1>2, LookMade
<1>4. Made(b, look.direction)
  BY <1>1, <1>3, CycleMakes
<1> DEFINE own == Own(b, look.direction)
<1>5. own = NoHits \/ (latest[b].direction = look.direction /\ Backed(b, own))
  BY <1>2, <1>3 DEF GateFollows, Own
<1>6. /\ latest'[b].direction = look.direction /\ latest'[b].evidence = candle /\ latest'[b].ts = now
      /\ ~ (Hits(own).count < RequiredHits)
  BY <1>4 DEF Made, Published, Active
<1> HIDE DEF own
<1>7. CASE Recent(own) /\ own.evidence = candle
  <2>1. own # NoHits /\ now - own.ts <= Gap
    BY <1>7 DEF Recent, NoHits
  <2>2. Hits(own) = own
    BY <1>7 DEF Hits
  <2> QED BY <1>2, <1>5, <1>6, <2>1, <2>2, Bounds DEF Backed, Clocked
<1>8. CASE ~ (Recent(own) /\ own.evidence = candle)
  <2>1. Hits(own).count = IF Recent(own) /\ candle > own.evidence THEN own.count + 1 ELSE 1
    BY <1>8 DEF Hits
  <2>2. Recent(own) /\ candle > own.evidence
    BY <1>6, <2>1 DEF RequiredHits
  <2>3. own # NoHits /\ now - own.ts <= Gap
    BY <2>2 DEF Recent, NoHits
  <2> QED BY <1>2, <1>5, <1>6, <2>2, <2>3, Bounds DEF Backed, Clocked, Active
<1> QED BY <1>7, <1>8

\* A publication was wanted by the cycle before it, in the same direction, no longer ago
\* than the gap allows and on an earlier candle, for any gap and any sequence of
\* failures, skipped cycles and restarts.
THEOREM ConfirmationHolds == Spec => ConfirmedByTheCycleBefore
<1>1. CycleInvariant /\ [Next]_vars =>
        [\A b \in Bots : latest'[b] # latest[b] /\ Published(b)' =>
           /\ latest[b].direction = latest'[b].direction
           /\ latest'[b].ts - latest[b].ts <= Gap
           /\ \/ latest[b].status = "recommended"
              \/ latest[b].status = "pending" /\ latest[b].evidence < latest'[b].evidence]_vars
  BY PublicationIsConfirmed
<1> QED BY <1>1, CycleInvariantHolds, PTL DEF Spec, ConfirmedByTheCycleBefore

---------------------------------------------------------------------------
(* Cooldowns.                                                              *)

\* The times of the last cycle and of what the market did are no later than it.
PastCycle ==
  /\ ran \in Nat /\ ran <= now
  /\ seen.lockdown \in Nat /\ seen.lockdown <= ran
  /\ \A b \in Bots : latest[b].ts \in Nat /\ latest[b].ts <= ran /\ latest[b].direction \in Directions

\* A lockdown within Hold of the last cycle is what is stored.
LockdownIsStored ==
  seen.lockdown > 0 /\ ran - seen.lockdown <= Hold =>
    shock.state \in Lockdowns /\ shock.ts = seen.lockdown

\* A move against a direction within Release of the last cycle is what the process
\* remembers of that direction.
JumpIsRemembered(d) ==
  LET jump == seen.jump[d]
  IN jump > 0 /\ ran - jump <= Release => veto[d].on /\ veto[d].ts = jump

VetoesFollow ==
  /\ veto = [d \in Directions |-> veto[d]] /\ seen.jump = [d \in Directions |-> seen.jump[d]]
  /\ \A d \in Directions : seen.jump[d] \in Nat /\ seen.jump[d] <= ran /\ JumpIsRemembered(d)

CooldownInvariant == PastCycle /\ LockdownIsStored /\ VetoesFollow /\ CooldownsHold

\* What a look says of the view, the shock and the veto.
Told(look, sample) ==
  /\ look.view = sample.view
  /\ look.direction = Stabilized(sample.view, thesis, now)
  /\ look.shock = StabilizedShock(shock, sample.market, now)
  /\ look.lockdown = (RawShock(sample.market) \in Lockdowns)
  /\ look.veto = FastVeto(look.direction, sample.jump)
  /\ look.jump = (Readable /\ Triggers(sample.jump, look.direction))

LEMMA LookTells ==
  ASSUME Clocked, NEW look \in Looks
  PROVE  look.direction \in Directions /\ \E sample \in Samples : Told(look, sample)
<1>1. PICK sample \in Samples : look = LookOf(sample, Stabilized(sample.view, thesis, now))
  BY DEF Looks
<1>2. Told(look, sample)
  BY <1>1 DEF LookOf, Told
<1> QED BY <1>2, StabilizedIsDirection DEF Told, Clocked

\* A candidate that the market forbids is not recommended, and the router recommends none.
LEMMA CycleHeeds ==
  ASSUME NEW look, look.direction \in Directions, NEW offers, Cycle(look, offers), NEW b \in Bots, Published(b)'
  PROVE  ~ Forbidden(look)
<1> DEFINE dir == look.direction
           cand == [c \in Bots |-> Candidate(c, offers[c], dir, Forbidden(look), look.view)]
           utility == [c \in Recommended(cand) |-> offers[c].utility]
           routed == Routed(cand, utility)
<1>1. latest' = Confirmed(routed, gate')
  BY DEF Cycle
<1>2. RowOf(cand[b], dir)
  BY CandidateRow
<1>3. cand[b].status = "recommended" => ~ Forbidden(look)
  BY DEF Candidate
<1> HIDE DEF cand, utility
<1>4. routed[b].status = "recommended" => cand[b].status = "recommended"
  <2> SUFFICES ASSUME routed[b].status = "recommended", cand[b].status # "recommended" PROVE FALSE
    OBVIOUS
  <2>1. b \notin Recommended(cand)
    BY DEF Recommended
  <2> QED BY <2>1 DEF Routed
<1> HIDE DEF routed
<1>5. latest'[b] = IF b \in Recommended(routed) /\ gate'[b][routed[b].direction].count < RequiredHits
                   THEN [routed[b] EXCEPT !.status = "pending"] ELSE routed[b]
  BY <1>1 DEF Confirmed
<1>6. b \in Recommended(routed) <=> routed[b].status = "recommended"
  BY DEF Recommended
<1>7. latest'[b].status = "recommended"
  BY DEF Published
<1> QED BY <1>3, <1>4, <1>5, <1>6, <1>7

\* The lockdown of the last Hold stays stored through any cycle.
LEMMA LockdownStays ==
  ASSUME Clocked, ran \in Nat, seen.lockdown \in Nat, LockdownIsStored, ran < now,
         NEW market, shock' = StabilizedShock(shock, market, now), ran' = now,
         seen'.lockdown = IF RawShock(market) \in Lockdowns THEN now ELSE seen.lockdown
  PROVE  LockdownIsStored'
<1> DEFINE raw == RawShock(market)
<1> SUFFICES ASSUME seen'.lockdown > 0, ran' - seen'.lockdown <= Hold
             PROVE  shock'.state \in Lockdowns /\ shock'.ts = seen'.lockdown
  BY DEF LockdownIsStored
<1>1. CASE raw \in Lockdowns
  <2>1. Severity(raw) = 2
    BY <1>1 DEF Severity
  <2>2. Severity(shock.state) <= 2
    BY DEF Severity
  <2>3. ~ Holds(shock, raw, now)
    BY <2>1, <2>2 DEF Holds, Severity
  <2> QED BY <1>1, <2>3 DEF StabilizedShock
<1>2. CASE raw \notin Lockdowns
  <2>1. seen'.lockdown = seen.lockdown /\ ran - seen.lockdown <= Hold
    BY <1>2, Bounds DEF Clocked
  <2>2. shock.state \in Lockdowns /\ shock.ts = seen.lockdown
    BY <2>1 DEF LockdownIsStored
  <2>3. Severity(shock.state) = 2 /\ Severity(raw) < 2
    BY <1>2, <2>2 DEF Severity
  <2>4. Holds(shock, raw, now)
    BY <2>1, <2>2, <2>3 DEF Holds
  <2> QED BY <2>1, <2>2, <2>4 DEF StabilizedShock
<1> QED BY <1>1, <1>2

\* A veto is on while the market moves against the direction, and for Release after.
LEMMA VetoTells ==
  ASSUME NEW old, NEW jump, NEW direction, NEW n
  PROVE  /\ Triggers(jump, direction) => StabilizedVeto(old, jump, direction, n) = [on |-> TRUE, ts |-> n]
         /\ ~ Triggers(jump, direction) /\ old.on /\ n - old.ts <= Release =>
              StabilizedVeto(old, jump, direction, n) = [on |-> TRUE, ts |-> old.ts]
BY DEF StabilizedVeto

\* What a cycle that looked remembers of the direction it looked at: nothing new without
\* data of the symbol.
LEMMA VetoesStay ==
  ASSUME Clocked, ran \in Nat, VetoesFollow, ran < now, ran' = now,
         NEW look, NEW sample, Told(look, sample), look.direction \in Directions, NEW saved, SeenBy(look, saved, TRUE)
  PROVE  VetoesFollow' /\ (Readable => veto'[look.direction] = look.veto)
<1> DEFINE dir == look.direction
<1>1. veto' = (IF Readable THEN [veto EXCEPT ![dir] = look.veto] ELSE veto)
      /\ seen'.jump = IF look.jump THEN [seen.jump EXCEPT ![dir] = now] ELSE seen.jump
  BY DEF SeenBy
<1>2. veto = [d \in Directions |-> veto[d]] /\ seen.jump = [d \in Directions |-> seen.jump[d]]
      /\ \A d \in Directions : seen.jump[d] \in Nat /\ seen.jump[d] <= ran /\ JumpIsRemembered(d)
  BY DEF VetoesFollow
<1>3. veto' = [d \in Directions |-> veto'[d]] /\ seen'.jump = [d \in Directions |-> seen'.jump[d]]
      /\ veto'[dir] = (IF Readable THEN look.veto ELSE veto[dir])
      /\ seen'.jump[dir] = IF look.jump THEN now ELSE seen.jump[dir]
  BY <1>1, <1>2
<1>4. ASSUME NEW d \in Directions PROVE seen'.jump[d] \in Nat /\ seen'.jump[d] <= ran' /\ JumpIsRemembered(d)'
  <2>1. CASE d # dir
    <3>1. veto'[d] = veto[d] /\ seen'.jump[d] = seen.jump[d]
      BY <1>1, <1>2, <2>1
    <3> QED BY <1>2, <3>1, Bounds DEF JumpIsRemembered, Clocked
  <2>2. CASE d = dir
    <3>1. /\ Readable => look.veto = StabilizedVeto(veto[dir], sample.jump, dir, now)
          /\ look.jump = (Readable /\ Triggers(sample.jump, dir))
      BY DEF Told, FastVeto
    <3>4. CASE ~ Readable
      <4>1. veto'[d] = veto[d] /\ seen'.jump[d] = seen.jump[d]
        BY <1>3, <2>2, <3>1, <3>4
      <4> QED BY <1>2, <4>1, Bounds DEF JumpIsRemembered, Clocked
    <3>2. CASE Readable /\ look.jump
      <4>1. Triggers(sample.jump, dir)
        BY <3>1, <3>2
      <4>2. look.veto.on /\ look.veto.ts = now
        BY <3>1, <3>2, <4>1, VetoTells
      <4>3. seen'.jump[d] = now
        BY <1>3, <2>2, <3>2
      <4> QED BY <1>3, <2>2, <3>2, <4>2, <4>3 DEF JumpIsRemembered, Clocked
    <3>3. CASE Readable /\ ~ look.jump
      <4>1. seen'.jump[d] = seen.jump[d]
        BY <1>3, <2>2, <3>3
      <4>2. ASSUME seen.jump[d] > 0, now - seen.jump[d] <= Release
            PROVE  look.veto.on /\ look.veto.ts = seen.jump[d]
        <5>1. veto[d].on /\ veto[d].ts = seen.jump[d]
          BY <1>2, <4>2, Bounds DEF JumpIsRemembered, Clocked
        <5>2. ~ Triggers(sample.jump, dir)
          BY <3>1, <3>3
        <5>3. look.veto = StabilizedVeto(veto[dir], sample.jump, dir, now)
          BY <3>1, <3>3
        <5> QED BY <2>2, <4>2, <5>1, <5>2, <5>3, VetoTells
      <4> QED BY <1>2, <1>3, <2>2, <3>3, <4>1, <4>2 DEF JumpIsRemembered, Clocked
    <3> QED BY <3>2, <3>3, <3>4
  <2> QED BY <2>1, <2>2
<1> QED BY <1>3, <1>4 DEF VetoesFollow

LEMMA CooldownsBegin == Init => CooldownInvariant
<1> SUFFICES ASSUME Init PROVE CooldownInvariant
  OBVIOUS
<1>1. PastCycle /\ LockdownIsStored
  BY DEF Init, PastCycle, LockdownIsStored, NoRow, Directions
<1>2. VetoesFollow
  BY DEF Init, VetoesFollow, JumpIsRemembered, NoVeto
<1>3. CooldownsHold
  BY DEF Init, CooldownsHold, Published, NoRow
<1> QED BY <1>1, <1>2, <1>3 DEF CooldownInvariant

LEMMA CooldownsAfterCycle ==
  ASSUME Clocked, CooldownInvariant, ran < now, NEW look \in Looks, NEW offers, Cycle(look, offers)
  PROVE  CooldownInvariant'
<1>1. PastCycle /\ LockdownIsStored /\ VetoesFollow
  BY DEF CooldownInvariant
<1>2. look.direction \in Directions
  BY LookTells
<1>3. PICK sample \in Samples : Told(look, sample)
  BY LookTells
<1>4. ran' = now /\ now' = now /\ shock' = look.shock /\ SeenBy(look, TRUE, TRUE)
  BY Zenon DEF Cycle
<1>5. seen'.lockdown = IF look.lockdown THEN now ELSE seen.lockdown
  BY <1>4 DEF SeenBy
<1>6. \A b \in Bots : latest'[b].direction = look.direction /\ latest'[b].ts = now /\ latest'[b].evidence = candle
  BY <1>2, CycleMakes DEF Made
<1>7. PastCycle'
  BY <1>1, <1>2, <1>4, <1>5, <1>6 DEF PastCycle, Clocked
<1>8. LockdownIsStored'
  BY <1>1, <1>3, <1>4, <1>5, LockdownStays DEF PastCycle, Told
<1>9. VetoesFollow' /\ (Readable => veto'[look.direction] = look.veto)
  BY <1>1, <1>2, <1>3, <1>4, VetoesStay DEF PastCycle
<1>10. CooldownsHold'
  <2> SUFFICES ASSUME NEW b \in Bots, Published(b)'
               PROVE  /\ seen'.lockdown = 0 \/ ran' - seen'.lockdown > Hold
                      /\ latest'[b].ts - latest'[b].evidence <= FreshFor =>
                           seen'.jump[latest'[b].direction] = 0 \/ ran' - seen'.jump[latest'[b].direction] > Release
    BY DEF CooldownsHold, AfterTheMove
  <2>1. ~ Forbidden(look)
    BY <1>2, CycleHeeds
  <2>2. look.shock.state \notin Lockdowns /\ ~ look.veto.on
    BY <2>1 DEF Forbidden, ShockBlocks
  <2>3. seen'.lockdown \in Nat /\ ran' \in Nat
    BY <1>7 DEF PastCycle
  <2>4. seen'.lockdown = 0 \/ ran' - seen'.lockdown > Hold
    BY <1>4, <1>8, <2>2, <2>3, Bounds DEF LockdownIsStored
  <2> DEFINE jump == seen'.jump[look.direction]
  <2>5. jump \in Nat /\ (jump > 0 /\ ran' - jump <= Release => veto'[look.direction].on)
    BY <1>2, <1>9 DEF VetoesFollow, JumpIsRemembered
  <2> HIDE DEF jump
  <2>6. ASSUME Readable PROVE jump = 0 \/ ran' - jump > Release
    <3>1. ~ (jump > 0 /\ ran' - jump <= Release)
      BY <1>9, <2>2, <2>5, <2>6
    <3>2. \A j, r \in Nat : ~ (j > 0 /\ r - j <= Release) => j = 0 \/ r - j > Release
      BY Bounds
    <3> QED BY <2>3, <2>5, <3>1, <3>2
  <2>7. latest'[b].ts - latest'[b].evidence <= FreshFor => Readable
    BY <1>6 DEF Readable
  <2> QED BY <1>6, <2>4, <2>6, <2>7 DEF jump
<1> QED BY <1>7, <1>8, <1>9, <1>10 DEF CooldownInvariant

\* A step that is no committed cycle publishes nothing: what was published is older than
\* the last cycle, or neither has changed.
LEMMA CooldownsOtherwise ==
  ASSUME Clocked, CooldownInvariant, [Next]_vars,
         ~ (ran < now /\ \E look \in Looks, offers \in Offers : Cycle(look, offers))
  PROVE  CooldownInvariant'
<1>1. PastCycle /\ LockdownIsStored /\ VetoesFollow /\ CooldownsHold
  BY DEF CooldownInvariant
<1>2. ASSUME ran' = ran, now' \in Nat, now' >= now, latest' = latest, seen' = seen, shock' = shock, veto' = veto
      PROVE  CooldownInvariant'
  <2>1. PastCycle' /\ LockdownIsStored' /\ VetoesFollow'
    BY <1>1, <1>2 DEF PastCycle, LockdownIsStored, VetoesFollow, JumpIsRemembered, Clocked
  <2>2. CooldownsHold'
    BY <1>1, <1>2 DEF CooldownsHold, AfterTheMove, Published
  <2> QED BY <2>1, <2>2 DEF CooldownInvariant
<1>3. CASE UNCHANGED vars
  BY <1>2, <1>3 DEF vars, Clocked
<1>4. ASSUME NEW c \in 1..MaxNow, Tick(c) PROVE CooldownInvariant'
  BY <1>2, <1>4, Bounds DEF Tick, stored, Clocked
<1>5. ASSUME ran < now, ran' = now, latest' = latest PROVE CooldownsHold'
  BY <1>1, <1>5 DEF PastCycle, CooldownsHold, Clocked
<1>6. ASSUME ran < now, NEW look \in Looks, SkipSymbol(look) PROVE CooldownInvariant'
  <2>1. PICK sample \in Samples : Told(look, sample)
    BY LookTells
  <2>2. /\ ran' = now /\ now' = now /\ latest' = latest /\ shock' = look.shock /\ veto' = veto
        /\ seen'.lockdown = IF look.lockdown THEN now ELSE seen.lockdown
        /\ seen'.jump = seen.jump
    BY <1>6 DEF SkipSymbol, SeenBy
  <2>3. PastCycle'
    BY <1>1, <1>6, <2>2 DEF PastCycle, Clocked
  <2>4. LockdownIsStored'
    BY <1>1, <1>6, <2>1, <2>2, LockdownStays DEF PastCycle, Told
  <2>5. VetoesFollow'
    BY <1>1, <1>6, <2>2, Bounds DEF PastCycle, VetoesFollow, JumpIsRemembered, Clocked
  <2> QED BY <1>5, <1>6, <2>2, <2>3, <2>4, <2>5 DEF CooldownInvariant
<1>7. ASSUME ran < now, NEW look \in Looks, NEW looked \in BOOLEAN, CycleFails(look, looked)
      PROVE  CooldownInvariant'
  <2>1. PICK sample \in Samples : look.direction \in Directions /\ Told(look, sample)
    BY LookTells
  <2>2. /\ ran' = now /\ now' = now /\ latest' = latest /\ shock' = shock
        /\ SeenBy(look, FALSE, looked) /\ seen'.lockdown = seen.lockdown
    BY <1>7 DEF CycleFails, stored, SeenBy
  <2>3. PastCycle'
    BY <1>1, <1>7, <2>2 DEF PastCycle, Clocked
  <2>4. LockdownIsStored'
    BY <1>1, <1>7, <2>2, Bounds DEF PastCycle, LockdownIsStored, Clocked
  <2>5. VetoesFollow'
    <3>1. CASE looked
      BY <1>1, <1>7, <2>1, <2>2, <3>1, VetoesStay DEF PastCycle
    <3>2. CASE ~ looked
      <4>1. veto' = veto /\ seen'.jump = seen.jump
        BY <2>2, <3>2 DEF SeenBy
      <4> QED BY <1>1, <1>7, <2>2, <4>1, Bounds DEF PastCycle, VetoesFollow, JumpIsRemembered, Clocked
    <3> QED BY <3>1, <3>2
  <2> QED BY <1>5, <1>7, <2>2, <2>3, <2>4, <2>5 DEF CooldownInvariant
<1>8. CASE Restart
  <2>1. /\ ran' = ran /\ now' = now /\ latest' = latest /\ shock' = shock /\ veto' = NoVeto
        /\ seen'.lockdown = seen.lockdown /\ seen'.jump = [d \in Directions |-> 0]
    BY <1>8 DEF Restart, stored, Clocked
  <2>2. PastCycle' /\ LockdownIsStored'
    BY <1>1, <2>1 DEF PastCycle, LockdownIsStored
  <2>3. VetoesFollow'
    BY <1>1, <2>1 DEF VetoesFollow, JumpIsRemembered, NoVeto, PastCycle
  <2>4. CooldownsHold'
    <3> SUFFICES ASSUME NEW b \in Bots, Published(b), latest[b].ts = ran
                 PROVE  /\ seen.lockdown = 0 \/ ran - seen.lockdown > Hold
                        /\ seen'.jump[latest[b].direction] = 0
      BY <2>1 DEF CooldownsHold, AfterTheMove, Published
    <3>1. latest[b].direction \in Directions
      BY <1>1 DEF PastCycle
    <3> QED BY <1>1, <2>1, <3>1 DEF CooldownsHold
  <2> QED BY <2>2, <2>3, <2>4 DEF CooldownInvariant
<1>9. ASSUME NEW root \in roots, Label(root) PROVE CooldownInvariant'
  BY <1>2, <1>9 DEF Label, Clocked
<1> QED BY <1>3, <1>4, <1>6, <1>7, <1>8, <1>9 DEF Next

LEMMA CooldownStep == CycleInvariant /\ CooldownInvariant /\ [Next]_vars => CooldownInvariant'
<1> SUFFICES ASSUME CycleInvariant, CooldownInvariant, [Next]_vars PROVE CooldownInvariant'
  OBVIOUS
<1>1. Clocked
  BY DEF CycleInvariant
<1>2. CASE ran < now /\ \E look \in Looks, offers \in Offers : Cycle(look, offers)
  BY <1>1, <1>2, CooldownsAfterCycle
<1>3. CASE ~ (ran < now /\ \E look \in Looks, offers \in Offers : Cycle(look, offers))
  BY <1>1, <1>3, CooldownsOtherwise
<1> QED BY <1>2, <1>3

\* Nothing that a cycle publishes follows a lockdown within Hold, in whichever process it
\* was seen, or, on a candle that is young enough for the fast veto to be asked, a move
\* against its direction within Release, seen by the process that publishes: for any
\* cooldowns and ages, markets and offers, and across failed cycles, skipped symbols and
\* cycles whose candle was too old for the veto.
THEOREM CooldownsLast == Spec => []CooldownsHold
<1>1. CooldownInvariant => CooldownsHold
  BY DEF CooldownInvariant
<1> QED BY <1>1, CooldownsBegin, CooldownStep, CycleInvariantHolds, PTL DEF Spec

LEMMA ReversalIsProven ==
  ASSUME Clocked, [Next]_vars, Opposite(thesis.direction, thesis'.direction), FreshThesis(thesis, thesis'.ts)
  PROVE  Magnitude(thesis'.score) >= 18 /\ thesis'.coherence >= 58
<1>1. thesis' # thesis
  BY DEF Opposite
<1>2. PICK look \in Looks, offers \in Offers : Cycle(look, offers)
  BY <1>1 DEF Next, vars, stored, Tick, SkipSymbol, CycleFails, Restart, Label
<1>3. PICK sample \in Samples : Told(look, sample)
  BY LookTells
<1>4. thesis' = [direction |-> look.direction, score |-> look.view.all,
                 coherence |-> look.view.coherence, ts |-> now]
  BY <1>2 DEF Cycle
<1>5. look.direction = Stabilized(look.view, thesis, now)
  BY <1>3 DEF Told
<1>6. ~ WeakFlip(look.view)
  BY <1>4, <1>5 DEF Stabilized, Opposite
<1>7. thesis'.score \in Int /\ thesis'.coherence \in Int
  BY <1>3, <1>4, CycleAssumption DEF Told
<1> QED BY <1>4, <1>6, <1>7 DEF WeakFlip, Magnitude

\* The direction a symbol holds turns round within one cycle only on a score that is not
\* weak and a coherence that is high enough, whatever the markets.
THEOREM ReversalsHold == Spec => ReversalsAreProven
<1>1. CycleInvariant /\ [Next]_vars =>
        [Opposite(thesis.direction, thesis'.direction) /\ FreshThesis(thesis, thesis'.ts) =>
           Magnitude(thesis'.score) >= 18 /\ thesis'.coherence >= 58]_vars
  BY ReversalIsProven DEF CycleInvariant
<1> QED BY <1>1, CycleInvariantHolds, PTL DEF Spec, ReversalsAreProven
=============================================================================
