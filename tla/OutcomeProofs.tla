---------------------------- MODULE OutcomeProofs ----------------------------
(***************************************************************************)
(* What is proved of the labels, for all values of the constants.          *)
(*                                                                         *)
(* First the labelling cycle (OutcomeCycle): any number of rows,           *)
(* settlements and workers, any limits and any number of crashes and lost  *)
(* leases, as long as no worker writes a verdict after its lease is gone   *)
(* (Stalls).                                                               *)
(*                                                                         *)
(* Then the replay of a grid (OutcomeReplay, GridLedger): any grid, any    *)
(* prices, volumes, settlements and minutes.  The replay's money is a sum  *)
(* over the grid's slots, so the part begins with what sums obey.          *)
(*                                                                         *)
(* Last, what a kept label has to do with the trades: as long as a grid is *)
(* not stopped the order of the prices within a candle leaves no trace in  *)
(* its ledger, unless it makes the ledger void.                            *)
(***************************************************************************)
EXTENDS OutcomeCycle, OutcomeReplay, FiniteSetTheorems, WellFoundedInduction, NaturalsInduction, TLAPS

---------------------------------------------------------------------------
(* Records, and what is in the tables.                                     *)

IsEntry(e) == e = [f \in {"state", "wants", "rank"} |-> e[f]]
IsDecision(d) == d = [f \in {"rec", "state", "wants", "counted"} |-> d[f]]
IsWorker(u) == u = [f \in {"phase", "todo", "stamped", "decision"} |-> u[f]]

States == {"waiting", "censored", "mismatch", "labeled"}

\* The tables hold whole rows, and an outcome is a set of settlements.
WholeTables ==
  /\ shape \in Shapes
  /\ ledger = [r \in Recs |-> ledger[r]]
  /\ \A r \in Recs : IsEntry(ledger[r]) /\ ledger[r].state \in States
  /\ outcome \in [Recs -> {None} \union SUBSET Events]
  /\ funding \in [published : SUBSET Events, stored : SUBSET Events]

WholeWorkers ==
  /\ worker = [w \in Workers |-> worker[w]]
  /\ \A w \in Workers :
       /\ IsWorker(worker[w])
       /\ worker[w].phase \in {"idle", "cycle", "decided"}
       /\ worker[w].todo \subseteq Recs

\* What a verdict in hand says is true of its row, and the row is the worker's to decide.
VerdictHolds(w) ==
  LET d == worker[w].decision IN
  /\ leader = w
  /\ d.rec \in worker[w].todo
  /\ d.state \in {"waiting", "censored", "labeled"}
  /\ d.state = "labeled" =>
       /\ d.counted \subseteq Events
       /\ CountsFunding(d.rec, d.counted)

\* Nobody else can have labelled the rows that a leader has yet to examine.
WorkIsOpen ==
  \A w \in Workers :
    /\ worker[w].phase = "decided" => VerdictHolds(w)
    /\ worker[w].phase # "idle" /\ leader = w => \A r \in worker[w].todo : outcome[r] = None

LabellingInvariant ==
  WholeTables /\ WholeWorkers /\ WorkIsOpen /\ LedgerMatchesOutcomes /\ OutcomesCountFunding

---------------------------------------------------------------------------
(* The steps.                                                              *)

LEMMA SettlementsAreNotNone == \A S \in SUBSET Events : S # None
<1>1. 0 \notin Events
  <2>1. \A n : 0 \notin 1..n
    OBVIOUS
  <2>2. Events = 1..Cardinality(Events)
    BY OutcomeAssumption
  <2> QED BY <2>1, <2>2
<1> QED BY <1>1 DEF None

\* A row that is found is one without an outcome.
LEMMA SelectedIsOpen ==
  ASSUME NEW entry
  PROVE  Selected(entry) \subseteq {r \in Recs : outcome[r] = None}
BY DEF Selected, Open

\* Ranks are all that ordering the attempts changes.
LEMMA RankedKeepsStates ==
  ASSUME NEW entry, \A r \in Recs : IsEntry(entry[r])
  PROVE  /\ Ranked(entry) = [r \in Recs |-> Ranked(entry)[r]]
         /\ \A r \in Recs : IsEntry(Ranked(entry)[r]) /\ Ranked(entry)[r].state = entry[r].state
BY DEF Ranked, IsEntry

\* A verdict that labels has counted what the row's schedule asks for.
LEMMA VerdictIsRight ==
  ASSUME WholeTables, NEW r \in Recs
  PROVE  LET d == Verdict(r) IN
         /\ d.rec = r /\ d.state \in {"waiting", "censored", "labeled"}
         /\ d.state = "labeled" =>
              /\ d.counted \subseteq Events
              /\ CountsFunding(r, d.counted)
<1>1. Verdict(r).rec = r /\ Verdict(r).state \in {"waiting", "censored", "labeled"}
      /\ Verdict(r).counted = shape[r].needs \intersect funding.stored
  BY DEF Verdict
<1>2. shape[r].needs \subseteq Events
  <2>1. shape \in [Recs -> RowShapes]
    BY OutcomeAssumption DEF WholeTables
  <2>2. shape[r] \in RowShapes
    BY <2>1
  <2> QED BY <2>2 DEF RowShapes
<1>3. ASSUME Verdict(r).state = "labeled" PROVE Wanted(r) = Nothing
  BY <1>3 DEF Verdict
<1>4. \A e : Exact(e) # Nothing /\ Span(e) # Nothing
  BY DEF Exact, Span, Nothing
<1>5. ASSUME Wanted(r) = Nothing, shape[r].exact PROVE shape[r].needs \intersect funding.stored = shape[r].needs
  BY <1>4, <1>5 DEF Wanted, Missing
<1>6. ASSUME Wanted(r) = Nothing, ~ shape[r].exact PROVE ~NoHistory(r)
  BY <1>4, <1>6 DEF Wanted
<1> QED BY <1>1, <1>2, <1>3, <1>5, <1>6 DEF CountsFunding

\* Settlements are stored for good: a history that was there stays.
LEMMA HistoryStays ==
  ASSUME shape' = shape, funding.stored \subseteq funding'.stored
  PROVE  \A r : ~NoHistory(r) => ~NoHistory(r)'
BY DEF NoHistory

LEMMA InitIsOpen == ASSUME Init PROVE LabellingInvariant
<1>1. WholeTables
  <2>1. \A r \in Recs : ledger[r] \in {Scheduled, Mismatch}
    BY DEF Init
  <2>2. \A e \in {Scheduled, Mismatch} : IsEntry(e) /\ e.state \in {"waiting", "mismatch"}
    BY DEF IsEntry, Scheduled, Mismatch
  <2> QED BY <2>1, <2>2 DEF Init, WholeTables, States
<1>2. WholeWorkers
  BY DEF Init, WholeWorkers, IsWorker, Idle
<1>3. WorkIsOpen
  BY DEF Init, WorkIsOpen, Idle
<1>4. LedgerMatchesOutcomes
  <2>1. \A r \in Recs : ledger[r] \in {Scheduled, Mismatch} /\ outcome[r] = None
    BY DEF Init
  <2>2. \A e \in {Scheduled, Mismatch} : e.state # "labeled"
    BY DEF Scheduled, Mismatch
  <2> QED BY <2>1, <2>2 DEF LedgerMatchesOutcomes
<1>5. OutcomesCountFunding
  BY DEF Init, OutcomesCountFunding
<1> QED BY <1>1, <1>2, <1>3, <1>4, <1>5 DEF LabellingInvariant

\* Steps that neither touch the rows nor the workers.
Aside == UNCHANGED <<shape, ledger, outcome, worker>>

LEMMA AsideKeeps ==
  ASSUME LabellingInvariant, Aside, funding.stored \subseteq funding'.stored,
         funding' \in [published : SUBSET Events, stored : SUBSET Events],
         leader' = leader \/ (leader = Nobody /\ worker[leader'] = Idle)
           \/ (leader' = Nobody /\ worker[leader].phase # "decided")
  PROVE  LabellingInvariant'
<1>0. shape' = shape /\ ledger' = ledger /\ outcome' = outcome /\ worker' = worker
  BY DEF Aside
<1>1. WholeTables' /\ WholeWorkers' /\ LedgerMatchesOutcomes' /\ OutcomesCountFunding'
  BY <1>0, HistoryStays DEF LabellingInvariant, WholeTables, WholeWorkers, LedgerMatchesOutcomes, OutcomesCountFunding, CountsFunding, IsEntry, IsWorker
<1>2. WorkIsOpen'
  <2> SUFFICES ASSUME NEW w \in Workers
               PROVE  /\ worker[w].phase = "decided" => VerdictHolds(w)'
                      /\ worker[w].phase # "idle" /\ leader' = w => \A r \in worker[w].todo : outcome[r] = None
    BY <1>0 DEF WorkIsOpen
  <2>1. /\ worker[w].phase = "decided" => VerdictHolds(w)
        /\ worker[w].phase # "idle" /\ leader = w => \A r \in worker[w].todo : outcome[r] = None
    BY DEF LabellingInvariant, WorkIsOpen
  <2>2. worker[w].phase # "idle" /\ leader' = w => leader = w
    BY OutcomeAssumption DEF Idle, Nobody
  <2>3. worker[w].phase = "decided" => leader' = w
    BY <2>1, OutcomeAssumption DEF VerdictHolds, Nobody
  <2> QED BY <1>0, <2>1, <2>2, <2>3, HistoryStays DEF VerdictHolds, CountsFunding
<1> QED BY <1>1, <1>2 DEF LabellingInvariant

\* A step of one worker that leaves the rows alone.
LEMMA WorkerStepKeeps ==
  ASSUME LabellingInvariant, NEW w \in Workers, NEW u,
         UNCHANGED <<shape, ledger, outcome, funding>>, worker' = [worker EXCEPT ![w] = u],
         IsWorker(u), u.phase \in {"idle", "cycle", "decided"}, u.todo \subseteq Recs,
         leader' = leader \/ (leader = w /\ leader' = Nobody /\ u.phase = "idle"),
         u.phase = "decided" => VerdictHolds(w)',
         u.phase # "idle" /\ leader = w => \A r \in u.todo : outcome[r] = None
  PROVE  LabellingInvariant'
<1>1. WholeTables' /\ LedgerMatchesOutcomes' /\ OutcomesCountFunding'
  BY DEF LabellingInvariant, WholeTables, LedgerMatchesOutcomes, OutcomesCountFunding,
         CountsFunding, NoHistory, IsEntry
<1>2. worker'[w] = u /\ \A v \in Workers \ {w} : worker'[v] = worker[v]
  BY DEF LabellingInvariant, WholeWorkers
<1>3. WholeWorkers'
  <2>1. worker' = [v \in Workers |-> worker'[v]]
    BY DEF LabellingInvariant, WholeWorkers
  <2>2. \A v \in Workers : IsWorker(worker'[v]) /\ worker'[v].phase \in {"idle", "cycle", "decided"} /\ worker'[v].todo \subseteq Recs
    BY <1>2 DEF LabellingInvariant, WholeWorkers
  <2> QED BY <2>1, <2>2 DEF WholeWorkers, IsWorker
<1>4. ASSUME NEW v \in Workers
      PROVE  /\ worker'[v].phase = "decided" => VerdictHolds(v)'
             /\ worker'[v].phase # "idle" /\ leader' = v => \A r \in worker'[v].todo : outcome'[r] = None
  <2>1. CASE v = w
    BY <1>2, <2>1, OutcomeAssumption DEF Nobody
  <2>2. CASE v # w
    <3>1. worker'[v] = worker[v]
      BY <1>2, <2>2
    <3>2. /\ worker[v].phase = "decided" => VerdictHolds(v)
          /\ worker[v].phase # "idle" /\ leader = v => \A r \in worker[v].todo : outcome[r] = None
      BY DEF LabellingInvariant, WorkIsOpen
    <3>3. leader' = v <=> leader = v
      BY <2>2, OutcomeAssumption DEF Nobody
    <3>4. worker[v].phase = "decided" => VerdictHolds(v)'
      BY <3>1, <3>2, <3>3 DEF VerdictHolds, CountsFunding, NoHistory
    <3> QED BY <3>1, <3>2, <3>3, <3>4
  <2> QED BY <2>1, <2>2
<1>5. WorkIsOpen'
  BY <1>4 DEF WorkIsOpen
<1> QED BY <1>1, <1>3, <1>5 DEF LabellingInvariant

LEMMA IdleIsWhole == IsWorker(Idle) /\ Idle.phase = "idle" /\ Idle.todo = {}
BY DEF Idle, IsWorker

LEMMA CycleIsWhole ==
  ASSUME NEW todo, NEW stamped
  PROVE  /\ IsWorker(Cycle(todo, stamped)) /\ Cycle(todo, stamped).phase \in {"idle", "cycle"}
         /\ Cycle(todo, stamped).todo \subseteq todo
<1>1. CASE todo = {}
  BY <1>1, IdleIsWhole DEF Cycle
<1>2. CASE todo # {}
  BY <1>2 DEF Cycle, Idle, IsWorker
<1> QED BY <1>1, <1>2

LEMMA CrashKeeps ==
  ASSUME LabellingInvariant, NEW w \in Workers, Crash(w)
  PROVE  LabellingInvariant'
BY IdleIsWhole, WorkerStepKeeps DEF Crash, rows, queue

LEMMA AbortKeeps ==
  ASSUME LabellingInvariant, NEW w \in Workers, AbortCycle(w)
  PROVE  LabellingInvariant'
BY IdleIsWhole, WorkerStepKeeps DEF AbortCycle, rows, queue

LEMMA BeginKeeps ==
  ASSUME LabellingInvariant, NEW w \in Workers, BeginCycle(w)
  PROVE  LabellingInvariant'
<1> DEFINE u == Cycle(Selected(Requeued), FALSE)
<1>1. ledger' = Requeued /\ worker' = [worker EXCEPT ![w] = u] /\ leader = w /\ leader' = leader
      /\ shape' = shape /\ outcome' = outcome /\ funding' = funding /\ worker[w].phase = "idle"
  BY IdleIsWhole DEF BeginCycle, queue
<1>2. /\ IsWorker(u) /\ u.phase \in {"idle", "cycle"} /\ u.todo \subseteq {r \in Recs : outcome[r] = None}
  BY CycleIsWhole, SelectedIsOpen
<1> HIDE DEF u
<1>3. /\ Requeued = [r \in Recs |-> Requeued[r]]
      /\ \A r \in Recs : IsEntry(Requeued[r]) /\ Requeued[r].state \in States
      /\ \A r \in Recs : Requeued[r].state = "labeled" <=> ledger[r].state = "labeled"
  <2>1. \A e \in {Scheduled, Mismatch} : IsEntry(e) /\ e.state \in States \ {"labeled"}
    BY DEF IsEntry, Scheduled, Mismatch, States
  <2>2. \A r \in Recs : IsEntry(ledger[r]) /\ ledger[r].state \in States
    BY DEF LabellingInvariant, WholeTables
  <2>3. ASSUME NEW r \in Recs
        PROVE  Requeued[r] = ledger[r] \/ (ledger[r] = Mismatch /\ Requeued[r] = Scheduled)
    <3>1. \A q \in Taken : ledger[q] = Mismatch
      BY DEF Taken, Mismatched
    <3>2. CASE r \in Taken /\ shape[r].mismatch = "rest"
      BY <3>1, <3>2 DEF Requeued
    <3>3. CASE ~(r \in Taken /\ shape[r].mismatch = "rest")
      BY <3>3 DEF Requeued
    <3> QED BY <3>2, <3>3
  <2>4. Requeued = [r \in Recs |-> Requeued[r]]
    BY DEF Requeued
  <2> QED BY <2>1, <2>2, <2>3, <2>4
<1>4. WholeTables' /\ LedgerMatchesOutcomes' /\ OutcomesCountFunding'
  <2>1. WholeTables /\ LedgerMatchesOutcomes /\ OutcomesCountFunding
    BY DEF LabellingInvariant
  <2>2. ledger' = [r \in Recs |-> ledger'[r]] /\ \A r \in Recs : IsEntry(ledger'[r]) /\ ledger'[r].state \in States
    BY <1>1, <1>3
  <2>3. WholeTables'
    BY <1>1, <2>1, <2>2 DEF WholeTables, IsEntry
  <2>4. LedgerMatchesOutcomes'
    BY <1>1, <1>3, <2>1 DEF LedgerMatchesOutcomes
  <2>5. OutcomesCountFunding'
    BY <1>1, <2>1 DEF OutcomesCountFunding, CountsFunding, NoHistory
  <2> QED BY <2>3, <2>4, <2>5
<1>5. worker'[w] = u /\ \A v \in Workers \ {w} : worker'[v] = worker[v]
  BY <1>1 DEF LabellingInvariant, WholeWorkers
<1>6. WholeWorkers'
  <2>1. worker' = [v \in Workers |-> worker'[v]]
    BY <1>1 DEF LabellingInvariant, WholeWorkers
  <2>2. \A v \in Workers : IsWorker(worker'[v]) /\ worker'[v].phase \in {"idle", "cycle", "decided"} /\ worker'[v].todo \subseteq Recs
    BY <1>2, <1>5 DEF LabellingInvariant, WholeWorkers
  <2> QED BY <2>1, <2>2 DEF WholeWorkers, IsWorker
<1>7. ASSUME NEW v \in Workers
      PROVE  /\ worker'[v].phase = "decided" => VerdictHolds(v)'
             /\ worker'[v].phase # "idle" /\ leader' = v => \A r \in worker'[v].todo : outcome'[r] = None
  <2>1. CASE v = w
    BY <1>1, <1>2, <1>5, <2>1
  <2>2. CASE v # w
    <3>1. worker[v].phase = "decided" => VerdictHolds(v)
      BY DEF LabellingInvariant, WorkIsOpen
    <3>2. worker[v].phase # "decided"
      BY <1>1, <2>2, <3>1 DEF VerdictHolds
    <3> QED BY <1>1, <1>5, <2>2, <3>2
  <2> QED BY <2>1, <2>2
<1> QED BY <1>4, <1>6, <1>7 DEF LabellingInvariant, WorkIsOpen

LEMMA ExamineKeeps ==
  ASSUME LabellingInvariant, NEW w \in Workers, Examine(w)
  PROVE  LabellingInvariant'
<1>1. PICK r \in worker[w].todo :
         worker' = [worker EXCEPT ![w].phase = "decided", ![w].decision = Verdict(r)]
  BY DEF Examine
<1> DEFINE u == [worker[w] EXCEPT !.phase = "decided", !.decision = Verdict(r)]
<1>2. IsWorker(worker[w]) /\ worker[w].todo \subseteq Recs /\ r \in Recs
  BY DEF LabellingInvariant, WholeWorkers
<1>3. IsWorker(u) /\ u.phase = "decided" /\ u.todo = worker[w].todo /\ u.decision = Verdict(r)
  BY <1>2 DEF IsWorker
<1>4. worker' = [worker EXCEPT ![w] = u]
  BY <1>1 DEF LabellingInvariant, WholeWorkers
<1>5. /\ leader = w /\ leader' = leader /\ worker[w].phase = "cycle"
      /\ shape' = shape /\ ledger' = ledger /\ outcome' = outcome /\ funding' = funding
  BY DEF Examine, rows
<1> HIDE DEF u
<1>6. worker'[w] = u
  BY <1>4 DEF LabellingInvariant, WholeWorkers
<1>7. VerdictHolds(w)'
  <2>1. /\ Verdict(r).rec = r /\ Verdict(r).state \in {"waiting", "censored", "labeled"}
        /\ Verdict(r).state = "labeled" =>
             /\ Verdict(r).counted \subseteq Events
             /\ CountsFunding(r, Verdict(r).counted)
    BY <1>2, VerdictIsRight DEF LabellingInvariant
  <2> QED BY <1>3, <1>5, <1>6, <2>1 DEF VerdictHolds, CountsFunding, NoHistory
<1>8. \A q \in u.todo : outcome[q] = None
  BY <1>3, <1>5 DEF LabellingInvariant, WorkIsOpen
<1> QED BY <1>2, <1>3, <1>4, <1>5, <1>7, <1>8, WorkerStepKeeps

\* The verdict in hand is about a row that nobody has labelled, and is written to the
\* ledger, and as an outcome if it is one.
LEMMA WriteRecords ==
  ASSUME LabellingInvariant, NEW w \in Workers, Write(w), NEW d, d = worker[w].decision
  PROVE  /\ d.rec \in Recs /\ outcome[d.rec] = None /\ VerdictHolds(w)
         /\ ledger' = [r \in Recs |-> ledger'[r]]
         /\ \A r \in Recs : IsEntry(ledger'[r]) /\ ledger'[r].state = (IF r = d.rec THEN d.state ELSE ledger[r].state)
         /\ outcome' = IF d.state = "labeled" THEN [outcome EXCEPT ![d.rec] = d.counted] ELSE outcome
<1>1. worker[w].phase = "decided"
  BY DEF Write
<1>2. VerdictHolds(w) /\ leader = w /\ d.rec \in worker[w].todo
  BY <1>1 DEF LabellingInvariant, WorkIsOpen, VerdictHolds
<1>3. d.rec \in Recs /\ outcome[d.rec] = None
  BY <1>1, <1>2 DEF LabellingInvariant, WorkIsOpen, WholeWorkers
<1>4. PICK k : ledger' = Ranked([ledger EXCEPT ![d.rec] = [state |-> d.state, wants |-> d.wants,
                                                          rank |-> IF d.state = "waiting" THEN k ELSE 0]])
  BY DEF Write, Upserted
<1> DEFINE e == [state |-> d.state, wants |-> d.wants, rank |-> IF d.state = "waiting" THEN k ELSE 0]
           entry == [ledger EXCEPT ![d.rec] = e]
<1>5. IsEntry(e) /\ e.state = d.state
  BY DEF IsEntry
<1> HIDE DEF e
<1>6. \A r \in Recs : IsEntry(entry[r]) /\ entry[r].state = (IF r = d.rec THEN d.state ELSE ledger[r].state)
  BY <1>3, <1>5 DEF LabellingInvariant, WholeTables
<1> HIDE DEF entry
<1>7. /\ Ranked(entry) = [r \in Recs |-> Ranked(entry)[r]]
      /\ \A r \in Recs : IsEntry(Ranked(entry)[r]) /\ Ranked(entry)[r].state = entry[r].state
  BY <1>6, RankedKeepsStates
<1>8. ledger' = Ranked(entry)
  BY <1>4 DEF entry, e
<1>9. outcome' = IF d.state = "labeled" THEN [outcome EXCEPT ![d.rec] = d.counted] ELSE outcome
  BY DEF Write
<1> QED BY <1>2, <1>3, <1>6, <1>7, <1>8, <1>9

LEMMA WriteKeeps ==
  ASSUME LabellingInvariant, NEW w \in Workers, Write(w)
  PROVE  LabellingInvariant'
<1> DEFINE d == worker[w].decision
           u == Cycle(worker[w].todo \ {d.rec}, TRUE)
<1>1. /\ d.rec \in Recs /\ outcome[d.rec] = None /\ VerdictHolds(w)
      /\ ledger' = [r \in Recs |-> ledger'[r]]
      /\ \A r \in Recs : IsEntry(ledger'[r]) /\ ledger'[r].state = (IF r = d.rec THEN d.state ELSE ledger[r].state)
      /\ outcome' = IF d.state = "labeled" THEN [outcome EXCEPT ![d.rec] = d.counted] ELSE outcome
  BY WriteRecords
<1>2. shape' = shape /\ leader' = leader /\ funding' = funding /\ worker' = [worker EXCEPT ![w] = u] /\ worker[w].phase = "decided"
  BY DEF Write
<1>3. IsWorker(u) /\ u.phase \in {"idle", "cycle"} /\ u.todo \subseteq worker[w].todo \ {d.rec}
  BY CycleIsWhole
<1>4. /\ leader = w /\ d.state \in {"waiting", "censored", "labeled"}
      /\ d.state = "labeled" =>
           /\ d.counted \subseteq Events
           /\ CountsFunding(d.rec, d.counted)
  BY <1>1 DEF VerdictHolds
<1> HIDE DEF d, u
<1>5. \A r \in Recs : outcome'[r] = IF r = d.rec /\ d.state = "labeled" THEN d.counted ELSE outcome[r]
  BY <1>1 DEF LabellingInvariant, WholeTables
<1>6. d.state = "labeled" => d.counted # None
  BY <1>4, SettlementsAreNotNone
<1>7. WholeTables'
  <2>1. outcome' \in [Recs -> {None} \union SUBSET Events]
    BY <1>1, <1>4 DEF LabellingInvariant, WholeTables
  <2>2. \A r \in Recs : ledger'[r].state \in States
    BY <1>1, <1>4 DEF LabellingInvariant, WholeTables, States
  <2>3. shape' \in Shapes
    BY <1>2 DEF LabellingInvariant, WholeTables
  <2>4. funding' \in [published : SUBSET Events, stored : SUBSET Events]
    BY <1>2 DEF LabellingInvariant, WholeTables
  <2> QED BY <1>1, <2>1, <2>2, <2>3, <2>4 DEF WholeTables, IsEntry
<1>8. LedgerMatchesOutcomes'
  <2> SUFFICES ASSUME NEW r \in Recs PROVE outcome'[r] # None <=> ledger'[r].state = "labeled"
    BY DEF LedgerMatchesOutcomes
  <2>1. outcome[r] # None <=> ledger[r].state = "labeled"
    BY DEF LabellingInvariant, LedgerMatchesOutcomes
  <2> QED BY <1>1, <1>5, <1>6, <2>1
<1>9. OutcomesCountFunding'
  BY <1>2, <1>4, <1>5, <1>1 DEF LabellingInvariant, OutcomesCountFunding, CountsFunding,
                                NoHistory
<1>10. worker'[w] = u /\ \A v \in Workers \ {w} : worker'[v] = worker[v]
  BY <1>2 DEF LabellingInvariant, WholeWorkers
<1>11. WholeWorkers'
  <2>1. worker' = [v \in Workers |-> worker'[v]]
    BY <1>2 DEF LabellingInvariant, WholeWorkers
  <2>2. \A v \in Workers : IsWorker(worker'[v]) /\ worker'[v].phase \in {"idle", "cycle", "decided"} /\ worker'[v].todo \subseteq Recs
    BY <1>3, <1>10 DEF LabellingInvariant, WholeWorkers
  <2> QED BY <2>1, <2>2 DEF WholeWorkers, IsWorker
<1>12. ASSUME NEW v \in Workers
       PROVE  /\ worker'[v].phase = "decided" => VerdictHolds(v)'
              /\ worker'[v].phase # "idle" /\ leader' = v => \A r \in worker'[v].todo : outcome'[r] = None
  <2>1. CASE v = w
    <3>1. \A r \in worker[w].todo : r \in Recs /\ outcome[r] = None
      BY <1>2, <1>4 DEF LabellingInvariant, WorkIsOpen, WholeWorkers
    <3>2. \A r \in u.todo : outcome'[r] = None
      BY <1>3, <1>5, <3>1
    <3> QED BY <1>3, <1>10, <2>1, <3>2
  <2>2. CASE v # w
    <3>1. worker[v].phase = "decided" => VerdictHolds(v)
      BY DEF LabellingInvariant, WorkIsOpen
    <3>2. worker[v].phase # "decided"
      BY <1>4, <2>2, <3>1 DEF VerdictHolds
    <3> QED BY <1>2, <1>4, <1>10, <2>2, <3>2
  <2> QED BY <2>1, <2>2
<1> QED BY <1>7, <1>8, <1>9, <1>11, <1>12 DEF LabellingInvariant, WorkIsOpen

LEMMA NextKeeps ==
  ASSUME Stalls = FALSE, LabellingInvariant, [Next]_vars
  PROVE  LabellingInvariant'
<1> USE DEF Aside, rows, queue
<1> DEFINE Fundings == [published : SUBSET Events, stored : SUBSET Events]
<1>0. funding \in Fundings
  BY DEF LabellingInvariant, WholeTables
<1>a. \A es \in SUBSET Events : Store(funding, es) \in Fundings /\ funding.stored \subseteq Store(funding, es).stored
  BY <1>0 DEF Store
<1>b. \A j : Returned(j) \in SUBSET Events
  BY <1>0 DEF Returned
<1>c. {e \in funding.published : funding.stored = {} \/ e + Overlap >= Max(funding.stored)} \in SUBSET Events
  BY <1>0
<1>1. CASE \E r \in Recs : Mature(r)
  BY <1>0, <1>1, AsideKeeps DEF Mature
<1>2. CASE \E e \in Events : Publish(e)
  <2>1. funding' \in Fundings /\ funding'.stored = funding.stored
    BY <1>0, <1>2 DEF Publish
  <2> QED BY <1>2, <2>1, AsideKeeps DEF Publish
<1>3. CASE \E w \in Workers : Claim(w)
  BY <1>0, <1>3, AsideKeeps DEF Claim
<1>4. CASE LoseLease
  BY <1>0, <1>4, AsideKeeps DEF LoseLease
<1>5. CASE DelayPasses
  BY <1>0, <1>5, AsideKeeps DEF DelayPasses
<1>6. CASE Enqueue
  BY <1>0, <1>6, AsideKeeps DEF Enqueue
<1>7. CASE Repair
  <2>1. funding' \in Fundings /\ funding.stored \subseteq funding'.stored
    BY <1>7, <1>a, <1>b DEF Repair
  <2> QED BY <1>7, <2>1, AsideKeeps DEF Repair
<1>8. CASE RepairFails
  BY <1>0, <1>8, AsideKeeps DEF RepairFails
<1>9. CASE Refresh
  <2>1. funding' \in Fundings /\ funding.stored \subseteq funding'.stored
    BY <1>9, <1>a, <1>c DEF Refresh
  <2> QED BY <1>9, <2>1, AsideKeeps DEF Refresh
<1>10. CASE UNCHANGED vars
  BY <1>0, <1>10, AsideKeeps DEF vars
<1>11. CASE \E w \in Workers : Crash(w) \/ BeginCycle(w) \/ AbortCycle(w) \/ Examine(w) \/ Write(w)
  BY <1>11, CrashKeeps, BeginKeeps, AbortKeeps, ExamineKeeps, WriteKeeps
<1> QED BY <1>1, <1>2, <1>3, <1>4, <1>5, <1>6, <1>7, <1>8, <1>9, <1>10, <1>11 DEF Next

---------------------------------------------------------------------------
(* The promises.                                                           *)

\* The inductive invariant: whole rows, and a leader whose work nobody else can have
\* done, since a worker claims between its cycles and asks for its lease before each row.
THEOREM LabellingIsInvariant == ASSUME Stalls = FALSE PROVE Spec => []LabellingInvariant
<1>1. Init => LabellingInvariant
  BY InitIsOpen
<1>2. LabellingInvariant /\ [Next]_vars => LabellingInvariant'
  BY NextKeeps
<1> QED BY <1>1, <1>2, PTL DEF Spec

\* The ledger says labelled of exactly the rows that have an outcome, whatever crashes
\* and however often the lease changes hands (insert_outcome, upsert_outcome_observability).
THEOREM LedgerHolds == ASSUME Stalls = FALSE PROVE Spec => []LedgerMatchesOutcomes
<1>1. LabellingInvariant => LedgerMatchesOutcomes
  BY DEF LabellingInvariant
<1> QED BY <1>1, LabellingIsInvariant, PTL

\* An outcome has counted the settlements of its schedule, or was computed with history
\* of its window (_grid_outcome, _directional_trend_outcome).
THEOREM FundingIsCounted == ASSUME Stalls = FALSE PROVE Spec => []OutcomesCountFunding
<1>1. LabellingInvariant => OutcomesCountFunding
  BY DEF LabellingInvariant
<1> QED BY <1>1, LabellingIsInvariant, PTL

\* An outcome is never computed again (compute_outcomes_cycle).
THEOREM OutcomesAreFinal == ASSUME Stalls = FALSE PROVE Spec => OutcomesStand
<1>1. ASSUME LabellingInvariant, [Next]_vars
      PROVE  [\A r \in Recs : outcome[r] # None => outcome'[r] = outcome[r]]_vars
  <2>1. CASE \E w \in Workers : Write(w)
    <3>1. PICK w \in Workers : Write(w)
      BY <2>1
    <3> DEFINE d == worker[w].decision
    <3>2. /\ d.rec \in Recs /\ outcome[d.rec] = None
          /\ outcome' = IF d.state = "labeled" THEN [outcome EXCEPT ![d.rec] = d.counted] ELSE outcome
      BY <1>1, <3>1, WriteRecords
    <3> HIDE DEF d
    <3> QED BY <1>1, <3>2 DEF LabellingInvariant, WholeTables
  <2>2. CASE ~ \E w \in Workers : Write(w)
    <3>1. outcome' = outcome
      BY <1>1, <2>2 DEF Next, vars, rows, queue, Mature, Publish, Claim, Crash, BeginCycle, AbortCycle, Examine,
         LoseLease, DelayPasses, Enqueue, Repair, RepairFails, Refresh
    <3> QED BY <3>1
  <2> QED BY <2>1, <2>2
<1> QED BY <1>1, LabellingIsInvariant, PTL DEF Spec, OutcomesStand

---------------------------------------------------------------------------
(* Sums over the slots of a grid.                                          *)

\* Induction in first-order form: a set of numbers that is not empty has a least one.
LEMMA LeastNumber ==
  ASSUME NEW T, T \subseteq Nat, T # {}
  PROVE  \E n \in T : \A m \in T : n <= m
<1>1. PICK n \in T : \A m \in T : ~ (<<m, n>> \in OpToRel(<, Nat))
  BY NatLessThanWellFounded, WFMin
<1>2. \A m \in T : ~ (m < n)
  BY <1>1 DEF OpToRel
<1> QED BY <1>2

\* g adds up what f has in S, level by level.
Adds(f, S, g) ==
  /\ g \in [0..GridCount + 1 -> Int] /\ g[0] = 0
  /\ \A n \in 1..GridCount + 1 : g[n] = g[n - 1] + (IF n - 1 \in S THEN f[n - 1] ELSE 0)

\* The constants of the grid.
LEMMA Count == GridCount \in Nat /\ GridCount > 0 /\ Step \in Nat /\ Step > 0 /\ Lower \in Nat
  BY GridAssumption

\* What grows faster stays ahead.
LEMMA StaysAhead ==
  ASSUME NEW N \in Nat, NEW f \in [0..N -> Int], NEW g \in [0..N -> Int], f[0] <= g[0],
         \A n \in 1..N : f[n] - f[n - 1] <= g[n] - g[n - 1]
  PROVE  \A n \in 0..N : f[n] <= g[n]
<1> DEFINE bad == {n \in 0..N : ~ f[n] <= g[n]}
<1> SUFFICES bad = {}
  OBVIOUS
<1>1. bad \subseteq Nat
  OBVIOUS
<1>2. ASSUME bad # {} PROVE FALSE
  <2>1. PICK n \in bad : \A m \in bad : n <= m
    <3> HIDE DEF bad
    <3> QED BY <1>1, <1>2, LeastNumber
  <2>2. n \in 1..N
    OBVIOUS
  <2>3. n - 1 \notin bad /\ n - 1 \in 0..N
    BY <2>1, <2>2
  <2>4. f[n - 1] <= g[n - 1] /\ f[n - 1] \in Int /\ g[n - 1] \in Int
    BY <2>3
  <2>5. f[n] \in Int /\ g[n] \in Int /\ f[n] - f[n - 1] <= g[n] - g[n - 1]
    BY <2>2
  <2>6. ~ f[n] <= g[n]
    BY <2>1
  <2> QED BY ONLY <2>4, <2>5, <2>6
<1> QED BY <1>2

\* What grows alike stays level.
LEMMA StaysLevel ==
  ASSUME NEW N \in Nat, NEW f \in [0..N -> Int], NEW g \in [0..N -> Int], f[0] = g[0],
         \A n \in 1..N : f[n] - f[n - 1] = g[n] - g[n - 1]
  PROVE  \A n \in 0..N : f[n] = g[n]
<1>1. f[0] <= g[0] /\ g[0] <= f[0]
  OBVIOUS
<1>2. \A n \in 1..N : f[n] \in Int /\ g[n] \in Int /\ f[n - 1] \in Int /\ g[n - 1] \in Int
  OBVIOUS
<1>3. \A n \in 1..N : f[n] - f[n - 1] <= g[n] - g[n - 1] /\ g[n] - g[n - 1] <= f[n] - f[n - 1]
  BY <1>2
<1>4. \A n \in 0..N : f[n] <= g[n]
  BY <1>1, <1>3, StaysAhead
<1>5. \A n \in 0..N : g[n] <= f[n]
  BY <1>1, <1>3, StaysAhead
<1> QED BY <1>4, <1>5

\* Any part of a function can be added up.
LEMMA AddsExist ==
  ASSUME NEW f \in [Indices -> Int], NEW S \in SUBSET Indices
  PROVE  \E g : Adds(f, S, g)
<1> USE Count DEF Indices
<1> DEFINE N == GridCount + 1
           part(n) == IF n - 1 \in S THEN f[n - 1] ELSE 0
           Runs(n) == \E g \in [0..n -> Int] : g[0] = 0 /\ \A k \in 1..n : g[k] = g[k - 1] + part(k)
           stuck == {n \in 0..N : ~ Runs(n)}
<1>1. Runs(0)
  <2> DEFINE g == [k \in 0..0 |-> 0]
  <2>1. g \in [0..0 -> Int] /\ g[0] = 0 /\ \A k \in 1..0 : g[k] = g[k - 1] + part(k)
    OBVIOUS
  <2> HIDE DEF g, part
  <2> QED BY <2>1
<1>2. \A n \in 1..N : part(n) \in Int
  OBVIOUS
<1> HIDE DEF part
<1>3. ASSUME NEW n \in 0..N - 1, Runs(n) PROVE Runs(n + 1)
  <2>1. PICK g \in [0..n -> Int] : g[0] = 0 /\ \A k \in 1..n : g[k] = g[k - 1] + part(k)
    BY <1>3
  <2> DEFINE h == [k \in 0..n + 1 |-> IF k = n + 1 THEN g[n] + part(n + 1) ELSE g[k]]
  <2>2. g[n] + part(n + 1) \in Int
    <3>1. g[n] \in Int /\ n + 1 \in 1..N
      BY <2>1
    <3> QED BY <1>2, <3>1
  <2>3. h \in [0..n + 1 -> Int]
    BY <2>1, <2>2
  <2>4. h[0] = 0 /\ h[n + 1] = h[n] + part(n + 1)
    BY <2>1
  <2>5. \A k \in 1..n : h[k] = g[k] /\ h[k - 1] = g[k - 1]
    OBVIOUS
  <2>6. \A k \in 1..n + 1 : k \in 1..n \/ k = n + 1
    OBVIOUS
  <2> HIDE DEF h
  <2>7. ASSUME NEW k \in 1..n + 1 PROVE h[k] = h[k - 1] + part(k)
    <3>1. CASE k \in 1..n
      <4>1. h[k] = g[k] /\ h[k - 1] = g[k - 1] /\ g[k] = g[k - 1] + part(k)
        BY <2>1, <2>5, <3>1
      <4> QED BY <4>1
    <3>2. CASE k = n + 1
      <4>1. k - 1 = n
        BY <3>2
      <4> QED BY <2>4, <3>2, <4>1
    <3> QED BY <2>6, <3>1, <3>2
  <2> QED BY <2>3, <2>4, <2>7
<1> HIDE DEF Runs
<1>4. ASSUME stuck # {} PROVE FALSE
  <2>1. stuck \subseteq Nat
    OBVIOUS
  <2>2. PICK n \in stuck : \A m \in stuck : n <= m
    <3> HIDE DEF stuck
    <3> QED BY <1>4, <2>1, LeastNumber
  <2>3. n # 0
    BY <1>1
  <2>4. n - 1 \notin stuck /\ n - 1 \in 0..N - 1
    BY <2>2, <2>3
  <2>5. Runs(n - 1 + 1)
    BY <1>3, <2>4
  <2> QED BY <2>5
<1>5. N \in 0..N /\ N \notin stuck
  BY <1>4
<1>6. Runs(N)
  BY <1>5
<1> QED BY <1>6 DEF Runs, Adds, part

\* What is added up for a set is one of its values more than for the set without it.
LEMMA AddsSplit ==
  ASSUME NEW f \in [Indices -> Int], NEW S \in SUBSET Indices, NEW x \in S,
         NEW g, Adds(f, S, g), NEW h, Adds(f, S \ {x}, h)
  PROVE  g[GridCount + 1] = f[x] + h[GridCount + 1]
<1> DEFINE N == GridCount + 1
           k == [n \in 0..N |-> IF n > x THEN h[n] + f[x] ELSE h[n]]
<1>1. f[x] \in Int /\ x \in 0..GridCount /\ N \in Nat /\ N > x /\ \A n \in 1..N : f[n - 1] \in Int
  BY Count DEF Indices
<1>2. /\ g \in [0..N -> Int] /\ g[0] = 0
      /\ \A n \in 1..N : g[n] = g[n - 1] + (IF n - 1 \in S THEN f[n - 1] ELSE 0)
  BY DEF Adds
<1>3. /\ h \in [0..N -> Int] /\ h[0] = 0
      /\ \A n \in 1..N : h[n] = h[n - 1] + (IF n - 1 \in S \ {x} THEN f[n - 1] ELSE 0)
  BY DEF Adds
<1> HIDE DEF N
<1>4. k \in [0..N -> Int]
  <2>1. \A n \in 0..N : (IF n > x THEN h[n] + f[x] ELSE h[n]) \in Int
    BY <1>1, <1>3
  <2> QED BY <2>1
<1>5. k[0] = 0 /\ k[N] = h[N] + f[x]
  BY <1>1, <1>3
<1>6. ASSUME NEW n \in 1..N PROVE g[n] - g[n - 1] = k[n] - k[n - 1]
  <2>1. /\ k[n] = (IF n > x THEN h[n] + f[x] ELSE h[n])
        /\ k[n - 1] = (IF n - 1 > x THEN h[n - 1] + f[x] ELSE h[n - 1])
    BY <1>1
  <2>2. g[n] \in Int /\ g[n - 1] \in Int /\ h[n] \in Int /\ h[n - 1] \in Int /\ f[n - 1] \in Int
    BY <1>1, <1>2, <1>3
  <2>3. g[n] = g[n - 1] + (IF n - 1 \in S THEN f[n - 1] ELSE 0)
    BY <1>2
  <2>4. h[n] = h[n - 1] + (IF n - 1 \in S \ {x} THEN f[n - 1] ELSE 0)
    BY <1>3
  <2> HIDE DEF k
  <2>5. CASE n - 1 = x
    <3>1. g[n] = g[n - 1] + f[x] /\ h[n] = h[n - 1]
      BY <2>2, <2>3, <2>4, <2>5
    <3>2. k[n] = h[n] + f[x] /\ k[n - 1] = h[n - 1]
      BY <1>1, <2>1, <2>5
    <3> QED BY <1>1, <2>2, <3>1, <3>2
  <2>6. CASE n - 1 # x
    <3>1. g[n] - g[n - 1] = h[n] - h[n - 1]
      <4> DEFINE part == IF n - 1 \in S THEN f[n - 1] ELSE 0
      <4>1. part = IF n - 1 \in S \ {x} THEN f[n - 1] ELSE 0
        BY <2>6
      <4>2. part \in Int
        BY <2>2
      <4>3. g[n] = g[n - 1] + part /\ h[n] = h[n - 1] + part
        BY <2>3, <2>4, <4>1
      <4> HIDE DEF part
      <4> QED BY <2>2, <4>2, <4>3
    <3>2. CASE n > x
      BY <1>1, <2>1, <2>2, <2>6, <3>1, <3>2
    <3>3. CASE ~ n > x
      BY <1>1, <2>1, <2>2, <2>6, <3>1, <3>3
    <3> QED BY <3>2, <3>3
  <2> QED BY <2>5, <2>6
<1> HIDE DEF k
<1>7. g[0] = k[0]
  BY <1>2, <1>5
<1>8. \A n \in 0..N : g[n] = k[n]
  BY <1>1, <1>2, <1>4, <1>6, <1>7, StaysLevel
<1>9. g[N] = k[N] /\ h[N] \in Int
  BY <1>1, <1>3, <1>8
<1> QED BY <1>1, <1>5, <1>9 DEF N

\* A sum of the community modules is what is added up.
LEMMA SumIsAdded ==
  ASSUME NEW f \in [Indices -> Int], NEW S \in SUBSET Indices, NEW g, Adds(f, S, g)
  PROVE  SumFunctionOnSet(f, S) = g[GridCount + 1] /\ SumFunctionOnSet(f, S) \in Int
<1> DEFINE N == GridCount + 1
           P(iter) == iter = [s \in SUBSET S |->
                               IF s = {} THEN 0
                               ELSE LET x == CHOOSE y \in s : TRUE IN f[x] + iter[s \ {x}]]
           added == [s \in SUBSET S |-> (CHOOSE a : Adds(f, s, a))[N]]
           it == CHOOSE iter : P(iter)
<1>1. SumFunctionOnSet(f, S) = it[S]
  BY DEF SumFunctionOnSet, FoldFunctionOnSet, MapThenFoldSet
<1>2. ASSUME NEW s \in SUBSET S PROVE Adds(f, s, CHOOSE a : Adds(f, s, a))
  BY AddsExist
<1>3. ASSUME NEW s \in SUBSET S PROVE added[s] \in Int
  <2> DEFINE a == CHOOSE a : Adds(f, s, a)
  <2>1. Adds(f, s, a) /\ added[s] = a[N] /\ N \in 0..N
    BY <1>2, Count
  <2> HIDE DEF a, added
  <2>2. a[N] \in Int
    BY <2>1 DEF Adds
  <2> QED BY <2>1, <2>2
<1>4. added[{}] = 0
  <2> DEFINE z == CHOOSE a : Adds(f, {}, a)
             nought == [n \in 0..N |-> 0]
  <2>1. Adds(f, {}, z)
    BY <1>2
  <2> HIDE DEF z
  <2>2. z \in [0..N -> Int] /\ z[0] = 0 /\ \A n \in 1..N : z[n] = z[n - 1] + 0
    BY <2>1 DEF Adds
  <2>3. ASSUME NEW n \in 1..N PROVE z[n] - z[n - 1] = nought[n] - nought[n - 1]
    <3>1. nought[n] = 0 /\ nought[n - 1] = 0 /\ n - 1 \in 0..N
      BY Count
    <3>2. z[n - 1] \in Int /\ z[n] = z[n - 1] + 0
      BY <2>2, <3>1
    <3> HIDE DEF nought
    <3> QED BY <3>1, <3>2
  <2>4. nought \in [0..N -> Int] /\ nought[0] = 0 /\ N \in Nat /\ nought[N] = 0
    BY Count
  <2> HIDE DEF nought, N
  <2>5. \A n \in 0..N : z[n] = nought[n]
    <3>1. z \in [0..N -> Int] /\ z[0] = nought[0]
      BY <2>2, <2>4
    <3> QED BY <2>3, <2>4, <3>1, StaysLevel
  <2>6. z[N] = 0
    BY <2>4, <2>5
  <2> QED BY <2>6 DEF z
<1>5. ASSUME NEW s \in SUBSET S, NEW x \in s PROVE added[s] = f[x] + added[s \ {x}]
  <2> DEFINE a == CHOOSE a : Adds(f, s, a)
             b == CHOOSE b : Adds(f, s \ {x}, b)
  <2>1. Adds(f, s, a) /\ Adds(f, s \ {x}, b) /\ s \in SUBSET Indices
    BY <1>2
  <2>2. added[s] = a[N] /\ added[s \ {x}] = b[N]
    OBVIOUS
  <2> HIDE DEF a, b, added
  <2>3. a[N] = f[x] + b[N]
    BY <2>1, AddsSplit
  <2> QED BY <2>2, <2>3
<1> HIDE DEF added, N
<1>6. P(added)
  <2>1. \A s \in SUBSET S : s # {} => (CHOOSE y \in s : TRUE) \in s
    OBVIOUS
  <2>2. \A s \in SUBSET S :
          added[s] = IF s = {} THEN 0 ELSE LET x == CHOOSE y \in s : TRUE IN f[x] + added[s \ {x}]
    BY <1>4, <1>5, <2>1
  <2>3. added = [s \in SUBSET S |-> added[s]]
    BY DEF added
  <2> QED BY <2>2, <2>3
<1>7. P(it)
  <2> HIDE DEF P
  <2> QED BY <1>6
<1>8. IsFiniteSet(S) /\ \A s \in SUBSET S : IsFiniteSet(s)
  <2>1. IsFiniteSet(Indices)
    BY Count, FS_Interval DEF Indices
  <2> QED BY <2>1, FS_Subset
<1> DEFINE bad == {n \in Nat : \E s \in SUBSET S : Cardinality(s) = n /\ it[s] # added[s]}
<1>9. ASSUME bad # {} PROVE FALSE
  <2>1. PICK n \in bad : \A m \in bad : n <= m
    <3>1. bad \subseteq Nat
      OBVIOUS
    <3> HIDE DEF bad
    <3> QED BY <1>9, <3>1, LeastNumber
  <2>2. PICK s \in SUBSET S : Cardinality(s) = n /\ it[s] # added[s]
    OBVIOUS
  <2> HIDE DEF it
  <2>3. it[s] = IF s = {} THEN 0 ELSE LET x == CHOOSE y \in s : TRUE IN f[x] + it[s \ {x}]
    BY <1>7
  <2>4. s # {}
    BY <1>4, <2>2, <2>3
  <2> DEFINE x == CHOOSE y \in s : TRUE
  <2>5. x \in s
    BY <2>4
  <2>6. it[s] = f[x] + it[s \ {x}]
    BY <2>3, <2>4
  <2> HIDE DEF x
  <2>7. Cardinality(s \ {x}) = n - 1 /\ n - 1 \in Nat
    <3>1. IsFiniteSet(s) /\ IsFiniteSet(s \ {x}) /\ Cardinality(s \ {x}) = Cardinality(s) - 1
      BY <1>8, <2>5, FS_RemoveElement
    <3>2. Cardinality(s \ {x}) \in Nat
      BY <3>1, FS_CardinalityType
    <3> QED BY <2>2, <3>1, <3>2
  <2>8. n - 1 \notin bad
    BY <2>1, <2>7
  <2>9. it[s \ {x}] = added[s \ {x}]
    BY <2>7, <2>8
  <2> QED BY <1>5, <2>2, <2>5, <2>6, <2>9
<1>10. it[S] = added[S]
  <2>1. Cardinality(S) \in Nat
    BY <1>8, FS_CardinalityType
  <2> QED BY <1>9, <2>1
<1>11. added[S] = g[N]
  <2>1. added[S] = (CHOOSE a : Adds(f, S, a))[N] /\ Adds(f, S, CHOOSE a : Adds(f, S, a))
    BY <1>2 DEF added
  <2>2. \A a : Adds(f, S, a) => a[N] = g[N]
    <3> SUFFICES ASSUME NEW a, Adds(f, S, a) PROVE a[N] = g[N]
      OBVIOUS
    <3>1. /\ a \in [0..N -> Int] /\ g \in [0..N -> Int] /\ a[0] = g[0] /\ N \in Nat
          /\ \A n \in 1..N : a[n] - a[n - 1] = g[n] - g[n - 1]
      <4>1. a \in [0..N -> Int] /\ g \in [0..N -> Int] /\ a[0] = g[0] /\ N \in Nat
        BY Count DEF Adds, N
      <4>2. ASSUME NEW n \in 1..N PROVE a[n] - a[n - 1] = g[n] - g[n - 1]
        <5> DEFINE part == IF n - 1 \in S THEN f[n - 1] ELSE 0
        <5>1. part \in Int
          <6>1. n - 1 \in Indices
            BY Count DEF Indices, N
          <6> QED BY <6>1
        <5>2. a[n] = a[n - 1] + part /\ g[n] = g[n - 1] + part
          BY DEF Adds, N
        <5>3. a[n - 1] \in Int /\ g[n - 1] \in Int
          BY <4>1
        <5> HIDE DEF part
        <5> QED BY <5>1, <5>2, <5>3
      <4> QED BY <4>1, <4>2
    <3>2. \A n \in 0..N : a[n] = g[n]
      BY <3>1, StaysLevel
    <3> QED BY <3>1, <3>2
  <2> QED BY <2>1, <2>2
<1> QED BY <1>1, <1>3, <1>10, <1>11 DEF N

Total(f) == SumFunctionOnSet(f, Indices)
Within(f, S) == [i \in Indices |-> IF i \in S THEN f[i] ELSE 0]

\* The running total of f.
Runs(f, g) ==
  /\ g \in [0..GridCount + 1 -> Int] /\ g[0] = 0
  /\ \A n \in 1..GridCount + 1 : g[n] = g[n - 1] + f[n - 1] /\ f[n - 1] \in Int

\* A sum over the slots is where its running sum arrives.
LEMMA TotalIsReached ==
  ASSUME NEW f \in [Indices -> Int]
  PROVE  \E g : Runs(f, g) /\ Total(f) = g[GridCount + 1]
<1>1. PICK g : Adds(f, Indices, g)
  <2>1. Indices \in SUBSET Indices
    OBVIOUS
  <2> QED BY <2>1, AddsExist
<1>2. Total(f) = g[GridCount + 1]
  <2>1. Indices \in SUBSET Indices
    OBVIOUS
  <2> QED BY <1>1, <2>1, SumIsAdded DEF Total
<1>3. \A n \in 1..GridCount + 1 : n - 1 \in Indices /\ f[n - 1] \in Int
  BY Count DEF Indices
<1>4. Runs(f, g)
  BY <1>1, <1>3 DEF Adds, Runs
<1> QED BY <1>2, <1>4

\* A sum of integers is one.
LEMMA TotalIsInt == \A f \in [Indices -> Int] : Total(f) \in Int
<1> SUFFICES ASSUME NEW f \in [Indices -> Int] PROVE Total(f) \in Int
  OBVIOUS
<1>1. PICK g : Runs(f, g) /\ Total(f) = g[GridCount + 1]
  BY TotalIsReached
<1>2. GridCount + 1 \in 0..GridCount + 1
  BY Count
<1> QED BY <1>1, <1>2 DEF Runs

\* A sum over some of the slots is the whole sum of what is zero elsewhere.
LEMMA PartIsTotal ==
  ASSUME NEW f \in [Indices -> Int], NEW S \in SUBSET Indices
  PROVE  /\ Within(f, S) \in [Indices -> Int]
         /\ SumFunctionOnSet(f, S) = Total(Within(f, S))
<1>1. Within(f, S) \in [Indices -> Int]
  BY DEF Within
<1>2. PICK g : Adds(f, S, g)
  BY AddsExist
<1>3. Adds(Within(f, S), Indices, g)
  <2>1. \A n \in 1..GridCount + 1 : n - 1 \in Indices
    BY Count DEF Indices
  <2>2. \A i \in Indices : Within(f, S)[i] = IF i \in S THEN f[i] ELSE 0
    BY DEF Within
  <2> QED BY <1>2, <2>1, <2>2 DEF Adds
<1>4. SumFunctionOnSet(f, S) = g[GridCount + 1]
  BY <1>2, SumIsAdded
<1>5. Total(Within(f, S)) = g[GridCount + 1]
  <2>1. Indices \in SUBSET Indices
    OBVIOUS
  <2> QED BY <1>1, <1>3, <2>1, SumIsAdded DEF Total
<1> QED BY <1>1, <1>4, <1>5

\* A total of larger values is larger.
LEMMA TotalGrows ==
  ASSUME NEW f \in [Indices -> Int], NEW g \in [Indices -> Int], \A i \in Indices : f[i] <= g[i]
  PROVE  Total(f) <= Total(g)
<1>1. PICK a : Runs(f, a) /\ Total(f) = a[GridCount + 1]
  BY TotalIsReached
<1>2. PICK b : Runs(g, b) /\ Total(g) = b[GridCount + 1]
  BY TotalIsReached
<1> DEFINE N == GridCount + 1
<1>3. N \in Nat /\ a \in [0..N -> Int] /\ b \in [0..N -> Int] /\ a[0] <= b[0]
  BY <1>1, <1>2, Count DEF Runs
<1>4. ASSUME NEW n \in 1..N PROVE a[n] - a[n - 1] <= b[n] - b[n - 1]
  <2>1. n - 1 \in Indices /\ n - 1 \in 0..N
    BY Count DEF Indices
  <2>2. f[n - 1] <= g[n - 1] /\ f[n - 1] \in Int /\ g[n - 1] \in Int /\ a[n - 1] \in Int /\ b[n - 1] \in Int
    BY <1>3, <2>1
  <2>3. a[n] = a[n - 1] + f[n - 1] /\ b[n] = b[n - 1] + g[n - 1]
    BY <1>1, <1>2 DEF Runs
  <2> QED BY <2>2, <2>3
<1> HIDE DEF N
<1>5. \A n \in 0..N : a[n] <= b[n]
  BY <1>3, <1>4, StaysAhead
<1>6. a[N] <= b[N]
  BY <1>3, <1>5
<1> QED BY <1>1, <1>2, <1>6 DEF N

\* What agrees slot by slot has one sum.
LEMMA TotalOfEqual ==
  ASSUME NEW f \in [Indices -> Int], NEW g \in [Indices -> Int], \A i \in Indices : f[i] = g[i]
  PROVE  Total(f) = Total(g)
<1>1. f = g
  OBVIOUS
<1> QED BY <1>1

\* Sums add up.
LEMMA TotalOfSums ==
  ASSUME NEW f \in [Indices -> Int], NEW g \in [Indices -> Int], NEW h \in [Indices -> Int],
         \A i \in Indices : h[i] = f[i] + g[i]
  PROVE  Total(h) = Total(f) + Total(g)
<1>1. PICK a : Runs(f, a) /\ Total(f) = a[GridCount + 1]
  BY TotalIsReached
<1>2. PICK b : Runs(g, b) /\ Total(g) = b[GridCount + 1]
  BY TotalIsReached
<1>3. PICK c : Runs(h, c) /\ Total(h) = c[GridCount + 1]
  BY TotalIsReached
<1> DEFINE N == GridCount + 1
           s == [n \in 0..N |-> a[n] + b[n]]
<1>4. N \in Nat /\ N \in 0..N
  BY Count
<1>5. /\ a \in [0..N -> Int] /\ b \in [0..N -> Int] /\ c \in [0..N -> Int]
      /\ a[0] = 0 /\ b[0] = 0 /\ c[0] = 0
  BY <1>1, <1>2, <1>3 DEF Runs
<1>6. s \in [0..N -> Int] /\ \A n \in 0..N : s[n] = a[n] + b[n]
  BY <1>5
<1> HIDE DEF s
<1>7. c[0] = s[0]
  BY <1>4, <1>5, <1>6
<1>8. ASSUME NEW n \in 1..N PROVE c[n] - c[n - 1] = s[n] - s[n - 1]
  <2>1. n - 1 \in Indices /\ n - 1 \in 0..N /\ n \in 0..N
    BY Count DEF Indices
  <2>2. /\ f[n - 1] \in Int /\ g[n - 1] \in Int /\ h[n - 1] = f[n - 1] + g[n - 1]
        /\ a[n - 1] \in Int /\ b[n - 1] \in Int /\ c[n - 1] \in Int
    BY <1>5, <2>1
  <2>3. a[n] = a[n - 1] + f[n - 1] /\ b[n] = b[n - 1] + g[n - 1] /\ c[n] = c[n - 1] + h[n - 1]
    BY <1>1, <1>2, <1>3 DEF Runs
  <2>4. s[n] = a[n] + b[n] /\ s[n - 1] = a[n - 1] + b[n - 1]
    BY <1>6, <2>1
  <2> QED BY <2>2, <2>3, <2>4
<1> HIDE DEF N
<1>9. \A n \in 0..N : c[n] = s[n]
  BY <1>4, <1>5, <1>6, <1>7, <1>8, StaysLevel
<1>10. c[N] = a[N] + b[N]
  BY <1>4, <1>6, <1>9
<1> QED BY <1>1, <1>2, <1>3, <1>10 DEF N

\* Multiplication over addition, as the provers are given it.
LEMMA Distributes == \A k, x, y \in Int : k * (x + y) = k * x + k * y /\ k * x \in Int /\ k * 0 = 0
  OBVIOUS

\* A common factor is taken out of a sum.
LEMMA TotalScales ==
  ASSUME NEW k \in Int, NEW f \in [Indices -> Int], NEW h \in [Indices -> Int],
         \A i \in Indices : h[i] = k * f[i]
  PROVE  Total(h) = k * Total(f)
<1>1. PICK a : Runs(f, a) /\ Total(f) = a[GridCount + 1]
  BY TotalIsReached
<1>2. PICK c : Runs(h, c) /\ Total(h) = c[GridCount + 1]
  BY TotalIsReached
<1> DEFINE N == GridCount + 1
           s == [n \in 0..N |-> k * a[n]]
<1>3. N \in Nat /\ N \in 0..N
  BY Count
<1>4. a \in [0..N -> Int] /\ c \in [0..N -> Int] /\ a[0] = 0 /\ c[0] = 0
  BY <1>1, <1>2 DEF Runs
<1>5. s \in [0..N -> Int] /\ \A n \in 0..N : s[n] = k * a[n]
  BY <1>4
<1> HIDE DEF s
<1>6. c[0] = s[0]
  BY <1>3, <1>4, <1>5
<1>7. ASSUME NEW n \in 1..N PROVE c[n] - c[n - 1] = s[n] - s[n - 1]
  <2>1. n - 1 \in Indices /\ n - 1 \in 0..N /\ n \in 0..N
    BY Count DEF Indices
  <2>2. f[n - 1] \in Int /\ h[n - 1] = k * f[n - 1] /\ a[n - 1] \in Int /\ c[n - 1] \in Int
    BY <1>4, <2>1
  <2>3. a[n] = a[n - 1] + f[n - 1] /\ c[n] = c[n - 1] + h[n - 1]
    BY <1>1, <1>2 DEF Runs
  <2>4. s[n] = k * a[n] /\ s[n - 1] = k * a[n - 1]
    BY <1>5, <2>1
  <2>5. /\ k * (a[n - 1] + f[n - 1]) = k * a[n - 1] + k * f[n - 1]
        /\ k * a[n - 1] \in Int /\ k * f[n - 1] \in Int
    BY <2>2, Distributes
  <2> DEFINE x == k * a[n - 1]
             y == k * f[n - 1]
  <2>6. s[n] = x + y /\ s[n - 1] = x /\ c[n] = c[n - 1] + y /\ x \in Int /\ y \in Int
    BY <2>2, <2>3, <2>4, <2>5
  <2> HIDE DEF x, y
  <2> QED BY <2>2, <2>6
<1> HIDE DEF N
<1>8. \A n \in 0..N : c[n] = s[n]
  BY <1>3, <1>4, <1>5, <1>6, <1>7, StaysLevel
<1>9. c[N] = k * a[N]
  BY <1>3, <1>5, <1>8
<1> QED BY <1>1, <1>2, <1>9 DEF N

\* Moved by one level, it is the same total.
LEMMA TotalShifts ==
  ASSUME NEW f \in [Indices -> Int], NEW h \in [Indices -> Int], f[0] = 0, h[GridCount] = 0,
         \A i \in 0..GridCount - 1 : h[i] = f[i + 1]
  PROVE  Total(h) = Total(f)
<1>1. PICK a : Runs(f, a) /\ Total(f) = a[GridCount + 1]
  BY TotalIsReached
<1>2. PICK c : Runs(h, c) /\ Total(h) = c[GridCount + 1]
  BY TotalIsReached
<1> DEFINE N == GridCount
           s == [n \in 0..N |-> a[n + 1]]
           d == [n \in 0..N |-> c[n]]
<1>3. N \in Nat /\ N > 0
  BY Count
<1>4. /\ a \in [0..N + 1 -> Int] /\ c \in [0..N + 1 -> Int] /\ a[0] = 0 /\ c[0] = 0
      /\ \A n \in 1..N + 1 : a[n] = a[n - 1] + f[n - 1]
      /\ \A n \in 1..N + 1 : c[n] = c[n - 1] + h[n - 1]
  BY <1>1, <1>2 DEF Runs
<1>5. s \in [0..N -> Int] /\ \A n \in 0..N : s[n] = a[n + 1]
  BY <1>3, <1>4
<1>6. d \in [0..N -> Int] /\ \A n \in 0..N : d[n] = c[n]
  BY <1>3, <1>4
<1> HIDE DEF s, d
<1>7. d[0] = s[0]
  <2>1. a[1] = a[1 - 1] + f[1 - 1]
    BY <1>3, <1>4
  <2>2. a[1] = 0
    BY <1>4, <2>1
  <2> QED BY <1>3, <1>4, <1>5, <1>6, <2>2
<1>8. ASSUME NEW n \in 1..N PROVE d[n] - d[n - 1] = s[n] - s[n - 1]
  <2>1. n - 1 \in 0..N /\ n \in 0..N /\ n - 1 \in 0..N - 1 /\ n + 1 \in 1..N + 1 /\ n \in 1..N + 1
    BY <1>3
  <2>2. h[n - 1] = f[n - 1 + 1] /\ n - 1 + 1 = n /\ n + 1 - 1 = n
    BY <2>1
  <2>3. c[n] = c[n - 1] + h[n - 1] /\ a[n + 1] = a[n + 1 - 1] + f[n + 1 - 1]
    BY <1>4, <2>1
  <2>4. s[n] = a[n + 1] /\ s[n - 1] = a[n - 1 + 1] /\ d[n] = c[n] /\ d[n - 1] = c[n - 1]
    BY <1>5, <1>6, <2>1
  <2>5. a[n] \in Int /\ c[n - 1] \in Int /\ f[n] \in Int
    <3>1. n \in Indices
      BY <1>3 DEF Indices
    <3>2. n \in 0..N + 1 /\ n - 1 \in 0..N + 1
      BY <1>3
    <3> QED BY <1>4, <3>1, <3>2
  <2>6. s[n] = a[n] + f[n] /\ s[n - 1] = a[n] /\ d[n] = c[n - 1] + f[n] /\ d[n - 1] = c[n - 1]
    BY <2>2, <2>3, <2>4
  <2> QED BY ONLY <2>5, <2>6
<1>9. \A n \in 0..N : d[n] = s[n]
  <2> HIDE DEF N
  <2> QED BY ONLY <1>3, <1>5, <1>6, <1>7, <1>8, StaysLevel
<1>10. c[N + 1] = c[N] + 0 /\ c[N] = a[N + 1]
  <2>1. c[N + 1] = c[N + 1 - 1] + h[N + 1 - 1] /\ N + 1 - 1 = N /\ N \in 0..N
    BY <1>3, <1>4
  <2> QED BY <1>5, <1>6, <1>9, <2>1
<1>11. c[N] \in Int
  BY <1>3, <1>4
<1> QED BY <1>1, <1>2, <1>10, <1>11

\* Ones are counted.
LEMMA TotalOfOnes ==
  ASSUME NEW S \in SUBSET Indices
  PROVE  /\ Total(Within([i \in Indices |-> 1], S)) = Cardinality(S)
         /\ Cardinality(S) \in Nat
<1> DEFINE one == [i \in Indices |-> 1]
           f == Within(one, S)
           N == GridCount + 1
           upto(n) == {i \in S : i < n}
           s == [n \in 0..N |-> Cardinality(upto(n))]
<1>1. f \in [Indices -> Int] /\ \A i \in Indices : f[i] = IF i \in S THEN 1 ELSE 0
  BY DEF Within
<1>2. PICK a : Runs(f, a) /\ Total(f) = a[N]
  BY <1>1, TotalIsReached
<1>3. N \in Nat /\ N \in 0..N /\ N > 0
  BY Count
<1>4. IsFiniteSet(S)
  <2>1. IsFiniteSet(Indices)
    BY Count, FS_Interval DEF Indices
  <2> QED BY <2>1, FS_Subset
<1>5. \A n \in 0..N : IsFiniteSet(upto(n)) /\ Cardinality(upto(n)) \in Nat
  <2>1. \A n \in 0..N : upto(n) \in SUBSET S
    OBVIOUS
  <2> QED BY <1>4, <2>1, FS_Subset, FS_CardinalityType
<1>6. a \in [0..N -> Int] /\ a[0] = 0 /\ \A n \in 1..N : a[n] = a[n - 1] + f[n - 1]
  BY <1>2 DEF Runs
<1>7. \A i \in S : i \in Int /\ 0 <= i /\ i < N
  BY Count DEF Indices
<1>8. upto(0) = {} /\ upto(N) = S
  BY <1>7
<1>9. ASSUME NEW n \in 1..N
      PROVE  upto(n) = IF n - 1 \in S THEN upto(n - 1) \union {n - 1} ELSE upto(n - 1)
  <2>1. n \in Int
    OBVIOUS
  <2>2. \A i \in S : i < n <=> i < n - 1 \/ i = n - 1
    BY <1>7, <2>1
  <2>3. CASE n - 1 \in S
    BY <2>1, <2>2, <2>3
  <2>4. CASE n - 1 \notin S
    BY <2>2, <2>4
  <2> QED BY <2>3, <2>4
<1>10. \A n \in 1..N : n - 1 \notin upto(n - 1)
  OBVIOUS
<1>11. s \in [0..N -> Int] /\ \A n \in 0..N : s[n] = Cardinality(upto(n))
  BY <1>5
<1>12. \A n \in 1..N : n - 1 \in Indices
  BY Count DEF Indices
<1> HIDE DEF f, s, upto, N
<1>13. a[0] = s[0] /\ s[N] = Cardinality(S)
  <2>1. Cardinality({}) = 0
    BY FS_EmptySet
  <2>2. 0 \in 0..N
    BY <1>3
  <2>3. s[0] = Cardinality(upto(0)) /\ s[N] = Cardinality(upto(N))
    BY <1>3, <1>11, <2>2
  <2> QED BY <1>6, <1>8, <2>1, <2>3
<1>14. ASSUME NEW n \in 1..N PROVE a[n] - a[n - 1] = s[n] - s[n - 1]
  <2>1. n \in 0..N /\ n - 1 \in 0..N /\ n - 1 \in Indices
    BY <1>3, <1>12
  <2>2. a[n] = a[n - 1] + f[n - 1] /\ a[n - 1] \in Int /\ f[n - 1] = IF n - 1 \in S THEN 1 ELSE 0
    BY <1>1, <1>6, <2>1
  <2>3. s[n] = Cardinality(upto(n)) /\ s[n - 1] = Cardinality(upto(n - 1)) /\ s[n - 1] \in Int
    BY <1>11, <2>1
  <2>4. CASE n - 1 \in S
    <3>1. upto(n) = upto(n - 1) \union {n - 1} /\ n - 1 \notin upto(n - 1)
      BY <1>9, <1>10, <2>4
    <3>2. Cardinality(upto(n - 1) \union {n - 1}) = Cardinality(upto(n - 1)) + 1
      BY <1>5, <2>1, <3>1, FS_AddElement
    <3>3. s[n] = s[n - 1] + 1 /\ a[n] = a[n - 1] + 1
      BY <2>2, <2>3, <2>4, <3>1, <3>2
    <3> QED BY <2>2, <2>3, <3>3
  <2>5. CASE n - 1 \notin S
    <3>1. s[n] = s[n - 1] /\ a[n] = a[n - 1] + 0
      BY <1>9, <2>2, <2>3, <2>5
    <3> QED BY <2>2, <2>3, <3>1
  <2> QED BY <2>4, <2>5
<1>15. \A n \in 0..N : a[n] = s[n]
  BY <1>3, <1>6, <1>11, <1>13, <1>14, StaysLevel
<1>16. Total(f) = Cardinality(S)
  BY <1>2, <1>3, <1>13, <1>15
<1>17. Cardinality(S) \in Nat
  BY <1>4, FS_CardinalityType
<1> QED BY <1>16, <1>17 DEF f

---------------------------------------------------------------------------
(* The replay of a grid.                                                   *)

Slots == [Indices -> Int]
Sides == {1, -1}

LedgerFields == {"orders", "pending", "pos", "cash", "turn", "market", "prev", "peak",
                 "funding", "used", "stop", "liq", "bad"}
IsLedger(l) == l = [f \in LedgerFields |-> l[f]]

IsGridBot(b) == b.direction \in {"neutral", "long", "short"} /\ b.entry \in Lower .. Level(GridCount)

Good(l, b) ==
  /\ IsLedger(l) /\ l.orders \in Slots /\ l.pending \in Slots /\ l.pos \in Int /\ l.cash \in Int
  /\ BooksAreSound(l, b)

SameBooks(k, l) ==
  /\ IsLedger(k) /\ k.orders = l.orders /\ k.pending = l.pending
  /\ k.pos = l.pos /\ k.cash = l.cash

\* The library's sum over a function is the one over its domain.
LEMMA TotalOfAll == \A f \in Slots : SumFunction(f) = Total(f)
  BY DEF SumFunction, Total, Slots

\* A sum of what is not negative is not negative.
LEMMA TotalIsNotNegative ==
  ASSUME NEW f \in Slots, \A i \in Indices : f[i] >= 0
  PROVE  Total(f) >= 0
<1> DEFINE z == [i \in Indices |-> 0]
<1>1. z \in Slots /\ \A i \in Indices : z[i] = 0 * f[i] /\ z[i] <= f[i]
  BY DEF Slots
<1> HIDE DEF z
<1>2. Total(z) = 0 * Total(f) /\ Total(z) <= Total(f)
  BY <1>1, TotalScales, TotalGrows DEF Slots
<1>3. Total(f) \in Int
  BY TotalIsInt DEF Slots
<1> QED BY <1>2, <1>3

\* Moved by one level to either side.
LEMMA TotalMoves ==
  ASSUME NEW side \in Sides, NEW f \in Slots, NEW h \in Slots,
         side = 1 => f[0] = 0, side = -1 => f[GridCount] = 0,
         \A i \in Indices : h[i] = IF i + side \in Indices THEN f[i + side] ELSE 0
  PROVE  Total(h) = Total(f)
<1>1. CASE side = 1
  <2>1. h[GridCount] = 0
    BY <1>1, Count DEF Indices
  <2>2. \A i \in 0..GridCount - 1 : h[i] = f[i + 1]
    BY <1>1, Count DEF Indices
  <2> QED BY <1>1, <2>1, <2>2, TotalShifts DEF Slots
<1>2. CASE side = -1
  <2>1. h[0] = 0
    BY <1>2, Count DEF Indices
  <2>2. ASSUME NEW i \in 0..GridCount - 1 PROVE f[i] = h[i + 1]
    <3>1. i + 1 \in Indices /\ i + 1 + side = i /\ i \in Indices
      BY <1>2, Count DEF Indices
    <3> QED BY <3>1
  <2> QED BY <1>2, <2>1, <2>2, TotalShifts DEF Slots
<1> QED BY <1>1, <1>2 DEF Sides

\* Products of integers, as the provers are given them.
LEMMA Multiples ==
  \A m, n \in Int : m * n \in Int /\ (m >= 0 /\ n >= 0 => m * n >= 0)
                    /\ (\A k \in Int : m >= 0 /\ k <= n => m * k <= m * n)
                    /\ m * (n + 1) = m * n + m /\ m * 0 = 0
  OBVIOUS

\* The levels rise from Lower by Step.
LEMMA LevelsRise ==
  /\ \A i \in Indices : Level(i) \in Int /\ Lower <= Level(i) /\ Level(i) <= Level(GridCount)
  /\ \A i \in 0..GridCount - 1 : i \in Indices /\ i + 1 \in Indices /\ Level(i + 1) = Level(i) + Step
  /\ Level(0) = Lower
<1>1. Step \in Int /\ Step >= 0 /\ Lower \in Int /\ GridCount \in Int
  BY Count
<1>2. ASSUME NEW i \in Indices PROVE Level(i) \in Int /\ Lower <= Level(i) /\ Level(i) <= Level(GridCount)
  <2>1. i \in Int /\ 0 <= i /\ i <= GridCount
    BY Count DEF Indices
  <2>2. Step * i \in Int /\ Step * i >= 0 /\ Step * i <= Step * GridCount /\ Step * GridCount \in Int
    BY <1>1, <2>1, Multiples
  <2> DEFINE x == Step * i
             y == Step * GridCount
  <2>3. Level(i) = Lower + x /\ Level(GridCount) = Lower + y
    BY DEF Level
  <2> HIDE DEF x, y
  <2> QED BY <1>1, <2>2, <2>3 DEF x, y
<1>3. ASSUME NEW i \in 0..GridCount - 1
      PROVE  i \in Indices /\ i + 1 \in Indices /\ Level(i + 1) = Level(i) + Step
  <2>1. i \in Int /\ i \in Indices /\ i + 1 \in Indices
    BY Count DEF Indices
  <2>2. Step * (i + 1) = Step * i + Step /\ Step * i \in Int
    BY <1>1, <2>1, Multiples
  <2> DEFINE x == Step * i
  <2>3. Level(i) = Lower + x /\ Level(i + 1) = Lower + (x + Step) /\ x \in Int
    BY <2>2 DEF Level
  <2> HIDE DEF x
  <2> QED BY <1>1, <2>1, <2>3
<1>4. Level(0) = Lower
  BY <1>1, Multiples DEF Level
<1> QED BY <1>2, <1>3, <1>4

\* What integer division yields.
LEMMA DividesRight ==
  \A m \in Nat, n \in Nat \ {0} :
    m \div n \in Nat /\ n * (m \div n) <= m /\ m < n * (m \div n) + n
  OBVIOUS

\* The orders a bot opens with lie on their side of its entry, and inside the grid.
LEMMA OpeningLies ==
  ASSUME NEW b, IsGridBot(b)
  PROVE  LET buys  == BuyIndices(b.direction, b.entry)
             sells == SellIndices(b.direction, b.entry)
         IN  /\ buys \in SUBSET Indices /\ sells \in SUBSET Indices /\ buys \intersect sells = {}
             /\ GridCount \notin buys /\ 0 \notin sells
             /\ \A i \in buys : Level(i) <= b.entry
             /\ \A i \in sells : Level(i) >= b.entry
<1> DEFINE e == b.entry
           d == b.direction
           c == Cell(e)
<1>1. e \in Int /\ Lower <= e /\ e <= Level(GridCount) /\ \A i \in Indices : i \in Int
  <2>1. Level(GridCount) \in Int /\ Lower \in Int
    BY LevelsRise, Count DEF Indices
  <2> QED BY <2>1, Count DEF IsGridBot, Indices
<1>2. CASE OnLine(e)
  <2>1. /\ BuyIndices(d, e) = {i \in Indices : Level(i) < e}
        /\ SellIndices(d, e) = {i \in Indices : Level(i) > e}
    BY <1>2 DEF BuyIndices, SellIndices
  <2>2. \A i \in Indices : Level(i) \in Int
    BY LevelsRise
  <2>3. Level(0) = Lower /\ Lower \in Int /\ Level(GridCount) \in Int
    BY LevelsRise, Count DEF Indices
  <2> HIDE DEF e, d
  <2> QED BY <1>1, <2>1, <2>2, <2>3 DEF e, d
<1>3. CASE ~ OnLine(e)
  <2> DEFINE t == c + (IF d = "short" THEN 0 ELSE 1)
  <2>1. BuyIndices(d, e) = {i \in Indices : i < t} /\ SellIndices(d, e) = {i \in Indices : i > t}
    BY <1>3 DEF BuyIndices, SellIndices
  <2>2. c \in Nat /\ Step * c \in Int /\ Step * c <= e - Lower /\ e - Lower < Step * c + Step
    <3>1. e - Lower \in Nat /\ Step \in Nat \ {0} /\ c = (e - Lower) \div Step
      BY <1>1, Count DEF Cell
    <3> HIDE DEF c, e
    <3>2. c \in Nat /\ Step * c <= e - Lower /\ e - Lower < Step * c + Step
      BY <3>1, DividesRight
    <3> QED BY <3>1, <3>2, Multiples
  <2> HIDE DEF c
  <2>3. c < GridCount
    <3>1. CASE c >= GridCount
      <4>1. Step * GridCount <= Step * c /\ Step * GridCount \in Int
        BY <2>2, <3>1, Count, Multiples
      <4> DEFINE x == Step * c
                 y == Step * GridCount
      <4>2. Level(GridCount) = Lower + y
        BY DEF Level
      <4> HIDE DEF x, y
      <4>3. e = Level(GridCount)
        BY <1>1, <2>2, <4>1, <4>2, Count DEF x, y
      <4> QED BY <1>3, <4>3, Count DEF OnLine, Indices
    <3> QED BY <2>2, <3>1, Count
  <2>4. ASSUME NEW i \in Indices, i <= c PROVE Level(i) <= e
    <3>1. Step * i <= Step * c /\ Step * i \in Int
      BY <1>1, <2>2, <2>4, Count, Multiples
    <3> DEFINE x == Step * c
               y == Step * i
    <3>2. Level(i) = Lower + y
      BY DEF Level
    <3> HIDE DEF x, y, e
    <3> QED BY <1>1, <2>2, <3>1, <3>2, Count DEF x, y
  <2>5. ASSUME NEW i \in Indices, i > c PROVE Level(i) >= e
    <3>1. Step * (c + 1) <= Step * i /\ Step * i \in Int /\ Step * (c + 1) = Step * c + Step
      <4>1. c + 1 <= i
        BY <1>1, <2>2, <2>5
      <4> QED BY <1>1, <2>2, <4>1, Count, Multiples
    <3> DEFINE x == Step * c
               y == Step * i
    <3>2. Level(i) = Lower + y /\ x + Step <= y
      BY <3>1 DEF Level
    <3> HIDE DEF x, y, e
    <3> QED BY <1>1, <2>2, <3>1, <3>2, Count DEF x, y
  <2>6. t \in Int /\ (t = c \/ t = c + 1)
    BY <2>2
  <2> HIDE DEF t, e, d
  <2>7. /\ BuyIndices(d, e) \in SUBSET Indices /\ SellIndices(d, e) \in SUBSET Indices
        /\ BuyIndices(d, e) \intersect SellIndices(d, e) = {}
    BY <1>1, <2>1, <2>6
  <2>8. GridCount \notin BuyIndices(d, e) /\ 0 \notin SellIndices(d, e)
    BY <2>1, <2>2, <2>3, <2>6, Count
  <2>9. \A i \in BuyIndices(d, e) : i \in Indices /\ i <= c
    BY <1>1, <2>1, <2>2, <2>6
  <2>10. \A i \in SellIndices(d, e) : i \in Indices /\ i > c
    BY <1>1, <2>1, <2>2, <2>6
  <2> QED BY <2>4, <2>5, <2>7, <2>8, <2>9, <2>10 DEF e, d
<1> QED BY <1>2, <1>3

\* The loss of a slot at the kill switch.
LEMMA LossesAreTyped ==
  ASSUME NEW s \in Sides
  PROVE  /\ LossAt(s) \in Slots /\ KillSwitch(s) \in Int
         /\ \A i \in Indices : LossAt(s)[i] = s * (Level(i) - KillSwitch(s)) /\ LossAt(s)[i] >= 0
<1>1. KsLower \in Int /\ KsUpper \in Int /\ KsLower < Lower /\ KsUpper > Level(GridCount)
  BY GridAssumption DEF Level
<1>2. \A i \in Indices : Level(i) \in Int /\ Lower <= Level(i) /\ Level(i) <= Level(GridCount)
  BY LevelsRise
<1>3. Level(GridCount) \in Int /\ Lower \in Int
  BY <1>2, Count DEF Indices
<1>4. CASE s = 1
  BY <1>1, <1>2, <1>3, <1>4 DEF LossAt, KillSwitch, LossAtLower, Slots
<1>5. CASE s = -1
  BY <1>1, <1>2, <1>3, <1>5 DEF LossAt, KillSwitch, LossAtUpper, Slots
<1> QED BY <1>4, <1>5 DEF Sides

\* A bot's opening is made of integers.
LEMMA InitialIsInt ==
  ASSUME NEW b, IsGridBot(b)
  PROVE  /\ InitialPosition(b.direction, b.entry) \in Int
         /\ b.entry \in Int
         /\ \A s \in Sides : /\ OpeningOrders(s, b) \in SUBSET Indices
                             /\ Cardinality(OpeningOrders(s, b)) \in Nat
<1>1. BuyIndices(b.direction, b.entry) \in SUBSET Indices /\ SellIndices(b.direction, b.entry) \in SUBSET Indices
  BY OpeningLies
<1>2. /\ Cardinality(BuyIndices(b.direction, b.entry)) \in Nat
      /\ Cardinality(SellIndices(b.direction, b.entry)) \in Nat
  BY <1>1, TotalOfOnes
<1>3. InitialPosition(b.direction, b.entry) \in Int
  BY <1>2 DEF InitialPosition
<1>4. b.entry \in Int
  <2>1. Level(GridCount) \in Int /\ Lower \in Int
    BY LevelsRise, Count DEF Indices
  <2> QED BY <2>1 DEF IsGridBot
<1> QED BY <1>1, <1>2, <1>3, <1>4 DEF OpeningOrders, Sides

\* What rests on one side of the grid is what has its sign.
LEMMA HighestOf ==
  ASSUME NEW s \in Sides, NEW x \in Int
  PROVE  /\ s * x \in Int /\ Highest(s * x, 0) \in Int /\ Highest(s * x, 0) >= 0
         /\ Highest(s * x, 0) = IF s * x > 0 THEN s * x ELSE 0
<1>1. CASE s = 1
  BY <1>1 DEF Highest
<1>2. CASE s = -1
  BY <1>2 DEF Highest
<1> QED BY <1>1, <1>2 DEF Sides

\* The slots on order of one side.
LEMMA RestingIsTyped ==
  ASSUME NEW l, l.orders \in Slots, l.pending \in Slots, NEW s \in Sides
  PROVE  Resting(l, s) \in Slots /\ \A i \in Indices : Resting(l, s)[i] >= 0
<1>1. \A i \in Indices : l.orders[i] \in Int /\ l.pending[i] \in Int
  BY DEF Slots
<1>2. ASSUME NEW i \in Indices
      PROVE  /\ Highest(s * l.orders[i], 0) \in Int /\ Highest(s * l.orders[i], 0) >= 0
             /\ Highest(s * l.pending[i], 0) \in Int /\ Highest(s * l.pending[i], 0) >= 0
  <2>1. l.orders[i] \in Int /\ l.pending[i] \in Int
    BY <1>1
  <2> QED BY <2>1, HighestOf
<1> QED BY <1>2 DEF Resting, Slots

\* Steps that leave orders, position and cash alone.
LEMMA BooksUntouched ==
  ASSUME NEW b, NEW l, Good(l, b), NEW k, SameBooks(k, l)
  PROVE  Good(k, b)
<1>1. \A s : Resting(k, s) = Resting(l, s)
  BY DEF Resting, SameBooks
<1>2. \A s \in Sides : SlotsAddUp(k, s, b) /\ LossIsCovered(k, s, b)
  BY <1>1 DEF Good, BooksAreSound, SlotsAddUp, LossIsCovered, SameBooks, Sides
<1> QED BY <1>2 DEF Good, BooksAreSound, EndsHold, SameBooks, Sides

\* The books are sound when a bot opens.
LEMMA OpeningIsGood ==
  ASSUME NEW b, IsGridBot(b)
  PROVE  Good(Opening(b.direction, b.entry), b)
<1> DEFINE d == b.direction
           e == b.entry
           l == Opening(d, e)
           p == InitialPosition(d, e)
           buys == BuyIndices(d, e)
           sells == SellIndices(d, e)
<1>1. /\ IsLedger(l) /\ l.pos = p /\ l.cash = -(p * e)
      /\ l.orders = [i \in Indices |-> IF i \in buys THEN 1 ELSE IF i \in sells THEN -1 ELSE 0]
      /\ l.pending = [i \in Indices |-> 0]
  BY DEF Opening, IsLedger, LedgerFields
<1>2. p \in Int /\ e \in Int /\ p * e \in Int
  BY InitialIsInt
<1>3. /\ buys \in SUBSET Indices /\ sells \in SUBSET Indices /\ buys \intersect sells = {}
      /\ GridCount \notin buys /\ 0 \notin sells
  BY OpeningLies
<1>4. \A s \in Sides : OpeningOrders(s, b) = IF s = 1 THEN buys ELSE sells
  BY DEF OpeningOrders
<1> HIDE DEF l, p, buys, sells, d, e
<1>5. l.orders \in Slots /\ l.pending \in Slots
  BY <1>1 DEF Slots
<1>6. EndsHold(l)
  BY <1>1, <1>3, Count DEF EndsHold, Indices
<1>7. ASSUME NEW s \in Sides
      PROVE  SlotsAddUp(l, s, b) /\ LossIsCovered(l, s, b)
  <2> DEFINE R == Resting(l, s)
             own == OpeningOrders(s, b)
             one == [i \in Indices |-> 1]
             K == KillSwitch(s)
  <2>1. own \in SUBSET Indices /\ R \in Slots /\ LossAt(s) \in Slots /\ K \in Int
    BY <1>5, InitialIsInt, RestingIsTyped, LossesAreTyped
  <2>2. \A i \in Indices : R[i] = IF i \in own THEN 1 ELSE 0
    <3>1. CASE s = 1
      BY <1>1, <1>3, <1>4, <3>1 DEF Resting, Highest
    <3>2. CASE s = -1
      BY <1>1, <1>3, <1>4, <3>2 DEF Resting, Highest
    <3> QED BY <3>1, <3>2 DEF Sides
  <2> HIDE DEF R, own
  <2>3. R = Within(one, own)
    BY <2>1, <2>2 DEF Within, Slots
  <2>4. SumFunction(R) = Cardinality(own)
    BY <2>1, <2>3, TotalOfAll, TotalOfOnes
  <2>5. SlotsAddUp(l, s, b)
    BY <1>1, <2>4 DEF SlotsAddUp, R, own, p, d, e
  <2> DEFINE E == [i \in Indices |-> R[i] * LossAt(s)[i]]
             X == SumFunctionOnSet(LossAt(s), own)
  <2>6. SumFunction(E) = X /\ X \in Int
    <3>1. \A i \in Indices : LossAt(s)[i] \in Int
      BY <2>1 DEF Slots
    <3>2. ASSUME NEW i \in Indices PROVE E[i] = IF i \in own THEN LossAt(s)[i] ELSE 0
      BY <2>2, <3>1
    <3>3. E = Within(LossAt(s), own)
      BY <3>2 DEF Within
    <3>4. Within(LossAt(s), own) \in Slots /\ X = Total(Within(LossAt(s), own))
      BY <2>1, PartIsTotal DEF Slots
    <3> HIDE DEF E, X
    <3>5. SumFunction(E) = X
      BY <3>3, <3>4, TotalOfAll
    <3> QED BY <3>3, <3>4, <3>5, TotalIsInt DEF Slots
  <2> HIDE DEF E, X, K
  <2>7. StressAt(s, b) = p * (e - K) + X
    BY DEF StressAt, X, own, p, d, e, K
  <2>8. p * (e - K) = p * e - p * K /\ p * K \in Int
    BY <1>2, <2>1
  <2>9. l.cash + l.pos * K >= SumFunction(E) - StressAt(s, b)
    <3> DEFINE x == p * e
               y == p * K
    <3>1. l.cash = -x /\ l.pos * K = y /\ StressAt(s, b) = x - y + X /\ SumFunction(E) = X
      BY <1>1, <2>6, <2>7, <2>8
    <3>2. x \in Int /\ y \in Int /\ X \in Int
      BY <1>2, <2>6, <2>8
    <3> HIDE DEF x, y
    <3> QED BY <3>1, <3>2
  <2>10. LossIsCovered(l, s, b)
    BY <2>9 DEF LossIsCovered, E, K, R
  <2> QED BY <2>5, <2>10
<1> QED BY <1>1, <1>2, <1>5, <1>6, <1>7 DEF Good, BooksAreSound, Sides, l, d, e

\* What rests together counts together.
LEMMA HighestAdds ==
  ASSUME NEW s \in Sides, NEW x \in Int, NEW y \in Int, ~ Opposed(x, y)
  PROVE  /\ Highest(s * (x + y), 0) = Highest(s * x, 0) + Highest(s * y, 0)
         /\ (x >= 0 /\ y >= 0) \/ (x <= 0 /\ y <= 0)
<1>1. (x >= 0 /\ y >= 0) \/ (x <= 0 /\ y <= 0)
  <2>1. \A m, n \in Int : m > 0 /\ n < 0 => m * n < 0 /\ n * m < 0
    OBVIOUS
  <2>2. CASE x > 0 /\ y < 0
    BY <2>1, <2>2 DEF Opposed
  <2>3. CASE x < 0 /\ y > 0
    BY <2>1, <2>3 DEF Opposed
  <2> QED BY <2>2, <2>3
<1>2. CASE s = 1
  BY <1>1, <1>2 DEF Highest
<1>3. CASE s = -1
  BY <1>1, <1>3 DEF Highest
<1> QED BY <1>1, <1>2, <1>3 DEF Sides

\* Replacements that begin to rest (activate_pending_orders) keep the books sound.
LEMMA ActivationIsGood ==
  ASSUME NEW b, NEW l, Good(l, b)
  PROVE  Good(Activate(l), b)
<1> DEFINE k == Activate(l)
           clash == \E i \in Indices : Opposed(l.orders[i], l.pending[i])
<1>1. IsLedger(l) /\ \A i \in Indices : l.orders[i] \in Int /\ l.pending[i] \in Int
  BY DEF Good, Slots
<1>2. CASE clash
  <2>1. k = Void(l)
    BY <1>2 DEF Activate
  <2> HIDE DEF k
  <2>2. SameBooks(k, l)
    BY <1>1, <2>1 DEF Void, IsLedger, LedgerFields, SameBooks
  <2> QED BY <2>2, BooksUntouched DEF k
<1>3. CASE ~ clash
  <2>1. k = [l EXCEPT !.orders  = [i \in Indices |-> l.orders[i] + l.pending[i]],
                      !.pending = [i \in Indices |-> 0]]
    BY <1>3 DEF Activate
  <2> HIDE DEF k
  <2>2. /\ IsLedger(k) /\ k.pos = l.pos /\ k.cash = l.cash
        /\ k.orders = [i \in Indices |-> l.orders[i] + l.pending[i]]
        /\ k.pending = [i \in Indices |-> 0]
    BY <1>1, <2>1 DEF IsLedger, LedgerFields
  <2>3. k.orders \in Slots /\ k.pending \in Slots
    BY <1>1, <2>2 DEF Slots
  <2>4. EndsHold(k)
    <3>1. 0 \in Indices /\ GridCount \in Indices
      BY Count DEF Indices
    <3>2. EndsHold(l)
      BY DEF Good, BooksAreSound
    <3> QED BY <1>1, <2>2, <3>1, <3>2 DEF EndsHold
  <2>5. ASSUME NEW s \in Sides PROVE Resting(k, s) = Resting(l, s)
    <3>1. ASSUME NEW i \in Indices
          PROVE  Highest(s * k.orders[i], 0) + Highest(s * k.pending[i], 0)
                   = Highest(s * l.orders[i], 0) + Highest(s * l.pending[i], 0)
      <4>1. Highest(s * (l.orders[i] + l.pending[i]), 0)
              = Highest(s * l.orders[i], 0) + Highest(s * l.pending[i], 0)
        BY <1>1, <1>3, HighestAdds
      <4>2. k.orders[i] = l.orders[i] + l.pending[i] /\ s * k.pending[i] = 0
        BY <2>2 DEF Sides
      <4>3. Highest(s * k.pending[i], 0) = 0
        BY <4>2 DEF Highest
      <4>4. Highest(s * k.orders[i], 0) \in Int
        <5>1. k.orders[i] \in Int
          BY <2>3 DEF Slots
        <5> QED BY <5>1, HighestOf
      <4> QED BY <4>1, <4>2, <4>3, <4>4
    <3> QED BY <3>1 DEF Resting
  <2>6. \A s \in Sides : SlotsAddUp(k, s, b) /\ LossIsCovered(k, s, b)
    BY <2>2, <2>5 DEF Good, BooksAreSound, SlotsAddUp, LossIsCovered, Sides
  <2> QED BY <2>2, <2>3, <2>4, <2>6 DEF Good, BooksAreSound, Sides, k
<1> QED BY <1>2, <1>3

\* A fill on one side of the grid, and its replacements one level towards the other.
FillsOf(l, side, filled) ==
  /\ side \in Sides /\ filled \in SUBSET Indices
  /\ \A i \in filled : side * l.orders[i] < 0

\* What the fill costs at the kill switch, slot by slot.
Cost(o, s) == [i \in Indices |-> (Level(i) - KillSwitch(s)) * o[i]]

\* What fills have cost, measured against closing at the kill switch.
LEMMA CostsAddUp ==
  ASSUME NEW o \in Slots, NEW s \in Sides, NEW filled \in SUBSET Indices
  PROVE  /\ Cost(o, s) \in Slots /\ Within(Cost(o, s), filled) \in Slots
         /\ SumFunctionOnSet(o, filled) \in Int /\ SumFunctionOnSet(Paid(o), filled) \in Int
         /\ Total(Within(Cost(o, s), filled))
              = SumFunctionOnSet(Paid(o), filled) - KillSwitch(s) * SumFunctionOnSet(o, filled)
<1> DEFINE K == KillSwitch(s)
           W(f) == Within(f, filled)
<1>1. K \in Int /\ \A i \in Indices : Level(i) \in Int /\ o[i] \in Int
  BY LossesAreTyped, LevelsRise DEF Slots
<1>2. \A i \in Indices :
        /\ o[i] * Level(i) \in Int /\ K * o[i] \in Int
        /\ (Level(i) - K) * o[i] \in Int /\ o[i] * Level(i) = (Level(i) - K) * o[i] + K * o[i]
  <2>1. \A x, y \in Int : /\ y * x \in Int /\ K * y \in Int /\ (x - K) * y \in Int
                          /\ y * x = (x - K) * y + K * y
    BY <1>1
  <2> QED BY <1>1, <2>1
<1>3. Cost(o, s) \in Slots /\ Paid(o) \in Slots
  BY <1>2 DEF Cost, Paid, Slots
<1>4. W(Cost(o, s)) \in Slots /\ W(Paid(o)) \in Slots /\ W(o) \in Slots
  BY <1>3, PartIsTotal DEF Slots
<1> DEFINE Ko == [i \in Indices |-> K * W(o)[i]]
<1>5. Ko \in Slots /\ \A i \in Indices : Ko[i] = K * W(o)[i]
  BY <1>1, <1>4 DEF Slots
<1>6. ASSUME NEW i \in Indices PROVE W(Paid(o))[i] = W(Cost(o, s))[i] + Ko[i]
  <2>1. CASE i \in filled
    BY <1>2, <1>5, <2>1 DEF Within, Paid, Cost
  <2>2. CASE i \notin filled
    BY <1>1, <1>5, <2>2 DEF Within
  <2> QED BY <2>1, <2>2
<1> HIDE DEF Ko, W
<1>7. Total(W(Paid(o))) = Total(W(Cost(o, s))) + Total(Ko)
  BY <1>4, <1>5, <1>6, TotalOfSums DEF Slots
<1>8. Total(Ko) = K * Total(W(o))
  BY <1>1, <1>4, <1>5, TotalScales DEF Slots
<1>9. /\ SumFunctionOnSet(o, filled) = Total(W(o)) /\ SumFunctionOnSet(Paid(o), filled) = Total(W(Paid(o)))
      /\ Total(W(o)) \in Int /\ Total(W(Paid(o))) \in Int /\ Total(W(Cost(o, s))) \in Int /\ Total(Ko) \in Int
  BY <1>3, <1>4, <1>5, PartIsTotal, TotalIsInt DEF Slots, W
<1> QED BY <1>3, <1>4, <1>7, <1>8, <1>9 DEF W

\* Where the filled orders rested, the slots and their losses are gone.
LEMMA OwnSideFills ==
  ASSUME NEW b, NEW l, Good(l, b), NEW side, NEW filled, FillsOf(l, side, filled),
         NEW s \in Sides, s = -side, NEW k, k.orders \in Slots, k.pending \in Slots,
         \A i \in Indices : /\ k.orders[i] = IF i \in filled THEN 0 ELSE l.orders[i]
                            /\ k.pending[i] = l.pending[i] + Born(l.orders, filled, side)[i]
                            /\ ~ Opposed(l.pending[i], Born(l.orders, filled, side)[i])
  PROVE  /\ Total(Resting(l, s)) = Total(Resting(k, s)) + s * SumFunctionOnSet(l.orders, filled)
         /\ Total([i \in Indices |-> Resting(l, s)[i] * LossAt(s)[i]])
              = Total([i \in Indices |-> Resting(k, s)[i] * LossAt(s)[i]])
                + Total(Within(Cost(l.orders, s), filled))
<1> DEFINE o == l.orders
           born == Born(o, filled, side)
           gone == Within(o, filled)
           Rl == Resting(l, s)
           Rk == Resting(k, s)
           El == [i \in Indices |-> Rl[i] * LossAt(s)[i]]
           Ek == [i \in Indices |-> Rk[i] * LossAt(s)[i]]
           D == Within(Cost(o, s), filled)
           sg == [i \in Indices |-> s * gone[i]]
<1>1. o \in Slots /\ l.pending \in Slots /\ side \in Sides /\ filled \in SUBSET Indices
  BY DEF Good, FillsOf
<1>2. gone \in Slots /\ Rl \in Slots /\ Rk \in Slots /\ LossAt(s) \in Slots /\ D \in Slots
  BY <1>1, PartIsTotal, RestingIsTyped, LossesAreTyped, CostsAddUp DEF Slots
<1>3. El \in Slots /\ Ek \in Slots /\ sg \in Slots
  BY <1>2 DEF Slots, Sides
<1>4. ASSUME NEW i \in Indices PROVE Rl[i] = Rk[i] + s * gone[i]
  <2>1. /\ o[i] \in Int /\ l.pending[i] \in Int /\ born[i] \in Int
        /\ gone[i] = IF i \in filled THEN o[i] ELSE 0
        /\ (i \in filled => side * o[i] < 0)
    <3>1. born[i] \in Int
      <4>1. i + side \in filled => o[i + side] \in Int
        BY <1>1 DEF Slots
      <4> QED BY <4>1 DEF Born
    <3> QED BY <1>1, <3>1 DEF Slots, Within, FillsOf
  <2>2. Highest(s * born[i], 0) = 0
    <3>1. born[i] = IF i + side \in filled THEN -o[i + side] ELSE 0
      BY DEF Born
    <3>2. CASE i + side \in filled
      <4>1. side * o[i + side] < 0 /\ o[i + side] \in Int
        BY <1>1, <3>2 DEF FillsOf, Slots
      <4>2. CASE side = 1
        BY <3>1, <3>2, <4>1, <4>2 DEF Highest
      <4>3. CASE side = -1
        BY <3>1, <3>2, <4>1, <4>3 DEF Highest
      <4> QED BY <1>1, <4>2, <4>3 DEF Sides
    <3>3. CASE i + side \notin filled
      BY <3>1, <3>3 DEF Highest, Sides
    <3> QED BY <3>2, <3>3
  <2>3. Highest(s * k.pending[i], 0) = Highest(s * l.pending[i], 0)
    <3>1. Highest(s * (l.pending[i] + born[i]), 0) = Highest(s * l.pending[i], 0) + Highest(s * born[i], 0)
      BY <2>1, HighestAdds
    <3>2. Highest(s * l.pending[i], 0) \in Int
      BY <2>1, HighestOf
    <3> QED BY <2>2, <3>1, <3>2
  <2>4. Highest(s * o[i], 0) = Highest(s * k.orders[i], 0) + s * gone[i]
    <3>1. CASE i \in filled
      <4>1. k.orders[i] = 0 /\ gone[i] = o[i] /\ side * o[i] < 0
        BY <2>1, <3>1
      <4>2. CASE side = 1
        BY <2>1, <4>1, <4>2 DEF Highest
      <4>3. CASE side = -1
        BY <2>1, <4>1, <4>3 DEF Highest
      <4> QED BY <1>1, <4>2, <4>3 DEF Sides
    <3>2. CASE i \notin filled
      <4>1. k.orders[i] = o[i] /\ s * gone[i] = 0
        BY <2>1, <3>2 DEF Sides
      <4>2. Highest(s * o[i], 0) \in Int
        BY <2>1, HighestOf
      <4> QED BY <4>1, <4>2
    <3> QED BY <3>1, <3>2
  <2>5. /\ Rl[i] = Highest(s * o[i], 0) + Highest(s * l.pending[i], 0)
        /\ Rk[i] = Highest(s * k.orders[i], 0) + Highest(s * k.pending[i], 0)
    BY DEF Resting
  <2> DEFINE x == Highest(s * k.orders[i], 0)
             y == Highest(s * l.pending[i], 0)
             z == s * gone[i]
  <2>6. x \in Int /\ y \in Int /\ z \in Int
    <3>1. k.orders[i] \in Int /\ gone[i] \in Int
      BY <1>2 DEF Slots
    <3> QED BY <2>1, <3>1, HighestOf
  <2>7. Rl[i] = (x + z) + y /\ Rk[i] = x + y
    BY <2>3, <2>4, <2>5
  <2> HIDE DEF x, y, z, Rl, Rk
  <2>8. Rl[i] = Rk[i] + z
    BY <2>6, <2>7
  <2> QED BY <2>8 DEF z
<1>5. ASSUME NEW i \in Indices PROVE El[i] = Ek[i] + D[i]
  <2>1. /\ LossAt(s)[i] = s * (Level(i) - KillSwitch(s)) /\ Level(i) \in Int /\ KillSwitch(s) \in Int
        /\ Rl[i] \in Int /\ Rk[i] \in Int /\ gone[i] \in Int
    BY <1>2, LossesAreTyped, LevelsRise DEF Slots
  <2>2. D[i] = (Level(i) - KillSwitch(s)) * gone[i]
    BY <1>1, <2>1 DEF Within, Cost
  <2>3. Rl[i] = Rk[i] + s * gone[i]
    BY <1>4
  <2>4. El[i] = Rl[i] * LossAt(s)[i] /\ Ek[i] = Rk[i] * LossAt(s)[i]
    OBVIOUS
  <2> DEFINE x == Level(i) - KillSwitch(s)
             g == gone[i]
             r == Rk[i]
  <2>5. x \in Int /\ g \in Int /\ r \in Int
    BY <2>1
  <2>6. El[i] = (r + s * g) * (s * x) /\ Ek[i] = r * (s * x) /\ D[i] = x * g
    BY <2>1, <2>2, <2>3, <2>4
  <2> HIDE DEF x, g, r, El, Ek, D
  <2>7. (r + s * g) * (s * x) = r * (s * x) + x * g
    <3>1. CASE s = 1
      BY <2>5, <3>1
    <3>2. CASE s = -1
      BY <2>5, <3>2
    <3> QED BY <3>1, <3>2 DEF Sides
  <2> QED BY <2>6, <2>7
<1>6. Total(sg) = s * SumFunctionOnSet(o, filled)
  <2>1. SumFunctionOnSet(o, filled) = Total(gone)
    BY <1>1, PartIsTotal DEF Slots
  <2>2. \A i \in Indices : sg[i] = s * gone[i]
    OBVIOUS
  <2> HIDE DEF sg, gone
  <2> QED BY <1>2, <1>3, <2>1, <2>2, TotalScales DEF Slots, Sides
<1>7. \A i \in Indices : Rl[i] = Rk[i] + sg[i]
  BY <1>4
<1> HIDE DEF sg, gone, Rl, Rk, El, Ek, D
<1>8. Total(Rl) = Total(Rk) + Total(sg)
  BY <1>2, <1>3, <1>7, TotalOfSums DEF Slots
<1>9. Total(El) = Total(Ek) + Total(D)
  BY <1>2, <1>3, <1>5, TotalOfSums DEF Slots
<1> QED BY <1>6, <1>8, <1>9 DEF Rl, Rk, El, Ek, D

\* Where their replacements are born, slots and losses come to the books, and less of them
\* by a step than the fill has taken from the price.
LEMMA OtherSideFills ==
  ASSUME NEW b, NEW l, Good(l, b), NEW side, NEW filled, FillsOf(l, side, filled),
         NEW s \in Sides, s = side, NEW k, k.orders \in Slots, k.pending \in Slots,
         \A i \in Indices : /\ k.orders[i] = IF i \in filled THEN 0 ELSE l.orders[i]
                            /\ k.pending[i] = l.pending[i] + Born(l.orders, filled, side)[i]
                            /\ ~ Opposed(l.pending[i], Born(l.orders, filled, side)[i])
  PROVE  /\ Total(Resting(k, s)) = Total(Resting(l, s)) - s * SumFunctionOnSet(l.orders, filled)
         /\ Total([i \in Indices |-> Resting(k, s)[i] * LossAt(s)[i]])
              <= Total([i \in Indices |-> Resting(l, s)[i] * LossAt(s)[i]])
                 - Total(Within(Cost(l.orders, s), filled))
<1> DEFINE o == l.orders
           born == Born(o, filled, side)
           gone == Within(o, filled)
           Rl == Resting(l, s)
           Rk == Resting(k, s)
           El == [i \in Indices |-> Rl[i] * LossAt(s)[i]]
           Ek == [i \in Indices |-> Rk[i] * LossAt(s)[i]]
           D == Within(Cost(o, s), filled)
           F == [i \in Indices |-> (-s) * gone[i]]
           M == [i \in Indices |-> s * born[i]]
           Y == [i \in Indices |-> M[i] * LossAt(s)[i]]
           G == [i \in Indices |-> (-1) * D[i]]
           H == [i \in Indices |-> IF i + side \in Indices THEN G[i + side] ELSE 0]
<1>1. o \in Slots /\ l.pending \in Slots /\ side \in Sides /\ filled \in SUBSET Indices
  BY DEF Good, FillsOf
<1>2. gone \in Slots /\ Rl \in Slots /\ Rk \in Slots /\ LossAt(s) \in Slots /\ D \in Slots
  BY <1>1, PartIsTotal, RestingIsTyped, LossesAreTyped, CostsAddUp DEF Slots
<1>3. /\ born \in Slots
      /\ \A i \in Indices : born[i] = IF i + side \in filled THEN -o[i + side] ELSE 0
      /\ \A i \in Indices : i + side \in filled => o[i + side] \in Int /\ s * o[i + side] < 0
  <2>1. \A i \in filled : o[i] \in Int /\ s * o[i] < 0
    BY <1>1 DEF FillsOf, Slots
  <2> QED BY <2>1 DEF Born, Slots
<1>4. El \in Slots /\ Ek \in Slots /\ F \in Slots /\ M \in Slots /\ G \in Slots
  BY <1>2, <1>3 DEF Slots, Sides
<1>5. Y \in Slots
  BY <1>2, <1>4 DEF Slots
<1>6. H \in Slots
  BY <1>4 DEF Slots
<1>7. (side = 1 => 0 \notin filled) /\ (side = -1 => GridCount \notin filled)
  <2>1. EndsHold(l) /\ 0 \in Indices /\ GridCount \in Indices
    BY Count DEF Good, BooksAreSound, Indices
  <2>2. o[0] \in Int /\ o[GridCount] \in Int /\ o[0] >= 0 /\ o[GridCount] <= 0
    BY <1>1, <2>1 DEF Slots, EndsHold
  <2>3. 0 \in filled => side * o[0] < 0
    BY DEF FillsOf
  <2>4. GridCount \in filled => side * o[GridCount] < 0
    BY DEF FillsOf
  <2> QED BY <2>2, <2>3, <2>4
<1>8. ASSUME NEW i \in Indices PROVE Rk[i] = Rl[i] + M[i] /\ M[i] >= 0
  <2>1. o[i] \in Int /\ l.pending[i] \in Int /\ born[i] \in Int
    BY <1>1, <1>3 DEF Slots
  <2>2. M[i] = s * born[i] /\ M[i] \in Int /\ M[i] >= 0
    <3>1. M[i] = s * born[i]
      OBVIOUS
    <3>2. CASE i + side \in filled
      <4>1. born[i] = -o[i + side] /\ o[i + side] \in Int /\ s * o[i + side] < 0
        BY <1>3, <3>2
      <4> HIDE DEF M, born
      <4> QED BY <3>1, <4>1 DEF Sides
    <3>3. CASE i + side \notin filled
      <4>1. born[i] = 0
        BY <1>3, <3>3
      <4> HIDE DEF M, born
      <4> QED BY <3>1, <4>1 DEF Sides
    <3> QED BY <3>2, <3>3
  <2>3. Highest(s * k.pending[i], 0) = Highest(s * l.pending[i], 0) + M[i]
    <3>1. Highest(s * (l.pending[i] + born[i]), 0) = Highest(s * l.pending[i], 0) + Highest(s * born[i], 0)
      BY <2>1, HighestAdds
    <3>2. Highest(s * born[i], 0) = M[i]
      <4> HIDE DEF M, born
      <4> QED BY <2>2 DEF Highest
    <3> QED BY <3>1, <3>2
  <2>4. Highest(s * k.orders[i], 0) = Highest(s * o[i], 0)
    <3>1. CASE i \in filled
      <4>1. k.orders[i] = 0 /\ s * o[i] < 0
        BY <3>1 DEF FillsOf
      <4>2. s * k.orders[i] = 0
        BY <4>1 DEF Sides
      <4>3. s * o[i] \in Int
        BY <2>1, HighestOf
      <4> QED BY <4>1, <4>2, <4>3 DEF Highest
    <3>2. CASE i \notin filled
      BY <3>2
    <3> QED BY <3>1, <3>2
  <2>5. /\ Rl[i] = Highest(s * o[i], 0) + Highest(s * l.pending[i], 0)
        /\ Rk[i] = Highest(s * k.orders[i], 0) + Highest(s * k.pending[i], 0)
    BY DEF Resting
  <2> DEFINE x == Highest(s * o[i], 0)
             y == Highest(s * l.pending[i], 0)
             z == M[i]
  <2>6. x \in Int /\ y \in Int /\ z \in Int
    BY <2>1, <2>2, HighestOf
  <2>7. Rl[i] = x + y /\ Rk[i] = x + (y + z)
    BY <2>3, <2>4, <2>5
  <2> HIDE DEF x, y, z, Rl, Rk, M
  <2>8. Rk[i] = Rl[i] + z
    BY <2>6, <2>7
  <2> QED BY <2>2, <2>8 DEF z
<1>9. Total(M) = -(s * SumFunctionOnSet(o, filled))
  <2>1. \A i \in Indices : gone[i] \in Int /\ gone[i] = IF i \in filled THEN o[i] ELSE 0
    BY <1>2 DEF Within, Slots
  <2>2. ASSUME NEW i \in Indices PROVE M[i] = IF i + side \in Indices THEN F[i + side] ELSE 0
    <3>1. CASE i + side \in filled
      <4>1. i + side \in Indices /\ F[i + side] = (-s) * o[i + side] /\ M[i] = s * (-o[i + side])
        BY <1>1, <1>3, <2>1, <3>1
      <4>2. o[i + side] \in Int
        BY <1>3, <3>1
      <4> HIDE DEF F, M
      <4> QED BY <4>1, <4>2 DEF Sides
    <3>2. CASE i + side \notin filled
      <4>1. M[i] = s * 0 /\ (i + side \in Indices => F[i + side] = (-s) * 0)
        BY <1>3, <2>1, <3>2
      <4> HIDE DEF F, M
      <4> QED BY <4>1 DEF Sides
    <3> QED BY <3>1, <3>2
  <2>3. (side = 1 => F[0] = 0) /\ (side = -1 => F[GridCount] = 0)
    <3>1. \A i \in Indices : i \notin filled => F[i] = 0
      BY <2>1 DEF Sides
    <3>2. 0 \in Indices /\ GridCount \in Indices
      BY Count DEF Indices
    <3> HIDE DEF F
    <3> QED BY <1>7, <3>1, <3>2
  <2>4. \A i \in Indices : F[i] = (-s) * gone[i]
    OBVIOUS
  <2>5. SumFunctionOnSet(o, filled) = Total(gone) /\ Total(gone) \in Int
    BY <1>1, <1>2, PartIsTotal, TotalIsInt DEF Slots
  <2> HIDE DEF F, M, gone
  <2>6. Total(M) = Total(F)
    BY <1>1, <1>4, <2>2, <2>3, TotalMoves
  <2>7. Total(F) = (-s) * Total(gone)
    <3>1. -s \in Int
      BY DEF Sides
    <3> QED BY <1>2, <1>4, <2>4, <3>1, TotalScales DEF Slots
  <2> QED BY <2>5, <2>6, <2>7 DEF Sides
<1>10. Total(H) = -Total(D)
  <2>1. \A i \in Indices : D[i] \in Int /\ (i \notin filled => D[i] = 0)
    BY <1>2 DEF Within, Slots
  <2>2. \A i \in Indices : G[i] = (-1) * D[i]
    OBVIOUS
  <2>3. \A i \in Indices : H[i] = IF i + side \in Indices THEN G[i + side] ELSE 0
    OBVIOUS
  <2>4. (side = 1 => G[0] = 0) /\ (side = -1 => G[GridCount] = 0)
    <3>1. 0 \in Indices /\ GridCount \in Indices
      BY Count DEF Indices
    <3> HIDE DEF G
    <3> QED BY <1>7, <2>1, <2>2, <3>1
  <2> HIDE DEF G, H, D
  <2>5. Total(H) = Total(G)
    BY <1>1, <1>4, <1>6, <2>3, <2>4, TotalMoves
  <2>6. Total(G) = (-1) * Total(D) /\ Total(D) \in Int
    <3>1. -1 \in Int
      OBVIOUS
    <3>2. Total(G) = (-1) * Total(D)
      BY <1>2, <1>4, <2>2, <3>1, TotalScales DEF Slots
    <3> QED BY <1>2, <3>2, TotalIsInt DEF Slots
  <2> QED BY <2>5, <2>6
<1>11. ASSUME NEW i \in Indices PROVE Y[i] <= H[i]
  <2>1. CASE i + side \in filled
    <3> DEFINE j == i + side
               x == Level(j) - KillSwitch(s)
               v == o[j]
    <3>1. j \in Indices /\ v \in Int /\ s * v < 0 /\ Level(j) \in Int /\ KillSwitch(s) \in Int /\ Level(i) \in Int
      BY <1>1, <1>3, <2>1, LossesAreTyped, LevelsRise
    <3>2. LossAt(s)[i] = s * (Level(i) - KillSwitch(s)) /\ Level(i) = Level(j) - s * Step
      <4>1. LossAt(s)[i] = s * (Level(i) - KillSwitch(s))
        BY LossesAreTyped
      <4>2. CASE s = 1
        <5>1. i \in 0..GridCount - 1 /\ j = i + 1
          BY <3>1, <4>2, Count DEF Indices
        <5>2. Level(i + 1) = Level(i) + Step
          BY <5>1, LevelsRise
        <5> QED BY <3>1, <4>1, <4>2, <5>1, <5>2, Count
      <4>3. CASE s = -1
        <5>1. j \in 0..GridCount - 1 /\ i = j + 1
          BY <3>1, <4>3, Count DEF Indices
        <5>2. Level(j + 1) = Level(j) + Step
          BY <5>1, LevelsRise
        <5> QED BY <3>1, <4>1, <4>3, <5>1, <5>2, Count
      <4> QED BY <4>2, <4>3 DEF Sides
    <3>3. M[i] = s * (-v)
      BY <1>3, <2>1
    <3>4. H[i] = (-1) * (x * v)
      BY <2>1, <3>1 DEF Within, Cost
    <3>5. Y[i] = (s * (-v)) * (s * (x - s * Step))
      <4>1. Level(i) - KillSwitch(s) = x - s * Step
        BY <3>1, <3>2, Count DEF Sides
      <4> QED BY <3>2, <3>3, <4>1
    <3>6. x \in Int
      BY <3>1
    <3> HIDE DEF x, v, Y, H, j
    <3>7. (s * (-v)) * (s * (x - s * Step)) <= (-1) * (x * v)
      <4>1. \A m \in Int : m <= 0 => m * Step <= 0 /\ m * Step \in Int
        BY Count
      <4>2. \A m \in Int : m >= 0 => m * Step >= 0 /\ m * Step \in Int
        BY Count
      <4>3. CASE s = 1
        <5>1. (s * (-v)) * (s * (x - s * Step)) = (-1) * (x * v) + v * Step
          BY <3>1, <3>6, <4>3, Count
        <5>2. v * Step <= 0 /\ v * Step \in Int /\ x * v \in Int
          BY <3>1, <3>6, <4>1, <4>3
        <5> DEFINE y == x * v
                   z == v * Step
        <5> HIDE DEF y, z
        <5> QED BY <5>1, <5>2 DEF y, z
      <4>4. CASE s = -1
        <5>1. (s * (-v)) * (s * (x - s * Step)) = (-1) * (x * v) - v * Step
          BY <3>1, <3>6, <4>4, Count
        <5>2. v * Step >= 0 /\ v * Step \in Int /\ x * v \in Int
          BY <3>1, <3>6, <4>2, <4>4
        <5> DEFINE y == x * v
                   z == v * Step
        <5> HIDE DEF y, z
        <5> QED BY <5>1, <5>2 DEF y, z
      <4> QED BY <4>3, <4>4 DEF Sides
    <3> QED BY <3>4, <3>5, <3>7
  <2>2. CASE i + side \notin filled
    <3>1. M[i] = s * 0
      BY <1>3, <2>2
    <3>2. Y[i] = M[i] * LossAt(s)[i] /\ LossAt(s)[i] \in Int
      BY <1>2 DEF Slots
    <3>3. H[i] = 0
      <4>1. i + side \in Indices => D[i + side] = 0
        BY <2>2 DEF Within
      <4> HIDE DEF D
      <4> QED BY <4>1
    <3> HIDE DEF M, Y, H
    <3> QED BY <3>1, <3>2, <3>3 DEF Sides
  <2> QED BY <2>1, <2>2
<1>12. ASSUME NEW i \in Indices PROVE Ek[i] = El[i] + Y[i]
  <2>1. Rl[i] \in Int /\ M[i] \in Int /\ LossAt(s)[i] \in Int /\ Rk[i] = Rl[i] + M[i]
    BY <1>2, <1>4, <1>8 DEF Slots
  <2>2. Ek[i] = Rk[i] * LossAt(s)[i] /\ El[i] = Rl[i] * LossAt(s)[i] /\ Y[i] = M[i] * LossAt(s)[i]
    OBVIOUS
  <2> HIDE DEF Ek, El, Y, Rk, Rl, M
  <2> QED BY <2>1, <2>2
<1> HIDE DEF gone, Rl, Rk, El, Ek, D, F, M, Y, G, H
<1>13. Total(Rk) = Total(Rl) + Total(M)
  <2>1. \A i \in Indices : Rk[i] = Rl[i] + M[i]
    BY <1>8
  <2>2. Rl \in [Indices -> Int] /\ M \in [Indices -> Int] /\ Rk \in [Indices -> Int]
    BY <1>2, <1>4 DEF Slots
  <2> QED BY <2>1, <2>2, TotalOfSums
<1>14. Total(Ek) = Total(El) + Total(Y) /\ Total(Y) <= Total(H)
  BY <1>4, <1>5, <1>6, <1>11, <1>12, TotalOfSums, TotalGrows DEF Slots
<1>15. /\ Total(Rl) \in Int /\ Total(El) \in Int /\ Total(Y) \in Int /\ Total(D) \in Int
       /\ s * SumFunctionOnSet(o, filled) \in Int
  <2>1. SumFunctionOnSet(o, filled) \in Int
    BY <1>1, CostsAddUp
  <2> QED BY <1>2, <1>4, <1>5, <2>1, TotalIsInt, HighestOf DEF Slots
<1>16. Total(Ek) <= Total(El) - Total(D)
  BY <1>10, <1>14, <1>15
<1>17. Total(Rk) = Total(Rl) - s * SumFunctionOnSet(o, filled)
  BY <1>9, <1>13, <1>15
<1> QED BY <1>16, <1>17 DEF Rl, Rk, El, Ek, D

\* A fill keeps the books.
LEMMA FillIsGood ==
  ASSUME NEW b, IsGridBot(b), NEW l, Good(l, b), NEW side, NEW filled, FillsOf(l, side, filled)
  PROVE  Good(Fill(l, filled, side), b)
<1> DEFINE o == l.orders
           born == Born(o, filled, side)
           rest == [i \in Indices |-> IF i \in filled THEN 0 ELSE o[i]]
           slots == SumFunctionOnSet(o, filled)
           paid == SumFunctionOnSet(Paid(o), filled)
           clash == \E i \in Indices : Opposed(rest[i], born[i]) \/ Opposed(l.pending[i], born[i])
           k == Fill(l, filled, side)
<1>1. /\ IsLedger(l) /\ o \in Slots /\ l.pending \in Slots /\ l.pos \in Int /\ l.cash \in Int
      /\ side \in Sides /\ filled \in SUBSET Indices
  BY DEF Good, FillsOf
<1>2. CASE clash
  <2>1. k = Void(l)
    BY <1>2 DEF Fill
  <2> HIDE DEF k
  <2>2. SameBooks(k, l)
    BY <1>1, <2>1 DEF Void, IsLedger, LedgerFields, SameBooks
  <2> QED BY <2>2, BooksUntouched DEF k
<1>3. CASE ~ clash
  <2>1. k = [l EXCEPT !.orders  = rest,
                      !.pending = [i \in Indices |-> l.pending[i] + born[i]],
                      !.cash    = l.cash - paid,
                      !.turn    = l.turn + Magnitude(paid),
                      !.pos     = l.pos + slots]
    BY <1>3 DEF Fill
  <2> HIDE DEF k, slots, paid, clash
  <2>2. /\ IsLedger(k) /\ k.pos = l.pos + slots /\ k.cash = l.cash - paid
        /\ k.orders = rest
        /\ k.pending = [i \in Indices |-> l.pending[i] + born[i]]
    BY <1>1, <2>1 DEF IsLedger, LedgerFields
  <2>3. \A i \in filled : o[i] \in Int /\ side * o[i] < 0
    BY <1>1 DEF FillsOf, Slots
  <2>4. born \in Slots /\ \A i \in Indices : born[i] = IF i + side \in filled THEN -o[i + side] ELSE 0
    BY <2>3 DEF Born, Slots
  <2>5. k.orders \in Slots /\ k.pending \in Slots
    BY <1>1, <2>2, <2>4 DEF Slots
  <2>6. slots \in Int /\ paid \in Int
    <3>1. 1 \in Sides
      BY DEF Sides
    <3> QED BY <1>1, <3>1, CostsAddUp DEF slots, paid
  <2>7. EndsHold(k)
    <3>1. 0 \in Indices /\ GridCount \in Indices /\ -1 \notin Indices /\ GridCount + 1 \notin Indices
      BY Count DEF Indices
    <3>2. EndsHold(l)
      BY DEF Good, BooksAreSound
    <3>3. /\ k.orders[0] \in {0, o[0]} /\ k.orders[GridCount] \in {0, o[GridCount]}
          /\ k.pending[0] = l.pending[0] + born[0]
          /\ k.pending[GridCount] = l.pending[GridCount] + born[GridCount]
      BY <2>2, <3>1
    <3>4. born[0] >= 0 /\ born[GridCount] <= 0 /\ born[0] \in Int /\ born[GridCount] \in Int
      <4>1. CASE side = 1
        <5>1. born[0] = (IF 0 + 1 \in filled THEN -o[0 + 1] ELSE 0)
          BY <2>4, <3>1, <4>1
        <5>2. born[GridCount] = 0
          BY <1>1, <2>4, <3>1, <4>1
        <5>3. 0 + 1 \in filled => o[0 + 1] \in Int /\ 1 * o[0 + 1] < 0
          BY <2>3, <4>1
        <5> QED BY <5>1, <5>2, <5>3
      <4>2. CASE side = -1
        <5>1. born[GridCount] = (IF GridCount + (-1) \in filled THEN -o[GridCount + (-1)] ELSE 0)
          BY <2>4, <3>1, <4>2
        <5>2. born[0] = 0
          <6>1. 0 + (-1) \notin filled
            BY <1>1, <3>1
          <6> QED BY <2>4, <3>1, <4>2, <6>1
        <5>3. GridCount + (-1) \in filled =>
                 o[GridCount + (-1)] \in Int /\ (-1) * o[GridCount + (-1)] < 0
          BY <2>3, <4>2
        <5> QED BY <5>1, <5>2, <5>3
      <4> QED BY <1>1, <4>1, <4>2 DEF Sides
    <3>5. l.pending[0] \in Int /\ l.pending[GridCount] \in Int
      BY <1>1, <3>1 DEF Slots
    <3> HIDE DEF born
    <3> QED BY <3>2, <3>3, <3>4, <3>5 DEF EndsHold
  <2>8. \A i \in Indices : /\ k.orders[i] = IF i \in filled THEN 0 ELSE l.orders[i]
                           /\ k.pending[i] = l.pending[i] + born[i]
                           /\ ~ Opposed(l.pending[i], born[i])
    BY <1>3, <2>2 DEF clash
  <2>9. ASSUME NEW s \in Sides PROVE SlotsAddUp(k, s, b) /\ LossIsCovered(k, s, b)
    <3> DEFINE Rl == Total(Resting(l, s))
               Rk == Total(Resting(k, s))
               El == [i \in Indices |-> Resting(l, s)[i] * LossAt(s)[i]]
               Ek == [i \in Indices |-> Resting(k, s)[i] * LossAt(s)[i]]
               TD == Total(Within(Cost(o, s), filled))
               K == KillSwitch(s)
    <3>1. Resting(l, s) \in Slots /\ Resting(k, s) \in Slots /\ LossAt(s) \in Slots /\ K \in Int
      BY <1>1, <2>5, RestingIsTyped, LossesAreTyped
    <3>2. El \in Slots /\ Ek \in Slots
      BY <3>1 DEF Slots
    <3>3. TD = paid - K * slots /\ TD \in Int
      <4>1. TD = paid - K * slots /\ Within(Cost(o, s), filled) \in Slots
        BY <1>1, CostsAddUp DEF slots, paid
      <4> QED BY <4>1, TotalIsInt DEF Slots
    <3> HIDE DEF El, Ek, TD
    <3>4. Rl \in Int /\ Rk \in Int /\ Total(El) \in Int /\ Total(Ek) \in Int
      BY <3>1, <3>2, TotalIsInt DEF Slots
    <3> HIDE DEF K, Rl, Rk
    <3>5. Rk = Rl - s * slots /\ Total(Ek) <= Total(El) - TD
      <4>1. CASE s = -side
        <5>1. Rl = Rk + s * slots /\ Total(El) = Total(Ek) + TD
          BY <1>1, <2>5, <2>8, <4>1, OwnSideFills DEF Rl, Rk, El, Ek, TD, slots
        <5> QED BY <2>6, <3>3, <3>4, <5>1 DEF Sides
      <4>2. CASE s = side
        BY <1>1, <2>5, <2>8, <4>2, OtherSideFills DEF Rl, Rk, El, Ek, TD, slots
      <4> QED BY <1>1, <4>1, <4>2 DEF Sides
    <3>6. SumFunction(Resting(l, s)) = Rl /\ SumFunction(Resting(k, s)) = Rk
      BY <3>1, TotalOfAll DEF Rl, Rk
    <3>7. SumFunction(El) = Total(El) /\ SumFunction(Ek) = Total(Ek)
      BY <3>2, TotalOfAll
    <3>8. SlotsAddUp(l, s, b) /\ LossIsCovered(l, s, b)
      BY DEF Good, BooksAreSound, Sides
    <3> DEFINE T == s * InitialPosition(b.direction, b.entry) + Cardinality(OpeningOrders(s, b))
    <3>9. s * l.pos + Rl = T
      BY <3>6, <3>8 DEF SlotsAddUp
    <3>10. s * (l.pos + slots) + Rk = T
      <4> HIDE DEF T
      <4>1. CASE s = 1
        BY <1>1, <2>6, <3>4, <3>5, <3>9, <4>1
      <4>2. CASE s = -1
        BY <1>1, <2>6, <3>4, <3>5, <3>9, <4>2
      <4> QED BY <4>1, <4>2 DEF Sides
    <3>11. SlotsAddUp(k, s, b)
      BY <2>2, <3>6, <3>10 DEF SlotsAddUp
    <3> HIDE DEF T
    <3>12. l.cash + l.pos * K >= Total(El) - StressAt(s, b)
      BY <3>7, <3>8 DEF LossIsCovered, El, K
    <3>13. StressAt(s, b) \in Int
      <4> DEFINE X == SumFunctionOnSet(LossAt(s), OpeningOrders(s, b))
      <4>1. X \in Int
        <5>1. OpeningOrders(s, b) \in SUBSET Indices
          BY InitialIsInt
        <5>2. /\ Within(LossAt(s), OpeningOrders(s, b)) \in Slots
              /\ X = Total(Within(LossAt(s), OpeningOrders(s, b)))
          BY <3>1, <5>1, PartIsTotal DEF Slots
        <5> QED BY <5>2, TotalIsInt DEF Slots
      <4> HIDE DEF X
      <4>2. StressAt(s, b) = InitialPosition(b.direction, b.entry) * (b.entry - K) + X
        BY DEF StressAt, X, K
      <4>3. InitialPosition(b.direction, b.entry) \in Int /\ b.entry \in Int
        BY InitialIsInt
      <4> QED BY <3>1, <4>1, <4>2, <4>3
    <3>14. k.cash + k.pos * K >= Total(Ek) - StressAt(s, b)
      <4> DEFINE x == l.pos * K
                 y == slots * K
      <4>1. (l.pos + slots) * K = x + y /\ K * slots = y /\ x \in Int /\ y \in Int
        BY <1>1, <2>6, <3>1
      <4>2. k.cash + k.pos * K = l.cash - paid + (x + y) /\ TD = paid - y
        BY <2>2, <3>3, <4>1
      <4> HIDE DEF x, y
      <4> QED BY <1>1, <2>6, <3>3, <3>4, <3>5, <3>12, <3>13, <4>1, <4>2 DEF x
    <3>15. LossIsCovered(k, s, b)
      BY <3>7, <3>14 DEF LossIsCovered, Ek, K
    <3> QED BY <3>11, <3>15
  <2> QED BY <1>1, <2>2, <2>5, <2>6, <2>7, <2>9 DEF Good, BooksAreSound, Sides, k
<1> QED BY <1>2, <1>3

---------------------------------------------------------------------------
(* The replay keeps the books, whatever the prices.                        *)

\* The volume of the candle is no part of the books.
LEMMA ConsumeIsGood ==
  ASSUME NEW b, NEW l, Good(l, b), NEW slots, NEW capacity
  PROVE  /\ Good(Consume(l, slots, capacity), b)
         /\ Consume(l, slots, capacity).orders = l.orders
         /\ Consume(l, slots, capacity).pending = l.pending
         /\ Consume(l, slots, capacity).pos = l.pos
<1> DEFINE k == Consume(l, slots, capacity)
<1>1. IsLedger(l)
  BY DEF Good
<1>2. k = [l EXCEPT !.bad = TRUE] \/ k = [l EXCEPT !.used = l.used + slots]
  BY DEF Consume, Void
<1> HIDE DEF k
<1>3. SameBooks(k, l)
  BY <1>1, <1>2 DEF IsLedger, LedgerFields, SameBooks
<1>4. Good(k, b)
  BY <1>3, BooksUntouched
<1> QED BY <1>3, <1>4 DEF k, SameBooks

\* Books that cannot be labelled are as sound as they were.
LEMMA VoidIsGood ==
  ASSUME NEW b, NEW l, Good(l, b)
  PROVE  Good(Void(l), b)
<1>1. SameBooks(Void(l), l)
  BY DEF Good, Void, IsLedger, LedgerFields, SameBooks
<1> QED BY <1>1, BooksUntouched

\* Neither is the price that is reached,
LEMMA ReachIsGood ==
  ASSUME NEW b, NEW l, Good(l, b), NEW to
  PROVE  Good(Reach(l, to), b)
<1>1. SameBooks(Reach(l, to), l)
  BY DEF Good, Reach, IsLedger, LedgerFields, SameBooks
<1> QED BY <1>1, BooksUntouched

\* nor the stop, which does not close the position in the books.
LEMMA LiquidationIsGood ==
  ASSUME NEW b, NEW l, Good(l, b), NEW side, NEW target, NEW capacity
  PROVE  Good(Liquidate(l, side, target, capacity), b)
<1> DEFINE c == Consume(l, Magnitude(l.pos), capacity)
           k == Liquidate(l, side, target, capacity)
<1>1. Good(c, b)
  BY ConsumeIsGood
<1>2. \E price : k = [c EXCEPT !.stop = side, !.liq = price,
                               !.peak = Highest(@, Magnitude(l.pos) * price)]
  BY DEF Liquidate
<1> HIDE DEF k, c
<1>3. SameBooks(k, c)
  BY <1>1, <1>2 DEF Good, IsLedger, LedgerFields, SameBooks
<1> QED BY <1>1, <1>3, BooksUntouched DEF k

\* A price segment (process_segment) keeps the books sound,
LEMMA SegmentIsGood ==
  ASSUME NEW b, IsGridBot(b), NEW l, Good(l, b), NEW target, NEW capacity
  PROVE  Good(Segment(l, target, capacity), b)
<1> DEFINE side   == Breach(l.prev, target)
           to     == Terminal(l.prev, target)
           filled == Crossed(l.orders, l.prev, to)
           slots  == Magnitude(SumFunctionOnSet(l.orders, filled))
           spent  == Consume(l, slots, capacity)
           turn   == IF to > l.prev THEN 1 ELSE -1
           kept   == Fill(spent, filled, turn)
<1>1. Good(spent, b) /\ spent.orders = l.orders
  BY ConsumeIsGood
<1>2. FillsOf(spent, turn, filled)
  <2>1. turn \in Sides /\ filled \in SUBSET Indices
    BY DEF Sides, Crossed
  <2>2. ASSUME NEW i \in filled PROVE turn * l.orders[i] < 0
    <3>1. i \in Indices /\ l.orders[i] \in Int
      BY <2>1 DEF Good, Slots
    <3>2. CASE to > l.prev
      <4>1. l.orders[i] < 0 /\ turn = 1
        BY <3>2 DEF Crossed
      <4> HIDE DEF turn
      <4> QED BY <3>1, <4>1
    <3>3. CASE ~ to > l.prev
      <4>1. l.orders[i] > 0 /\ turn = -1
        BY <3>3 DEF Crossed
      <4> HIDE DEF turn
      <4> QED BY <3>1, <4>1
    <3> QED BY <3>2, <3>3
  <2> HIDE DEF turn, filled, spent
  <2> QED BY <1>1, <2>1, <2>2 DEF FillsOf
<1> HIDE DEF spent, turn, filled
<1>3. Good(kept, b)
  BY <1>1, <1>2, FillIsGood
<1> HIDE DEF kept
<1>4. /\ Good(Void(l), b) /\ Good(Reach(kept, to), b)
      /\ Good(Liquidate(Reach(kept, to), side, target, capacity), b)
  BY <1>3, VoidIsGood, ReachIsGood, LiquidationIsGood
<1>5. Segment(l, target, capacity) \in
        {l, Void(l), Reach(kept, to), Liquidate(Reach(kept, to), side, target, capacity)}
  BY DEF Segment, kept, spent, turn, filled
<1> QED BY <1>4, <1>5

\* and so does a settlement (apply_funding_event),
LEMMA FundingIsGood ==
  ASSUME NEW b, NEW l, Good(l, b), NEW rate \in {"none", "missing", "longs", "shorts"}, NEW price
  PROVE  Good(PayFunding(l, rate, price), b)
<1> DEFINE k == PayFunding(l, rate, price)
<1>1. k = l \/ k = Void(l) \/ \E paid : k = [l EXCEPT !.funding = paid]
  BY DEF PayFunding
<1> HIDE DEF k
<1>2. CASE \E paid : k = [l EXCEPT !.funding = paid]
  <2>1. SameBooks(k, l)
    BY <1>2 DEF Good, IsLedger, LedgerFields, SameBooks
  <2> QED BY <2>1, BooksUntouched DEF k
<1> QED BY <1>1, <1>2, VoidIsGood DEF k

\* the start of a minute,
LEMMA StartIsGood ==
  ASSUME NEW b, IsGridBot(b), NEW l, Good(l, b), NEW open, NEW capacity, NEW first,
         NEW rate \in {"none", "missing", "longs", "shorts"}
  PROVE  Good(StartMinute(l, open, capacity, first, rate), b)
<1> DEFINE reset   == [l EXCEPT !.used = 0]
           active  == Activate(reset)
           entered == IF first THEN Consume(active, Magnitude(active.pos), capacity) ELSE active
           settled == PayFunding(entered, rate, open)
<1>1. SameBooks(reset, l)
  BY DEF Good, IsLedger, LedgerFields, SameBooks
<1> HIDE DEF reset
<1>2. Good(active, b)
  BY <1>1, BooksUntouched, ActivationIsGood
<1> HIDE DEF active
<1>3. Good(entered, b)
  BY <1>2, ConsumeIsGood
<1> HIDE DEF entered
<1>4. Good(settled, b)
  BY <1>3, FundingIsGood
<1>5. StartMinute(l, open, capacity, first, rate) \in {l, Void(l), Segment(settled, open, capacity)}
  BY DEF StartMinute, settled, entered, active, reset
<1> HIDE DEF settled
<1> QED BY <1>4, <1>5, VoidIsGood, SegmentIsGood

\* a whole candle,
LEMMA CandleIsGood ==
  ASSUME NEW b, IsGridBot(b), NEW l, Good(l, b), NEW c
  PROVE  Good(ReplayCandle(l, c), b)
<1>1. Good(Void(l), b)
  BY VoidIsGood
<1>2. \A x : Good(Segment(l, x, c.vol), b)
  BY SegmentIsGood
<1>3. \A x, y : Good(Path2(l, x, y, c.vol), b)
  BY <1>2, SegmentIsGood DEF Path2
<1>4. \A x, y, z : Good(Path3(l, x, y, z, c.vol), b)
  BY <1>3, SegmentIsGood DEF Path3
<1>5. \A x, y : Good(x, b) => Good(Agreed(x, y), b)
  BY VoidIsGood DEF Agreed
<1>6. \/ ReplayCandle(l, c) = l \/ ReplayCandle(l, c) = Void(l)
      \/ \E x : ReplayCandle(l, c) = Segment(l, x, c.vol)
      \/ \E x, y : ReplayCandle(l, c) = Path2(l, x, y, c.vol)
      \/ \E x, y : Good(x, b) /\ ReplayCandle(l, c) = Agreed(x, y)
  <2> DEFINE Ends == Good(ReplayCandle(l, c), b)
  <2>1. Good(Segment(l, c.high, c.vol), b) /\ Good(Segment(l, c.low, c.vol), b)
    BY <1>2
  <2>2. Good(Path3(l, c.high, c.low, c.close, c.vol), b)
    BY <1>4
  <2> QED BY <2>1, <2>2 DEF ReplayCandle
<1> QED BY <1>1, <1>2, <1>3, <1>5, <1>6

\* and the end of the window.
LEMMA FinishIsGood ==
  ASSUME NEW b, IsGridBot(b), NEW l, Good(l, b), NEW exit, NEW capacity,
         NEW rate \in {"none", "missing", "longs", "shorts"}
  PROVE  Good(Finish(l, exit, capacity, rate), b)
<1> DEFINE reset   == [l EXCEPT !.used = 0]
           settled == PayFunding(reset, rate, exit)
           last    == Segment(Activate(settled), exit, capacity)
           closed  == Consume(last, Magnitude(last.pos), capacity)
           paid    == [closed EXCEPT !.liq = exit]
<1>1. SameBooks(reset, l)
  BY DEF Good, IsLedger, LedgerFields, SameBooks
<1> HIDE DEF reset
<1>2. Good(settled, b)
  BY <1>1, BooksUntouched, FundingIsGood
<1> HIDE DEF settled
<1>3. Good(last, b)
  BY <1>2, ActivationIsGood, SegmentIsGood
<1> HIDE DEF last
<1>4. Good(closed, b)
  BY <1>3, ConsumeIsGood
<1> HIDE DEF closed
<1>5. SameBooks(paid, closed)
  BY <1>4 DEF Good, IsLedger, LedgerFields, SameBooks
<1>6. Good(paid, b)
  BY <1>4, <1>5, BooksUntouched
<1>7. Finish(l, exit, capacity, rate) \in {l, Void(l), last, paid}
  BY DEF Finish, paid, closed, last, settled, reset
<1> HIDE DEF paid
<1> QED BY <1>3, <1>6, <1>7, VoidIsGood

---------------------------------------------------------------------------
(* The replay.                                                             *)

\* Whatever the trades and the candles, the books of a grid are sound.
GridIsGood == Grid => Good(book, bot) /\ Good(exact, bot) /\ Good(tape, bot)
ReplayIsGood == bot \in Bots /\ GridIsGood

\* The bots of the model are those of the lemmas.
LEMMA GridBots == ASSUME bot \in Bots, Grid PROVE IsGridBot(bot)
  BY ReplayAssumption DEF Grid, IsGridBot

\* The replays begin with sound books,
LEMMA ReplayStarts == ReplayInit => ReplayIsGood
<1> SUFFICES ASSUME ReplayInit PROVE bot \in Bots /\ GridIsGood
  BY DEF ReplayIsGood
<1>1. bot \in Bots
  BY DEF ReplayInit
<1>2. ASSUME Grid PROVE Good(book, bot) /\ Good(exact, bot) /\ Good(tape, bot)
  BY <1>1, <1>2, GridBots, OpeningIsGood DEF ReplayInit, Start, Grid
<1> QED BY <1>1, <1>2 DEF GridIsGood

\* and every step of theirs keeps them sound.
LEMMA ReplaySteps == ReplayIsGood /\ [ReplayNext]_replayVars => ReplayIsGood'
<1> SUFFICES ASSUME bot \in Bots, GridIsGood, [ReplayNext]_replayVars
             PROVE  bot' \in Bots /\ GridIsGood'
  BY DEF ReplayIsGood
<1>1. bot' = bot
  BY DEF ReplayNext, OpenMinute, Trade, CloseMinute, Horizon, replayVars
<1>2. bot' \in Bots
  BY <1>1
<1> SUFFICES ASSUME Grid PROVE Good(book', bot) /\ Good(exact', bot) /\ Good(tape', bot)
  BY <1>1, <1>2 DEF GridIsGood, Grid
<1>3. IsGridBot(bot) /\ Good(book, bot) /\ Good(exact, bot) /\ Good(tape, bot)
  BY GridBots DEF GridIsGood
<1>4. Rates \subseteq {"none", "missing", "longs", "shorts"}
  BY EvidenceAssumption
<1>5. CASE OpenMinute
  BY <1>3, <1>4, <1>5, StartIsGood DEF OpenMinute
<1>6. CASE Trade
  BY <1>3, <1>6, SegmentIsGood DEF Trade
<1>7. CASE CloseMinute
  <2>1. PICK evidence \in Evidence : book' = Observe(evidence) /\ exact' = book' /\ tape' = tape
    BY <1>7 DEF CloseMinute
  <2>2. evidence \in {"candle", "trades", "mismatch"}
    BY EvidenceAssumption
  <2>3. Good(ReplayCandle(book, candle), bot) /\ Good(Void(book), bot)
    BY <1>3, CandleIsGood, VoidIsGood
  <2>4. Observe(evidence) \in {ReplayCandle(book, candle), exact, book, Void(book)}
    BY <2>2 DEF Observe
  <2> QED BY <1>3, <2>1, <2>3, <2>4
<1>8. CASE Horizon
  BY <1>3, <1>4, <1>8, FinishIsGood DEF Horizon
<1>9. CASE UNCHANGED replayVars
  BY <1>3, <1>9 DEF replayVars
<1> QED BY <1>5, <1>6, <1>7, <1>8, <1>9 DEF ReplayNext

\* At every moment, in each replay of a grid: the slots on order on a side are what the
\* position can still grow by, closing at the kill switch covers what they have to lose
\* there up to the stress, and no replacement is born outside the grid.
THEOREM BooksHold == ReplaySpec => []ReplayInvariant
<1>1. ReplayIsGood => ReplayInvariant
  BY DEF ReplayIsGood, GridIsGood, ReplayInvariant, Ledgers, Good
<1> QED BY <1>1, ReplayStarts, ReplaySteps, PTL DEF ReplaySpec

---------------------------------------------------------------------------
(* What follows from sound books.                                          *)

\* Sound books keep the position within the commitment.
LEMMA PositionStays ==
  ASSUME NEW b, IsGridBot(b), NEW l, Good(l, b)
  PROVE  /\ Magnitude(l.pos) <= MaxAbsPosition(b.direction, b.entry)
         /\ l.pos + RestingBuys(l) =
              InitialPosition(b.direction, b.entry) + Cardinality(BuyIndices(b.direction, b.entry))
<1> DEFINE buys == Cardinality(BuyIndices(b.direction, b.entry))
           sells == Cardinality(SellIndices(b.direction, b.entry))
           p == InitialPosition(b.direction, b.entry)
           up == SumFunction(Resting(l, 1))
           down == SumFunction(Resting(l, -1))
<1>1. buys \in Nat /\ sells \in Nat
  <2>1. BuyIndices(b.direction, b.entry) \in SUBSET Indices /\ SellIndices(b.direction, b.entry) \in SUBSET Indices
    BY OpeningLies
  <2> QED BY <2>1, TotalOfOnes
<1>2. p = CASE b.direction = "long" -> sells [] b.direction = "short" -> -buys [] OTHER -> 0
  BY DEF InitialPosition
<1>3. 1 * l.pos + up = 1 * p + buys /\ (-1) * l.pos + down = (-1) * p + sells
  BY DEF Good, BooksAreSound, SlotsAddUp, OpeningOrders
<1>4. up \in Int /\ up >= 0 /\ down \in Int /\ down >= 0
  <2>1. \A s \in Sides : Resting(l, s) \in Slots /\ \A i \in Indices : Resting(l, s)[i] >= 0
    BY RestingIsTyped DEF Good
  <2>2. \A s \in Sides : SumFunction(Resting(l, s)) \in Int /\ SumFunction(Resting(l, s)) >= 0
    BY <2>1, TotalOfAll, TotalIsInt, TotalIsNotNegative DEF Slots
  <2> QED BY <2>2 DEF Sides
<1>5. MaxAbsPosition(b.direction, b.entry)
        = IF b.direction = "neutral" THEN (IF buys > sells THEN buys ELSE sells) ELSE buys + sells
  BY DEF MaxAbsPosition
<1>6. l.pos \in Int /\ RestingBuys(l) = up
  BY DEF Good, RestingBuys
<1> HIDE DEF buys, sells, p, up, down
<1>7. p \in Int
  BY <1>1, <1>2
<1>8. l.pos + up = p + buys /\ down - l.pos = sells - p
  BY <1>1, <1>3, <1>4, <1>6, <1>7
<1>9. CASE b.direction = "neutral"
  BY <1>1, <1>2, <1>4, <1>5, <1>6, <1>8, <1>9 DEF Magnitude, buys, p
<1>10. CASE b.direction = "long"
  BY <1>1, <1>2, <1>4, <1>5, <1>6, <1>8, <1>10 DEF Magnitude, buys, p
<1>11. CASE b.direction = "short"
  BY <1>1, <1>2, <1>4, <1>5, <1>6, <1>8, <1>11 DEF Magnitude, buys, p
<1> QED BY <1>9, <1>10, <1>11 DEF IsGridBot

\* The position of a replay never exceeds the one that the margin of the bot is sized for
\* (max_abs_position), and every fill is answered by one replacement.
THEOREM PositionIsCommitted == ReplaySpec => []PositionWithinCommitment
<1>1. ReplayIsGood => PositionWithinCommitment
  <2> SUFFICES ASSUME bot \in Bots, GridIsGood, NEW l \in Ledgers
               PROVE  /\ Magnitude(l.pos) <= MaxAbsPosition(bot.direction, bot.entry)
                      /\ l.pos + RestingBuys(l) = InitialPosition(bot.direction, bot.entry)
                                                  + Cardinality(BuyIndices(bot.direction, bot.entry))
    BY DEF PositionWithinCommitment, ReplayIsGood
  <2>1. Grid /\ Good(l, bot)
    BY DEF GridIsGood, Ledgers
  <2> QED BY <2>1, GridBots, PositionStays
<1> QED BY <1>1, ReplayStarts, ReplaySteps, PTL DEF ReplaySpec

\* What a stop on the other side can cost is no more than the stress on the bot's own.
LEMMA StressIsWorst ==
  ASSUME NEW b, IsGridBot(b), NEW s \in Sides
  PROVE  /\ StressAt(s, b) \in Int /\ WorstLoss(b.direction, b.entry) \in Int
         /\ StressAt(s, b) <= WorstLoss(b.direction, b.entry)
<1> DEFINE d == b.direction
           e == b.entry
           p == InitialPosition(d, e)
           own(t) == OpeningOrders(t, b)
           X(t) == SumFunctionOnSet(LossAt(t), own(t))
           K(t) == KillSwitch(t)
           size(t) == Cardinality(own(t))
<1>1. p \in Int /\ e \in Int /\ \A t \in Sides : own(t) \in SUBSET Indices /\ size(t) \in Nat
  BY InitialIsInt
<1>2. ASSUME NEW t \in Sides
      PROVE  /\ LossAt(t) \in Slots /\ Within(LossAt(t), own(t)) \in Slots
             /\ X(t) = Total(Within(LossAt(t), own(t)))
             /\ X(t) \in Int /\ X(t) >= 0 /\ K(t) \in Int
  <2>1. LossAt(t) \in Slots /\ K(t) \in Int /\ \A i \in Indices : LossAt(t)[i] >= 0
    BY LossesAreTyped
  <2>2. /\ Within(LossAt(t), own(t)) \in Slots
        /\ X(t) = Total(Within(LossAt(t), own(t)))
    BY <1>1, <2>1, PartIsTotal DEF Slots
  <2>3. \A i \in Indices : Within(LossAt(t), own(t))[i] >= 0
    BY <2>1 DEF Within
  <2> HIDE DEF X, own
  <2> QED BY <2>1, <2>2, <2>3, TotalIsInt, TotalIsNotNegative DEF Slots
<1>3. /\ own(1) = BuyIndices(d, e) /\ own(-1) = SellIndices(d, e)
      /\ K(1) = KsLower /\ K(-1) = KsUpper
      /\ LossAt(1) = LossAtLower /\ LossAt(-1) = LossAtUpper
  BY DEF OpeningOrders, KillSwitch, LossAt
<1>4. K(1) < e /\ e < K(-1)
  <2>1. Lower <= e /\ e <= Level(GridCount) /\ KsLower < Lower /\ KsUpper > Level(GridCount)
    BY GridAssumption DEF IsGridBot, Level
  <2>2. Level(GridCount) \in Int /\ Lower \in Int /\ KsLower \in Int /\ KsUpper \in Int
    BY LevelsRise, Count, GridAssumption DEF Indices
  <2> QED BY <1>1, <1>3, <2>1, <2>2
<1>5. StressAt(1, b) = p * (e - K(1)) + X(1) /\ StressAt(-1, b) = p * (e - K(-1)) + X(-1)
  BY DEF StressAt
<1>6. p = CASE d = "long" -> size(-1) [] d = "short" -> -size(1) [] OTHER -> 0
  BY <1>3 DEF InitialPosition
\* On the side away from the position each order closes a slot at no loss.
<1>7. ASSUME NEW t \in Sides PROVE X(t) <= size(t) * (t * (e - K(t)))
  <2> DEFINE one == [i \in Indices |-> 1]
             W == Within(LossAt(t), own(t))
             O == Within(one, own(t))
             v == t * (e - K(t))
             V == [i \in Indices |-> v * O[i]]
  <2>1. O \in Slots /\ v \in Int /\ W \in Slots
    <3>1. e \in Int /\ K(t) \in Int
      BY <1>1, <1>2
    <3>2. e - K(t) \in Int
      BY <3>1
    <3>3. v \in Int
      BY <3>2 DEF Sides
    <3>4. O \in Slots
      BY DEF Within, Slots
    <3>5. W \in Slots
      BY <1>2
    <3> QED BY <3>3, <3>4, <3>5
  <2>2. V \in Slots /\ \A i \in Indices : V[i] = v * O[i]
    BY <2>1 DEF Slots
  <2>3. ASSUME NEW i \in Indices PROVE W[i] <= V[i]
    <3>1. CASE i \in own(t)
      <4>1. O[i] = 1 /\ W[i] = t * (Level(i) - K(t)) /\ Level(i) \in Int
        BY <3>1, LossesAreTyped, LevelsRise DEF Within
      <4>2. (t = 1 => Level(i) <= e) /\ (t = -1 => Level(i) >= e)
        BY <1>3, <3>1, OpeningLies
      <4>3. V[i] = v * 1
        BY <2>2, <4>1
      <4> HIDE DEF W, V, O, e, K
      <4> QED BY <1>1, <1>2, <4>1, <4>2, <4>3 DEF Sides
    <3>2. CASE i \notin own(t)
      <4>1. O[i] = 0 /\ W[i] = 0
        BY <3>2 DEF Within
      <4>2. V[i] = v * 0
        BY <2>2, <4>1
      <4> HIDE DEF W, V, O, v
      <4> QED BY <2>1, <4>1, <4>2
    <3> QED BY <3>1, <3>2
  <2>4. Total(O) = size(t)
    BY <1>1, TotalOfOnes
  <2> HIDE DEF W, V, O, v
  <2>5. Total(W) <= Total(V) /\ Total(V) = v * Total(O)
    BY <2>1, <2>2, <2>3, TotalGrows, TotalScales DEF Slots
  <2>6. X(t) = Total(W)
    BY <1>2 DEF W
  <2>7. size(t) \in Int
    BY <1>1
  <2> HIDE DEF size, X
  <2>8. X(t) <= v * size(t)
    BY <2>4, <2>5, <2>6
  <2>9. v * size(t) = size(t) * v
    BY <2>1, <2>7
  <2> QED BY <2>8, <2>9 DEF v
<1> HIDE DEF d, e, p, own, X, K, size
<1>8. 1 \in Sides /\ -1 \in Sides
  BY DEF Sides
<1> DEFINE low == X(1)
           high == X(-1)
           kl == K(1)
           ku == K(-1)
           n == size(1)
           m == size(-1)
<1>9. /\ low \in Int /\ low >= 0 /\ high \in Int /\ high >= 0 /\ kl \in Int /\ ku \in Int
      /\ n \in Nat /\ m \in Nat /\ p \in Int /\ e \in Int /\ kl < e /\ e < ku
  BY <1>1, <1>2, <1>4, <1>8
<1>10. low <= n * (1 * (e - kl)) /\ high <= m * ((-1) * (e - ku))
  BY <1>7, <1>8
<1>11. /\ LongStress(d, e) = (IF d = "long" THEN p * (e - kl) ELSE 0) + low
       /\ ShortStress(d, e) = (IF d = "short" THEN -p * (ku - e) ELSE 0) + high
  BY <1>3 DEF LongStress, ShortStress, X, p, K
<1>12. StressAt(1, b) = p * (e - kl) + low /\ StressAt(-1, b) = p * (e - ku) + high
  BY <1>5
<1> HIDE DEF low, high, kl, ku, n, m
<1>13. /\ n * (e - kl) \in Nat /\ m * (ku - e) \in Nat /\ p * (e - kl) \in Int /\ p * (e - ku) \in Int
       /\ p * (ku - e) \in Int
  BY <1>9
<1>14. CASE d = "neutral"
  <2>1. p = 0
    BY <1>6, <1>14
  <2>2. StressAt(1, b) = low /\ StressAt(-1, b) = high /\ LongStress(d, e) = low /\ ShortStress(d, e) = high
    BY <1>9, <1>11, <1>12, <1>14, <2>1
  <2>3. WorstLoss(d, e) = IF low > high THEN low ELSE high
    BY <1>14, <2>2 DEF WorstLoss
  <2> QED BY <1>9, <2>2, <2>3 DEF Sides, d, e
<1>15. CASE d = "long"
  <2>1. p = m
    BY <1>6, <1>15 DEF m
  <2>2. StressAt(1, b) = LongStress(d, e) /\ WorstLoss(d, e) = LongStress(d, e)
    BY <1>11, <1>12, <1>15 DEF WorstLoss
  <2>3. m * (e - kl) \in Nat /\ m * (e - ku) = -(m * (ku - e)) /\ m * ((-1) * (e - ku)) = m * (ku - e)
    BY <1>9
  <2> DEFINE x == m * (ku - e)
             y == m * (e - kl)
  <2>4. StressAt(-1, b) = -x + high /\ high <= x /\ LongStress(d, e) = y + low
    BY <1>10, <1>11, <1>12, <1>15, <2>1, <2>3
  <2>5. x \in Int /\ y \in Int /\ y >= 0
    BY <1>13, <2>3
  <2> HIDE DEF x, y
  <2>6. /\ StressAt(-1, b) <= LongStress(d, e) /\ LongStress(d, e) \in Int /\ StressAt(-1, b) \in Int
    BY <1>9, <2>4, <2>5
  <2> QED BY <2>2, <2>6 DEF Sides, d, e
<1>16. CASE d = "short"
  <2>1. p = -n
    BY <1>6, <1>16 DEF n
  <2>2. WorstLoss(d, e) = ShortStress(d, e)
    BY <1>16 DEF WorstLoss
  <2>3. /\ (-n) * (e - kl) = -(n * (e - kl)) /\ n * (1 * (e - kl)) = n * (e - kl)
        /\ n * (ku - e) \in Nat /\ (-n) * (e - ku) = n * (ku - e)
        /\ -((-n) * (ku - e)) = n * (ku - e)
    BY <1>9
  <2> DEFINE x == n * (e - kl)
             y == n * (ku - e)
  <2>4. /\ StressAt(1, b) = -x + low /\ low <= x /\ ShortStress(d, e) = y + high
        /\ StressAt(-1, b) = y + high
    <3>1. StressAt(1, b) = (-n) * (e - kl) + low /\ StressAt(-1, b) = (-n) * (e - ku) + high
      BY <1>12, <2>1
    <3>2. ShortStress(d, e) = -((-n) * (ku - e)) + high
      BY <1>11, <1>16, <2>1
    <3>3. low <= n * (e - kl)
      BY <1>10, <2>3
    <3> QED BY <2>3, <3>1, <3>2, <3>3
  <2>5. x \in Int /\ y \in Int /\ y >= 0
    BY <1>13, <2>3
  <2> HIDE DEF x, y
  <2>6. /\ StressAt(1, b) <= ShortStress(d, e) /\ StressAt(-1, b) = ShortStress(d, e)
        /\ ShortStress(d, e) \in Int /\ StressAt(1, b) \in Int
    BY <1>9, <2>4, <2>5
  <2> QED BY <2>2, <2>6 DEF Sides, d, e
<1> QED BY <1>14, <1>15, <1>16 DEF IsGridBot, d

\* Sound books keep the loss within the stress.
LEMMA StopStays ==
  ASSUME NEW b, IsGridBot(b), NEW l, Good(l, b)
  PROVE  l.cash + l.pos * Boundary(l) >= -WorstLoss(b.direction, b.entry)
<1>1. PICK s \in Sides : KillSwitch(s) = Boundary(l)
  <2>1. KillSwitch(1) = KsLower /\ KillSwitch(-1) = KsUpper
    BY DEF KillSwitch
  <2> QED BY <2>1 DEF Boundary, Sides
<1> DEFINE E == [i \in Indices |-> Resting(l, s)[i] * LossAt(s)[i]]
<1>2. /\ Resting(l, s) \in Slots /\ LossAt(s) \in Slots
      /\ \A i \in Indices : Resting(l, s)[i] >= 0 /\ LossAt(s)[i] >= 0
  BY RestingIsTyped, LossesAreTyped DEF Good
<1>3. E \in Slots /\ \A i \in Indices : E[i] >= 0
  <2>1. \A i \in Indices : Resting(l, s)[i] \in Int /\ LossAt(s)[i] \in Int
    BY <1>2 DEF Slots
  <2>2. \A m, n \in Int : m >= 0 /\ n >= 0 => m * n >= 0 /\ m * n \in Int
    OBVIOUS
  <2> QED BY <1>2, <2>1, <2>2 DEF Slots
<1>4. l.cash + l.pos * KillSwitch(s) >= SumFunction(E) - StressAt(s, b)
  BY DEF Good, BooksAreSound, LossIsCovered, Sides
<1> HIDE DEF E
<1>5. SumFunction(E) \in Int /\ SumFunction(E) >= 0
  BY <1>3, TotalOfAll, TotalIsInt, TotalIsNotNegative DEF Slots
<1>6. l.cash \in Int /\ l.pos * KillSwitch(s) \in Int
  <2>1. l.pos \in Int /\ KillSwitch(s) \in Int
    BY LossesAreTyped DEF Good
  <2> QED BY <2>1 DEF Good
<1>7. /\ StressAt(s, b) \in Int /\ WorstLoss(b.direction, b.entry) \in Int
      /\ StressAt(s, b) <= WorstLoss(b.direction, b.entry)
  BY StressIsWorst
<1> DEFINE x == l.pos * KillSwitch(s)
<1>8. l.cash + x >= SumFunction(E) - StressAt(s, b) /\ x \in Int /\ l.pos * Boundary(l) = x
  BY <1>1, <1>4, <1>6
<1> HIDE DEF x
<1> QED BY <1>5, <1>6, <1>7, <1>8

\* Stopped at the kill switch, a grid has lost no more than the stress with which its leverage
\* was approved (arithmetic_grid_cross_margin_stress), whatever the path of the prices.
THEOREM StopIsStressed == ReplaySpec => []StopWithinStress
<1>1. ReplayIsGood => StopWithinStress
  <2> SUFFICES ASSUME bot \in Bots, GridIsGood, NEW l \in Ledgers
               PROVE  l.cash + l.pos * Boundary(l) >= -WorstLoss(bot.direction, bot.entry)
    BY DEF StopWithinStress, ReplayIsGood
  <2>1. Grid /\ Good(l, bot)
    BY DEF GridIsGood, Ledgers
  <2> QED BY <2>1, GridBots, StopStays
<1> QED BY <1>1, ReplayStarts, ReplaySteps, PTL DEF ReplaySpec

---------------------------------------------------------------------------
(* What one segment does to a ledger.                                      *)

Fees == {"none", "missing", "longs", "shorts"}

Typed(l) ==
  IsLedger(l) /\ l.orders \in Slots /\ l.pending \in Slots /\ l.pos \in Int /\ l.cash \in Int

\* The price at which a position that is stopped on a side is closed.
ClosedAt(l, pos, side, target) ==
  CASE side = "upper" -> IF pos < 0 THEN target ELSE KsUpper
    [] side = "lower" -> IF pos > 0 THEN target ELSE KsLower
    [] OTHER -> l.liq

Direction(l, to) == IF to > l.prev THEN 1 ELSE -1

Done(l, target, s) ==
  LET side   == Breach(l.prev, target)
      to     == Terminal(l.prev, target)
      filled == Crossed(l.orders, l.prev, to)
      paid   == SumFunctionOnSet(Paid(l.orders), filled)
  IN  /\ Crossed(l.pending, l.prev, to) = {}
      /\ s.orders = [i \in Indices |-> IF i \in filled THEN 0 ELSE l.orders[i]]
      /\ s.pending = [i \in Indices |-> l.pending[i] + Born(l.orders, filled, Direction(l, to))[i]]
      /\ s.pos = l.pos + SumFunctionOnSet(l.orders, filled)
      /\ s.cash = l.cash - paid /\ s.turn = l.turn + Magnitude(paid)
      /\ s.market = l.market /\ s.funding = l.funding /\ s.prev = to
      /\ s.stop = side /\ s.liq = ClosedAt(l, s.pos, side, target)

LEMMA SegmentDoes ==
  ASSUME NEW l, IsLedger(l), ~Over(l), NEW target, NEW capacity,
         ~Segment(l, target, capacity).bad
  PROVE  Done(l, target, Segment(l, target, capacity))
<1> DEFINE side   == Breach(l.prev, target)
           to     == Terminal(l.prev, target)
           filled == Crossed(l.orders, l.prev, to)
           slots  == Magnitude(SumFunctionOnSet(l.orders, filled))
           spent  == Consume(l, slots, capacity)
           turn   == Direction(l, to)
           kept   == Fill(spent, filled, turn)
           held   == Reach(kept, to)
           s      == Segment(l, target, capacity)
           rest   == [i \in Indices |-> IF i \in filled THEN 0 ELSE l.orders[i]]
           new    == [i \in Indices |-> l.pending[i] + Born(l.orders, filled, turn)[i]]
           paid   == SumFunctionOnSet(Paid(l.orders), filled)
           sold   == SumFunctionOnSet(l.orders, filled)
<1>1. s = IF Crossed(l.pending, l.prev, to) # {} \/ kept.bad THEN Void(l)
          ELSE IF side = "none" THEN held ELSE Liquidate(held, side, target, capacity)
  BY DEF Segment, Direction
<1> HIDE DEF s
<1>2. Void(l).bad = TRUE
  BY DEF Void, IsLedger, LedgerFields
<1>3. Crossed(l.pending, l.prev, to) = {} /\ ~kept.bad
  BY <1>1, <1>2 DEF s
<1>4. spent = [l EXCEPT !.used = l.used + slots]
  <2>1. spent = Void(l) \/ spent = [l EXCEPT !.used = l.used + slots]
    BY DEF Consume
  <2>2. spent = Void(l) => kept.bad
    <3> SUFFICES ASSUME spent = Void(l) PROVE kept.bad
      OBVIOUS
    <3>1. spent.bad = TRUE /\ IsLedger(spent)
      BY DEF Void, IsLedger, LedgerFields
    <3> HIDE DEF spent, filled, turn
    <3>2. kept.bad = TRUE
      BY <3>1 DEF Fill, Void, IsLedger, LedgerFields
    <3> QED BY <3>2
  <2> QED BY <1>3, <2>1, <2>2
<1> HIDE DEF spent, slots
<1>5. IsLedger(spent) /\ \A f \in LedgerFields \ {"used"} : spent[f] = l[f]
  BY <1>4 DEF IsLedger, LedgerFields
<1> HIDE DEF filled, turn, paid, sold, rest, new
<1>6. kept = [spent EXCEPT !.orders = rest, !.pending = new, !.cash = l.cash - paid,
                           !.turn = l.turn + Magnitude(paid), !.pos = l.pos + sold]
  <2>1. /\ spent.orders = l.orders /\ spent.pending = l.pending /\ spent.cash = l.cash
        /\ spent.turn = l.turn /\ spent.pos = l.pos /\ spent.bad = l.bad
    BY <1>5 DEF LedgerFields
  <2>2. kept = Void(spent) \/
        kept = [spent EXCEPT !.orders  = [i \in Indices |-> IF i \in filled THEN 0 ELSE l.orders[i]],
                             !.pending = [i \in Indices |-> l.pending[i] + Born(l.orders, filled, turn)[i]],
                             !.cash    = l.cash - SumFunctionOnSet(Paid(l.orders), filled),
                             !.turn    = l.turn + Magnitude(SumFunctionOnSet(Paid(l.orders), filled)),
                             !.pos     = l.pos + SumFunctionOnSet(l.orders, filled)]
    BY <2>1 DEF Fill
  <2>3. Void(spent).bad = TRUE
    BY <1>5 DEF Void, IsLedger, LedgerFields
  <2> QED BY <1>3, <2>2, <2>3 DEF rest, new, paid, sold
<1> HIDE DEF kept
<1>7. /\ IsLedger(held) /\ held.orders = rest /\ held.pending = new /\ held.cash = l.cash - paid
      /\ held.turn = l.turn + Magnitude(paid) /\ held.pos = l.pos + sold
      /\ held.market = l.market /\ held.funding = l.funding /\ held.prev = to
      /\ held.stop = l.stop /\ held.liq = l.liq /\ held.bad = l.bad
  BY <1>5, <1>6 DEF Reach, IsLedger, LedgerFields
<1> HIDE DEF held
<1>8. side \in {"none", "upper", "lower"} /\ l.stop = "none"
  BY DEF Breach, Over
<1>9. CASE side = "none"
  <2>1. s = held
    BY <1>1, <1>3, <1>9
  <2>2. s.liq = ClosedAt(l, s.pos, side, target)
    BY <1>7, <1>9, <2>1 DEF ClosedAt
  <2> QED BY <1>3, <1>7, <1>8, <1>9, <2>1, <2>2 DEF Done, s, rest, new, paid, sold, filled, turn
<1>10. CASE side # "none"
  <2> DEFINE all == Magnitude(held.pos)
             c   == Consume(held, all, capacity)
             price == IF (side = "upper" /\ held.pos < 0) \/ (side = "lower" /\ held.pos > 0)
                      THEN target ELSE IF side = "upper" THEN KsUpper ELSE KsLower
  <2>1. s = [c EXCEPT !.stop = side, !.liq = price, !.peak = Highest(@, all * price)]
    BY <1>1, <1>3, <1>10 DEF Liquidate
  <2>2. c = Void(held) \/ c = [held EXCEPT !.used = held.used + all]
    BY DEF Consume
  <2> HIDE DEF c, all, price
  <2>3. c = [held EXCEPT !.used = held.used + all]
    <3>1. c = Void(held) => s.bad = TRUE
      BY <1>7, <2>1 DEF Void, IsLedger, LedgerFields
    <3> QED BY <2>2, <3>1 DEF s
  <2>4. /\ s.orders = rest /\ s.pending = new /\ s.cash = l.cash - paid
        /\ s.turn = l.turn + Magnitude(paid) /\ s.pos = l.pos + sold
        /\ s.market = l.market /\ s.funding = l.funding /\ s.prev = to
        /\ s.stop = side /\ s.liq = price /\ held.pos = s.pos
    BY <1>7, <2>1, <2>3 DEF IsLedger, LedgerFields
  <2>5. s.liq = ClosedAt(l, s.pos, side, target)
    BY <1>8, <1>10, <2>4 DEF ClosedAt, price
  <2> QED BY <1>3, <2>4, <2>5 DEF Done, s, rest, new, paid, sold, filled, turn
<1> QED BY <1>9, <1>10

---------------------------------------------------------------------------
(* Sums of parts.                                                          *)

\* Two parts add up; the second may be read from another function that agrees on it.
Splits(f, A, g, B) ==
  /\ SumFunctionOnSet(f, A) \in Int /\ SumFunctionOnSet(g, B) \in Int
  /\ SumFunctionOnSet(f, A \union B) = SumFunctionOnSet(f, A) + SumFunctionOnSet(g, B)

LEMMA PartsAddUp ==
  ASSUME NEW f \in Slots, NEW g \in Slots, NEW A \in SUBSET Indices, NEW B \in SUBSET Indices,
         A \intersect B = {}, \A i \in B : g[i] = f[i]
  PROVE  Splits(f, A, g, B)
<1> DEFINE C == A \union B
           a == Within(f, A)
           b == Within(g, B)
           c == Within(f, C)
<1>1. C \in SUBSET Indices
  OBVIOUS
<1>2. \A i \in Indices : f[i] \in Int /\ g[i] \in Int
  BY DEF Slots
<1>3. \A i \in Indices : c[i] = a[i] + b[i]
  BY <1>2 DEF Within
<1>4. /\ a \in Slots /\ SumFunctionOnSet(f, A) = Total(a)
      /\ b \in Slots /\ SumFunctionOnSet(g, B) = Total(b)
      /\ c \in Slots /\ SumFunctionOnSet(f, C) = Total(c)
  <2> HIDE DEF C
  <2> QED BY <1>1, PartIsTotal DEF Slots
<1> HIDE DEF a, b, c
<1>5. Total(a) \in Int /\ Total(b) \in Int /\ Total(c) = Total(a) + Total(b)
  BY <1>3, <1>4, TotalOfSums, TotalIsInt DEF Slots
<1> QED BY <1>4, <1>5 DEF Splits

\* What is all of one sign adds up to the sum of its magnitudes.
LEMMA OneSidedParts ==
  ASSUME NEW f \in Slots, NEW h \in Slots, NEW B \in SUBSET Indices, NEW s \in Sides,
         \A i \in B : h[i] = s * f[i] /\ h[i] >= 0
  PROVE  Magnitude(SumFunctionOnSet(f, B)) = SumFunctionOnSet(h, B)
<1> DEFINE a == Within(f, B)
           b == Within(h, B)
<1>1. /\ a \in Slots /\ SumFunctionOnSet(f, B) = Total(a)
      /\ b \in Slots /\ SumFunctionOnSet(h, B) = Total(b)
  BY PartIsTotal DEF Slots
<1>2. \A i \in Indices : b[i] = s * a[i] /\ b[i] >= 0
  BY DEF Within, Sides
<1> HIDE DEF a, b
<1>3. s \in Int
  BY DEF Sides
<1>4. Total(b) = s * Total(a) /\ Total(b) >= 0 /\ Total(a) \in Int
  BY <1>1, <1>2, <1>3, TotalScales, TotalIsNotNegative, TotalIsInt DEF Slots
<1> QED BY <1>1, <1>4 DEF Sides, Magnitude

---------------------------------------------------------------------------
(* A replay against the ledger with which its minute began.                *)

Lowest(a, b) == IF a < b THEN a ELSE b

FilledBy(k, top, bottom) == Sold(k, top) \union Bought(k, bottom)

NewlyFilled(k, l, top, bottom, to) ==
  LET new == Crossed(l.orders, l.prev, to)
  IN  /\ new \in SUBSET Indices /\ new \intersect FilledBy(k, top, bottom) = {}
      /\ \A i \in new : l.orders[i] = k.orders[i]
      /\ to > l.prev => /\ \A i \in new : k.orders[i] < 0
                        /\ Sold(k, Highest(top, to)) = Sold(k, top) \union new
                        /\ Sold(k, top) \intersect new = {}
                        /\ Bought(k, Lowest(bottom, to)) = Bought(k, bottom)
      /\ ~(to > l.prev) => /\ \A i \in new : k.orders[i] > 0
                           /\ Sold(k, Highest(top, to)) = Sold(k, top)
                           /\ Bought(k, bottom) \intersect new = {}
                           /\ Bought(k, Lowest(bottom, to)) = Bought(k, bottom) \union new

\* What a segment crosses of what rests is what the wider stretch has more of.
LEMMA CrossedIsNew ==
  ASSUME NEW k, k.orders \in Slots, NEW top \in Int, NEW bottom \in Int,
         NEW l, l.orders = [i \in Indices |-> IF i \in FilledBy(k, top, bottom) THEN 0 ELSE k.orders[i]],
         l.prev \in Int, bottom <= l.prev, l.prev <= top, NEW to \in Int
  PROVE  NewlyFilled(k, l, top, bottom, to)
<1> DEFINE new == Crossed(l.orders, l.prev, to)
           old == FilledBy(k, top, bottom)
<1>1. \A i \in Indices : k.orders[i] \in Int /\ Level(i) \in Int
  BY LevelsRise DEF Slots
<1>2. new \in SUBSET Indices
  BY DEF Crossed
<1>3. \A i \in Indices : /\ i \in old => l.orders[i] = 0
                         /\ i \notin old => l.orders[i] = k.orders[i]
  OBVIOUS
<1>4. ASSUME NEW i \in new PROVE i \notin old /\ l.orders[i] = k.orders[i]
  <2>1. i \in Indices /\ l.orders[i] # 0
    BY <1>2 DEF Crossed
  <2> QED BY <1>3, <2>1
<1>5. \A i \in Indices :
        /\ i \in Sold(k, top) <=> k.orders[i] < 0 /\ Level(i) < top
        /\ i \in Bought(k, bottom) <=> k.orders[i] > 0 /\ Level(i) > bottom
        /\ i \in old <=> i \in Sold(k, top) \/ i \in Bought(k, bottom)
  BY DEF Sold, Bought, FilledBy
<1>6. CASE to > l.prev
  <2>1. Highest(top, to) = (IF top > to THEN top ELSE to) /\ Lowest(bottom, to) = bottom
    BY <1>6 DEF Highest, Lowest
  <2>2. \A i \in Indices : i \in new <=> l.orders[i] < 0 /\ Level(i) >= l.prev /\ Level(i) < to
    BY <1>6 DEF Crossed
  <2>3. \A i \in new : k.orders[i] < 0
    BY <1>2, <1>4, <2>2
  <2> HIDE DEF new, old
  <2>4. ASSUME NEW i \in Indices
        PROVE  k.orders[i] < 0 /\ Level(i) < Highest(top, to) <=> i \in Sold(k, top) \/ i \in new
    <3>1. CASE k.orders[i] < 0
      <4>1. i \notin Bought(k, bottom)
        BY <1>1, <1>5, <3>1
      <4> QED BY <1>1, <1>3, <1>5, <2>1, <2>2, <3>1, <4>1
    <3>2. CASE ~(k.orders[i] < 0)
      BY <1>5, <2>3, <3>2
    <3> QED BY <3>1, <3>2
  <2>5. Sold(k, Highest(top, to)) = Sold(k, top) \union new
    <3>1. \A i : i \in Sold(k, Highest(top, to)) <=> i \in Indices /\ k.orders[i] < 0 /\ Level(i) < Highest(top, to)
      BY DEF Sold
    <3>2. Sold(k, top) \subseteq Indices
      BY DEF Sold
    <3> QED BY <1>2, <2>4, <3>1, <3>2
  <2> QED BY <1>2, <1>4, <1>5, <1>6, <2>1, <2>3, <2>5 DEF new, old, NewlyFilled
<1>7. CASE ~(to > l.prev)
  <2>1. Highest(top, to) = top /\ Lowest(bottom, to) = (IF bottom < to THEN bottom ELSE to)
    BY <1>7 DEF Highest, Lowest
  <2>2. \A i \in Indices : i \in new <=> l.orders[i] > 0 /\ Level(i) <= l.prev /\ Level(i) > to /\ to < l.prev
    BY <1>7 DEF Crossed
  <2>3. \A i \in new : k.orders[i] > 0
    BY <1>2, <1>4, <2>2
  <2> HIDE DEF new, old
  <2>4. ASSUME NEW i \in Indices
        PROVE  k.orders[i] > 0 /\ Level(i) > Lowest(bottom, to) <=> i \in Bought(k, bottom) \/ i \in new
    <3>1. CASE k.orders[i] > 0
      <4>1. i \notin Sold(k, top)
        BY <1>1, <1>5, <3>1
      <4> QED BY <1>1, <1>3, <1>5, <1>7, <2>1, <2>2, <3>1, <4>1
    <3>2. CASE ~(k.orders[i] > 0)
      BY <1>5, <2>3, <3>2
    <3> QED BY <3>1, <3>2
  <2>5. Bought(k, Lowest(bottom, to)) = Bought(k, bottom) \union new
    <3>1. \A i : i \in Bought(k, Lowest(bottom, to))
                   <=> i \in Indices /\ k.orders[i] > 0 /\ Level(i) > Lowest(bottom, to)
      BY DEF Bought
    <3>2. Bought(k, bottom) \subseteq Indices
      BY DEF Bought
    <3> QED BY <1>2, <2>4, <3>1, <3>2
  <2> QED BY <1>2, <1>4, <1>5, <1>7, <2>1, <2>3, <2>5 DEF new, old, NewlyFilled
<1> QED BY <1>6, <1>7

LEMMA ValuesAreSlots ==
  ASSUME NEW o \in Slots
  PROVE  /\ Paid(o) \in Slots /\ Notional(o) \in Slots
         /\ \A i \in Indices : /\ Paid(o)[i] = o[i] * Level(i) /\ Notional(o)[i] = Magnitude(o[i]) * Level(i)
                               /\ Notional(o)[i] >= 0
                               /\ o[i] > 0 => Notional(o)[i] = 1 * Paid(o)[i]
                               /\ o[i] < 0 => Notional(o)[i] = (-1) * Paid(o)[i]
<1>1. \A i \in Indices : o[i] \in Int /\ Level(i) \in Int /\ Level(i) >= 0
  <2>1. Lower \in Int /\ Lower >= 0
    BY Count
  <2> QED BY <2>1, LevelsRise DEF Slots
<1>2. \A x, y \in Int : /\ x * y \in Int /\ Magnitude(x) \in Int /\ Magnitude(x) >= 0
                        /\ Magnitude(x) * y \in Int /\ (y >= 0 => Magnitude(x) * y >= 0)
                        /\ x > 0 => Magnitude(x) * y = x * y
                        /\ x < 0 => Magnitude(x) * y = (-1) * (x * y)
  <2> SUFFICES ASSUME NEW x \in Int, NEW y \in Int
               PROVE  /\ x * y \in Int /\ Magnitude(x) \in Int /\ Magnitude(x) >= 0
                      /\ Magnitude(x) * y \in Int /\ (y >= 0 => Magnitude(x) * y >= 0)
                      /\ x > 0 => Magnitude(x) * y = x * y
                      /\ x < 0 => Magnitude(x) * y = (-1) * (x * y)
    OBVIOUS
  <2>1. Magnitude(x) = IF x < 0 THEN -x ELSE x
    BY DEF Magnitude
  <2>2. Magnitude(x) \in Int /\ Magnitude(x) >= 0 /\ x * y \in Int
    BY <2>1
  <2>3. Magnitude(x) * y \in Int /\ (y >= 0 => Magnitude(x) * y >= 0)
    BY <2>2, Multiples
  <2>4. x < 0 => Magnitude(x) * y = (-1) * (x * y)
    <3>1. (-x) * y = (-1) * (x * y)
      OBVIOUS
    <3> QED BY <2>1, <3>1
  <2>5. x > 0 => Magnitude(x) = x
    BY <2>1
  <2> QED BY <2>2, <2>3, <2>4, <2>5
<1>3. ASSUME NEW i \in Indices
      PROVE  /\ o[i] * Level(i) \in Int /\ Magnitude(o[i]) * Level(i) \in Int
             /\ Magnitude(o[i]) * Level(i) >= 0
             /\ o[i] > 0 => Magnitude(o[i]) * Level(i) = 1 * (o[i] * Level(i))
             /\ o[i] < 0 => Magnitude(o[i]) * Level(i) = (-1) * (o[i] * Level(i))
  <2>1. \A x \in Int : 1 * x = x
    OBVIOUS
  <2> QED BY <1>1, <1>2, <2>1
<1> QED BY <1>3 DEF Paid, Notional, Slots

\* A segment widens the stretch that a ledger has traded.
LEMMA SegmentTrades ==
  ASSUME NEW k, Typed(k), k.turn \in Int, NEW top \in Int, NEW bottom \in Int,
         NEW l, Typed(l), Traded(k, l, top, bottom),
         l.prev \in Int, bottom <= l.prev, l.prev <= top,
         NEW target \in Int, NEW s, Done(l, target, s)
  PROVE  LET to == Terminal(l.prev, target)
         IN  Traded(k, s, Highest(top, to), Lowest(bottom, to))
<1> DEFINE to   == Terminal(l.prev, target)
           new  == Crossed(l.orders, l.prev, to)
           old  == FilledBy(k, top, bottom)
           up   == Sold(k, top)
           down == Bought(k, bottom)
           high == Highest(top, to)
           low  == Lowest(bottom, to)
           all  == FilledBy(k, high, low)
<1>1. to \in Int
  BY GridAssumption DEF Terminal
<1>2. k.orders \in Slots /\ k.pending \in Slots /\ k.pos \in Int /\ k.cash \in Int /\ l.orders \in Slots
  BY DEF Typed
<1>3. l.orders = [i \in Indices |-> IF i \in old THEN 0 ELSE k.orders[i]]
  BY DEF Traded, FilledBy
<1> HIDE DEF to
<1>4. /\ new \in SUBSET Indices /\ new \intersect old = {} /\ \A i \in new : l.orders[i] = k.orders[i]
      /\ to > l.prev => /\ \A i \in new : k.orders[i] < 0
                        /\ Sold(k, high) = up \union new /\ up \intersect new = {}
                        /\ Bought(k, low) = down
      /\ ~(to > l.prev) => /\ \A i \in new : k.orders[i] > 0
                           /\ Sold(k, high) = up /\ down \intersect new = {}
                           /\ Bought(k, low) = down \union new
  <2>1. NewlyFilled(k, l, top, bottom, to)
    BY <1>1, <1>2, <1>3, CrossedIsNew DEF old
  <2> QED BY <2>1 DEF NewlyFilled
<1>5. all = old \union new /\ old \intersect new = {} /\ old \in SUBSET Indices
  BY <1>4 DEF FilledBy, Sold, Bought
<1>6. /\ l.pending = [i \in Indices |-> k.pending[i] + (Born(k.orders, up, 1)[i] + Born(k.orders, down, -1)[i])]
      /\ l.pos = k.pos + SumFunctionOnSet(k.orders, old)
      /\ l.cash = k.cash - SumFunctionOnSet(Paid(k.orders), old)
      /\ l.turn = k.turn + SumFunctionOnSet(Notional(k.orders), old)
      /\ l.market = k.market /\ l.funding = k.funding
  BY DEF Traded, FilledBy
<1>7. /\ s.orders = [i \in Indices |-> IF i \in new THEN 0 ELSE l.orders[i]]
      /\ s.pending = [i \in Indices |-> l.pending[i] + Born(l.orders, new, Direction(l, to))[i]]
      /\ s.pos = l.pos + SumFunctionOnSet(l.orders, new)
      /\ s.cash = l.cash - SumFunctionOnSet(Paid(l.orders), new)
      /\ s.turn = l.turn + Magnitude(SumFunctionOnSet(Paid(l.orders), new))
      /\ s.market = l.market /\ s.funding = l.funding
  BY DEF Done, to
<1> HIDE DEF new, old, up, down, all, high, low
<1>8. s.orders = [i \in Indices |-> IF i \in all THEN 0 ELSE k.orders[i]]
  <2>1. \A i \in Indices : (IF i \in new THEN 0 ELSE l.orders[i]) = IF i \in all THEN 0 ELSE k.orders[i]
    BY <1>3, <1>5
  <2> QED BY <1>7, <2>1
<1>9. s.pending = [i \in Indices |-> k.pending[i] + (Born(k.orders, Sold(k, high), 1)[i]
                                                     + Born(k.orders, Bought(k, low), -1)[i])]
  <2>1. ASSUME NEW i \in Indices
        PROVE  s.pending[i] = k.pending[i] + (Born(k.orders, Sold(k, high), 1)[i]
                                              + Born(k.orders, Bought(k, low), -1)[i])
    <3> DEFINE bs(S, side) == IF i + side \in S THEN -k.orders[i + side] ELSE 0
    <3>1. \A S, side : Born(k.orders, S, side)[i] = bs(S, side)
      BY DEF Born
    <3>2. Born(l.orders, new, Direction(l, to))[i] = bs(new, Direction(l, to))
      BY <1>4 DEF Born
    <3>3. \A j \in Indices : k.orders[j] \in Int /\ k.pending[j] \in Int
      BY <1>2 DEF Slots
    <3>4. up \subseteq Indices /\ down \subseteq Indices
      BY DEF up, down, Sold, Bought
    <3>5. bs(up, 1) \in Int /\ bs(down, -1) \in Int /\ bs(new, 1) \in Int /\ bs(new, -1) \in Int
      BY <1>4, <3>3, <3>4
    <3>6. s.pending[i] = k.pending[i] + (bs(up, 1) + bs(down, -1)) + bs(new, Direction(l, to))
      BY <1>6, <1>7, <3>1, <3>2
    <3>7. CASE to > l.prev
      <4>1. Direction(l, to) = 1 /\ Sold(k, high) = up \union new /\ Bought(k, low) = down
        BY <1>4, <3>7 DEF Direction
      <4>2. bs(up \union new, 1) = bs(up, 1) + bs(new, 1)
        <5>1. up \intersect new = {}
          BY <1>4, <3>7
        <5> QED BY <1>4, <3>3, <3>4, <5>1
      <4> HIDE DEF bs
      <4> QED BY <3>1, <3>3, <3>5, <3>6, <4>1, <4>2
    <3>8. CASE ~(to > l.prev)
      <4>1. Direction(l, to) = -1 /\ Sold(k, high) = up /\ Bought(k, low) = down \union new
        BY <1>4, <3>8 DEF Direction
      <4>2. bs(down \union new, -1) = bs(down, -1) + bs(new, -1)
        <5>1. down \intersect new = {}
          BY <1>4, <3>8
        <5> QED BY <1>4, <3>3, <3>4, <5>1
      <4> HIDE DEF bs
      <4> QED BY <3>1, <3>3, <3>5, <3>6, <4>1, <4>2
    <3> QED BY <3>7, <3>8
  <2> QED BY <1>7, <2>1
<1>10. s.pos = k.pos + SumFunctionOnSet(k.orders, all)
  <2>1. Splits(k.orders, old, l.orders, new)
    BY ONLY <1>2, <1>4, <1>5, PartsAddUp
  <2> QED BY <1>2, <1>5, <1>6, <1>7, <2>1 DEF Splits
<1>11. /\ Paid(k.orders) \in Slots /\ Paid(l.orders) \in Slots
       /\ Notional(k.orders) \in Slots /\ Notional(l.orders) \in Slots
  BY <1>2, ValuesAreSlots
<1>12. s.cash = k.cash - SumFunctionOnSet(Paid(k.orders), all)
  <2>1. \A i \in new : Paid(l.orders)[i] = Paid(k.orders)[i]
    BY <1>4 DEF Paid
  <2>2. Splits(Paid(k.orders), old, Paid(l.orders), new)
    BY ONLY <1>4, <1>5, <1>11, <2>1, PartsAddUp
  <2> QED BY <1>2, <1>5, <1>6, <1>7, <2>2 DEF Splits
<1>13. s.turn = k.turn + SumFunctionOnSet(Notional(k.orders), all)
  <2>1. \A i \in new : Notional(l.orders)[i] = Notional(k.orders)[i]
    BY <1>4 DEF Notional
  <2>2. Splits(Notional(k.orders), old, Notional(l.orders), new)
    BY ONLY <1>4, <1>5, <1>11, <2>1, PartsAddUp
  <2>3. PICK side \in Sides : \A i \in new : /\ Notional(l.orders)[i] = side * Paid(l.orders)[i]
                                             /\ Notional(l.orders)[i] >= 0
    <3>1. CASE to > l.prev
      <4>1. \A i \in new : l.orders[i] < 0
        BY <1>4, <3>1
      <4>2. \A i \in new : Notional(l.orders)[i] = (-1) * Paid(l.orders)[i] /\ Notional(l.orders)[i] >= 0
        BY <1>2, <1>4, <4>1, ValuesAreSlots
      <4> QED BY <4>2 DEF Sides
    <3>2. CASE ~(to > l.prev)
      <4>1. \A i \in new : l.orders[i] > 0
        BY <1>4, <3>2
      <4>2. \A i \in new : Notional(l.orders)[i] = 1 * Paid(l.orders)[i] /\ Notional(l.orders)[i] >= 0
        BY <1>2, <1>4, <4>1, ValuesAreSlots
      <4> QED BY <4>2 DEF Sides
    <3> QED BY <3>1, <3>2
  <2>4. Magnitude(SumFunctionOnSet(Paid(l.orders), new)) = SumFunctionOnSet(Notional(l.orders), new)
    BY <1>4, <1>11, <2>3, OneSidedParts
  <2> QED BY <1>5, <1>6, <1>7, <2>2, <2>4 DEF Splits
<1>14. s.market = k.market /\ s.funding = k.funding
  BY <1>6, <1>7
<1> QED BY <1>8, <1>9, <1>10, <1>12, <1>13, <1>14 DEF Traded, all, FilledBy, high, low, to

LEMMA SwitchesAreTyped == KsLower \in Int /\ KsUpper \in Int /\ KsLower < KsUpper
<1>1. KsLower \in Int /\ KsUpper \in Int /\ KsLower < Lower /\ Lower + Step * GridCount < KsUpper
  BY GridAssumption
<1>2. Step * GridCount \in Int /\ Step * GridCount >= 0 /\ Lower \in Int
  BY Count, Multiples
<1> DEFINE x == Step * GridCount
<1> HIDE DEF x
<1> QED BY <1>1, <1>2 DEF x

\* Where a segment may end.
LEMMA SegmentEnds ==
  ASSUME NEW from \in Int, KsLower < from, from < KsUpper, NEW target \in Int
  PROVE  /\ KsLower < target /\ target < KsUpper
              => Breach(from, target) = "none" /\ Terminal(from, target) = target
         /\ target >= KsUpper => Breach(from, target) = "upper" /\ Terminal(from, target) = KsUpper
         /\ target <= KsLower => Breach(from, target) = "lower" /\ Terminal(from, target) = KsLower
<1>1. Breach(from, target) = IF from < KsUpper /\ KsUpper <= target THEN "upper"
                             ELSE IF target <= KsLower /\ KsLower < from THEN "lower" ELSE "none"
  BY DEF Breach
<1>2. /\ Breach(from, target) = "upper" => Terminal(from, target) = KsUpper
      /\ Breach(from, target) = "lower" => Terminal(from, target) = KsLower
      /\ Breach(from, target) = "none" => Terminal(from, target) = target
  BY DEF Terminal
<1> QED BY <1>1, <1>2, SwitchesAreTyped

\* Below the price nothing rests to be sold, and above it nothing to be bought, also after
\* a segment: what it would have passed has been filled or makes the ledger void.
LEMMA SegmentFaces ==
  ASSUME NEW l, Typed(l), l.prev \in Int, Faces(l), NEW to \in Int, NEW s, s.prev = to,
         Crossed(l.pending, l.prev, to) = {},
         NEW new, new = Crossed(l.orders, l.prev, to),
         s.orders = [i \in Indices |-> IF i \in new THEN 0 ELSE l.orders[i]],
         s.pending = [i \in Indices |-> l.pending[i] + Born(l.orders, new, Direction(l, to))[i]]
  PROVE  Faces(s)
<1> SUFFICES ASSUME NEW i \in Indices
             PROVE  /\ s.orders[i] < 0 \/ s.pending[i] < 0 => Level(i) >= to
                    /\ s.orders[i] > 0 \/ s.pending[i] > 0 => Level(i) <= to
  BY DEF Faces
<1>1. \A j \in Indices : l.orders[j] \in Int /\ l.pending[j] \in Int /\ Level(j) \in Int
  BY LevelsRise DEF Typed, Slots
<1>2. \A j \in Indices :
        /\ l.orders[j] < 0 \/ l.pending[j] < 0 => Level(j) >= l.prev
        /\ l.orders[j] > 0 \/ l.pending[j] > 0 => Level(j) <= l.prev
  BY DEF Faces
<1> DEFINE b == Born(l.orders, new, Direction(l, to))[i]
           n == i + Direction(l, to)
<1>3. s.orders[i] = (IF i \in new THEN 0 ELSE l.orders[i]) /\ s.pending[i] = l.pending[i] + b
  OBVIOUS
<1>4. b = IF n \in new THEN -l.orders[n] ELSE 0
  BY DEF Born
<1>5. Step \in Int /\ Step >= 0 /\ GridCount \in Int /\ Indices = 0..GridCount /\ i \in Int
  BY Count DEF Indices
<1>6. CASE to > l.prev
  <2>1. /\ Direction(l, to) = 1
        /\ \A j : j \in new <=> j \in Indices /\ l.orders[j] < 0 /\ Level(j) >= l.prev /\ Level(j) < to
        /\ \A j \in Indices : ~(l.pending[j] < 0 /\ Level(j) >= l.prev /\ Level(j) < to)
    BY <1>6 DEF Direction, Crossed
  <2>2. b \in Int /\ b >= 0 /\ (b > 0 => Level(i) <= to)
    <3>1. CASE n \in new
      <4>1. n \in Indices /\ l.orders[n] < 0 /\ Level(n) < to /\ n = i + 1
        BY <2>1, <3>1
      <4>2. i \in 0..GridCount - 1
        BY <1>5, <4>1
      <4>3. Level(n) = Level(i) + Step
        BY <4>1, <4>2, LevelsRise
      <4> HIDE DEF n, b
      <4>4. l.orders[n] \in Int /\ Level(i) \in Int /\ Level(n) \in Int /\ to \in Int
        BY <1>1, <4>1
      <4>5. b = -l.orders[n]
        BY <1>4, <3>1
      <4> QED BY ONLY <1>5, <4>1, <4>3, <4>4, <4>5
    <3>2. CASE n \notin new
      BY <1>4, <3>2
    <3> QED BY <3>1, <3>2
  <2> HIDE DEF b, n
  <2> QED BY <1>1, <1>2, <1>3, <1>6, <2>1, <2>2
<1>7. CASE ~(to > l.prev)
  <2>1. /\ Direction(l, to) = -1
        /\ \A j : j \in new <=> j \in Indices /\ l.orders[j] > 0 /\ Level(j) <= l.prev /\ Level(j) > to /\ to < l.prev
        /\ \A j \in Indices : ~(l.pending[j] > 0 /\ Level(j) <= l.prev /\ Level(j) > to /\ to < l.prev)
    BY <1>7 DEF Direction, Crossed
  <2>2. b \in Int /\ b <= 0 /\ (b < 0 => Level(i) >= to)
    <3>1. CASE n \in new
      <4>1. n \in Indices /\ l.orders[n] > 0 /\ Level(n) > to /\ n = i - 1
        BY <1>5, <2>1, <3>1
      <4>2. n \in 0..GridCount - 1 /\ i = n + 1
        BY <1>5, <4>1
      <4>3. Level(i) = Level(n) + Step
        BY <4>1, <4>2, LevelsRise
      <4> HIDE DEF n, b
      <4>4. l.orders[n] \in Int /\ Level(i) \in Int /\ Level(n) \in Int /\ to \in Int
        BY <1>1, <4>1
      <4>5. b = -l.orders[n]
        BY <1>4, <3>1
      <4> QED BY ONLY <1>5, <4>1, <4>3, <4>4, <4>5
    <3>2. CASE n \notin new
      BY <1>4, <3>2
    <3> QED BY <3>1, <3>2
  <2> HIDE DEF b, n
  <2> QED BY <1>1, <1>2, <1>3, <1>7, <2>1, <2>2
<1> QED BY <1>6, <1>7

\* A ledger that is not stopped, after a stretch of prices from k that reached top and bottom.
Along(k, l, top, bottom) ==
  /\ top \in Int /\ bottom \in Int /\ l.prev \in Int
  /\ KsLower < bottom /\ bottom <= l.prev /\ l.prev <= top /\ top < KsUpper
  /\ l.stop = "none" /\ l.liq = k.liq /\ Traded(k, l, top, bottom)

\* Stopped above, after a stretch that reached bottom; the stop was found at price.
StoppedAbove(k, l, bottom, price) ==
  l.stop = "upper" /\ Traded(k, l, KsUpper, bottom)
  /\ l.liq = (IF l.pos < 0 THEN price ELSE KsUpper)

StoppedBelow(k, l, top, price) ==
  l.stop = "lower" /\ Traded(k, l, top, KsLower)
  /\ l.liq = (IF l.pos > 0 THEN price ELSE KsLower)

LEMMA GoodIsTyped == ASSUME NEW b, NEW l, Good(l, b) PROVE Typed(l)
BY DEF Good, Typed

LEMMA VoidIsBad == ASSUME NEW l, IsLedger(l) PROVE Void(l).bad = TRUE
BY DEF Void, IsLedger, LedgerFields

LEMMA SumsAreInt ==
  ASSUME NEW f \in Slots, NEW S \in SUBSET Indices
  PROVE  SumFunctionOnSet(f, S) \in Int
BY PartIsTotal, TotalIsInt DEF Slots

LEMMA NothingSums == ASSUME NEW f \in Slots PROVE SumFunctionOnSet(f, {}) = 0
<1> DEFINE z == Within(f, {})
<1>1. z \in Slots /\ SumFunctionOnSet(f, {}) = Total(z)
  BY PartIsTotal DEF Slots
<1>2. \A i \in Indices : z[i] = 0 * z[i]
  BY DEF Within
<1> HIDE DEF z
<1>3. Total(z) = 0 * Total(z) /\ Total(z) \in Int
  BY <1>1, <1>2, TotalScales, TotalIsInt DEF Slots
<1> QED BY <1>1, <1>3

\* What a segment makes of a stretch.
SegmentMoves(k, s, top, bottom, target) ==
  /\ KsLower < target /\ target < KsUpper
       => Along(k, s, Highest(top, target), Lowest(bottom, target)) /\ s.prev = target
  /\ target >= KsUpper => StoppedAbove(k, s, bottom, target)
  /\ target <= KsLower => StoppedBelow(k, s, top, target)

LEMMA SegmentStretches ==
  ASSUME NEW k, Typed(k), k.turn \in Int,
         NEW l, Typed(l), ~l.bad, NEW top, NEW bottom, Along(k, l, top, bottom),
         NEW target \in Int, NEW capacity, ~Segment(l, target, capacity).bad
  PROVE  SegmentMoves(k, Segment(l, target, capacity), top, bottom, target)
<1> DEFINE s  == Segment(l, target, capacity)
           to == Terminal(l.prev, target)
<1>1. Done(l, target, s)
  BY SegmentDoes DEF Typed, Over, Along
<1> HIDE DEF s
<1>2. /\ top \in Int /\ bottom \in Int /\ l.prev \in Int
      /\ KsLower < bottom /\ bottom <= l.prev /\ l.prev <= top /\ top < KsUpper
      /\ l.liq = k.liq /\ Traded(k, l, top, bottom)
  BY DEF Along
<1>3. Traded(k, s, Highest(top, to), Lowest(bottom, to))
  BY <1>1, <1>2, SegmentTrades
<1>4. s.prev = to /\ s.stop = Breach(l.prev, target) /\ s.liq = ClosedAt(l, s.pos, s.stop, target)
  BY <1>1 DEF Done
<1>5. KsLower \in Int /\ KsUpper \in Int /\ KsLower < l.prev /\ l.prev < KsUpper
  BY <1>2, SwitchesAreTyped
<1>6. CASE KsLower < target /\ target < KsUpper
  <2>1. to = target /\ s.stop = "none"
    BY <1>2, <1>4, <1>5, <1>6, SegmentEnds
  <2>2. s.liq = k.liq
    BY <1>2, <1>4, <2>1 DEF ClosedAt
  <2>3. /\ Highest(top, target) \in Int /\ Lowest(bottom, target) \in Int
        /\ KsLower < Lowest(bottom, target) /\ Lowest(bottom, target) <= target
        /\ target <= Highest(top, target) /\ Highest(top, target) < KsUpper
    BY <1>2, <1>6 DEF Highest, Lowest
  <2>4. Along(k, s, Highest(top, target), Lowest(bottom, target)) /\ s.prev = target
    BY <1>3, <1>4, <2>1, <2>2, <2>3 DEF Along
  <2> QED BY <1>5, <1>6, <2>4 DEF SegmentMoves, s
<1>7. CASE target >= KsUpper
  <2>1. to = KsUpper /\ s.stop = "upper"
    BY <1>2, <1>4, <1>5, <1>7, SegmentEnds
  <2>2. s.liq = IF s.pos < 0 THEN target ELSE KsUpper
    BY <1>4, <2>1 DEF ClosedAt
  <2>3. Highest(top, to) = KsUpper /\ Lowest(bottom, to) = bottom
    BY <1>2, <1>5, <2>1 DEF Highest, Lowest
  <2>4. StoppedAbove(k, s, bottom, target)
    BY <1>3, <2>1, <2>2, <2>3 DEF StoppedAbove
  <2> QED BY <1>5, <1>7, <2>4, SwitchesAreTyped DEF SegmentMoves, s
<1>8. CASE target <= KsLower
  <2>1. to = KsLower /\ s.stop = "lower"
    BY <1>2, <1>4, <1>5, <1>8, SegmentEnds
  <2>2. s.liq = IF s.pos > 0 THEN target ELSE KsLower
    BY <1>4, <2>1 DEF ClosedAt
  <2>3. Highest(top, to) = top /\ Lowest(bottom, to) = KsLower
    BY <1>2, <1>5, <2>1 DEF Highest, Lowest
  <2>4. StoppedBelow(k, s, top, target)
    BY <1>3, <2>1, <2>2, <2>3 DEF StoppedBelow
  <2> QED BY <1>5, <1>8, <2>4, SwitchesAreTyped DEF SegmentMoves, s
<1> QED BY <1>5, <1>6, <1>7, <1>8

\* Where the minute begins nothing has been traded.
LEMMA StretchBegins ==
  ASSUME NEW k, Typed(k), ~k.bad, k.stop = "none", Ready(k)
  PROVE  /\ Along(k, k, k.prev, k.prev) /\ k.turn \in Int
         /\ Sold(k, k.prev) = {} /\ Bought(k, k.prev) = {}
<1>1. /\ k.turn \in Int /\ k.prev \in Int /\ Faces(k) /\ KsLower < k.prev /\ k.prev < KsUpper
  BY DEF Ready
<1>2. \A i \in Indices : k.orders[i] \in Int /\ k.pending[i] \in Int /\ Level(i) \in Int
  BY LevelsRise DEF Typed, Slots
<1>3. Sold(k, k.prev) = {} /\ Bought(k, k.prev) = {}
  <2>1. \A i \in Indices : /\ ~(k.orders[i] < 0 /\ Level(i) < k.prev)
                           /\ ~(k.orders[i] > 0 /\ Level(i) > k.prev)
    BY <1>1, <1>2 DEF Faces
  <2> QED BY <2>1 DEF Sold, Bought
<1>4. Traded(k, k, k.prev, k.prev)
  <2>1. /\ SumFunctionOnSet(k.orders, {}) = 0 /\ SumFunctionOnSet(Paid(k.orders), {}) = 0
        /\ SumFunctionOnSet(Notional(k.orders), {}) = 0
    BY NothingSums, ValuesAreSlots DEF Typed
  <2>2. k.pos \in Int /\ k.cash \in Int /\ k.orders \in Slots /\ k.pending \in Slots
    BY DEF Typed
  <2>3. k.orders = [i \in Indices |-> IF i \in {} \union {} THEN 0 ELSE k.orders[i]]
    BY <2>2 DEF Slots
  <2>4. k.pending = [i \in Indices |-> k.pending[i] + (Born(k.orders, {}, 1)[i] + Born(k.orders, {}, -1)[i])]
    <3>1. \A i \in Indices : Born(k.orders, {}, 1)[i] = 0 /\ Born(k.orders, {}, -1)[i] = 0
      BY DEF Born
    <3>2. \A i \in Indices : k.pending[i] = k.pending[i] + (Born(k.orders, {}, 1)[i] + Born(k.orders, {}, -1)[i])
      BY <1>2, <3>1
    <3> QED BY <2>2, <3>2 DEF Slots
  <2>5. /\ k.pos = k.pos + SumFunctionOnSet(k.orders, {} \union {})
        /\ k.cash = k.cash - SumFunctionOnSet(Paid(k.orders), {} \union {})
        /\ k.turn = k.turn + SumFunctionOnSet(Notional(k.orders), {} \union {})
    <3>1. {} \union {} = {}
      OBVIOUS
    <3> QED BY <1>1, <2>1, <2>2, <3>1
  <2> QED BY <1>3, <2>3, <2>4, <2>5 DEF Traded
<1> QED BY <1>1, <1>3, <1>4 DEF Along

\* A segment keeps a ledger ready for the next.
LEMMA SegmentIsReady ==
  ASSUME NEW l, Typed(l), Ready(l), NEW target \in Int, NEW capacity
  PROVE  Ready(Segment(l, target, capacity))
<1> DEFINE s  == Segment(l, target, capacity)
           to == Terminal(l.prev, target)
           new == Crossed(l.orders, l.prev, to)
<1>1. CASE Over(l)
  BY <1>1 DEF Segment
<1>2. CASE ~Over(l)
  <2> SUFFICES ASSUME ~s.bad PROVE Ready(s)
    BY DEF Ready
  <2>1. Done(l, target, s)
    BY <1>2, SegmentDoes DEF Typed
  <2> HIDE DEF s
  <2>2. /\ l.turn \in Int /\ l.market \in Int /\ l.funding \in Int /\ l.prev \in Int /\ l.liq \in Int
        /\ Faces(l) /\ KsLower < l.prev /\ l.prev < KsUpper
    BY <1>2 DEF Ready, Over
  <2>3. to \in Int /\ KsLower \in Int /\ KsUpper \in Int
    BY SwitchesAreTyped DEF Terminal
  <2>4. s.liq \in Int
    BY <2>1, <2>2, <2>3 DEF Done, ClosedAt
  <2>5. s.turn \in Int
    <3>1. SumFunctionOnSet(Paid(l.orders), new) \in Int
      <4>1. new \in SUBSET Indices
        BY DEF Crossed
      <4> HIDE DEF new
      <4> QED BY <4>1, ValuesAreSlots, SumsAreInt DEF Typed
    <3> QED BY <2>1, <2>2, <3>1 DEF Done, Magnitude
  <2>6. s.market \in Int /\ s.funding \in Int /\ s.prev \in Int
    BY <2>1, <2>2, <2>3 DEF Done
  <2>7. ASSUME s.stop = "none" PROVE Faces(s) /\ KsLower < s.prev /\ s.prev < KsUpper
    <3>1. Breach(l.prev, target) = "none" /\ s.prev = to
      BY <2>1, <2>7 DEF Done
    <3>2. KsLower < target /\ target < KsUpper /\ to = target
      BY <2>2, <2>3, <3>1, SegmentEnds
    <3>3. Faces(s)
      <4>1. /\ Crossed(l.pending, l.prev, to) = {}
            /\ s.orders = [i \in Indices |-> IF i \in new THEN 0 ELSE l.orders[i]]
            /\ s.pending = [i \in Indices |-> l.pending[i] + Born(l.orders, new, Direction(l, to))[i]]
        BY <2>1 DEF Done
      <4> HIDE DEF new, to
      <4> QED BY <2>2, <2>3, <3>1, <4>1, SegmentFaces DEF new
    <3> QED BY <3>1, <3>2, <3>3
  <2> QED BY <2>4, <2>5, <2>6, <2>7 DEF Ready
<1> QED BY <1>1, <1>2

\* Ledgers that are alike stay so, whatever volume each of them has used.
LEMMA SegmentAlike ==
  ASSUME NEW k, NEW l, IsLedger(k), IsLedger(l), Alike(k, l), ~k.bad, ~l.bad,
         NEW target, NEW capacity,
         ~Segment(k, target, capacity).bad, ~Segment(l, target, capacity).bad
  PROVE  Alike(Segment(k, target, capacity), Segment(l, target, capacity))
<1>1. CASE Over(k)
  <2>1. Over(l)
    BY <1>1 DEF Over, Alike
  <2> QED BY <1>1, <2>1 DEF Segment
<1>2. CASE ~Over(k)
  <2>1. ~Over(l)
    BY <1>2 DEF Over, Alike
  <2> DEFINE s == Segment(k, target, capacity)
             t == Segment(l, target, capacity)
  <2>2. Done(k, target, s) /\ Done(l, target, t)
    BY <1>2, <2>1, SegmentDoes
  <2> HIDE DEF s, t
  <2>3. /\ k.orders = l.orders /\ k.pending = l.pending /\ k.pos = l.pos /\ k.cash = l.cash
        /\ k.turn = l.turn /\ k.market = l.market /\ k.funding = l.funding
        /\ k.prev = l.prev /\ k.liq = l.liq
    BY DEF Alike
  <2>4. Alike(s, t)
    BY <2>2, <2>3 DEF Alike, Done, Direction, ClosedAt
  <2> QED BY <2>4 DEF s, t
<1> QED BY <1>1, <1>2

\* The candle after one more trade.
WithTrade(c, p) == [c EXCEPT !.close = p, !.high = Highest(@, p), !.low = IF p < @ THEN p ELSE @]

LEMMA CandleGrows ==
  ASSUME NEW k, NEW c, CandleHolds(k, c), NEW p \in Int
  PROVE  LET d == WithTrade(c, p) IN
         /\ CandleHolds(k, d) /\ d.open = c.open /\ d.close = p
         /\ d.high = Highest(c.high, p) /\ d.low = Lowest(c.low, p)
         /\ c.high <= d.high /\ d.low <= c.low /\ p <= d.high /\ d.low <= p
         /\ d.high \in Int /\ d.low \in Int
<1> DEFINE d == WithTrade(c, p)
<1>1. /\ c = [f \in CandleFields |-> c[f]]
      /\ c.open \in Int /\ c.high \in Int /\ c.low \in Int /\ c.close \in Int
      /\ c.low <= c.open /\ c.open <= c.high /\ c.low <= c.close /\ c.close <= c.high
      /\ ~Over(k) => c.open = k.prev
  BY DEF CandleHolds, WholeCandle
<1>2. /\ d = [f \in CandleFields |-> d[f]] /\ d.open = c.open /\ d.close = p
      /\ d.high = Highest(c.high, p) /\ d.low = (IF p < c.low THEN p ELSE c.low)
  BY <1>1 DEF WithTrade, CandleFields
<1> HIDE DEF d
<1>3. d.low = Lowest(c.low, p)
  BY <1>1, <1>2 DEF Lowest
<1>4. /\ c.high <= d.high /\ d.low <= c.low /\ p <= d.high /\ d.low <= p
      /\ d.high \in Int /\ d.low \in Int
  BY <1>1, <1>2 DEF Highest
<1>5. CandleHolds(k, d)
  BY <1>1, <1>2, <1>4 DEF CandleHolds, WholeCandle
<1> QED BY <1>2, <1>3, <1>4, <1>5 DEF d

\* Every trade keeps the tape on its stretch of the candle.
LEMMA TradeFollows ==
  ASSUME NEW k, Typed(k), Ready(k), NEW l, Typed(l), NEW c, CandleHolds(k, c), Follows(k, l, c),
         NEW p \in Int, NEW capacity
  PROVE  Follows(k, Segment(l, p, capacity), WithTrade(c, p))
<1> DEFINE s == Segment(l, p, capacity)
           d == WithTrade(c, p)
<1>1. /\ CandleHolds(k, d) /\ d.open = c.open /\ d.close = p
      /\ d.high = Highest(c.high, p) /\ d.low = Lowest(c.low, p)
      /\ c.high <= d.high /\ d.low <= c.low /\ p <= d.high /\ d.low <= p
      /\ d.high \in Int /\ d.low \in Int
  BY CandleGrows
<1>2. /\ c.open \in Int /\ c.high \in Int /\ c.low \in Int /\ c.close \in Int
      /\ c.low <= c.open /\ c.open <= c.high /\ c.low <= c.close /\ c.close <= c.high
      /\ ~Over(k) => c.open = k.prev
  BY DEF CandleHolds, WholeCandle
<1>3. Over(l) => s = l
  BY DEF Segment
<1> HIDE DEF s, d
<1>4. CASE k.bad \/ s.bad
  BY <1>4 DEF Follows, s, d
<1>5. CASE k.stop # "none"
  <2>1. k.bad \/ l.bad \/ Alike(k, l)
    BY <1>5 DEF Follows
  <2>2. CASE ~k.bad /\ ~l.bad
    <3>1. Alike(k, l) /\ Over(l)
      BY <1>5, <2>1, <2>2 DEF Alike, Over
    <3> QED BY <1>3, <1>5, <3>1 DEF Follows, s, d
  <2>3. CASE l.bad
    BY <1>3, <2>3 DEF Follows, Over, s, d
  <2>4. CASE k.bad
    BY <2>4 DEF Follows, s, d
  <2> QED BY <2>2, <2>3, <2>4
<1>6. CASE ~k.bad /\ ~s.bad /\ k.stop = "none"
  <2>1. ~l.bad
    BY <1>3, <1>6 DEF Over
  <2>2. c.open = k.prev /\ k.turn \in Int /\ k.prev \in Int /\ KsLower < k.prev /\ k.prev < KsUpper
    BY <1>2, <1>6 DEF Over, Ready
  <2>3. KsLower \in Int /\ KsUpper \in Int
    BY SwitchesAreTyped
  <2>4. CASE /\ l.stop = "none" /\ KsLower < c.low /\ c.high < KsUpper
             /\ l.prev = c.close /\ l.liq = k.liq /\ Traded(k, l, c.high, c.low)
    <3>1. Along(k, l, c.high, c.low)
      BY <1>2, <2>4 DEF Along
    <3>2. SegmentMoves(k, s, c.high, c.low, p)
      BY <1>6, <2>1, <2>2, <3>1, SegmentStretches DEF s
    <3>3. CASE KsLower < p /\ p < KsUpper
      <4>1. Along(k, s, d.high, d.low) /\ s.prev = p
        BY <1>1, <3>2, <3>3 DEF SegmentMoves
      <4> QED BY <1>1, <1>6, <4>1 DEF Follows, Along, s, d
    <3>4. CASE p >= KsUpper
      <4>1. StoppedAbove(k, s, c.low, p)
        BY <3>2, <3>4 DEF SegmentMoves
      <4>2. c.low \in d.low .. k.prev /\ p \in KsUpper .. d.high
        BY <1>1, <1>2, <2>2, <2>3, <3>4
      <4> QED BY <1>6, <4>1, <4>2 DEF Follows, StoppedAbove, s, d
    <3>5. CASE p <= KsLower
      <4>1. StoppedBelow(k, s, c.high, p)
        BY <3>2, <3>5 DEF SegmentMoves
      <4>2. c.high \in k.prev .. d.high /\ p \in d.low .. KsLower
        BY <1>1, <1>2, <2>2, <2>3, <3>5
      <4> QED BY <1>6, <4>1, <4>2 DEF Follows, StoppedBelow, s, d
    <3> QED BY <2>3, <3>3, <3>4, <3>5
  <2>5. CASE l.stop = "upper"
    <3>1. PICK low \in c.low .. k.prev, q \in KsUpper .. c.high :
             Traded(k, l, KsUpper, low) /\ l.liq = (IF l.pos < 0 THEN q ELSE KsUpper)
      BY <1>6, <2>1, <2>5 DEF Follows
    <3>2. low \in d.low .. k.prev /\ q \in KsUpper .. d.high
      BY <1>1, <1>2, <2>2, <2>3
    <3>3. s = l
      BY <1>3, <2>5 DEF Over
    <3> QED BY <1>6, <2>5, <3>1, <3>2, <3>3 DEF Follows, s, d
  <2>6. CASE l.stop = "lower"
    <3>1. PICK high \in k.prev .. c.high, q \in c.low .. KsLower :
             Traded(k, l, high, KsLower) /\ l.liq = (IF l.pos > 0 THEN q ELSE KsLower)
      BY <1>6, <2>1, <2>6 DEF Follows
    <3>2. high \in k.prev .. d.high /\ q \in d.low .. KsLower
      BY <1>1, <1>2, <2>2, <2>3
    <3>3. s = l
      BY <1>3, <2>6 DEF Over
    <3> QED BY <1>6, <2>6, <3>1, <3>2, <3>3 DEF Follows, s, d
  <2> QED BY <1>6, <2>1, <2>4, <2>5, <2>6 DEF Follows
<1> QED BY <1>4, <1>5, <1>6

\* A replay of the evidence against the replay of every trade.
Matches(r, l) ==
  /\ r.stop = l.stop /\ Net(r) <= Net(l)
  /\ r.stop = "none" => Alike(r, l)

LEMMA AlikeNets == ASSUME NEW k, NEW l, Alike(k, l) PROVE Net(k) = Net(l) /\ k.stop = l.stop
BY DEF Alike, Net

LEMMA NetIsInt ==
  ASSUME NEW l, l.pos \in Int, l.cash \in Int, l.turn \in Int, l.market \in Int, l.funding \in Int, l.liq \in Int
  PROVE  Net(l) \in Int
<1>1. Scale \in Int /\ GridFee \in Int /\ MarketFee \in Int
  BY GridAssumption
<1>2. \A m, n \in Int : m * n \in Int
  OBVIOUS
<1>3. Magnitude(l.pos) \in Int
  BY DEF Magnitude
<1>4. l.cash + l.pos * l.liq \in Int /\ l.market + Magnitude(l.pos) * l.liq \in Int
  BY <1>2, <1>3
<1>5. /\ Scale * (l.cash + l.pos * l.liq) \in Int /\ GridFee * l.turn \in Int
      /\ MarketFee * (l.market + Magnitude(l.pos) * l.liq) \in Int
  BY <1>1, <1>2, <1>4
<1> DEFINE x == Scale * (l.cash + l.pos * l.liq)
           y == GridFee * l.turn
           z == MarketFee * (l.market + Magnitude(l.pos) * l.liq)
<1>6. Net(l) = x - y - z + l.funding
  BY DEF Net
<1> HIDE DEF x, y, z
<1> QED BY <1>5, <1>6 DEF x, y, z

\* All that the value of two replays that are stopped on one side can differ in is the
\* price at which the position is closed.
SameTrades(k, l) ==
  /\ k.orders = l.orders /\ k.pending = l.pending /\ k.pos = l.pos /\ k.cash = l.cash
  /\ k.turn = l.turn /\ k.market = l.market /\ k.funding = l.funding

\* The further the price at which it is closed is against the position, the less it leaves.
LEMMA WorsePriceLeavesLess ==
  ASSUME MarketFee <= Scale, NEW r, NEW l, SameTrades(r, l),
         l.pos \in Int, l.cash \in Int, l.turn \in Int, l.market \in Int, l.funding \in Int,
         l.liq \in Int, r.liq \in Int,
         \/ l.pos < 0 /\ l.liq <= r.liq
         \/ l.pos > 0 /\ r.liq <= l.liq
         \/ r.liq = l.liq
  PROVE  Net(r) <= Net(l)
<1>1. Net(r) \in Int /\ Net(l) \in Int
  BY NetIsInt DEF SameTrades
<1> DEFINE y == GridFee * l.turn
           n == Magnitude(l.pos)
           a == l.pos * r.liq
           b == l.pos * l.liq
           u == n * r.liq
           v == n * l.liq
<1>2. /\ Net(r) = Scale * (l.cash + a) - y - MarketFee * (l.market + u) + l.funding
      /\ Net(l) = Scale * (l.cash + b) - y - MarketFee * (l.market + v) + l.funding
  BY DEF Net, SameTrades
<1>3. Scale \in Int /\ Scale >= 0 /\ GridFee \in Int /\ MarketFee \in Int /\ MarketFee >= 0
  BY GridAssumption
<1>4. n \in Int /\ n >= 0
  BY DEF Magnitude
<1>5. y \in Int /\ a \in Int /\ b \in Int /\ u \in Int /\ v \in Int
  <2> HIDE DEF n
  <2> QED BY <1>3, <1>4, Multiples
<1>6. CASE l.pos < 0 /\ l.liq <= r.liq
  <2>1. n = -l.pos
    BY <1>6 DEF Magnitude
  <2>2. v <= u
    <3> HIDE DEF n
    <3> QED BY <1>4, <1>6, Multiples
  <2>3. a = -u /\ b = -v
    <3>1. \A x, z \in Int : x * z = -((-x) * z)
      OBVIOUS
    <3> QED BY <2>1, <3>1
  <2> HIDE DEF y, n, a, b, u, v
  <2>4. Scale * (l.cash + a) <= Scale * (l.cash + b) /\ MarketFee * (l.market + v) <= MarketFee * (l.market + u)
    BY <1>3, <1>5, <2>2, <2>3, Multiples
  <2>5. /\ Scale * (l.cash + a) \in Int /\ Scale * (l.cash + b) \in Int
        /\ MarketFee * (l.market + v) \in Int /\ MarketFee * (l.market + u) \in Int
    BY <1>3, <1>5
  <2> DEFINE sa == Scale * (l.cash + a)
             sb == Scale * (l.cash + b)
             mu == MarketFee * (l.market + u)
             mv == MarketFee * (l.market + v)
  <2>6. /\ Net(r) = sa - y - mu + l.funding /\ Net(l) = sb - y - mv + l.funding
        /\ sa <= sb /\ mv <= mu /\ sa \in Int /\ sb \in Int /\ mu \in Int /\ mv \in Int
    BY <1>2, <2>4, <2>5
  <2> HIDE DEF sa, sb, mu, mv
  <2> QED BY <1>5, <2>6
<1>7. CASE l.pos > 0 /\ r.liq <= l.liq
  <2>1. n = l.pos /\ u = a /\ v = b
    BY <1>7 DEF Magnitude
  <2>2. a <= b
    BY <1>7, Multiples
  <2> DEFINE m == Scale - MarketFee
  <2>3. m \in Int /\ m >= 0
    BY <1>3
  <2> HIDE DEF y, n, a, b, u, v
  <2>4. m * a <= m * b /\ m * a \in Int /\ m * b \in Int
    <3> HIDE DEF m
    <3> QED BY <1>5, <2>2, <2>3, Multiples
  <2>5. ASSUME NEW x \in Int
        PROVE  Scale * (l.cash + x) - MarketFee * (l.market + x) = Scale * l.cash - MarketFee * l.market + m * x
    <3>1. Scale * (l.cash + x) = Scale * l.cash + Scale * x /\ MarketFee * (l.market + x) = MarketFee * l.market + MarketFee * x
      BY <1>3, Distributes
    <3>2. m * x = Scale * x - MarketFee * x
      BY <1>3
    <3>3. /\ Scale * l.cash \in Int /\ Scale * x \in Int /\ MarketFee * l.market \in Int /\ MarketFee * x \in Int
      BY <1>3
    <3> DEFINE s1 == Scale * l.cash
               s2 == Scale * x
               m1 == MarketFee * l.market
               m2 == MarketFee * x
               s3 == Scale * (l.cash + x)
               m3 == MarketFee * (l.market + x)
               mx == m * x
    <3>4. s3 = s1 + s2 /\ m3 = m1 + m2 /\ mx = s2 - m2 /\ s1 \in Int /\ s2 \in Int /\ m1 \in Int /\ m2 \in Int
      BY <3>1, <3>2, <3>3
    <3> HIDE DEF s1, s2, s3, m1, m2, m3, mx, m
    <3>5. s3 - m3 = s1 - m1 + mx
      BY <3>4
    <3> QED BY <3>5 DEF s1, m1, s3, m3, mx
  <2>6. /\ Scale * (l.cash + a) \in Int /\ Scale * (l.cash + b) \in Int
        /\ MarketFee * (l.market + a) \in Int /\ MarketFee * (l.market + b) \in Int
        /\ Scale * l.cash - MarketFee * l.market \in Int
    BY <1>3, <1>5
  <2> DEFINE sa == Scale * (l.cash + a)
             sb == Scale * (l.cash + b)
             ma == MarketFee * (l.market + a)
             mb == MarketFee * (l.market + b)
             ka == m * a
             kb == m * b
             base == Scale * l.cash - MarketFee * l.market
  <2>7. /\ Net(r) = sa - y - ma + l.funding /\ Net(l) = sb - y - mb + l.funding
        /\ sa - ma = base + ka /\ sb - mb = base + kb /\ ka <= kb
        /\ sa \in Int /\ sb \in Int /\ ma \in Int /\ mb \in Int /\ ka \in Int /\ kb \in Int /\ base \in Int
    BY <1>2, <1>5, <2>1, <2>4, <2>5, <2>6
  <2> HIDE DEF sa, sb, ma, mb, ka, kb, base, m
  <2> QED BY <1>5, <2>7
<1>8. CASE r.liq = l.liq
  <2>1. Net(r) = Net(l)
    BY <1>8 DEF Net, SameTrades
  <2> QED BY <1>1, <2>1
<1> QED BY <1>6, <1>7, <1>8

\* Both orders of the candle's ends have the same result only if none of the orders that
\* its way down would have bought rested: then how far down the trades went has no effect.
LEMMA AgreedAbove ==
  ASSUME NEW k, Typed(k), Bought(k, k.prev) = {}, NEW bottom \in Int, NEW low \in Int, bottom <= low,
         NEW r, Traded(k, r, KsUpper, k.prev), Traded(k, r, KsUpper, bottom),
         NEW l, Traded(k, l, KsUpper, low)
  PROVE  SameTrades(r, l)
<1>1. \A i \in Indices : k.orders[i] \in Int /\ Level(i) \in Int
  BY LevelsRise DEF Typed, Slots
<1>2. ASSUME NEW i \in Bought(k, low) PROVE FALSE
  <2>1. i \in Indices /\ k.orders[i] > 0 /\ Level(i) > low
    BY DEF Bought
  <2>2. i \in Bought(k, bottom)
    BY <1>1, <2>1 DEF Bought
  <2>3. i \notin Sold(k, KsUpper)
    BY <1>1, <2>1 DEF Sold
  <2>4. r.orders[i] = 0
    BY <2>1, <2>2 DEF Traded
  <2>5. r.orders[i] = k.orders[i]
    BY <2>1, <2>3 DEF Traded
  <2> QED BY <1>1, <2>1, <2>4, <2>5
<1>3. Bought(k, low) = Bought(k, k.prev)
  BY <1>2
<1> QED BY <1>3 DEF Traded, SameTrades

LEMMA AgreedBelow ==
  ASSUME NEW k, Typed(k), Sold(k, k.prev) = {}, NEW top \in Int, NEW high \in Int, high <= top,
         NEW r, Traded(k, r, k.prev, KsLower), Traded(k, r, top, KsLower),
         NEW l, Traded(k, l, high, KsLower)
  PROVE  SameTrades(r, l)
<1>1. \A i \in Indices : k.orders[i] \in Int /\ Level(i) \in Int
  BY LevelsRise DEF Typed, Slots
<1>2. ASSUME NEW i \in Sold(k, high) PROVE FALSE
  <2>1. i \in Indices /\ k.orders[i] < 0 /\ Level(i) < high
    BY DEF Sold
  <2>2. i \in Sold(k, top)
    BY <1>1, <2>1 DEF Sold
  <2>3. i \notin Bought(k, KsLower)
    BY <1>1, <2>1 DEF Bought
  <2>4. r.orders[i] = 0
    BY <2>1, <2>2 DEF Traded
  <2>5. r.orders[i] = k.orders[i]
    BY <2>1, <2>3 DEF Traded
  <2> QED BY <1>1, <2>1, <2>4, <2>5
<1>3. Sold(k, high) = Sold(k, k.prev)
  BY <1>2
<1> QED BY <1>3 DEF Traded, SameTrades

\* A path of two segments that is not void.
LEMMA PathStretches ==
  ASSUME NEW b, IsGridBot(b), NEW k, Typed(k), k.turn \in Int,
         NEW l, Good(l, b), ~l.bad, NEW top, NEW bottom, Along(k, l, top, bottom),
         NEW first \in Int, KsLower < first, first < KsUpper,
         NEW second \in Int, NEW capacity, ~Path2(l, first, second, capacity).bad
  PROVE  /\ ~Segment(l, first, capacity).bad
         /\ Along(k, Segment(l, first, capacity), Highest(top, first), Lowest(bottom, first))
         /\ SegmentMoves(k, Path2(l, first, second, capacity),
                         Highest(top, first), Lowest(bottom, first), second)
<1> DEFINE m == Segment(l, first, capacity)
<1>1. Path2(l, first, second, capacity) = Segment(m, second, capacity)
  BY DEF Path2
<1>2. ~m.bad
  <2>1. m.bad => Segment(m, second, capacity) = m
    BY DEF Segment, Over
  <2> QED BY <1>1, <2>1
<1>3. Along(k, m, Highest(top, first), Lowest(bottom, first))
  <2>1. SegmentMoves(k, m, top, bottom, first)
    BY <1>2, GoodIsTyped, SegmentStretches
  <2> QED BY <2>1 DEF SegmentMoves
<1>4. Good(m, b)
  BY SegmentIsGood
<1> HIDE DEF m
<1>5. SegmentMoves(k, Segment(m, second, capacity), Highest(top, first), Lowest(bottom, first), second)
  BY <1>1, <1>2, <1>3, <1>4, GoodIsTyped, SegmentStretches
<1> QED BY <1>1, <1>2, <1>3, <1>5 DEF m

\* Two replays that must agree do, or there is no label.
LEMMA AgreedIsEither ==
  ASSUME NEW x, NEW y, IsLedger(x), ~Agreed(x, y).bad
  PROVE  Agreed(x, y) = x /\ x = y
BY VoidIsBad DEF Agreed

\* What the replay of a candle of which only the four prices are known has gone through.
CandleMoves(k, r, c) ==
  \/ /\ KsLower < c.low /\ c.high < KsUpper
     /\ Along(k, r, c.high, c.low) /\ r.prev = c.close
  \/ /\ c.high >= KsUpper /\ c.low > KsLower
     /\ StoppedAbove(k, r, k.prev, c.high) /\ Traded(k, r, KsUpper, c.low)
  \/ /\ c.high < KsUpper /\ c.low <= KsLower
     /\ StoppedBelow(k, r, k.prev, c.low) /\ Traded(k, r, c.high, KsLower)

LEMMA CandleStretches ==
  ASSUME NEW b, IsGridBot(b), NEW k, Good(k, b), ~Over(k), Ready(k), NEW c, CandleHolds(k, c),
         ~ReplayCandle(k, c).bad
  PROVE  CandleMoves(k, ReplayCandle(k, c), c)
<1> DEFINE r == ReplayCandle(k, c)
           o == c.open
           h == c.high
           w == c.low
           z == c.close
           v == c.vol
           top == Highest(o, z)
           bottom == IF o < z THEN o ELSE z
<1>1. /\ o \in Int /\ h \in Int /\ w \in Int /\ z \in Int
      /\ w <= o /\ o <= h /\ w <= z /\ z <= h /\ o = k.prev
  BY DEF CandleHolds, WholeCandle
<1>2. Typed(k) /\ IsLedger(k) /\ ~k.bad /\ k.stop = "none"
  BY GoodIsTyped DEF Typed, Over
<1>3. /\ Along(k, k, o, o) /\ k.turn \in Int
      /\ KsLower < o /\ o < KsUpper /\ KsLower \in Int /\ KsUpper \in Int
  BY <1>1, <1>2, StretchBegins, SwitchesAreTyped DEF Ready
<1>4. ASSUME NEW x \in Int, ~Segment(k, x, v).bad PROVE SegmentMoves(k, Segment(k, x, v), o, o, x)
  BY <1>2, <1>3, <1>4, SegmentStretches
<1>5. ASSUME NEW x \in Int, KsLower < x, x < KsUpper, NEW y \in Int, ~Path2(k, x, y, v).bad
      PROVE  SegmentMoves(k, Path2(k, x, y, v), Highest(o, x), Lowest(o, x), y)
  BY <1>2, <1>3, <1>5, PathStretches
<1>6. /\ \A x : IsLedger(Segment(k, x, v))
      /\ \A x, y : IsLedger(Path2(k, x, y, v))
      /\ \A x, y, q : IsLedger(Path3(k, x, y, q, v))
  <2>1. \A x : Good(Segment(k, x, v), b)
    BY SegmentIsGood
  <2>2. \A x, y : Good(Path2(k, x, y, v), b)
    BY <2>1, SegmentIsGood DEF Path2
  <2>3. \A x, y, q : Good(Path3(k, x, y, q, v), b)
    BY <2>2, SegmentIsGood DEF Path3
  <2> QED BY <2>1, <2>2, <2>3 DEF Good
<1>7. ~(h >= KsUpper /\ w <= KsLower)
  <2>1. (h >= KsUpper /\ w <= KsLower) => r = Void(k)
    <3>1. w <= KsLower => ~(w > KsLower)
      BY <1>1, <1>3
    <3>2. h >= KsUpper => ~(h < KsUpper)
      BY <1>1, <1>3
    <3> QED BY <3>1, <3>2 DEF ReplayCandle
  <2> QED BY <1>2, <2>1, VoidIsBad
<1>8. CASE h >= KsUpper
  <2>1. r = Agreed(Segment(k, h, v), Path2(k, w, h, v)) /\ w > KsLower
    BY <1>1, <1>3, <1>7, <1>8 DEF ReplayCandle
  <2>2. r = Segment(k, h, v) /\ r = Path2(k, w, h, v)
    BY <1>6, <2>1, AgreedIsEither
  <2>3. StoppedAbove(k, r, o, h)
    BY <1>1, <1>4, <1>8, <2>2 DEF SegmentMoves
  <2>4. StoppedAbove(k, r, w, h)
    <3>1. Lowest(o, w) = w
      BY <1>1 DEF Lowest
    <3>2. w < KsUpper
      BY <1>1, <1>3
    <3> QED BY <1>1, <1>5, <1>8, <2>1, <2>2, <3>1, <3>2 DEF SegmentMoves
  <2> QED BY <1>1, <1>8, <2>1, <2>3, <2>4 DEF CandleMoves, StoppedAbove
<1>9. CASE w <= KsLower
  <2>1. r = Agreed(Segment(k, w, v), Path2(k, h, w, v)) /\ h < KsUpper
    <3>1. h < KsUpper
      BY <1>1, <1>3, <1>7, <1>9
    <3>2. ~(h >= KsUpper) /\ ~(w > KsLower)
      BY <1>1, <1>3, <1>9, <3>1
    <3> QED BY <1>9, <3>1, <3>2 DEF ReplayCandle
  <2>2. r = Segment(k, w, v) /\ r = Path2(k, h, w, v)
    BY <1>6, <2>1, AgreedIsEither
  <2>3. StoppedBelow(k, r, o, w)
    BY <1>1, <1>4, <1>9, <2>2 DEF SegmentMoves
  <2>4. StoppedBelow(k, r, h, w)
    <3>1. Highest(o, h) = h
      BY <1>1 DEF Highest
    <3>2. KsLower < h
      BY <1>1, <1>3
    <3> QED BY <1>1, <1>5, <1>9, <2>1, <2>2, <3>1, <3>2 DEF SegmentMoves
  <2> QED BY <1>1, <1>9, <2>1, <2>3, <2>4 DEF CandleMoves, StoppedBelow
<1>10. CASE h < KsUpper /\ KsLower < w
  <2>1. /\ KsLower < h /\ h < KsUpper /\ KsLower < w /\ w < KsUpper /\ KsLower < z /\ z < KsUpper
    BY <1>1, <1>3, <1>10
  <2>2. r = CASE h > top /\ w >= bottom -> Path2(k, h, z, v)
              [] h <= top /\ w < bottom -> Path2(k, w, z, v)
              [] h > top /\ w < bottom -> Agreed(Path3(k, h, w, z, v), Path3(k, w, h, z, v))
              [] OTHER -> Segment(k, z, v)
    <3>1. ~(h >= KsUpper) /\ ~(w <= KsLower)
      BY <1>1, <1>3, <1>10
    <3> HIDE DEF top, bottom
    <3> QED BY <3>1 DEF ReplayCandle, top, bottom
  <2>3. /\ top \in Int /\ bottom \in Int
        /\ (h > top /\ w >= bottom => w = bottom) /\ (h <= top => h = top) /\ (w >= bottom => w = bottom)
    BY <1>1 DEF Highest
  <2> SUFFICES Along(k, r, h, w) /\ r.prev = z
    BY <2>1 DEF CandleMoves
  <2>4. CASE h > top /\ w >= bottom
    <3>1. r = Path2(k, h, z, v)
      <4>1. ~(h <= top) /\ ~(w < bottom)
        BY <1>1, <2>3, <2>4
      <4> HIDE DEF top, bottom, r
      <4> QED BY <2>2, <2>4, <4>1
    <3>2. SegmentMoves(k, r, Highest(o, h), Lowest(o, h), z)
      BY <1>1, <1>5, <2>1, <3>1
    <3>3. Highest(Highest(o, h), z) = h /\ Lowest(Lowest(o, h), z) = w
      BY <1>1, <2>3, <2>4 DEF Highest, Lowest
    <3> QED BY <2>1, <3>2, <3>3 DEF SegmentMoves
  <2>5. CASE h <= top /\ w < bottom
    <3>1. r = Path2(k, w, z, v)
      <4>1. ~(h > top) /\ ~(w >= bottom)
        BY <1>1, <2>3, <2>5
      <4> HIDE DEF top, bottom, r
      <4> QED BY <2>2, <2>5, <4>1
    <3>2. SegmentMoves(k, r, Highest(o, w), Lowest(o, w), z)
      BY <1>1, <1>5, <2>1, <3>1
    <3>3. Highest(Highest(o, w), z) = h /\ Lowest(Lowest(o, w), z) = w
      BY <1>1, <2>3, <2>5 DEF Highest, Lowest
    <3> QED BY <2>1, <3>2, <3>3 DEF SegmentMoves
  <2>6. CASE h > top /\ w < bottom
    <3> DEFINE x == Path3(k, h, w, z, v)
               m == Path2(k, h, w, v)
    <3>1. r = x
      <4>1. r = Agreed(x, Path3(k, w, h, z, v))
        <5>1. ~(h > top /\ w >= bottom) /\ ~(h <= top /\ w < bottom)
          BY <1>1, <2>3, <2>6
        <5> HIDE DEF top, bottom
        <5> QED BY <2>2, <2>6, <5>1
      <4> HIDE DEF x
      <4> QED BY <1>6, <4>1, AgreedIsEither DEF x
    <3>2. x = Segment(m, z, v)
      BY DEF Path3
    <3>3. ~m.bad
      <4>1. m.bad => Segment(m, z, v) = m
        BY DEF Segment, Over
      <4> QED BY <3>1, <3>2, <4>1
    <3>4. Along(k, m, Highest(Highest(o, h), w), Lowest(Lowest(o, h), w))
      <4>1. SegmentMoves(k, m, Highest(o, h), Lowest(o, h), w)
        BY <1>1, <1>5, <2>1, <3>3
      <4> QED BY <2>1, <4>1 DEF SegmentMoves
    <3>5. Highest(Highest(o, h), w) = h /\ Lowest(Lowest(o, h), w) = w
      BY <1>1 DEF Highest, Lowest
    <3>6. Typed(m)
      <4>1. Good(m, b)
        BY SegmentIsGood DEF Path2
      <4> QED BY <4>1, GoodIsTyped
    <3> HIDE DEF m, x
    <3>7. SegmentMoves(k, Segment(m, z, v), h, w, z)
      BY <1>1, <1>2, <1>3, <3>1, <3>2, <3>3, <3>4, <3>5, <3>6, SegmentStretches
    <3>8. Highest(h, z) = h /\ Lowest(w, z) = w
      BY <1>1 DEF Highest, Lowest
    <3> QED BY <2>1, <3>1, <3>2, <3>7, <3>8 DEF SegmentMoves
  <2>7. CASE h <= top /\ w >= bottom
    <3>1. r = Segment(k, z, v)
      <4>1. ~(h > top)
        BY <1>1, <2>3, <2>7
      <4>2. ~(w < bottom)
        BY <1>1, <2>3, <2>7
      <4> HIDE DEF top, bottom
      <4> QED BY <2>2, <4>1, <4>2
    <3>2. SegmentMoves(k, r, o, o, z)
      BY <1>1, <1>4, <3>1
    <3>3. Highest(o, z) = h /\ Lowest(o, z) = w
      BY <1>1, <2>3, <2>7 DEF Highest, Lowest
    <3> QED BY <2>1, <3>2, <3>3 DEF SegmentMoves
  <2> QED BY <1>1, <2>3, <2>4, <2>5, <2>6, <2>7
<1> QED BY <1>1, <1>3, <1>8, <1>9, <1>10

LEMMA TradedIsInt ==
  ASSUME NEW k, Typed(k), {k.turn, k.market, k.funding} \subseteq Int,
         NEW l, NEW top, NEW bottom, Traded(k, l, top, bottom)
  PROVE  l.turn \in Int /\ l.market \in Int /\ l.funding \in Int
<1>1. FilledBy(k, top, bottom) \in SUBSET Indices
  BY DEF FilledBy, Sold, Bought
<1>2. SumFunctionOnSet(Notional(k.orders), FilledBy(k, top, bottom)) \in Int
  BY <1>1, ValuesAreSlots, SumsAreInt DEF Typed
<1>3. l.turn = k.turn + SumFunctionOnSet(Notional(k.orders), FilledBy(k, top, bottom))
  BY DEF Traded, FilledBy
<1> QED BY <1>2, <1>3 DEF Traded

\* What the four prices of a candle give is what its trades give, or, stopped, no more.
LEMMA CandleMatches ==
  ASSUME MarketFee <= Scale, NEW b, IsGridBot(b),
         NEW k, Good(k, b), ~Over(k), Ready(k), NEW c, CandleHolds(k, c), ~ReplayCandle(k, c).bad,
         NEW l, Typed(l), ~l.bad, Follows(k, l, c)
  PROVE  Matches(ReplayCandle(k, c), l)
<1> DEFINE r == ReplayCandle(k, c)
<1>1. /\ c.open \in Int /\ c.high \in Int /\ c.low \in Int /\ c.close \in Int
      /\ c.low <= c.open /\ c.open <= c.high /\ c.low <= c.close /\ c.close <= c.high /\ c.open = k.prev
  BY DEF CandleHolds, WholeCandle
<1>2. /\ Typed(k) /\ ~k.bad /\ k.stop = "none" /\ {k.turn, k.market, k.funding} \subseteq Int
      /\ Sold(k, k.prev) = {} /\ Bought(k, k.prev) = {}
  BY GoodIsTyped, StretchBegins DEF Over, Ready
<1>3. CandleMoves(k, r, c)
  BY CandleStretches
<1>4. KsLower \in Int /\ KsUpper \in Int /\ KsLower < KsUpper /\ KsLower < k.prev /\ k.prev < KsUpper /\ k.prev \in Int
  BY <1>2, SwitchesAreTyped DEF Ready
<1> HIDE DEF r
<1>5. CASE /\ KsLower < c.low /\ c.high < KsUpper /\ Along(k, r, c.high, c.low) /\ r.prev = c.close
  <2>1. \A n : n \notin KsUpper .. c.high /\ n \notin c.low .. KsLower
    BY <1>1, <1>4, <1>5
  <2>2. l.prev = c.close /\ l.liq = k.liq /\ l.stop = "none" /\ Traded(k, l, c.high, c.low)
    BY <1>2, <2>1 DEF Follows
  <2>3. r.prev = c.close /\ r.liq = k.liq /\ r.stop = "none" /\ Traded(k, r, c.high, c.low)
    BY <1>5 DEF Along
  <2>4. Alike(r, l)
    BY <2>2, <2>3 DEF Alike, Traded
  <2>5. Net(r) = Net(l) /\ Net(l) \in Int
    <3>1. l.liq \in Int
      BY <1>2, <2>2 DEF Ready
    <3>2. l.turn \in Int /\ l.market \in Int /\ l.funding \in Int
      BY <1>2, <2>2, TradedIsInt
    <3> QED BY <2>4, <3>1, <3>2, AlikeNets, NetIsInt DEF Typed
  <2> QED BY <2>4, <2>5 DEF Matches, Alike, r
<1>6. CASE /\ c.high >= KsUpper /\ c.low > KsLower
           /\ StoppedAbove(k, r, k.prev, c.high) /\ Traded(k, r, KsUpper, c.low)
  <2>1. \A n : n \notin c.low .. KsLower
    BY <1>1, <1>4, <1>6
  <2>2. PICK low \in c.low .. k.prev, p \in KsUpper .. c.high :
           l.stop = "upper" /\ Traded(k, l, KsUpper, low) /\ l.liq = (IF l.pos < 0 THEN p ELSE KsUpper)
    <3>1. ~(c.high < KsUpper)
      BY <1>1, <1>4, <1>6
    <3> QED BY <1>2, <2>1, <3>1 DEF Follows
  <2>3. SameTrades(r, l)
    <3>1. low \in Int /\ c.low <= low
      BY <1>1, <1>4
    <3>2. Traded(k, r, KsUpper, k.prev) /\ Traded(k, r, KsUpper, c.low)
      BY <1>6 DEF StoppedAbove
    <3> QED BY <1>1, <1>2, <2>2, <3>1, <3>2, AgreedAbove
  <2>4. r.stop = "upper" /\ r.liq = (IF l.pos < 0 THEN c.high ELSE KsUpper)
    BY <1>6, <2>3 DEF StoppedAbove, SameTrades
  <2>5. l.turn \in Int /\ l.market \in Int /\ l.funding \in Int /\ l.pos \in Int /\ l.cash \in Int
    BY <1>2, <2>2, TradedIsInt DEF Typed
  <2>6. /\ p \in Int /\ p <= c.high
    BY <1>1, <1>4
  <2>7. Net(r) <= Net(l)
    <3>1. l.liq \in Int /\ r.liq \in Int /\ (r.liq = l.liq \/ (l.pos < 0 /\ l.liq <= r.liq))
      BY <1>1, <1>4, <2>2, <2>4, <2>6
    <3> QED BY <2>3, <2>5, <3>1, WorsePriceLeavesLess
  <2> QED BY <2>2, <2>4, <2>7 DEF Matches, r
<1>7. CASE /\ c.high < KsUpper /\ c.low <= KsLower
           /\ StoppedBelow(k, r, k.prev, c.low) /\ Traded(k, r, c.high, KsLower)
  <2>1. \A n : n \notin KsUpper .. c.high
    BY <1>1, <1>4, <1>7
  <2>2. PICK high \in k.prev .. c.high, p \in c.low .. KsLower :
           l.stop = "lower" /\ Traded(k, l, high, KsLower) /\ l.liq = (IF l.pos > 0 THEN p ELSE KsLower)
    <3>1. ~(KsLower < c.low)
      BY <1>1, <1>4, <1>7
    <3> QED BY <1>2, <2>1, <3>1 DEF Follows
  <2>3. SameTrades(r, l)
    <3>1. high \in Int /\ high <= c.high
      BY <1>1, <1>4
    <3>2. Traded(k, r, k.prev, KsLower) /\ Traded(k, r, c.high, KsLower)
      BY <1>7 DEF StoppedBelow
    <3> QED BY <1>1, <1>2, <2>2, <3>1, <3>2, AgreedBelow
  <2>4. r.stop = "lower" /\ r.liq = (IF l.pos > 0 THEN c.low ELSE KsLower)
    BY <1>7, <2>3 DEF StoppedBelow, SameTrades
  <2>5. l.turn \in Int /\ l.market \in Int /\ l.funding \in Int /\ l.pos \in Int /\ l.cash \in Int
    BY <1>2, <2>2, TradedIsInt DEF Typed
  <2>6. /\ p \in Int /\ c.low <= p
    BY <1>1, <1>4
  <2>7. Net(r) <= Net(l)
    <3>1. l.liq \in Int /\ r.liq \in Int /\ (r.liq = l.liq \/ (l.pos > 0 /\ r.liq <= l.liq))
      BY <1>1, <1>4, <2>2, <2>4, <2>6
    <3> QED BY <2>3, <2>5, <3>1, WorsePriceLeavesLess
  <2> QED BY <2>2, <2>4, <2>7 DEF Matches, r
<1> QED BY <1>3, <1>5, <1>6, <1>7 DEF CandleMoves

---------------------------------------------------------------------------
(* The start of a minute and the end of the window.                        *)

\* What a settlement charges.
OwedFunding(l, rate, price) ==
  CASE rate = "longs"  -> -(IF l.pos > 0 THEN l.pos * price ELSE 0)
    [] rate = "shorts" -> IF l.pos < 0 THEN l.pos * price ELSE 0
    [] OTHER           -> 0

\* Replacements rest and the settlement is paid: what the first segment starts from.
Settled(l, m, rate, price) ==
  /\ IsLedger(m) /\ ~m.bad
  /\ m.orders = [i \in Indices |-> l.orders[i] + l.pending[i]]
  /\ m.pending = [i \in Indices |-> 0]
  /\ m.pos = l.pos /\ m.cash = l.cash /\ m.turn = l.turn /\ m.market = l.market
  /\ m.prev = l.prev /\ m.stop = l.stop /\ m.liq = l.liq
  /\ m.funding = l.funding + OwedFunding(l, rate, price)

LEMMA PaysFunding ==
  ASSUME NEW l, IsLedger(l), l.funding \in Int, l.pos \in Int, NEW rate \in Fees, NEW price \in Int,
         NEW m, m = PayFunding(l, rate, price), ~m.bad
  PROVE  /\ IsLedger(m) /\ ~l.bad /\ m.funding = l.funding + OwedFunding(l, rate, price)
         /\ \A f \in LedgerFields \ {"funding"} : m[f] = l[f]
<1>1. l.pos * price \in Int
  OBVIOUS
<1> DEFINE x == l.pos * price
<1>2. x \in Int
  BY <1>1
<1>3. /\ rate = "longs" => m = [l EXCEPT !.funding = l.funding - (IF l.pos > 0 THEN x ELSE 0)]
      /\ rate = "shorts" => m = [l EXCEPT !.funding = l.funding + (IF l.pos < 0 THEN x ELSE 0)]
      /\ rate = "none" => m = l
      /\ rate = "missing" => m = l \/ m = Void(l)
  BY DEF PayFunding, Fees
<1>4. OwedFunding(l, rate, price) = CASE rate = "longs" -> -(IF l.pos > 0 THEN x ELSE 0)
                                 [] rate = "shorts" -> IF l.pos < 0 THEN x ELSE 0
                                 [] OTHER -> 0
  BY DEF OwedFunding
<1>5. Void(l).bad = TRUE
  BY VoidIsBad
<1> HIDE DEF x
<1>6. CASE rate = "longs"
  BY <1>2, <1>3, <1>4, <1>6 DEF IsLedger, LedgerFields
<1>7. CASE rate = "shorts"
  BY <1>2, <1>3, <1>4, <1>7 DEF IsLedger, LedgerFields
<1>8. CASE rate \in {"none", "missing"}
  <2>1. m = l /\ OwedFunding(l, rate, price) = 0
    BY <1>3, <1>4, <1>5, <1>8
  <2> QED BY <2>1
<1> QED BY <1>6, <1>7, <1>8 DEF Fees

LEMMA ActivationDoes ==
  ASSUME NEW l, IsLedger(l), NEW m, m = Activate(l), ~m.bad
  PROVE  /\ IsLedger(m) /\ ~l.bad
         /\ m.orders = [i \in Indices |-> l.orders[i] + l.pending[i]] /\ m.pending = [i \in Indices |-> 0]
         /\ \A f \in LedgerFields \ {"orders", "pending"} : m[f] = l[f]
<1>1. m = Void(l) \/ m = [l EXCEPT !.orders  = [i \in Indices |-> l.orders[i] + l.pending[i]],
                                   !.pending = [i \in Indices |-> 0]]
  BY DEF Activate
<1>2. Void(l).bad = TRUE
  BY VoidIsBad
<1> QED BY <1>1, <1>2 DEF IsLedger, LedgerFields

LEMMA ConsumeDoes ==
  ASSUME NEW l, IsLedger(l), NEW slots, NEW capacity, NEW m, m = Consume(l, slots, capacity)
  PROVE  /\ IsLedger(m) /\ (~m.bad => ~l.bad)
         /\ \A f \in LedgerFields \ {"used", "bad"} : m[f] = l[f]
<1>1. m = [l EXCEPT !.bad = TRUE] \/ m = [l EXCEPT !.used = l.used + slots]
  BY DEF Consume, Void
<1> QED BY <1>1 DEF IsLedger, LedgerFields

\* A minute that begins: a segment from the last close to the first price.
LEMMA StartDoes ==
  ASSUME NEW l, Typed(l), ~Over(l), l.funding \in Int, NEW rate \in Fees, NEW open \in Int,
         NEW capacity, NEW first, ~StartMinute(l, open, capacity, first, rate).bad
  PROVE  \E m : /\ Settled(l, m, rate, open)
                /\ StartMinute(l, open, capacity, first, rate) = Segment(m, open, capacity)
<1> DEFINE reset   == [l EXCEPT !.used = 0]
           active  == Activate(reset)
           entered == IF first THEN Consume(active, Magnitude(active.pos), capacity) ELSE active
           settled == PayFunding(entered, rate, open)
           s       == StartMinute(l, open, capacity, first, rate)
<1>1. s = IF settled.bad \/ GapCrosses(l, open) THEN Void(l) ELSE Segment(settled, open, capacity)
  BY DEF StartMinute
<1>2. Void(l).bad = TRUE
  BY VoidIsBad DEF Typed
<1>3. ~settled.bad /\ s = Segment(settled, open, capacity)
  <2> HIDE DEF settled, s
  <2> QED BY <1>1, <1>2 DEF s
<1>4. IsLedger(reset) /\ \A f \in LedgerFields \ {"used"} : reset[f] = l[f]
  BY DEF Typed, IsLedger, LedgerFields
<1> HIDE DEF reset
<1>5. active = Void(reset) \/ active.bad = reset.bad
  BY <1>4 DEF Activate, IsLedger, LedgerFields
<1>6. IsLedger(active)
  BY <1>4 DEF Activate, Void, IsLedger, LedgerFields
<1> HIDE DEF active
<1>7. /\ IsLedger(entered) /\ (~entered.bad => ~active.bad)
      /\ \A f \in LedgerFields \ {"used", "bad"} : entered[f] = active[f]
  BY <1>6, ConsumeDoes
<1> HIDE DEF entered
<1>8. ASSUME ~active.bad PROVE active.pos = l.pos /\ active.funding = l.funding
  <2>1. active = Activate(reset)
    BY DEF active
  <2>2. /\ active.orders = [i \in Indices |-> reset.orders[i] + reset.pending[i]]
        /\ active.pending = [i \in Indices |-> 0]
        /\ \A f \in LedgerFields \ {"orders", "pending"} : active[f] = reset[f]
    BY <1>4, <1>8, <2>1, ActivationDoes
  <2> QED BY <1>4, <2>2 DEF LedgerFields
<1>9. settled.bad \/ (~entered.bad /\ ~active.bad)
  <2>1. settled \in {entered, Void(entered)} \/ \E x : settled = [entered EXCEPT !.funding = x]
    BY DEF PayFunding, Fees
  <2>2. Void(entered).bad = TRUE
    BY <1>7, VoidIsBad
  <2>3. settled.bad \/ settled.bad = entered.bad
    <3> HIDE DEF settled
    <3> QED BY <1>7, <2>1, <2>2 DEF IsLedger, LedgerFields
  <2> QED BY <1>7, <2>3
<1>10. entered.pos = l.pos /\ entered.funding = l.funding /\ l.pos \in Int
  BY <1>3, <1>7, <1>8, <1>9 DEF LedgerFields, Typed
<1>11. /\ IsLedger(settled) /\ settled.funding = entered.funding + OwedFunding(entered, rate, open)
       /\ \A f \in LedgerFields \ {"funding"} : settled[f] = entered[f]
  <2> HIDE DEF settled
  <2> QED BY <1>3, <1>7, <1>10, PaysFunding DEF settled
<1> HIDE DEF settled
<1>12. /\ active.orders = [i \in Indices |-> reset.orders[i] + reset.pending[i]]
       /\ active.pending = [i \in Indices |-> 0]
       /\ \A f \in LedgerFields \ {"orders", "pending"} : active[f] = reset[f]
  BY <1>3, <1>4, <1>9, ActivationDoes DEF active
<1>13. OwedFunding(entered, rate, open) = OwedFunding(l, rate, open)
  BY <1>10 DEF OwedFunding
<1>14. Settled(l, settled, rate, open)
  BY <1>3, <1>4, <1>7, <1>10, <1>11, <1>12, <1>13 DEF Settled, LedgerFields
<1> QED BY <1>3, <1>14 DEF s

LEMMA SegmentIsLedger ==
  ASSUME NEW l, IsLedger(l), NEW target, NEW capacity
  PROVE  IsLedger(Segment(l, target, capacity))
<1>1. ASSUME NEW x, IsLedger(x) PROVE IsLedger(Void(x)) /\ \A to : IsLedger(Reach(x, to))
  BY <1>1 DEF Void, Reach, IsLedger, LedgerFields
<1>2. ASSUME NEW x, IsLedger(x), NEW slots PROVE IsLedger(Consume(x, slots, capacity))
  BY <1>2, ConsumeDoes
<1>3. ASSUME NEW x, IsLedger(x), NEW filled, NEW side PROVE IsLedger(Fill(x, filled, side))
  <2>1. \/ Fill(x, filled, side) = Void(x)
        \/ \E o, p, c, t, n : Fill(x, filled, side) = [x EXCEPT !.orders = o, !.pending = p, !.cash = c,
                                                              !.turn = t, !.pos = n]
    BY DEF Fill
  <2> QED BY <1>1, <1>3, <2>1 DEF IsLedger, LedgerFields
<1>4. ASSUME NEW x, IsLedger(x), NEW side PROVE IsLedger(Liquidate(x, side, target, capacity))
  <2> DEFINE c == Consume(x, Magnitude(x.pos), capacity)
  <2>1. \E p, q : Liquidate(x, side, target, capacity) = [c EXCEPT !.stop = side, !.liq = p, !.peak = q]
    BY DEF Liquidate
  <2>2. IsLedger(c)
    BY <1>2, <1>4
  <2> HIDE DEF c
  <2> QED BY <2>1, <2>2 DEF IsLedger, LedgerFields
<1> DEFINE side   == Breach(l.prev, target)
           to     == Terminal(l.prev, target)
           filled == Crossed(l.orders, l.prev, to)
           slots  == Magnitude(SumFunctionOnSet(l.orders, filled))
           kept   == Fill(Consume(l, slots, capacity), filled, IF to > l.prev THEN 1 ELSE -1)
<1>5. IsLedger(kept)
  BY <1>2, <1>3
<1>6. Segment(l, target, capacity)
        \in {l, Void(l), Reach(kept, to), Liquidate(Reach(kept, to), side, target, capacity)}
  BY DEF Segment
<1> HIDE DEF kept, to, side
<1> QED BY <1>1, <1>4, <1>5, <1>6

LEMMA SettledIsReady ==
  ASSUME NEW l, Typed(l), ~Over(l), Ready(l), NEW rate \in Fees, NEW price \in Int,
         NEW m, Settled(l, m, rate, price)
  PROVE  Typed(m) /\ Ready(m) /\ ~Over(m)
<1>1. \A i \in Indices : l.orders[i] \in Int /\ l.pending[i] \in Int /\ Level(i) \in Int
  BY LevelsRise DEF Typed, Slots
<1>2. /\ l.turn \in Int /\ l.market \in Int /\ l.funding \in Int /\ l.prev \in Int /\ l.liq \in Int
      /\ Faces(l) /\ KsLower < l.prev /\ l.prev < KsUpper /\ l.stop = "none" /\ l.pos \in Int /\ l.cash \in Int
  BY DEF Ready, Over, Typed
<1>3. Typed(m)
  <2>1. m.orders \in Slots /\ m.pending \in Slots
    BY <1>1 DEF Settled, Slots
  <2> QED BY <1>2, <2>1 DEF Settled, Typed
<1>4. m.funding \in Int
  <2> DEFINE x == l.pos * price
  <2>1. x \in Int
    BY <1>2
  <2>2. OwedFunding(l, rate, price) = CASE rate = "longs" -> -(IF l.pos > 0 THEN x ELSE 0)
                                   [] rate = "shorts" -> IF l.pos < 0 THEN x ELSE 0
                                   [] OTHER -> 0
    BY DEF OwedFunding
  <2> HIDE DEF x
  <2>3. OwedFunding(l, rate, price) \in Int
    BY <2>1, <2>2
  <2> QED BY <1>2, <2>3 DEF Settled
<1>5. Faces(m)
  <2>1. ASSUME NEW i \in Indices
        PROVE  /\ m.orders[i] < 0 \/ m.pending[i] < 0 => Level(i) >= m.prev
               /\ m.orders[i] > 0 \/ m.pending[i] > 0 => Level(i) <= m.prev
    <3>1. m.orders[i] = l.orders[i] + l.pending[i] /\ m.pending[i] = 0 /\ m.prev = l.prev
      BY DEF Settled
    <3>2. /\ l.orders[i] < 0 \/ l.pending[i] < 0 => Level(i) >= l.prev
          /\ l.orders[i] > 0 \/ l.pending[i] > 0 => Level(i) <= l.prev
      BY <1>2 DEF Faces
    <3> QED BY <1>1, <3>1, <3>2
  <2> QED BY <2>1 DEF Faces
<1> QED BY <1>2, <1>3, <1>4, <1>5 DEF Settled, Ready, Over

LEMMA SettledAlike ==
  ASSUME NEW k, NEW l, Alike(k, l), NEW rate, NEW price, NEW m, NEW n,
         Settled(k, m, rate, price), Settled(l, n, rate, price)
  PROVE  Alike(m, n)
<1>1. /\ k.orders = l.orders /\ k.pending = l.pending /\ k.pos = l.pos /\ k.cash = l.cash
      /\ k.turn = l.turn /\ k.market = l.market /\ k.funding = l.funding
      /\ k.prev = l.prev /\ k.stop = l.stop /\ k.liq = l.liq
  BY DEF Alike
<1>2. OwedFunding(k, rate, price) = OwedFunding(l, rate, price)
  BY <1>1 DEF OwedFunding
<1> QED BY <1>1, <1>2 DEF Settled, Alike

\* The book and the tape begin a minute alike.
LEMMA StartAlike ==
  ASSUME NEW k, Typed(k), ~Over(k), Ready(k), NEW l, Typed(l), l.bad \/ Alike(k, l),
         NEW rate \in Fees, NEW open \in Int, NEW capacity, NEW first
  PROVE  LET s == StartMinute(k, open, capacity, first, rate)
             t == StartMinute(l, open, capacity, first, rate)
         IN  /\ Ready(s) /\ (~Over(s) => s.prev = open)
             /\ s.bad \/ t.bad \/ Alike(s, t)
<1> DEFINE s == StartMinute(k, open, capacity, first, rate)
           t == StartMinute(l, open, capacity, first, rate)
<1>1. CASE s.bad
  BY <1>1 DEF Ready, Over
<1>2. CASE ~s.bad
  <2>1. k.funding \in Int /\ KsLower < k.prev /\ k.prev < KsUpper /\ k.prev \in Int
    BY DEF Ready, Over
  <2>2. PICK m : Settled(k, m, rate, open) /\ s = Segment(m, open, capacity)
    BY <1>2, <2>1, StartDoes
  <2>3. Typed(m) /\ Ready(m) /\ ~Over(m)
    BY <2>2, SettledIsReady
  <2>4. Ready(s)
    BY <2>2, <2>3, SegmentIsReady
  <2>5. ASSUME ~Over(s) PROVE s.prev = open
    <3>1. Done(m, open, s)
      BY <1>2, <2>2, <2>3, SegmentDoes DEF Typed
    <3>2. s.stop = "none" /\ m.prev = k.prev
      BY <2>2, <2>5 DEF Over, Settled
    <3>3. Breach(m.prev, open) = "none" /\ s.prev = Terminal(m.prev, open)
      BY <3>1, <3>2 DEF Done
    <3> QED BY <3>3 DEF Terminal
  <2>6. ASSUME ~t.bad PROVE Alike(s, t)
    <3>1. ~l.bad /\ Alike(k, l)
      <4>1. l.bad => t = l
        BY DEF StartMinute, Over
      <4> QED BY <2>6, <4>1
    <3>2. ~Over(l) /\ l.funding \in Int
      BY <2>1, <3>1 DEF Over, Alike
    <3>3. PICK n : Settled(l, n, rate, open) /\ t = Segment(n, open, capacity)
      BY <2>6, <3>2, StartDoes
    <3>4. Alike(m, n) /\ ~m.bad /\ ~n.bad /\ IsLedger(m) /\ IsLedger(n)
      BY <2>2, <3>1, <3>3, SettledAlike DEF Settled
    <3> QED BY <1>2, <2>2, <2>6, <3>3, <3>4, SegmentAlike
  <2> HIDE DEF s, t
  <2> QED BY <2>4, <2>5, <2>6 DEF s, t
<1> QED BY <1>1, <1>2

\* A minute begins with one trade.
LEMMA StartFollows ==
  ASSUME NEW k, Typed(k), Ready(k), NEW l, k.bad \/ l.bad \/ Alike(k, l),
         NEW p \in Int, ~Over(k) => k.prev = p, NEW v, NEW rate,
         NEW c, c = [open |-> p, high |-> p, low |-> p, close |-> p, vol |-> v, rate |-> rate]
  PROVE  CandleHolds(k, c) /\ Follows(k, l, c)
<1>1. CandleHolds(k, c)
  <2>1. c = [f \in CandleFields |-> c[f]]
    BY DEF CandleFields
  <2> QED BY <2>1 DEF CandleHolds, WholeCandle
<1>2. ASSUME ~k.bad /\ ~l.bad /\ k.stop = "none" PROVE Follows(k, l, c)
  <2>1. k.prev = p /\ Alike(k, l)
    BY <1>2 DEF Over
  <2>2. Along(k, k, p, p)
    BY <1>2, <2>1, StretchBegins
  <2>3. /\ KsLower < p /\ p < KsUpper /\ Traded(k, k, p, p) /\ l.prev = p /\ l.liq = k.liq /\ l.stop = "none"
    BY <1>2, <2>1, <2>2 DEF Along, Alike
  <2>4. Traded(k, l, p, p)
    BY <2>1, <2>3 DEF Traded, Alike
  <2>5. c.high = p /\ c.low = p /\ c.close = p
    OBVIOUS
  <2>6. /\ k.stop = "none" /\ l.stop = "none" /\ KsLower < c.low /\ c.high < KsUpper
        /\ l.prev = c.close /\ l.liq = k.liq /\ Traded(k, l, c.high, c.low)
    BY ONLY <1>2, <2>3, <2>4, <2>5
  <2> QED BY ONLY <2>6 DEF Follows
<1>3. k.stop # "none" /\ Alike(k, l) => Follows(k, l, c)
  BY DEF Follows
<1>4. k.bad \/ l.bad => Follows(k, l, c)
  BY DEF Follows
<1>5. Follows(k, l, c)
  BY <1>2, <1>3, <1>4
<1> QED BY <1>1, <1>5

\* The end of the window: a segment, and, if the bot is not stopped by it, the exit.
LEMMA FinishDoes ==
  ASSUME NEW l, Typed(l), ~Over(l), l.funding \in Int, NEW rate \in Fees, NEW exit \in Int,
         NEW capacity, ~Finish(l, exit, capacity, rate).bad
  PROVE  LET r == Finish(l, exit, capacity, rate) IN
         \E m : LET s == Segment(m, exit, capacity) IN
                /\ Settled(l, m, rate, exit) /\ ~s.bad
                /\ r.stop = s.stop /\ SameTrades(r, s)
                /\ r.liq = (IF s.stop = "none" THEN exit ELSE s.liq)
<1> DEFINE reset   == [l EXCEPT !.used = 0]
           settled == PayFunding(reset, rate, exit)
           active  == Activate(settled)
           last    == Segment(active, exit, capacity)
           closed  == Consume(last, Magnitude(last.pos), capacity)
           paid    == [closed EXCEPT !.liq = exit]
           r       == Finish(l, exit, capacity, rate)
<1>1. r = IF settled.bad \/ GapCrosses(l, exit) THEN Void(l) ELSE IF Over(last) THEN last ELSE paid
  BY DEF Finish
<1>2. Void(l).bad = TRUE /\ ~r.bad
  BY VoidIsBad DEF Typed
<1>3. ~settled.bad /\ r = (IF Over(last) THEN last ELSE paid)
  <2> HIDE DEF settled, last, paid, r
  <2> QED BY <1>1, <1>2
<1>4. IsLedger(reset) /\ \A f \in LedgerFields \ {"used"} : reset[f] = l[f]
  BY DEF Typed, IsLedger, LedgerFields
<1> HIDE DEF reset
<1>5. reset.funding = l.funding /\ reset.pos = l.pos /\ l.pos \in Int
  BY <1>4 DEF LedgerFields, Typed
<1>6. /\ IsLedger(settled) /\ settled.funding = l.funding + OwedFunding(l, rate, exit)
      /\ \A f \in LedgerFields \ {"funding"} : settled[f] = reset[f]
  <2>1. OwedFunding(reset, rate, exit) = OwedFunding(l, rate, exit)
    BY <1>5 DEF OwedFunding
  <2>2. settled = PayFunding(reset, rate, exit)
    OBVIOUS
  <2> HIDE DEF settled
  <2>3. /\ IsLedger(settled) /\ settled.funding = reset.funding + OwedFunding(reset, rate, exit)
        /\ \A f \in LedgerFields \ {"funding"} : settled[f] = reset[f]
    BY <1>3, <1>4, <1>5, <2>2, PaysFunding
  <2> QED BY <1>5, <2>1, <2>3
<1> HIDE DEF settled
<1>7. ~active.bad
  <2>1. active.bad => last = active
    BY DEF Segment, Over
  <2> HIDE DEF last, active
  <2>2. active.bad => Over(last) /\ r = last /\ last.bad
    BY <1>3, <2>1 DEF Over
  <2> QED BY <1>2, <2>1, <2>2
<1>8. /\ IsLedger(active)
      /\ active.orders = [i \in Indices |-> settled.orders[i] + settled.pending[i]]
      /\ active.pending = [i \in Indices |-> 0]
      /\ \A f \in LedgerFields \ {"orders", "pending"} : active[f] = settled[f]
  <2>1. active = Activate(settled)
    OBVIOUS
  <2> HIDE DEF active
  <2> QED BY <1>6, <1>7, <2>1, ActivationDoes
<1> HIDE DEF active
<1>9. Settled(l, active, rate, exit)
  BY <1>4, <1>6, <1>7, <1>8 DEF Settled, LedgerFields
<1>10. Typed(active)
  <2>1. active.orders \in Slots /\ active.pending \in Slots
    <3>1. \A i \in Indices : l.orders[i] \in Int /\ l.pending[i] \in Int
      BY DEF Typed, Slots
    <3> QED BY <1>9, <3>1 DEF Settled, Slots
  <2> QED BY <1>9, <2>1 DEF Settled, Typed
<1>11. CASE Over(last)
  <2>1. r = last /\ ~last.bad
    BY <1>2, <1>3, <1>11
  <2>2. last.stop # "none"
    BY <1>11, <2>1 DEF Over
  <2> HIDE DEF last, r
  <2>3. r.stop = last.stop /\ SameTrades(r, last) /\ r.liq = last.liq
    BY <2>1 DEF SameTrades
  <2> QED BY <1>9, <2>1, <2>2, <2>3 DEF last, r
<1>12. CASE ~Over(last)
  <2>1. r = paid /\ ~last.bad /\ last.stop = "none"
    BY <1>3, <1>12 DEF Over
  <2>2. IsLedger(last)
    BY <1>8, SegmentIsLedger
  <2> HIDE DEF last
  <2>3. /\ IsLedger(closed) /\ \A f \in LedgerFields \ {"used", "bad"} : closed[f] = last[f]
    BY <2>2, ConsumeDoes
  <2> HIDE DEF closed
  <2>4. SameTrades(closed, last) /\ closed.stop = last.stop
    BY <2>3 DEF LedgerFields, SameTrades
  <2>5. r.stop = last.stop /\ SameTrades(r, last) /\ r.liq = exit
    BY <2>1, <2>3, <2>4 DEF IsLedger, LedgerFields, SameTrades
  <2> HIDE DEF r
  <2> QED BY <1>9, <2>1, <2>5 DEF last, r
<1> QED BY <1>11, <1>12

\* The exit of replays that are alike is the same.
LEMMA FinishAlike ==
  ASSUME NEW k, Typed(k), ~Over(k), Ready(k), NEW l, Typed(l), Alike(k, l), ~l.bad,
         NEW rate \in Fees, NEW exit \in Int, NEW capacity,
         ~Finish(k, exit, capacity, rate).bad, ~Finish(l, exit, capacity, rate).bad
  PROVE  LET r == Finish(k, exit, capacity, rate)
             t == Finish(l, exit, capacity, rate)
         IN  r.stop = t.stop /\ Net(r) = Net(t) /\ Net(t) \in Int
<1> DEFINE r == Finish(k, exit, capacity, rate)
           t == Finish(l, exit, capacity, rate)
<1>1. k.funding \in Int /\ l.funding \in Int /\ ~Over(l)
  BY DEF Ready, Over, Alike
<1>2. PICK m : /\ Settled(k, m, rate, exit) /\ ~Segment(m, exit, capacity).bad
               /\ r.stop = Segment(m, exit, capacity).stop /\ SameTrades(r, Segment(m, exit, capacity))
               /\ r.liq = (IF Segment(m, exit, capacity).stop = "none" THEN exit
                          ELSE Segment(m, exit, capacity).liq)
  BY <1>1, FinishDoes
<1>3. PICK n : /\ Settled(l, n, rate, exit) /\ ~Segment(n, exit, capacity).bad
               /\ t.stop = Segment(n, exit, capacity).stop /\ SameTrades(t, Segment(n, exit, capacity))
               /\ t.liq = (IF Segment(n, exit, capacity).stop = "none" THEN exit
                          ELSE Segment(n, exit, capacity).liq)
  BY <1>1, FinishDoes
<1> DEFINE x == Segment(m, exit, capacity)
           y == Segment(n, exit, capacity)
<1>4. Alike(x, y)
  <2>1. Alike(m, n) /\ ~m.bad /\ ~n.bad /\ IsLedger(m) /\ IsLedger(n)
    BY <1>2, <1>3, SettledAlike DEF Settled
  <2> QED BY <1>2, <1>3, <2>1, SegmentAlike
<1>5. Ready(x) /\ ~x.bad /\ x.pos \in Int /\ x.cash \in Int
  <2>1. Typed(m) /\ Ready(m) /\ ~Over(m)
    BY <1>2, SettledIsReady
  <2>2. Done(m, exit, x)
    BY <1>2, <2>1, SegmentDoes DEF Typed
  <2>3. Crossed(m.orders, m.prev, Terminal(m.prev, exit)) \in SUBSET Indices
    BY DEF Crossed
  <2>4. /\ SumFunctionOnSet(m.orders, Crossed(m.orders, m.prev, Terminal(m.prev, exit))) \in Int
        /\ SumFunctionOnSet(Paid(m.orders), Crossed(m.orders, m.prev, Terminal(m.prev, exit))) \in Int
    BY <2>1, <2>3, ValuesAreSlots, SumsAreInt DEF Typed
  <2>5. Ready(x)
    BY <2>1, SegmentIsReady
  <2> HIDE DEF x
  <2>6. x.pos \in Int /\ x.cash \in Int
    BY <2>1, <2>2, <2>4 DEF Done, Typed
  <2> QED BY <1>2, <2>5, <2>6 DEF x
<1> HIDE DEF x, y, r, t
<1>6. r.stop = t.stop /\ SameTrades(r, t) /\ r.liq = t.liq
  BY <1>2, <1>3, <1>4 DEF Alike, SameTrades, x, y
<1>7. Net(r) = Net(t)
  BY <1>6 DEF SameTrades, Net
<1>8. /\ r.pos \in Int /\ r.cash \in Int /\ r.turn \in Int /\ r.market \in Int
      /\ r.funding \in Int /\ r.liq \in Int
  BY <1>2, <1>5 DEF SameTrades, Ready, x
<1> QED BY <1>6, <1>7, <1>8, NetIsInt DEF r, t

---------------------------------------------------------------------------
(* The replay of the evidence and the replay of the trades.                *)

LEMMA AlikeMatches ==
  ASSUME NEW r, Typed(r), Ready(r), ~r.bad, NEW l, Alike(r, l)
  PROVE  Matches(r, l)
<1>1. Net(r) = Net(l) /\ r.stop = l.stop
  BY AlikeNets
<1>2. Net(r) \in Int
  BY NetIsInt DEF Typed, Ready
<1> QED BY <1>1, <1>2 DEF Matches

LEMMA CandleIsReady ==
  ASSUME NEW b, IsGridBot(b), NEW k, Good(k, b), Ready(k), NEW c, CandleHolds(k, c)
  PROVE  Ready(ReplayCandle(k, c))
<1>1. c.high \in Int /\ c.low \in Int /\ c.close \in Int
  BY DEF CandleHolds, WholeCandle
<1>2. ASSUME NEW l, Good(l, b), Ready(l), NEW x \in Int
      PROVE  Good(Segment(l, x, c.vol), b) /\ Ready(Segment(l, x, c.vol))
  BY <1>2, GoodIsTyped, SegmentIsGood, SegmentIsReady
<1>3. \A x \in Int : Ready(Segment(k, x, c.vol)) /\ Good(Segment(k, x, c.vol), b)
  BY <1>2
<1>4. \A x, y \in Int : Ready(Path2(k, x, y, c.vol)) /\ Good(Path2(k, x, y, c.vol), b)
  BY <1>2, <1>3 DEF Path2
<1>5. \A x, y, z \in Int : Ready(Path3(k, x, y, z, c.vol)) /\ Good(Path3(k, x, y, z, c.vol), b)
  BY <1>2, <1>4 DEF Path3
<1>6. \A x, y : Ready(x) /\ Good(x, b) => Ready(Agreed(x, y))
  <2>1. \A x : Good(x, b) => Ready(Void(x))
    BY VoidIsBad DEF Good, Ready
  <2> QED BY <2>1 DEF Agreed
<1>7. Ready(Void(k))
  BY VoidIsBad DEF Good, Ready
<1>8. \/ ReplayCandle(k, c) = k \/ ReplayCandle(k, c) = Void(k)
      \/ \E x \in Int : ReplayCandle(k, c) = Segment(k, x, c.vol)
      \/ \E x, y \in Int : ReplayCandle(k, c) = Path2(k, x, y, c.vol)
      \/ \E x, y : Ready(x) /\ Good(x, b) /\ ReplayCandle(k, c) = Agreed(x, y)
  <2>1. /\ Ready(Segment(k, c.high, c.vol)) /\ Good(Segment(k, c.high, c.vol), b)
        /\ Ready(Segment(k, c.low, c.vol)) /\ Good(Segment(k, c.low, c.vol), b)
    BY <1>1, <1>3
  <2>2. /\ Ready(Path3(k, c.high, c.low, c.close, c.vol))
        /\ Good(Path3(k, c.high, c.low, c.close, c.vol), b)
    BY <1>1, <1>5
  <2>3. ReplayCandle(k, c) \in
          {k, Void(k), Agreed(Segment(k, c.high, c.vol), Path2(k, c.low, c.high, c.vol)),
           Agreed(Segment(k, c.low, c.vol), Path2(k, c.high, c.low, c.vol)),
           Path2(k, c.high, c.close, c.vol), Path2(k, c.low, c.close, c.vol),
           Agreed(Path3(k, c.high, c.low, c.close, c.vol), Path3(k, c.low, c.high, c.close, c.vol)),
           Segment(k, c.close, c.vol)}
    <3>1. Over(k) \/ (c.high >= KsUpper /\ c.low <= KsLower) \/ (c.high >= KsUpper /\ c.low > KsLower)
          \/ (c.high < KsUpper /\ c.low <= KsLower) \/ (c.high < KsUpper /\ c.low > KsLower)
      BY <1>1, SwitchesAreTyped
    <3> QED BY <3>1 DEF ReplayCandle
  <2> QED BY <1>1, <2>1, <2>2, <2>3
<1> QED BY <1>3, <1>4, <1>6, <1>7, <1>8

\* A bot opens ready: its buys below the price, its sells above it.
LEMMA OpeningIsReady ==
  ASSUME NEW b, IsGridBot(b)
  PROVE  /\ Ready(Opening(b.direction, b.entry)) /\ ~Over(Opening(b.direction, b.entry))
         /\ Opening(b.direction, b.entry).prev = b.entry
<1> DEFINE o == Opening(b.direction, b.entry)
           e == b.entry
           slots == InitialPosition(b.direction, e)
           buys == BuyIndices(b.direction, e)
           sells == SellIndices(b.direction, e)
<1>1. slots \in Int /\ e \in Int
  BY InitialIsInt
<1>2. /\ buys \in SUBSET Indices /\ sells \in SUBSET Indices /\ buys \intersect sells = {}
      /\ \A i \in buys : Level(i) <= e
      /\ \A i \in sells : Level(i) >= e
  BY OpeningLies
<1>3. KsLower < e /\ e < KsUpper
  <2>1. Lower <= e /\ e <= Level(GridCount) /\ KsLower < Lower /\ KsUpper > Level(GridCount)
    BY GridAssumption DEF IsGridBot, Level
  <2>2. Level(GridCount) \in Int /\ Lower \in Int /\ KsLower \in Int /\ KsUpper \in Int
    BY LevelsRise, Count, GridAssumption DEF Indices
  <2> QED BY <1>1, <2>1, <2>2
<1> HIDE DEF buys, sells, slots
<1>4. /\ o.orders = [i \in Indices |-> IF i \in buys THEN 1 ELSE IF i \in sells THEN -1 ELSE 0]
      /\ o.pending = [i \in Indices |-> 0] /\ o.turn = 0 /\ o.market = Magnitude(slots) * e
      /\ o.prev = e /\ o.funding = 0 /\ o.stop = "none" /\ o.liq = 0 /\ o.bad = FALSE
  BY DEF Opening, buys, sells, slots
<1> HIDE DEF o, e
<1>5. Magnitude(slots) * e \in Int
  <2>1. Magnitude(slots) \in Int
    BY <1>1 DEF Magnitude
  <2> QED BY <1>1, <2>1
<1>6. Faces(o)
  <2>1. ASSUME NEW i \in Indices
        PROVE  /\ o.orders[i] < 0 \/ o.pending[i] < 0 => Level(i) >= o.prev
               /\ o.orders[i] > 0 \/ o.pending[i] > 0 => Level(i) <= o.prev
    BY <1>2, <1>4
  <2> QED BY <2>1 DEF Faces
<1>7. Ready(o) /\ ~Over(o)
  BY <1>1, <1>3, <1>4, <1>5, <1>6 DEF Ready, Over
<1> QED BY <1>4, <1>7 DEF o, e

LEMMA TapeStarts == ReplayInit => TapeInvariant
<1> SUFFICES ASSUME ReplayInit, Grid PROVE TapeInvariant
  BY DEF TapeInvariant
<1>1. bot \in Bots /\ candle = NoCandle /\ label.state = "open"
  BY DEF ReplayInit, NoLabel
<1>2. /\ book = Opening(bot.direction, bot.entry) /\ exact = book /\ tape = book
  BY DEF ReplayInit, Start, Grid
<1>3. Ready(book) /\ ~Over(book)
  BY <1>1, <1>2, GridBots, OpeningIsReady
<1>4. Alike(exact, tape)
  BY <1>2 DEF Alike
<1>5. LabelMatchesTape
  BY <1>1 DEF LabelMatchesTape, Kept
<1> QED BY <1>1, <1>2, <1>3, <1>4, <1>5 DEF TapeInvariant

\* What the steps of a grid's replay start from.
GridReplay ==
  /\ Grid /\ IsGridBot(bot) /\ Good(book, bot) /\ Good(exact, bot) /\ Good(tape, bot)
  /\ TapeInvariant

LEMMA Inputs ==
  /\ \A p \in Prices : p \in Int
  /\ \A r \in Rates : r \in Fees
  /\ \A e \in Evidence : e \in {"candle", "trades", "mismatch"}
BY PriceAssumption, EvidenceAssumption DEF Fees

LEMMA OpenMinuteKeeps == ASSUME GridReplay, OpenMinute PROVE TapeInvariant'
<1>1. PICK p \in Prices, v \in Volumes, rate \in Rates :
         /\ Unlabelled /\ candle = NoCandle
         /\ candle' = [open |-> p, high |-> p, low |-> p, close |-> p, vol |-> v, rate |-> rate]
         /\ book' = StartMinute(book, p, v, minute = 0, rate)
         /\ tape' = StartMinute(tape, p, v, minute = 0, rate)
         /\ exact' = book' /\ bot' = bot /\ label' = label
  BY DEF OpenMinute, GridReplay
<1>2. p \in Int /\ rate \in Fees
  BY Inputs
<1>3. Ready(book) /\ ~Over(book) /\ (tape.bad \/ Alike(book, tape))
  BY <1>1 DEF GridReplay, TapeInvariant, Over
<1>4. Typed(book) /\ Typed(tape)
  BY GoodIsTyped DEF GridReplay
<1>5. /\ Ready(book') /\ (~Over(book') => book'.prev = p)
      /\ book'.bad \/ tape'.bad \/ Alike(book', tape')
  BY <1>1, <1>2, <1>3, <1>4, StartAlike
<1>6. Typed(book')
  <2>1. Good(book', bot)
    BY <1>1, <1>2, StartIsGood DEF GridReplay, Fees
  <2> QED BY <2>1, GoodIsTyped
<1>7. CandleHolds(book', candle') /\ Follows(book', tape', candle')
  BY <1>1, <1>2, <1>5, <1>6, StartFollows
<1>8. candle' # NoCandle'
  <2>1. NoCandle' = [vol |-> -1]
    BY DEF NoCandle
  <2>2. DOMAIN candle' = {"open", "high", "low", "close", "vol", "rate"} /\ DOMAIN [vol |-> -1] = {"vol"}
    BY <1>1
  <2>3. "open" \in DOMAIN candle' /\ "open" \notin DOMAIN [vol |-> -1]
    BY <2>2
  <2> QED BY <2>1, <2>3
<1>9. LabelMatchesTape'
  BY <1>1 DEF LabelMatchesTape, Kept, Unlabelled
<1> QED BY <1>1, <1>5, <1>7, <1>8, <1>9 DEF TapeInvariant

LEMMA TradeKeeps == ASSUME GridReplay, Trade PROVE TapeInvariant'
<1>1. PICK p \in Prices :
         /\ Unlabelled /\ candle # NoCandle
         /\ candle' = WithTrade(candle, p)
         /\ exact' = Segment(exact, p, candle.vol) /\ tape' = Segment(tape, p, candle.vol)
         /\ book' = book /\ bot' = bot /\ label' = label
  BY DEF Trade, WithTrade, GridReplay
<1>2. p \in Int
  BY Inputs
<1>3. /\ Ready(book) /\ Ready(exact) /\ (exact.bad \/ tape.bad \/ Alike(exact, tape))
      /\ CandleHolds(book, candle) /\ Follows(book, tape, candle)
  BY <1>1 DEF GridReplay, TapeInvariant
<1>4. Typed(book) /\ Typed(tape) /\ Typed(exact)
  BY GoodIsTyped DEF GridReplay
<1>5. Ready(exact')
  BY <1>1, <1>2, <1>3, <1>4, SegmentIsReady
<1>6. exact'.bad \/ tape'.bad \/ Alike(exact', tape')
  <2>1. exact.bad => exact' = exact
    BY <1>1 DEF Segment, Over
  <2>2. tape.bad => tape' = tape
    BY <1>1 DEF Segment, Over
  <2>3. ~exact.bad /\ ~tape.bad /\ ~exact'.bad /\ ~tape'.bad => Alike(exact', tape')
    BY <1>1, <1>3, <1>4, SegmentAlike DEF Typed
  <2> QED BY <2>1, <2>2, <2>3
<1>7. CandleHolds(book, candle') /\ Follows(book, tape', candle')
  BY <1>1, <1>2, <1>3, <1>4, TradeFollows, CandleGrows
<1>8. candle' # NoCandle'
  <2>1. NoCandle' = [vol |-> -1]
    BY DEF NoCandle
  <2>2. DOMAIN candle' = CandleFields /\ DOMAIN [vol |-> -1] = {"vol"}
    BY <1>7 DEF CandleHolds, WholeCandle
  <2>3. "open" \in DOMAIN candle' /\ "open" \notin DOMAIN [vol |-> -1]
    BY <2>2 DEF CandleFields
  <2> QED BY <2>1, <2>3
<1>9. LabelMatchesTape'
  BY <1>1 DEF LabelMatchesTape, Kept, Unlabelled
<1> QED BY <1>1, <1>3, <1>5, <1>6, <1>7, <1>8, <1>9 DEF TapeInvariant

\* What the worker makes of the evidence of a minute.
LEMMA EvidenceMatches ==
  ASSUME MarketFee <= Scale, GridReplay, Unlabelled, candle # NoCandle,
         NEW evidence \in Evidence, NEW r, r = Observe(evidence)
  PROVE  Ready(r) /\ (r.bad \/ tape.bad \/ Matches(r, tape))
<1>1. /\ Ready(book) /\ Ready(exact) /\ (exact.bad \/ tape.bad \/ Alike(exact, tape))
      /\ CandleHolds(book, candle) /\ Follows(book, tape, candle)
      /\ IsGridBot(bot) /\ Good(book, bot)
  BY DEF GridReplay, TapeInvariant
<1>2. Typed(book) /\ Typed(tape) /\ Typed(exact)
  BY GoodIsTyped DEF GridReplay
<1>3. ASSUME Over(book) PROVE Ready(book) /\ (book.bad \/ tape.bad \/ Matches(book, tape))
  <2>1. book.bad \/ tape.bad \/ Alike(book, tape)
    BY <1>1, <1>3 DEF Over, Follows
  <2> QED BY <1>1, <1>2, <2>1, AlikeMatches
<1>4. evidence \in {"candle", "trades", "mismatch"} /\ Grid
  BY Inputs DEF GridReplay
<1>5. CASE evidence = "candle"
  <2>1. r = ReplayCandle(book, candle)
    BY <1>4, <1>5 DEF Observe
  <2>2. CASE Over(book)
    <3>1. r = book
      BY <2>1, <2>2 DEF ReplayCandle
    <3> QED BY <1>3, <2>2, <3>1
  <2>3. CASE ~Over(book)
    <3>1. Ready(r)
      BY <1>1, <2>1, CandleIsReady
    <3>2. ~r.bad /\ ~tape.bad => Matches(r, tape)
      BY <1>1, <1>2, <2>1, <2>3, CandleMatches
    <3> QED BY <3>1, <3>2
  <2> QED BY <2>2, <2>3
<1>6. CASE evidence = "trades"
  <2>1. r = exact
    BY <1>4, <1>6 DEF Observe
  <2> QED BY <1>1, <1>2, <2>1, AlikeMatches
<1>7. CASE evidence = "mismatch"
  <2>1. r = IF Over(book) THEN book ELSE Void(book)
    BY <1>4, <1>7 DEF Observe
  <2>2. Ready(Void(book)) /\ Void(book).bad
    BY <1>2, VoidIsBad DEF Typed, Ready
  <2> QED BY <1>3, <2>1, <2>2
<1> QED BY <1>4, <1>5, <1>6, <1>7

LEMMA CloseMinuteKeeps == ASSUME MarketFee <= Scale, GridReplay, CloseMinute PROVE TapeInvariant'
<1>1. PICK evidence \in Evidence :
         /\ Unlabelled /\ candle # NoCandle /\ book' = Observe(evidence) /\ exact' = book'
         /\ candle' = NoCandle /\ tape' = tape /\ bot' = bot
         /\ label' = IF Over(book') THEN Label(book') ELSE label
  BY DEF CloseMinute, Decided, GridReplay
<1>2. Ready(book') /\ (book'.bad \/ tape.bad \/ Matches(book', tape))
  BY <1>1, EvidenceMatches
<1>3. CASE Over(book')
  <2>1. label' = IF book'.bad THEN NoLabel("unavailable") ELSE GridLabel(book')
    BY <1>1, <1>3 DEF Label, GridReplay
  <2>2. CASE book'.bad
    <3>1. label'.state = "unavailable"
      BY <2>1, <2>2 DEF NoLabel
    <3> QED BY <3>1 DEF TapeInvariant, LabelMatchesTape, Kept, Unlabelled
  <2>3. CASE ~book'.bad
    <3>1. label'.state = "kept" /\ label'.stop = book'.stop /\ label'.net = Net(book')
      BY <2>1, <2>3 DEF GridLabel
    <3>2. ~tape.bad => label'.stop = tape.stop /\ label'.net <= Net(tape)
                       /\ (label'.stop = "none" => label'.net = Net(tape))
      BY <1>2, <2>3, <3>1, AlikeNets DEF Matches
    <3>3. LabelMatchesTape'
      BY <1>1, <3>2 DEF LabelMatchesTape
    <3> QED BY <3>1, <3>3 DEF TapeInvariant, Unlabelled
  <2> QED BY <2>2, <2>3
<1>4. CASE ~Over(book')
  <2>1. label' = label /\ label.state = "open"
    BY <1>1, <1>4 DEF Unlabelled
  <2>2. LabelMatchesTape'
    BY <2>1 DEF LabelMatchesTape, Kept
  <2>3. book'.bad \/ tape.bad \/ Alike(book', tape)
    BY <1>2, <1>4 DEF Over, Matches
  <2>4. candle' = NoCandle'
    BY <1>1 DEF NoCandle
  <2> QED BY <1>1, <1>2, <1>4, <2>2, <2>3, <2>4 DEF TapeInvariant
<1> QED BY <1>3, <1>4

LEMMA HorizonKeeps == ASSUME GridReplay, Horizon PROVE TapeInvariant'
<1>1. PICK p \in Prices, v \in Volumes, rate \in Rates :
         /\ Unlabelled /\ candle = NoCandle
         /\ book' = Finish(book, p, v, rate) /\ tape' = Finish(tape, p, v, rate)
         /\ bot' = bot /\ label' = Label(book')
  BY DEF Horizon, GridReplay
<1>2. p \in Int /\ rate \in Fees
  BY Inputs
<1>3. Ready(book) /\ ~Over(book) /\ (tape.bad \/ Alike(book, tape))
  BY <1>1 DEF GridReplay, TapeInvariant, Over
<1>4. Typed(book) /\ Typed(tape)
  BY GoodIsTyped DEF GridReplay
<1>5. label' = IF book'.bad THEN NoLabel("unavailable") ELSE GridLabel(book')
  BY <1>1 DEF Label, GridReplay
<1>6. CASE book'.bad
  <2>1. label'.state = "unavailable"
    BY <1>5, <1>6 DEF NoLabel
  <2> QED BY <2>1 DEF TapeInvariant, LabelMatchesTape, Kept, Unlabelled
<1>7. CASE ~book'.bad
  <2>1. label'.state = "kept" /\ label'.stop = book'.stop /\ label'.net = Net(book')
    BY <1>5, <1>7 DEF GridLabel
  <2>2. ASSUME ~tape'.bad PROVE book'.stop = tape'.stop /\ Net(book') = Net(tape') /\ Net(tape') \in Int
    <3>1. ~tape.bad
      <4>1. tape.bad => tape' = tape
        BY <1>1 DEF Finish, Over
      <4> QED BY <2>2, <4>1
    <3> QED BY <1>1, <1>2, <1>3, <1>4, <1>7, <2>2, <3>1, FinishAlike
  <2>3. LabelMatchesTape'
    BY <2>1, <2>2 DEF LabelMatchesTape
  <2> QED BY <2>1, <2>3 DEF TapeInvariant, Unlabelled
<1> QED BY <1>6, <1>7

LEMMA TapeSteps ==
  ASSUME MarketFee <= Scale
  PROVE  ReplayIsGood /\ TapeInvariant /\ [ReplayNext]_replayVars => TapeInvariant'
<1> SUFFICES ASSUME ReplayIsGood, TapeInvariant, [ReplayNext]_replayVars PROVE TapeInvariant'
  OBVIOUS
<1>1. bot' = bot
  BY DEF ReplayNext, OpenMinute, Trade, CloseMinute, Horizon, replayVars
<1>2. CASE ~Grid
  BY <1>1, <1>2 DEF TapeInvariant, Grid
<1>3. CASE Grid
  <2>1. GridReplay
    BY <1>3, GridBots DEF GridReplay, ReplayIsGood, GridIsGood
  <2>2. CASE UNCHANGED replayVars
    BY <2>2 DEF replayVars, TapeInvariant, Grid, LabelMatchesTape, Kept, Unlabelled, NoCandle
  <2> QED BY <2>1, <2>2, OpenMinuteKeeps, TradeKeeps, CloseMinuteKeeps, HorizonKeeps DEF ReplayNext
<1> QED BY <1>2, <1>3

\* A label that is kept never reports more than every trade of the window would have given,
\* and exactly that unless the bot was stopped, whatever evidence each minute had.
THEOREM LabelsHold == ASSUME MarketFee <= Scale PROVE ReplaySpec => []LabelMatchesTape
<1>1. TapeInvariant => LabelMatchesTape
  BY DEF TapeInvariant, LabelMatchesTape
<1>2. ReplayIsGood /\ TapeInvariant /\ [ReplayNext]_replayVars => TapeInvariant'
  BY TapeSteps
<1> QED BY <1>1, <1>2, TapeStarts, ReplayStarts, ReplaySteps, PTL DEF ReplaySpec

---------------------------------------------------------------------------
(* A label names the boundary that was reached first.                      *)

BoundsHold(lower, upper) == lower \in Int /\ upper \in Int /\ lower < upper
TouchOf(side, p, lower, upper) ==
  IF side # "none" THEN side
  ELSE IF p >= upper THEN "upper" ELSE IF p <= lower THEN "lower" ELSE "none"

\* The first touch stays, and a trade makes one.
LEMMA TouchIsOf ==
  /\ \A p : Touch(p) = TouchOf(reached, p, LowerBound, UpperBound)
  /\ BoundsHold(LowerBound, UpperBound)
<1>1. \A p : Touch(p) = TouchOf(reached, p, LowerBound, UpperBound)
  BY DEF Touch, TouchOf
<1>2. BoundsHold(Below, Above)
  BY TrendAssumption DEF BoundsHold
<1>3. BoundsHold(KsLower, KsUpper)
  BY SwitchesAreTyped DEF BoundsHold
<1> QED BY <1>1, <1>2, <1>3 DEF LowerBound, UpperBound

\* A candle that begins tells of its only trade,
LEMMA FirstTradeTells ==
  ASSUME NEW lower, NEW upper, BoundsHold(lower, upper), NEW p \in Int, NEW v, NEW rate,
         NEW c, c = [open |-> p, high |-> p, low |-> p, close |-> p, vol |-> v, rate |-> rate]
  PROVE  WholeCandle(c) /\ Tells(c, TouchOf("none", p, lower, upper), lower, upper) /\ c.open = p
<1>1. c = [f \in CandleFields |-> c[f]]
  BY DEF CandleFields
<1>2. c.open = p /\ c.high = p /\ c.low = p /\ c.close = p
  OBVIOUS
<1> QED BY <1>1, <1>2 DEF WholeCandle, Tells, TouchOf, BoundsHold

\* and goes on telling as it widens.
LEMMA NextTradeTells ==
  ASSUME NEW lower, NEW upper, BoundsHold(lower, upper), NEW p \in Int, NEW c, WholeCandle(c),
         NEW side, Tells(c, side, lower, upper)
  PROVE  /\ WholeCandle(WithTrade(c, p)) /\ WithTrade(c, p).open = c.open
         /\ Tells(WithTrade(c, p), TouchOf(side, p, lower, upper), lower, upper)
<1> DEFINE d == WithTrade(c, p)
<1>1. /\ c.open \in Int /\ c.high \in Int /\ c.low \in Int /\ c.close \in Int
      /\ c.low <= c.open /\ c.open <= c.high /\ c.low <= c.close /\ c.close <= c.high
  BY DEF WholeCandle
<1>2. /\ d = [f \in CandleFields |-> d[f]] /\ d.open = c.open /\ d.close = p
      /\ d.high = Highest(c.high, p) /\ d.low = (IF p < c.low THEN p ELSE c.low)
  BY DEF WholeCandle, CandleFields, WithTrade
<1> HIDE DEF d
<1>3. d.high = (IF c.high > p THEN c.high ELSE p)
  BY <1>2 DEF Highest
<1>4. WholeCandle(d)
  <2>1. {d.open, d.high, d.low, d.close} \subseteq Int
    BY <1>1, <1>2, <1>3
  <2>2. d.low <= d.open /\ d.open <= d.high /\ d.low <= d.close /\ d.close <= d.high
    BY ONLY <1>1, <1>2, <1>3, p \in Int
  <2> QED BY <1>2, <2>1, <2>2 DEF WholeCandle
<1>5. Tells(d, TouchOf(side, p, lower, upper), lower, upper)
  BY <1>1, <1>2, <1>3 DEF Tells, TouchOf, BoundsHold
<1> QED BY <1>2, <1>4, <1>5 DEF d

\* The side at which a segment stops is the boundary that its end has reached.
SideOf(p) == IF p >= KsUpper THEN "upper" ELSE IF p <= KsLower THEN "lower" ELSE "none"

LEMMA SegmentNames ==
  ASSUME NEW l, Typed(l), ~Over(l), Ready(l), NEW p \in Int, NEW capacity,
         ~Segment(l, p, capacity).bad
  PROVE  Segment(l, p, capacity).stop = SideOf(p)
<1>1. Done(l, p, Segment(l, p, capacity))
  BY SegmentDoes DEF Typed
<1>2. Segment(l, p, capacity).stop = Breach(l.prev, p)
  BY <1>1 DEF Done
<1>3. l.prev \in Int /\ KsLower < l.prev /\ l.prev < KsUpper
  BY DEF Ready, Over
<1> QED BY <1>2, <1>3, SegmentEnds, SwitchesAreTyped DEF SideOf

\* What the worker makes of the evidence of a minute is ready for the next one, and has stopped
\* where the trades touched.
LEMMA EvidenceNames ==
  ASSUME Grid, IsGridBot(bot), Good(book, bot), Good(exact, bot), TouchInvariant,
         Unlabelled, candle # NoCandle, NEW evidence \in Evidence, NEW r, r = Observe(evidence)
  PROVE  Ready(r) /\ (r.bad \/ r.stop = reached)
<1>1. /\ Ready(book) /\ Ready(exact) /\ CandleHolds(book, candle)
      /\ book.bad \/ book.stop \in {"none", reached}
      /\ exact.bad \/ exact.stop = reached
      /\ Tells(candle, reached, KsLower, KsUpper) /\ reached \in {"none", "upper", "lower"}
  BY DEF TouchInvariant, LowerBound, UpperBound
<1>2. Typed(book)
  BY GoodIsTyped
<1>3. evidence \in {"candle", "trades", "mismatch"}
  BY Inputs
<1>4. CASE evidence = "candle"
  <2>1. r = ReplayCandle(book, candle)
    BY <1>4 DEF Observe
  <2>2. CASE Over(book)
    <3>1. r = book
      BY <2>1, <2>2 DEF ReplayCandle
    <3> QED BY <1>1, <2>2, <3>1 DEF Over
  <2>3. CASE ~Over(book)
    <3>1. Ready(r)
      BY <1>1, <2>1, CandleIsReady
    <3>2. ASSUME ~r.bad PROVE r.stop = reached
      <4>1. CandleMoves(book, r, candle)
        BY <1>1, <2>1, <2>3, <3>2, CandleStretches
      <4>2. candle.high \in Int /\ candle.low \in Int
        BY <1>1 DEF CandleHolds, WholeCandle
      <4>3. \/ KsLower < candle.low /\ candle.high < KsUpper /\ r.stop = "none"
            \/ candle.high >= KsUpper /\ candle.low > KsLower /\ r.stop = "upper"
            \/ candle.low <= KsLower /\ candle.high < KsUpper /\ r.stop = "lower"
        BY <4>1 DEF CandleMoves, Along, StoppedAbove, StoppedBelow
      <4> QED BY ONLY <1>1, <4>2, <4>3, SwitchesAreTyped DEF Tells
    <3> QED BY <3>1, <3>2
  <2> QED BY <2>2, <2>3
<1>5. CASE evidence = "trades"
  BY <1>1, <1>5 DEF Observe
<1>6. CASE evidence = "mismatch"
  <2>1. r = IF Over(book) THEN book ELSE Void(book)
    BY <1>6 DEF Observe
  <2>2. Ready(Void(book)) /\ Void(book).bad
    BY <1>2, VoidIsBad DEF Typed, Ready
  <2> QED BY <1>1, <2>1, <2>2 DEF Over
<1> QED BY <1>3, <1>4, <1>5, <1>6


\* What the steps start from.
TouchReplay ==
  /\ TouchInvariant
  /\ Grid => IsGridBot(bot) /\ Good(book, bot) /\ Good(exact, bot)

LEMMA SideIsTouch ==
  ASSUME Grid, reached = "none", NEW p
  PROVE  Touch(p) = SideOf(p)
BY DEF Touch, SideOf, UpperBound, LowerBound

LEMMA NotNoCandle == ASSUME NEW c, WholeCandle(c) PROVE c # NoCandle
<1>1. DOMAIN c = CandleFields /\ DOMAIN NoCandle = {"vol"}
  BY DEF WholeCandle, NoCandle
<1>2. "open" \in DOMAIN c /\ "open" \notin DOMAIN NoCandle
  BY <1>1 DEF CandleFields
<1> QED BY <1>2

LEMMA TouchStarts == ReplayInit => TouchInvariant
<1> SUFFICES ASSUME ReplayInit PROVE TouchInvariant
  OBVIOUS
<1>1. /\ bot \in Bots /\ candle = NoCandle /\ label.state = "open" /\ reached = "none"
      /\ book = Start(bot) /\ exact = book
  BY DEF ReplayInit, NoLabel
<1>2. ASSUME Grid PROVE Ready(book) /\ ~Over(book)
  <2>1. book = Opening(bot.direction, bot.entry)
    BY <1>1, <1>2 DEF Start, Grid
  <2> QED BY <1>1, <1>2, <2>1, GridBots, OpeningIsReady
<1>3. ~Grid => PositionRuns(book)
  BY <1>1 DEF Start, Grid, Entered, PositionRuns
<1> QED BY <1>1, <1>2, <1>3 DEF TouchInvariant, LabelNamesTheFirstTouch, Kept

LEMMA TouchAtOpen == ASSUME TouchReplay, OpenMinute PROVE TouchInvariant'
<1>1. PICK p \in Prices, v \in Volumes, rate \in Rates :
         /\ Unlabelled /\ candle = NoCandle
         /\ candle' = [open |-> p, high |-> p, low |-> p, close |-> p, vol |-> v, rate |-> rate]
         /\ book' = IF Grid THEN StartMinute(book, p, v, minute = 0, rate) ELSE book
         /\ exact' = book' /\ reached' = Touch(p) /\ bot' = bot /\ label' = label
  BY DEF OpenMinute
<1>2. p \in Int /\ rate \in Fees
  BY Inputs
<1>3. reached = "none"
  BY <1>1 DEF TouchReplay, TouchInvariant
<1>4. /\ WholeCandle(candle') /\ Tells(candle', reached', LowerBound, UpperBound)
      /\ candle'.open = p /\ candle'.rate \in Rates
  <2>1. reached' = TouchOf("none", p, LowerBound, UpperBound)
    BY <1>1, <1>3, TouchIsOf
  <2> QED BY <1>1, <1>2, <2>1, TouchIsOf, FirstTradeTells
<1>5. LowerBound' = LowerBound /\ UpperBound' = UpperBound /\ (Grid' <=> Grid)
  BY <1>1 DEF LowerBound, UpperBound, Grid
<1>6. candle' # NoCandle'
  BY <1>4, NotNoCandle DEF NoCandle
<1>7. reached' \in {"none", "upper", "lower"}
  BY <1>1, <1>3 DEF Touch
<1>8. LabelNamesTheFirstTouch'
  BY <1>1 DEF LabelNamesTheFirstTouch, Kept, Unlabelled
<1>9. ASSUME ~Grid PROVE PositionRuns(book')
  BY <1>1, <1>9 DEF TouchReplay, TouchInvariant
<1>10. ASSUME Grid
       PROVE  /\ Ready(book') /\ (~Over(book') => p = book'.prev)
              /\ book'.bad \/ book'.stop = reached'
  <2>1. Ready(book) /\ ~Over(book) /\ Typed(book) /\ Good(book, bot)
    BY <1>1, <1>10, GoodIsTyped DEF TouchReplay, TouchInvariant
  <2>2. book' = StartMinute(book, p, v, minute = 0, rate)
    BY <1>1, <1>10
  <2>3. Ready(book') /\ (~Over(book') => book'.prev = p)
    <3>1. Alike(book, book)
      BY DEF Alike
    <3> QED BY <1>2, <2>1, <2>2, <3>1, StartAlike
  <2>4. ASSUME ~book'.bad PROVE book'.stop = reached'
    <3>1. book.funding \in Int
      BY <2>1 DEF Ready, Over
    <3>2. PICK m : Settled(book, m, rate, p) /\ book' = Segment(m, p, v)
      BY <1>2, <2>1, <2>2, <2>4, <3>1, StartDoes
    <3>3. Typed(m) /\ Ready(m) /\ ~Over(m)
      BY <1>2, <2>1, <3>2, SettledIsReady
    <3>4. book'.stop = SideOf(p)
      BY <1>2, <2>4, <3>2, <3>3, SegmentNames
    <3> QED BY <1>1, <1>3, <1>10, <3>4, SideIsTouch
  <2> QED BY <2>3, <2>4
<1>11. ASSUME Grid
       PROVE  /\ Ready(book') /\ Ready(exact') /\ CandleHolds(book', candle')
              /\ book'.bad \/ book'.stop \in {"none", reached'}
              /\ exact'.bad \/ exact'.stop = reached'
  BY <1>1, <1>4, <1>10, <1>11 DEF CandleHolds
<1> QED BY <1>4, <1>5, <1>6, <1>7, <1>8, <1>9, <1>11 DEF TouchInvariant

LEMMA TouchAtTrade == ASSUME TouchReplay, Trade PROVE TouchInvariant'
<1>1. PICK p \in Prices :
         /\ Unlabelled /\ candle # NoCandle
         /\ candle' = WithTrade(candle, p)
         /\ exact' = (IF Grid THEN Segment(exact, p, candle.vol) ELSE exact)
         /\ reached' = Touch(p) /\ book' = book /\ bot' = bot /\ label' = label
  BY DEF Trade, WithTrade
<1>2. p \in Int
  BY Inputs
<1>3. /\ reached \in {"none", "upper", "lower"} /\ WholeCandle(candle)
      /\ Tells(candle, reached, LowerBound, UpperBound) /\ candle.rate \in Rates
  BY <1>1 DEF TouchReplay, TouchInvariant
<1>4. /\ WholeCandle(candle') /\ Tells(candle', reached', LowerBound, UpperBound)
      /\ candle'.open = candle.open /\ candle'.rate \in Rates
  <2>1. reached' = TouchOf(reached, p, LowerBound, UpperBound)
    BY <1>1, TouchIsOf
  <2>2. WithTrade(candle, p).rate = candle.rate
    BY <1>3 DEF WithTrade, WholeCandle, CandleFields
  <2> QED BY <1>1, <1>2, <1>3, <2>1, <2>2, TouchIsOf, NextTradeTells
<1>5. LowerBound' = LowerBound /\ UpperBound' = UpperBound /\ (Grid' <=> Grid)
  BY <1>1 DEF LowerBound, UpperBound, Grid
<1>6. candle' # NoCandle'
  BY <1>4, NotNoCandle DEF NoCandle
<1>7. reached' \in {"none", "upper", "lower"} /\ (reached # "none" => reached' = reached)
  BY <1>1, <1>3 DEF Touch
<1>8. LabelNamesTheFirstTouch'
  BY <1>1 DEF LabelNamesTheFirstTouch, Kept, Unlabelled
<1>9. ASSUME ~Grid PROVE PositionRuns(book')
  BY <1>1, <1>9 DEF TouchReplay, TouchInvariant
<1>10. ASSUME Grid
       PROVE  /\ Ready(book') /\ Ready(exact') /\ CandleHolds(book', candle')
              /\ book'.bad \/ book'.stop \in {"none", reached'}
              /\ exact'.bad \/ exact'.stop = reached'
  <2>1. /\ Ready(book) /\ Ready(exact) /\ CandleHolds(book, candle) /\ Typed(exact)
        /\ book.bad \/ book.stop \in {"none", reached}
        /\ exact.bad \/ exact.stop = reached
    BY <1>1, <1>10, GoodIsTyped DEF TouchReplay, TouchInvariant
  <2>2. exact' = Segment(exact, p, candle.vol)
    BY <1>1, <1>10
  <2>3. Ready(exact')
    BY <1>2, <2>1, <2>2, SegmentIsReady
  <2>4. exact'.bad \/ exact'.stop = reached'
    <3>1. CASE Over(exact)
      <4>1. exact' = exact
        BY <2>2, <3>1 DEF Segment
      <4> QED BY <1>7, <2>1, <3>1, <4>1 DEF Over
    <3>2. CASE ~Over(exact)
      <4>1. reached = "none"
        BY <2>1, <3>2 DEF Over
      <4> QED BY <1>1, <1>2, <1>10, <2>1, <2>2, <3>2, <4>1, SegmentNames, SideIsTouch
    <3> QED BY <3>1, <3>2
  <2>5. CandleHolds(book', candle')
    BY <1>1, <1>4, <2>1 DEF CandleHolds
  <2>6. book'.bad \/ book'.stop \in {"none", reached'}
    BY <1>1, <1>7, <2>1
  <2> QED BY <1>1, <2>1, <2>3, <2>4, <2>5, <2>6
<1> QED BY <1>4, <1>5, <1>6, <1>7, <1>8, <1>9, <1>10 DEF TouchInvariant


\* What a position's walk over one candle leaves: it has taken the profit or the loss on the
\* side that was reached, or runs on because none was.
ExitSide(event, direction) ==
  CASE event = "HORIZON_EXIT" -> "none"
    [] event = "TP_FIRST" -> IF direction = "long" THEN "upper" ELSE "lower"
    [] event = "SL_FIRST" -> IF direction = "long" THEN "lower" ELSE "upper"

LEMMA WalkNames ==
  ASSUME NEW t, PositionRuns(t), NEW direction, NEW c, WholeCandle(c), NEW rate \in Fees,
         NEW side, side \in {"none", "upper", "lower"}, Tells(c, side, Below, Above),
         NEW r, r = WalkCandle(t, direction, c, rate), ~r.bad
  PROVE  \/ PositionRuns(r) /\ side = "none"
         \/ r.event \in {"TP_FIRST", "SL_FIRST"} /\ ExitSide(r.event, direction) = side
<1>1. /\ c.open \in Int /\ c.high \in Int /\ c.low \in Int
      /\ c.low <= c.open /\ c.open <= c.high
      /\ Below \in Int /\ Above \in Int /\ Below < Above
  BY TrendAssumption DEF WholeCandle
<1> DEFINE tp   == TakeProfit(direction)
           sl   == StopLoss(direction)
           won  == AtLeast(direction, Best(direction, c), tp)
           lost == AtLeast(direction, sl, Worst(direction, c))
<1>2. \A p, q \in Int : AtLeast(direction, p, q) <=> IF direction = "long" THEN p >= q ELSE p <= q
  BY DEF AtLeast, Sign
<1>3. /\ tp = (IF direction = "long" THEN Above ELSE Below)
      /\ sl = (IF direction = "long" THEN Below ELSE Above)
      /\ Best(direction, c) = (IF direction = "long" THEN c.high ELSE c.low)
      /\ Worst(direction, c) = (IF direction = "long" THEN c.low ELSE c.high)
  BY DEF TakeProfit, StopLoss, Best, Worst
<1>4. /\ won <=> IF direction = "long" THEN c.high >= Above ELSE c.low <= Below
      /\ lost <=> IF direction = "long" THEN c.low <= Below ELSE c.high >= Above
      /\ AtLeast(direction, sl, c.open) <=> IF direction = "long" THEN c.open <= Below ELSE c.open >= Above
      /\ AtLeast(direction, c.open, tp) <=> IF direction = "long" THEN c.open >= Above ELSE c.open <= Below
  <2> HIDE DEF tp, sl
  <2>1. tp \in Int /\ sl \in Int /\ Best(direction, c) \in Int /\ Worst(direction, c) \in Int
    BY <1>1, <1>3
  <2> QED BY <1>1, <1>2, <1>3, <2>1
<1>5. /\ t = [f \in {"event", "entry", "exit", "funding", "bad"} |-> t[f]]
      /\ t.event = "open" /\ ~t.bad
  BY DEF PositionRuns
<1>6. \A event, price : Exit(t, event, price).event = event
  BY <1>5 DEF Exit
<1>7. r = IF AtLeast(direction, sl, c.open) THEN Exit(t, "SL_FIRST", c.open)
          ELSE IF AtLeast(direction, c.open, tp) THEN Exit(t, "TP_FIRST", tp)
          ELSE CASE won /\ lost -> [t EXCEPT !.bad = TRUE]
                 [] won /\ ~lost -> Exit(t, "TP_FIRST", tp)
                 [] lost /\ ~won -> Exit(t, "SL_FIRST", sl)
                 [] OTHER -> Charge(t, direction, rate, c.open)
  BY <1>5 DEF WalkCandle
<1> HIDE DEF won, lost, tp, sl
<1>8. CASE AtLeast(direction, sl, c.open)
  <2>1. r.event = "SL_FIRST"
    BY <1>6, <1>7, <1>8
  <2>2. IF direction = "long" THEN side = "lower" ELSE side = "upper"
    BY <1>4, <1>8 DEF Tells
  <2> QED BY <2>1, <2>2 DEF ExitSide
<1>9. CASE ~AtLeast(direction, sl, c.open) /\ AtLeast(direction, c.open, tp)
  <2>1. r.event = "TP_FIRST"
    BY <1>6, <1>7, <1>9
  <2>2. IF direction = "long" THEN side = "upper" ELSE side = "lower"
    BY <1>4, <1>9 DEF Tells
  <2> QED BY <2>1, <2>2 DEF ExitSide
<1>10. CASE ~AtLeast(direction, sl, c.open) /\ ~AtLeast(direction, c.open, tp)
  <2>1. r = CASE won /\ lost -> [t EXCEPT !.bad = TRUE]
              [] won /\ ~lost -> Exit(t, "TP_FIRST", tp)
              [] lost /\ ~won -> Exit(t, "SL_FIRST", sl)
              [] OTHER -> Charge(t, direction, rate, c.open)
    BY <1>7, <1>10
  <2>2. ~(won /\ lost)
    BY <1>5, <2>1
  <2>3. CASE won /\ ~lost
    <3>1. r.event = "TP_FIRST"
      BY <1>6, <2>1, <2>3
    <3>2. IF direction = "long" THEN side = "upper" ELSE side = "lower"
      BY <1>1, <1>4, <2>3 DEF Tells
    <3> QED BY <3>1, <3>2 DEF ExitSide
  <2>4. CASE lost /\ ~won
    <3>1. r.event = "SL_FIRST"
      BY <1>6, <2>1, <2>4
    <3>2. IF direction = "long" THEN side = "lower" ELSE side = "upper"
      BY <1>1, <1>4, <2>4 DEF Tells
    <3> QED BY <3>1, <3>2 DEF ExitSide
  <2>5. CASE ~won /\ ~lost
    <3>1. r = Charge(t, direction, rate, c.open)
      BY <2>1, <2>5
    <3>2. side = "none"
      BY <1>1, <1>4, <2>5 DEF Tells
    <3>3. PositionRuns(r)
      BY <1>5, <3>1 DEF Charge, Fees, PositionRuns
    <3> QED BY <3>2, <3>3
  <2> QED BY <2>2, <2>3, <2>4, <2>5
<1> QED BY <1>8, <1>9, <1>10


LEMMA TouchAtClose == ASSUME TouchReplay, CloseMinute PROVE TouchInvariant'
<1>1. PICK evidence \in Evidence :
         /\ Unlabelled /\ candle # NoCandle
         /\ book' = Observe(evidence) /\ exact' = book' /\ candle' = NoCandle
         /\ label' = IF Decided(book') THEN Label(book') ELSE label
         /\ reached' = reached /\ bot' = bot
  BY DEF CloseMinute
<1>2. /\ reached \in {"none", "upper", "lower"} /\ WholeCandle(candle) /\ candle.rate \in Fees
      /\ Tells(candle, reached, LowerBound, UpperBound)
      /\ ~Grid => PositionRuns(book)
  BY <1>1, Inputs DEF TouchReplay, TouchInvariant
<1>3. NoCandle' = NoCandle /\ (Grid' <=> Grid)
  BY <1>1 DEF NoCandle, Grid
<1>4. CASE Grid
  <2>1. Ready(book') /\ (book'.bad \/ book'.stop = reached)
    BY <1>1, <1>4, EvidenceNames DEF TouchReplay
  <2>2. CASE Over(book')
    <3>1. label' = IF book'.bad THEN NoLabel("unavailable") ELSE GridLabel(book')
      BY <1>1, <1>4, <2>2 DEF Decided, Label, Grid
    <3>2. \/ label'.state = "unavailable"
          \/ label'.state = "kept" /\ label'.stop = reached
      BY <2>1, <3>1 DEF NoLabel, GridLabel
    <3> QED BY <1>1, <1>2, <3>2 DEF TouchInvariant, LabelNamesTheFirstTouch, Kept, Unlabelled
  <2>3. CASE ~Over(book')
    <3>1. label' = label /\ reached = "none"
      BY <1>1, <1>4, <2>1, <2>3 DEF Decided, Over, Grid
    <3>2. LabelNamesTheFirstTouch'
      BY <1>1, <3>1 DEF LabelNamesTheFirstTouch, Kept, Unlabelled
    <3> QED BY <1>1, <1>3, <1>4, <2>1, <2>3, <3>1, <3>2 DEF TouchInvariant
  <2> QED BY <2>2, <2>3
<1>5. CASE ~Grid
  <2>1. book' = WalkCandle(book, bot.direction, candle, candle.rate)
    BY <1>1, <1>5 DEF Observe
  <2>2. CASE book'.bad
    <3>1. label' = NoLabel("unavailable")
      BY <1>1, <1>5, <2>2 DEF Decided, Label, Grid
    <3> QED BY <1>1, <1>2, <3>1 DEF NoLabel, TouchInvariant, LabelNamesTheFirstTouch, Kept, Unlabelled
  <2>3. CASE ~book'.bad
    <3>1. \/ PositionRuns(book') /\ reached = "none"
          \/ book'.event \in {"TP_FIRST", "SL_FIRST"} /\ ExitSide(book'.event, bot.direction) = reached
      BY <1>2, <1>5, <2>1, <2>3, WalkNames DEF LowerBound, UpperBound
    <3>2. CASE PositionRuns(book') /\ reached = "none"
      <4>1. label' = label
        BY <1>1, <1>5, <3>2 DEF Decided, PositionRuns, Grid
      <4>2. LabelNamesTheFirstTouch'
        BY <1>1, <4>1 DEF LabelNamesTheFirstTouch, Kept, Unlabelled
      <4> QED BY <1>1, <1>3, <1>5, <3>2, <4>1, <4>2 DEF TouchInvariant
    <3>3. CASE /\ book'.event \in {"TP_FIRST", "SL_FIRST"}
               /\ ExitSide(book'.event, bot.direction) = reached
      <4>1. label' = TrendLabel(book')
        <5>1. Decided(book')
          BY <1>1, <1>5, <3>3 DEF Decided, Grid
        <5> QED BY <1>1, <1>5, <2>3, <3>3, <5>1 DEF Decided, Label, Grid
      <4>2. label'.state = "kept" /\ label'.stop = reached
        BY <1>1, <3>3, <4>1 DEF TrendLabel, ExitSide
      <4> QED BY <1>1, <1>2, <4>2 DEF TouchInvariant, LabelNamesTheFirstTouch, Kept, Unlabelled
    <3> QED BY <3>1, <3>2, <3>3
  <2> QED BY <2>2, <2>3
<1> QED BY <1>4, <1>5

LEMMA TouchAtHorizon == ASSUME TouchReplay, Horizon PROVE TouchInvariant'
<1>1. PICK p \in Prices, v \in Volumes, rate \in Rates :
         /\ Unlabelled /\ candle = NoCandle
         /\ book' = IF Grid THEN Finish(book, p, v, rate) ELSE AtHorizon(book, p)
         /\ reached' = (IF Grid THEN Touch(p) ELSE reached)
         /\ label' = Label(book') /\ bot' = bot
  BY DEF Horizon
<1>2. p \in Int /\ rate \in Fees
  BY Inputs
<1>3. reached = "none"
  BY <1>1 DEF TouchReplay, TouchInvariant
<1>4. reached' \in {"none", "upper", "lower"}
  BY <1>1, <1>3 DEF Touch
<1>5. CASE book'.bad
  <2>1. label'.state = "unavailable"
    BY <1>1, <1>5 DEF Label, NoLabel
  <2> QED BY <1>4, <2>1 DEF TouchInvariant, LabelNamesTheFirstTouch, Kept, Unlabelled
<1>6. CASE Grid /\ ~book'.bad
  <2>1. Ready(book) /\ ~Over(book) /\ Typed(book)
    BY <1>1, <1>6, GoodIsTyped DEF TouchReplay, TouchInvariant
  <2>2. book.funding \in Int
    BY <2>1 DEF Ready, Over
  <2>3. book' = Finish(book, p, v, rate)
    BY <1>1, <1>6
  <2>4. PICK m : /\ Settled(book, m, rate, p) /\ ~Segment(m, p, v).bad
                 /\ book'.stop = Segment(m, p, v).stop
    BY <1>2, <1>6, <2>1, <2>2, <2>3, FinishDoes
  <2>5. Typed(m) /\ Ready(m) /\ ~Over(m)
    BY <1>2, <2>1, <2>4, SettledIsReady
  <2>6. book'.stop = SideOf(p)
    BY <1>2, <2>4, <2>5, SegmentNames
  <2>7. label'.state = "kept" /\ label'.stop = reached'
    <3>1. label' = GridLabel(book')
      BY <1>1, <1>6 DEF Label, Grid
    <3> QED BY <1>1, <1>3, <1>6, <2>6, <3>1, SideIsTouch DEF GridLabel
  <2> QED BY <1>4, <2>7 DEF TouchInvariant, LabelNamesTheFirstTouch, Unlabelled
<1>7. CASE ~Grid /\ ~book'.bad
  <2>1. PositionRuns(book) /\ book' = AtHorizon(book, p)
    BY <1>1, <1>7 DEF TouchReplay, TouchInvariant
  <2>2. book'.event = "HORIZON_EXIT"
    BY <2>1 DEF PositionRuns, AtHorizon, Exit
  <2>3. label' = TrendLabel(book')
    BY <1>1, <1>7 DEF Label, Grid, TrendLabel
  <2>4. label'.state = "kept" /\ label'.stop = "none"
    BY <2>2, <2>3 DEF TrendLabel
  <2> QED BY <1>1, <1>3, <1>4, <1>7, <2>4 DEF TouchInvariant, LabelNamesTheFirstTouch, Unlabelled
<1> QED BY <1>5, <1>6, <1>7

LEMMA TouchSteps == ReplayIsGood /\ TouchInvariant /\ [ReplayNext]_replayVars => TouchInvariant'
<1> SUFFICES ASSUME ReplayIsGood, TouchInvariant, [ReplayNext]_replayVars PROVE TouchInvariant'
  OBVIOUS
<1>1. TouchReplay
  BY GridBots DEF TouchReplay, ReplayIsGood, GridIsGood
<1>2. CASE UNCHANGED replayVars
  BY <1>2 DEF replayVars, TouchInvariant, LabelNamesTheFirstTouch, Kept, Unlabelled, NoCandle,
              Grid, LowerBound, UpperBound
<1> QED BY <1>1, <1>2, TouchAtOpen, TouchAtTrade, TouchAtClose, TouchAtHorizon DEF ReplayNext

\* The boundary that a kept label names is the one the trades reached first, and one that
\* names none was reached by none, for grids and for positions.
THEOREM FirstTouchIsNamed == ReplaySpec => []LabelNamesTheFirstTouch
<1>1. TouchInvariant => LabelNamesTheFirstTouch
  BY DEF TouchInvariant
<1> QED BY <1>1, TouchStarts, TouchSteps, ReplayStarts, ReplaySteps, PTL DEF ReplaySpec

=============================================================================
