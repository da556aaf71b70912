---------------------------- MODULE OutcomeCycle ----------------------------
(***************************************************************************)
(* Outcome labelling and the repair of missing funding settlements.        *)
(*                                                                         *)
(* The leader among the workers runs cycles over the label roots that have *)
(* no outcome yet.  A cycle takes a bounded part of the queue, the least   *)
(* recently attempted rows first, and leaves every row labelled, censored  *)
(* or waiting.  A row that waits for a funding settlement asks for it in a *)
(* durable queue, which the collector works off against the exchange.      *)
(* Rows are numbered by their time, settlements too.                       *)
(***************************************************************************)
EXTENDS Integers, Sequences, FiniteSets, FiniteSetsExt, SequencesExt

CONSTANTS
  Recs,        \* label roots, 1..n in the order of r.ts
  Events,      \* funding settlements, 1..n in the order of time
  Workers,     \* processes that may hold the lease runtime:outcomes
  Shapes,      \* the roots that are considered, see RowShapes
  ProcessLimit,  \* outcomes_max_to_process
  FetchLimit,  \* the rows of a cycle, up to twelve times as many
  JobLimit,    \* funding_repair_max_per_cycle
  Overlap,     \* the settlements that a regular refresh fetches again
  MaxFaults,   \* bound of crashes and lost leases
  Stalls       \* whether a worker may stall past its lease while it has a verdict in hand

\* sound: the contract can be labelled.  exact: the schedule of its settlements is known;
\* expects: the forecast has settlements in it.  needs: those its position met; looked:
\* those between entry and exit (a grid: and its horizon), where the code looks for them;
\* span: those between entry and horizon, where it asks for repair.  mismatch: an earlier
\* release censored the row, for a REST trade path or for one of another source.
RowShapes == [sound : BOOLEAN, exact : BOOLEAN, expects : BOOLEAN,
              needs : SUBSET Events, looked : SUBSET Events, span : SUBSET Events,
              mismatch : {"none", "rest", "other"}]

ASSUME OutcomeAssumption ==
  /\ Recs = 1..Cardinality(Recs) /\ Events = 1..Cardinality(Events)
  /\ 0 \notin Workers
  /\ Shapes \subseteq [Recs -> RowShapes]
  /\ \A s \in Shapes : \A r \in Recs :
       /\ s[r].needs \subseteq s[r].looked /\ s[r].looked \subseteq s[r].span
       /\ \A d \in s[r].span, e \in s[r].looked : d < e => d \in s[r].looked
  /\ {ProcessLimit, FetchLimit, JobLimit} \subseteq Nat \ {0} /\ {Overlap, MaxFaults} \subseteq Nat
  /\ ProcessLimit <= FetchLimit /\ Stalls \in BOOLEAN

VARIABLES
  shape,    \* what the rows ask for
  stage,    \* how far the market data of a row has come
  ledger,   \* reco_outcome_observability, with the rank of last_attempt_ts
  outcome,  \* reco_outcomes: the settlements an outcome has counted
  leader,   \* the holder of the lease
  worker,   \* the cycle of each process
  funding,  \* settlements the exchange has published, and those stored
  jobs,     \* funding_settlement_repair: pending ones in the order of next_attempt_ts
  hot,      \* the jobs left in the collector's cycle
  faults    \* the crashes and lost leases so far

rows == <<shape, stage, ledger, outcome>>
queue == <<jobs, hot>>
vars == <<shape, stage, ledger, outcome, leader, worker, funding, jobs, hot, faults>>

Nobody == 0
None == {0}  \* no outcome

Exact(e) == <<"exact", e>>
Span(r) == <<"range", r>>
Nothing == <<"none", 0>>
JobIds == {Exact(e) : e \in Events} \union {Span(r) : r \in Recs}

\* wants: the job that the details of a waiting row name.
Entries == [state : {"waiting", "censored", "mismatch", "labeled"},
            wants : JobIds \union {Nothing}, rank : 0..Cardinality(Recs)]
Decisions == [rec : Recs, state : {"waiting", "censored", "labeled"},
              wants : JobIds \union {Nothing}, counted : SUBSET Events]
NoDecision == [rec |-> 0, state |-> "waiting", wants |-> Nothing, counted |-> {}]
Idle == [phase |-> "idle", todo |-> {}, stamped |-> FALSE, decision |-> NoDecision]

\* Every variable has its type, and the due jobs come first in the line.
TypeOK ==
  /\ shape \in Shapes
  /\ stage \in [Recs -> {"fresh", "open", "complete"}]
  /\ ledger \in [Recs -> Entries]
  /\ outcome \in [Recs -> {None} \union SUBSET Events]
  /\ leader \in Workers \union {Nobody}
  /\ worker \in [Workers -> [phase : {"idle", "cycle", "decided"}, todo : SUBSET Recs,
                             stamped : BOOLEAN, decision : Decisions \union {NoDecision}]]
  /\ funding \in [published : SUBSET Events, stored : SUBSET Events]
  /\ Range(jobs.line) \subseteq JobIds /\ jobs.resolved \subseteq JobIds
  /\ jobs.due \in 0..Len(jobs.line)
  /\ hot \in 0..JobLimit /\ faults \in 0..MaxFaults

Scheduled == [state |-> "waiting", wants |-> Nothing, rank |-> 0]
Mismatch == [Scheduled EXCEPT !.state = "mismatch"]

\* insert_recommendations schedules every root when it is published.
Init ==
  /\ shape \in Shapes
  /\ stage = [r \in Recs |-> "fresh"]
  /\ ledger = [r \in Recs |-> IF shape[r].mismatch = "none" THEN Scheduled ELSE Mismatch]
  /\ outcome = [r \in Recs |-> None]
  /\ leader = Nobody
  /\ worker = [w \in Workers |-> Idle]
  /\ funding = [published |-> {}, stored |-> {}]
  /\ jobs = [line |-> <<>>, due |-> 0, resolved |-> {}]
  /\ hot = 0 /\ faults = 0

-----------------------------------------------------------------------------
(* The market.                                                             *)

\* The verdict of the reviewer and the horizon pass; then the last candle is there.
Mature(r) ==
  /\ stage[r] # "complete"
  /\ stage' = [stage EXCEPT ![r] = IF @ = "fresh" THEN "open" ELSE "complete"]
  /\ UNCHANGED <<shape, ledger, outcome, leader, worker, funding, queue, faults>>

Publish(e) ==
  /\ e \notin funding.published /\ 1..e - 1 \subseteq funding.published
  /\ funding' = [funding EXCEPT !.published = @ \union {e}]
  /\ UNCHANGED <<rows, leader, worker, queue, faults>>

-----------------------------------------------------------------------------
(* The queue of rows.                                                      *)

\* Mutant: the rows in the order of their time.
EarlierByTime(entry, q, r) == q < r

\* ORDER BY last_attempt_ts, r.ts.
Earlier(entry, q, r) == entry[q].rank < entry[r].rank \/ (entry[q].rank = entry[r].rank /\ q < r)

\* Mutant: whether there is an outcome is not asked.
OpenInLedger(entry) == {r \in Recs : stage[r] # "fresh" /\ entry[r].state \notin {"censored", "mismatch"}}

\* The rows that the SELECT finds.
Open(entry) == {r \in Recs : stage[r] # "fresh" /\ outcome[r] = None /\ entry[r].state \notin {"censored", "mismatch"}}

Selected(entry) ==
  {r \in Open(entry) : Cardinality({q \in Open(entry) : Earlier(entry, q, r)}) < FetchLimit}

Mismatched == {r \in Recs : ledger[r] = Mismatch}

\* LIMIT takes the mismatches that were attempted first, of whatever source.
Taken == {r \in Mismatched : Cardinality({q \in Mismatched : q < r}) < ProcessLimit}

\* requeue_rest_trade_ohlcv_mismatches: of those, the rows of the REST source.
Requeued ==
  [r \in Recs |-> IF r \in Taken /\ shape[r].mismatch = "rest" THEN Scheduled ELSE ledger[r]]

\* Only the order of the attempts matters.
Ranked(entry) ==
  LET ranks == {entry[r].rank : r \in Recs} \ {0} IN
  [r \in Recs |-> [entry[r] EXCEPT !.rank = Cardinality({k \in ranks : k <= @})]]

Latest == Max({ledger[r].rank : r \in Recs})

\* upsert_outcome_observability: a waiting row is stamped later than any before, or
\* with the second of the attempt before it in the same cycle.
Upserted(d, stamped) ==
  {Ranked([ledger EXCEPT ![d.rec] = [state |-> d.state, wants |-> d.wants,
                                     rank |-> IF d.state = "waiting" THEN k ELSE 0]]) :
     k \in {Latest + 1} \union (IF stamped THEN {Latest} ELSE {})}

-----------------------------------------------------------------------------
(* The queue of repairs.                                                   *)

DuePart(q) == SubSeq(q.line, 1, q.due)
DelayedPart(q) == SubSeq(q.line, q.due + 1, Len(q.line))

\* request_funding_settlement_repair: due at once, unless it is done or due already.
Asked(q, js) ==
  LET due == DuePart(q) \o SetToSeq(js \ (q.resolved \union Range(DuePart(q)))) IN
  [q EXCEPT !.line = due \o SelectSeq(DelayedPart(q), LAMBDA k : k \notin js), !.due = Len(due)]

\* mark_funding_settlement_repair_attempt: a job that is not resolved is delayed.
Postponed(q) == [q EXCEPT !.line = Append(Tail(@), Head(@)), !.due = @ - 1]
Closed(q) == [line |-> Tail(q.line), due |-> q.due - 1, resolved |-> q.resolved \union {Head(q.line)}]

\* The next attempt of the first delayed job comes.
DelayPasses ==
  /\ jobs.due < Len(jobs.line)
  /\ jobs' = [jobs EXCEPT !.due = @ + 1]
  /\ UNCHANGED <<rows, leader, worker, funding, hot, faults>>

-----------------------------------------------------------------------------
(* The worker.                                                             *)

\* _outcome_thread: between two cycles, and the lease is free or an expired one.
Claim(w) ==
  /\ leader = Nobody /\ worker[w] = Idle
  /\ leader' = w
  /\ UNCHANGED <<rows, worker, funding, queue, faults>>

\* A lease is lost by silence: without Stalls at a moment without a verdict in hand.
LoseLease ==
  /\ leader # Nobody /\ faults < MaxFaults
  /\ Stalls \/ worker[leader].phase # "decided"
  /\ leader' = Nobody
  /\ faults' = faults + 1
  /\ UNCHANGED <<rows, worker, funding, queue>>

\* A crash, or an exception that ends the cycle: the lease is released or expires.
Crash(w) ==
  /\ worker[w] # Idle /\ faults < MaxFaults
  /\ worker' = [worker EXCEPT ![w] = Idle]
  /\ leader' = IF leader = w THEN Nobody ELSE leader
  /\ faults' = faults + 1
  /\ UNCHANGED <<rows, funding, queue>>

\* A cycle with the rows todo ahead of it; without any it is over.
Cycle(todo, stamped) ==
  IF todo = {} THEN Idle ELSE [Idle EXCEPT !.phase = "cycle", !.todo = todo, !.stamped = stamped]

BeginCycle(w) ==
  /\ worker[w] = Idle /\ leader = w
  /\ ledger' = Requeued
  /\ worker' = [worker EXCEPT ![w] = Cycle(Selected(Requeued), FALSE)]
  /\ UNCHANGED <<shape, stage, outcome, leader, funding, queue, faults>>

\* The heartbeat before a row is not confirmed.
AbortCycle(w) ==
  /\ worker[w].phase = "cycle" /\ leader # w
  /\ worker' = [worker EXCEPT ![w] = Idle]
  /\ UNCHANGED <<rows, leader, funding, queue, faults>>

Missing(r) == shape[r].needs \ funding.stored

\* A forecast of settlements, and none in the window: the history is not there yet.
NoHistory(r) == shape[r].expects /\ shape[r].looked \intersect funding.stored = {}

\* Mutant: any settlement is taken for the history, also of a known schedule.
WantedAny(r) == IF NoHistory(r) THEN Span(r) ELSE Nothing

\* _grid_outcome and _directional_trend_outcome: what a row waits for.
Wanted(r) ==
  IF shape[r].exact
  THEN IF Missing(r) = {} THEN Nothing ELSE Exact(Min(Missing(r)))
  ELSE IF NoHistory(r) THEN Span(r) ELSE Nothing

Verdict(r) ==
  [rec |-> r,
   state |-> IF ~shape[r].sound THEN "censored"
             ELSE IF stage[r] # "complete" \/ Wanted(r) # Nothing THEN "waiting" ELSE "labeled",
   wants |-> IF shape[r].sound /\ stage[r] = "complete" THEN Wanted(r) ELSE Nothing,
   counted |-> shape[r].needs \intersect funding.stored]

\* Mutant: the lease is not asked for before a row.
ExamineBlind(w) ==
  /\ worker[w].phase = "cycle"
  /\ \E r \in worker[w].todo :
       worker' = [worker EXCEPT ![w].phase = "decided", ![w].decision = Verdict(r)]
  /\ UNCHANGED <<rows, leader, funding, queue, faults>>

\* The heartbeat is confirmed and the row is evaluated.
Examine(w) ==
  /\ worker[w].phase = "cycle" /\ leader = w
  /\ \E r \in worker[w].todo :
       /\ \A q \in worker[w].todo \ {r} : Earlier(ledger, r, q)
       /\ worker' = [worker EXCEPT ![w].phase = "decided", ![w].decision = Verdict(r)]
  /\ UNCHANGED <<rows, leader, funding, queue, faults>>

\* insert_outcome, or the ledger and the request of one transaction; a request that
\* fails leaves the rest as it is.
Write(w) ==
  LET d == worker[w].decision IN
  /\ worker[w].phase = "decided"
  /\ ledger' \in Upserted(d, worker[w].stamped)
  /\ outcome' = IF d.state = "labeled" THEN [outcome EXCEPT ![d.rec] = d.counted] ELSE outcome
  /\ jobs' \in {jobs, Asked(jobs, {d.wants} \ {Nothing})}
  /\ worker' = [worker EXCEPT ![w] = Cycle(@.todo \ {d.rec}, TRUE)]
  /\ UNCHANGED <<shape, stage, leader, funding, hot, faults>>

-----------------------------------------------------------------------------
(* The collector.                                                          *)

\* enqueue_funding_repairs_from_observability and list_due_funding_settlement_repairs.
Enqueue ==
  /\ hot = 0
  /\ jobs' = Asked(jobs, {ledger[r].wants : r \in {r \in Recs : ledger[r].state = "waiting"}} \ {Nothing})
  /\ hot' = Min({JobLimit, jobs'.due})
  /\ UNCHANGED <<rows, leader, worker, funding, faults>>

\* What the exchange returns for a job, and whether that resolves it.
Returned(j) ==
  funding.published \intersect (IF j[1] = "exact" THEN {j[2]} ELSE shape[j[2]].span)

Store(f, es) == [f EXCEPT !.stored = @ \union es]

Repair ==
  /\ hot > 0 /\ jobs.due > 0
  /\ Returned(Head(jobs.line)) # {}
  /\ funding' = Store(funding, Returned(Head(jobs.line)))
  /\ jobs' = Closed(jobs)
  /\ hot' = hot - 1
  /\ UNCHANGED <<rows, leader, worker, faults>>

\* The request fails or the settlement is not there yet.
RepairFails ==
  /\ hot > 0 /\ jobs.due > 0
  /\ jobs' = Postponed(jobs)
  /\ hot' = hot - 1
  /\ UNCHANGED <<rows, leader, worker, funding, faults>>

\* _fetch_funding_settlements_for_symbol: what is newer than the newest, and an overlap.
Refresh ==
  /\ funding' = Store(funding, {e \in funding.published : funding.stored = {} \/ e + Overlap >= Max(funding.stored)})
  /\ UNCHANGED <<rows, leader, worker, queue, faults>>

Next ==
  \/ \E r \in Recs : Mature(r)
  \/ \E e \in Events : Publish(e)
  \/ \E w \in Workers : Claim(w) \/ Crash(w) \/ BeginCycle(w) \/ AbortCycle(w) \/ Examine(w) \/ Write(w)
  \/ LoseLease \/ DelayPasses \/ Enqueue \/ Repair \/ RepairFails \/ Refresh

Spec == Init /\ [][Next]_vars

\* The loops run and the supervisor restarts them; a request that is repeated for ever
\* is answered some time.
FairSpec ==
  /\ Spec
  /\ \A w \in Workers : WF_vars(BeginCycle(w)) /\ WF_vars(AbortCycle(w))
                         /\ WF_vars(Examine(w)) /\ WF_vars(Write(w))
  /\ WF_vars(\E w \in Workers : Claim(w))
  /\ WF_vars(Enqueue) /\ WF_vars(Repair \/ RepairFails)
  /\ \A j \in JobIds : SF_vars(Repair /\ Head(jobs.line) = j)

-----------------------------------------------------------------------------
(* Properties.                                                             *)

\* The ledger says labelled of exactly the rows that have an outcome, through crashes,
\* lost leases and cycles of two processes.
LedgerMatchesOutcomes == \A r \in Recs : outcome[r] # None <=> ledger[r].state = "labeled"

CountsFunding(r, counted) ==
  IF shape[r].exact THEN counted = shape[r].needs
  ELSE counted \subseteq shape[r].needs /\ ~NoHistory(r)

\* An outcome has counted every settlement of a known schedule.  Without a schedule it
\* was not computed before there was history of the window it was expected to have.
OutcomesCountFunding == \A r \in Recs : outcome[r] # None => CountsFunding(r, outcome[r])

\* A job that is never tried again has brought what its row waits for.  A range job is
\* closed by any settlement up to the horizon, also one after the exit.
ResolvedIsStored ==
  \A r \in Recs : ledger[r].wants \in jobs.resolved => Wanted(r) # ledger[r].wants

\* An outcome is never computed again.
OutcomesStand == [][\A r \in Recs : outcome[r] # None => outcome'[r] = outcome[r]]_vars

\* The exchange has published what the row waits for.
Answerable(r) ==
  IF shape[r].exact THEN shape[r].needs \subseteq funding.published
  ELSE shape[r].expects => shape[r].looked \intersect funding.published # {}

\* A row of an earlier release gets its turn: the LIMIT is not used up before it by
\* mismatches that stay.
WithinReach(r) ==
  /\ shape[r].mismatch # "other"
  /\ shape[r].mismatch = "rest" =>
       Cardinality({q \in 1..r - 1 : shape[q].mismatch = "other"}) < ProcessLimit

\* However many rows wait for data for ever, and whatever the regular refresh misses:
\* a row whose candles are there and whose settlements are published gets its label.
EveryRowIsFinished ==
  \A r \in Recs : stage[r] = "complete" /\ Answerable(r) /\ WithinReach(r)
                     ~> ledger[r].state \in {"labeled", "censored"}

\* What the release notes say of a repair: its next attempt is made at its time.
NextAttemptIsRespected ==
  [][\A j \in Range(DelayedPart(jobs)) : j \in Range(DuePart(jobs')) =>
       jobs' = [jobs EXCEPT !.due = @ + 1]]_vars

=============================================================================
