------------------------------ MODULE BotLedger -----------------------------
(***************************************************************************)
(* What the operator books on a bot instance: hand-entered trades, or      *)
(* immutable evidence from the exchange (executions and funding) closed by *)
(* reconciliation snapshots, and the summary of it that bot_instances      *)
(* keeps in state_json.  Requests are lost, retried and arrive in any      *)
(* order; each is one transaction that holds the bot's row.                *)
(*                                                                         *)
(* An item stands for its immutable payload, but for the timestamp, which  *)
(* the request gives.  Ids are numbers because the code orders by them.    *)
(* A request that is refused, or answered as a duplicate, changes nothing: *)
(* Duplicates... are conditions, not actions.                              *)
(***************************************************************************)
EXTENDS Integers, FiniteSets, FiniteSetsExt

CONSTANTS
  Bots,
  Trades, Events, Snaps,   \* trade_ids, external event ids and snapshot ids
  BotOf,                   \* the bot an item belongs to
  Net,                     \* pnl + funding - fee of a trade or event
  Side,                    \* "buy", "sell" or "funding" of an event; one unit each
  Covers,                  \* the events a snapshot's counts and sums are of
  Clean,                   \* snapshots that are complete, flat and without open orders
  Skew,                    \* how far in the future a timestamp may lie
  Grace,                   \* how long after the stop evidence may be dated
  MaxClock                 \* bound of the clock

Booked == Trades \union Events
Items == Booked \union Snaps

ASSUME ItemsAssumption ==
  /\ Items \subseteq Nat /\ IsFiniteSet(Items)
  /\ Trades \intersect Events = {} /\ Booked \intersect Snaps = {}
  /\ BotOf \in [Items -> Bots]
  /\ Net \in [Booked -> Int]
  /\ Side \in [Events -> {"buy", "sell", "funding"}]
  /\ Covers \in [Snaps -> SUBSET Events]
ASSUME TimesAssumption == Skew \in Nat /\ Grace \in Nat /\ Skew <= Grace /\ MaxClock \in Nat \ {0}

VARIABLES
  clock,     \* time.time()
  started,   \* started_ts, 0: no such bot
  stopped,   \* stopped_ts, 0: not stopped
  ts,        \* the tables trades, execution_evidence and execution_reconciliations; 0: no row
  book       \* the summary in state_json

vars == <<clock, started, stopped, ts, book>>

Times == 1..(MaxClock + Skew)

Running(b) == started[b] # 0 /\ stopped[b] = 0
Stopped(b) == stopped[b] # 0

\* Every variable has its type, and a stopped bot was started.
TypeOK ==
  /\ clock \in 1..MaxClock
  /\ started \in [Bots -> 0..MaxClock]
  /\ stopped \in [Bots -> 0..MaxClock]
  /\ ts \in [Items -> Nat]
  /\ DOMAIN book = Bots
  /\ \A b \in Bots : Stopped(b) => started[b] # 0

EmptyBook == [trades |-> 0, tradeNet |-> 0, events |-> 0, eventNet |-> 0,
              reconciled |-> FALSE, finalized |-> FALSE]

Init ==
  /\ clock = 1
  /\ started = [b \in Bots |-> 0]
  /\ stopped = [b \in Bots |-> 0]
  /\ ts = [x \in Items |-> 0]
  /\ book = [b \in Bots |-> EmptyBook]

-----------------------------------------------------------------------------
(* The tables and their summary.                                           *)

Of(b, kind) == {x \in kind : BotOf[x] = b /\ ts[x] # 0}
Total(S) == MapThenSumSet(LAMBDA x : Net[x], S)

Executions(S) == {e \in S : Side[e] # "funding"}
Funding(S) == S \ Executions(S)

Flat(b) ==
  LET E == Executions(Of(b, Events)) IN
  /\ E # {}
  /\ 2 * Cardinality({e \in E : Side[e] = "buy"}) = Cardinality(E)

\* get_latest_execution_reconciliation: ORDER BY ts DESC, reconciliation_id DESC
Decides(s, b) ==
  /\ s \in Of(b, Snaps)
  /\ \A o \in Of(b, Snaps) : ts[o] < ts[s] \/ (ts[o] = ts[s] /\ o <= s)

\* The deciding snapshot counts and sums what the ledger counts and sums, and is not older
\* than the stop or an event.
Reconciled(b) ==
  LET E == Of(b, Events) IN
  \E s \in Clean :
    /\ Decides(s, b)
    /\ ts[s] >= stopped[b] /\ \A e \in E : ts[s] >= ts[e]
    /\ Cardinality(Executions(Covers[s])) = Cardinality(Executions(E))
    /\ Cardinality(Funding(Covers[s])) = Cardinality(Funding(E))
    /\ Total(Executions(Covers[s])) = Total(Executions(E))
    /\ Total(Funding(Covers[s])) = Total(Funding(E))

Finalized(b) == Stopped(b) /\ Flat(b) /\ Reconciled(b)

-----------------------------------------------------------------------------
(* Requests.                                                               *)

\* Not earlier than the start, not too far in the future.
Plausible(b, at) == started[b] # 0 /\ at >= started[b] /\ at <= clock + Skew

DuplicatesTrade(t, at) ==
  /\ ts[t] # 0 /\ ts[t] = at
  /\ Running(BotOf[t]) => Plausible(BotOf[t], at)

\* Mutant: the ledgers of a bot may be mixed.
InsertsTradeMixed(t, at) ==
  /\ ts[t] = 0
  /\ Running(BotOf[t]) /\ Plausible(BotOf[t], at)

InsertsTrade(t, at) ==
  /\ ts[t] = 0
  /\ Running(BotOf[t]) /\ Plausible(BotOf[t], at)
  /\ Of(BotOf[t], Events) = {}

\* Mutant: no grace for evidence that is dated a little after the stop.
MayBeDatedByStop(b, at) == Stopped(b) => at <= stopped[b]

MayBeDated(b, at) == Stopped(b) => at <= stopped[b] + Grace

DuplicatesEvent(e, at) ==
  /\ ts[e] # 0 /\ ts[e] = at
  /\ Plausible(BotOf[e], at) /\ MayBeDated(BotOf[e], at)

InsertsEvent(e, at) ==
  /\ ts[e] = 0
  /\ Plausible(BotOf[e], at) /\ MayBeDated(BotOf[e], at)
  /\ Of(BotOf[e], Trades) = {}

DuplicatesSnap(s, at) ==
  /\ ts[s] # 0 /\ ts[s] = at
  /\ Stopped(BotOf[s]) /\ at >= stopped[BotOf[s]] /\ at <= clock + Skew

InsertsSnap(s, at) ==
  /\ ts[s] = 0
  /\ Stopped(BotOf[s]) /\ at >= stopped[BotOf[s]] /\ at <= clock + Skew

Insert(x, at) == ts' = [ts EXCEPT ![x] = at]

\* _materialize_bot_from_rec
StartBot(b) ==
  /\ started[b] = 0
  /\ started' = [started EXCEPT ![b] = clock]
  /\ UNCHANGED <<clock, stopped, ts, book>>

\* api_stop_bot
StopBot(b) ==
  /\ Running(b)
  /\ stopped' = [stopped EXCEPT ![b] = clock]
  /\ UNCHANGED <<clock, started, ts, book>>

\* api_record_trade, the last one with stop_bot.
RecordTrade(t, at, last) ==
  LET b == BotOf[t] IN
  /\ InsertsTrade(t, at) /\ Insert(t, at)
  /\ book' = [book EXCEPT ![b].trades = Cardinality(Of(b, Trades)'),
                          ![b].tradeNet = Total(Of(b, Trades)')]
  /\ stopped' = IF last THEN [stopped EXCEPT ![b] = clock] ELSE stopped
  /\ UNCHANGED <<clock, started>>

\* Mutant: late evidence does not touch what the snapshot had settled.
RecordEventKeepingSettled(e, at) ==
  LET b == BotOf[e] IN
  /\ InsertsEvent(e, at) /\ Insert(e, at)
  /\ UNCHANGED <<clock, started, stopped>>
  /\ book' = [book EXCEPT ![b].events = Cardinality(Of(b, Events)'),
                          ![b].eventNet = Total(Of(b, Events)')]

\* api_record_execution_evidence
RecordEvent(e, at) ==
  LET b == BotOf[e] IN
  /\ InsertsEvent(e, at) /\ Insert(e, at)
  /\ UNCHANGED <<clock, started, stopped>>
  /\ book' = [book EXCEPT ![b].events = Cardinality(Of(b, Events)'),
                          ![b].eventNet = Total(Of(b, Events)'),
                          ![b].reconciled = Reconciled(b)',
                          ![b].finalized = Finalized(b)']

\* api_record_execution_reconciliation
RecordSnap(s, at) ==
  LET b == BotOf[s] IN
  /\ InsertsSnap(s, at) /\ Insert(s, at)
  /\ UNCHANGED <<clock, started, stopped>>
  /\ book' = [book EXCEPT ![b].reconciled = Reconciled(b)',
                          ![b].finalized = Finalized(b)']

Tick == clock < MaxClock /\ clock' = clock + 1 /\ UNCHANGED <<started, stopped, ts, book>>

Next ==
  \/ Tick
  \/ \E b \in Bots : StartBot(b) \/ StopBot(b)
  \/ \E at \in Times :
       \/ \E t \in Trades, last \in BOOLEAN : RecordTrade(t, at, last)
       \/ \E e \in Events : RecordEvent(e, at)
       \/ \E s \in Snaps : RecordSnap(s, at)

Spec == Init /\ [][Next]_vars

-----------------------------------------------------------------------------
(* What risk control sees.                                                 *)

\* finalized_by_bot
Settled == {b \in Bots : Finalized(b)}

\* Mutant: a positive trade is credited as it is booked.
RiskNetTrusting(x, settled) ==
  IF x \in Trades \/ BotOf[x] \in settled THEN Net[x] ELSE Min({0, Net[x]})

\* list_risk_net_events: losses always, profits of finalized bots only.
RiskNet(x, settled) ==
  IF x \in Events /\ BotOf[x] \in settled THEN Net[x] ELSE Min({0, Net[x]})

\* Its rows: the trades of a bot with execution events are left out.
RiskRows(since) ==
  {x \in Booked : /\ ts[x] # 0 /\ ts[x] >= since
                  /\ x \in Trades => Executions(Of(BotOf[x], Events)) = {}}

-----------------------------------------------------------------------------
(* Properties.                                                             *)

\* A bot is booked by hand or by evidence, never by both: what one request found absent
\* no other request may add.
OneLedgerPerBot == \A b \in Bots : Of(b, Trades) = {} \/ Of(b, Events) = {}

\* The summary in state_json is the one of the tables, whatever the order in which late
\* evidence, stops and snapshots arrived.
BookMatchesLedger ==
  \A b \in Bots :
    book[b] = [trades |-> Cardinality(Of(b, Trades)), tradeNet |-> Total(Of(b, Trades)),
               events |-> Cardinality(Of(b, Events)), eventNet |-> Total(Of(b, Events)),
               reconciled |-> Reconciled(b), finalized |-> Finalized(b)]

\* Whatever the order of the requests: what is booked belongs to a bot that was started, is
\* dated within its life and the grace after it, and a snapshot is of a bot at rest.
EvidenceIsTimely ==
  \A x \in Items : ts[x] # 0 =>
    LET b == BotOf[x] IN
    /\ started[b] # 0 /\ ts[x] <= clock + Skew
    /\ x \in Booked => ts[x] >= started[b]
    /\ x \in Events /\ Stopped(b) => ts[x] <= stopped[b] + Grace
    /\ x \in Snaps => Stopped(b) /\ ts[x] >= stopped[b]

\* The types and the dates.
LedgerInvariant == TypeOK /\ EvidenceIsTimely

\* No booked loss is missing from the risk stream, whichever ledger it is in.
LossesAlwaysCount ==
  \A x \in Booked : ts[x] # 0 /\ Net[x] < 0 => x \in RiskRows(0) /\ RiskNet(x, Settled) = Net[x]

\* Whoever sends a request again that was booked is told so, and not refused, also after
\* the bot was stopped and other items arrived.
RetriesSucceed ==
  /\ \A t \in Trades : ts[t] # 0 => DuplicatesTrade(t, ts[t])
  /\ \A e \in Events : ts[e] # 0 => DuplicatesEvent(e, ts[e])
  /\ \A s \in Snaps : ts[s] # 0 => DuplicatesSnap(s, ts[s])

\* A finalized result is only reopened by new evidence or by a later word of the
\* exchange: an old snapshot that arrives late says nothing.
OnlyNewFactsReopen ==
  [][\A b \in Bots : Finalized(b) /\ ~Finalized(b)' =>
        \/ Of(b, Events)' # Of(b, Events)
        \/ \E s \in Of(b, Snaps)' \ Of(b, Snaps) : \A o \in Of(b, Snaps) : ts'[s] >= ts[o]]_vars

=============================================================================
