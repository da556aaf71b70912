--------------------------- MODULE BotLedgerProofs --------------------------
(***************************************************************************)
(* The bot ledger for every set of bots and items: types and dates, one    *)
(* ledger per bot, the stored summary, losses, retries, what may reopen a  *)
(* finalized result, and what relieves the daily drawdown.                 *)
(***************************************************************************)
EXTENDS RiskStream, FiniteSetTheorems, WellFoundedInduction, NaturalsInduction, TLAPS

USE DEF Booked, Items

-----------------------------------------------------------------------------
(* Types and dates.                                                        *)

\* The smaller of zero and a negative number is the number.
LEMMA MinOfNegative == ASSUME NEW n \in Int, n < 0 PROVE Min({0, n}) = n
<1> \A y \in {0, n} : n <= y
  OBVIOUS
<1> QED BY DEF Min

\* Nothing adds up to nothing.
LEMMA TotalOfNothing == Total({}) = 0
<1> DEFINE P(iter) == iter = [s \in SUBSET {} |->
                               IF s = {} THEN 0
                               ELSE LET x == CHOOSE y \in s : TRUE IN Net[x] + iter[s \ {x}]]
           zero == [s \in SUBSET {} |-> 0]
<1>1. P(zero)
  OBVIOUS
<1>2. P(CHOOSE iter : P(iter))
  BY <1>1
<1>3. (CHOOSE iter : P(iter))[{}] = 0
  BY <1>2
<1> HIDE DEF P
<1>4. Total({}) = (CHOOSE iter : P(iter))[{}]
  BY DEF Total, MapThenSumSet, MapThenFoldSet, P
<1> QED BY <1>3, <1>4

\* A request writes one timestamp and one bot's summary, and may stop that bot.
LEMMA TypePreserved == ASSUME TypeOK, [Next]_vars PROVE TypeOK'
<1> USE ItemsAssumption, TimesAssumption DEF TypeOK, Running, Stopped
<1>1. CASE Tick
  BY <1>1 DEF Tick
<1>2. ASSUME NEW b \in Bots, StartBot(b) PROVE TypeOK'
  BY <1>2 DEF StartBot
<1>3. ASSUME NEW b \in Bots, StopBot(b) PROVE TypeOK'
  BY <1>3 DEF StopBot
<1>4. ASSUME NEW at \in Times, NEW t \in Trades, NEW last \in BOOLEAN, RecordTrade(t, at, last)
      PROVE  TypeOK'
  <2>1. BotOf[t] \in Bots /\ at \in Nat /\ ts' \in [Items -> Nat]
    BY <1>4 DEF RecordTrade, Insert, Times
  <2>2. stopped' \in [Bots -> 0..MaxClock]
    BY <1>4 DEF RecordTrade
  <2>3. \A b \in Bots : Stopped(b)' => started'[b] # 0
    BY <1>4, <2>1 DEF RecordTrade, InsertsTrade
  <2>4. DOMAIN book' = Bots
    BY <1>4 DEF RecordTrade
  <2> QED BY <1>4, <2>1, <2>2, <2>3, <2>4 DEF RecordTrade
<1>5. ASSUME NEW at \in Times, NEW e \in Events, RecordEvent(e, at) PROVE TypeOK'
  BY <1>5 DEF RecordEvent, Insert, Times
<1>6. ASSUME NEW at \in Times, NEW s \in Snaps, RecordSnap(s, at) PROVE TypeOK'
  BY <1>6 DEF RecordSnap, Insert, Times
<1>7. CASE UNCHANGED vars
  BY <1>7 DEF vars
<1> QED BY <1>1, <1>2, <1>3, <1>4, <1>5, <1>6, <1>7 DEF Next

\* Time only passes, a bot starts and stops once, at the present.
LEMMA DatesPreserved == ASSUME LedgerInvariant, TypeOK', [Next]_vars PROVE LedgerInvariant'
<1> USE ItemsAssumption, TimesAssumption DEF LedgerInvariant, TypeOK
<1> SUFFICES ASSUME NEW x \in Items, ts'[x] # 0
             PROVE  LET b == BotOf[x] IN
                    /\ started'[b] # 0 /\ ts'[x] <= clock' + Skew
                    /\ x \in Booked => ts'[x] >= started'[b]
                    /\ x \in Events /\ stopped'[b] # 0 => ts'[x] <= stopped'[b] + Grace
                    /\ x \in Snaps => stopped'[b] # 0 /\ ts'[x] >= stopped'[b]
  BY DEF EvidenceIsTimely, Stopped
<1> DEFINE a == BotOf[x]
<1>0. /\ a \in Bots /\ ts[x] \in Nat /\ ts'[x] \in Nat
      /\ started[a] \in 0..MaxClock /\ stopped[a] \in 0..MaxClock
  OBVIOUS
<1>a. ts[x] # 0 =>
        /\ started[a] # 0 /\ ts[x] <= clock + Skew
        /\ x \in Booked => ts[x] >= started[a]
        /\ x \in Events /\ stopped[a] # 0 => ts[x] <= stopped[a] + Grace
        /\ x \in Snaps => stopped[a] # 0 /\ ts[x] >= stopped[a]
  BY DEF EvidenceIsTimely, Stopped
<1>1. CASE Tick
  BY <1>0, <1>a, <1>1 DEF Tick
<1>2. ASSUME NEW b \in Bots, StartBot(b) PROVE started'[a] = started[a] /\ UNCHANGED <<clock, stopped, ts>>
  BY <1>0, <1>a, <1>2 DEF StartBot
<1>3. ASSUME NEW b \in Bots, StopBot(b)
      PROVE /\ UNCHANGED <<clock, started, ts>>
            /\ stopped'[a] = stopped[a] \/ (stopped[a] = 0 /\ stopped'[a] = clock)
  BY <1>0, <1>3 DEF StopBot, Running
<1>4. ASSUME NEW at \in Times, NEW t \in Trades, NEW last \in BOOLEAN, RecordTrade(t, at, last)
      PROVE  /\ UNCHANGED <<clock, started>>
             /\ stopped'[a] = stopped[a] \/ (stopped[a] = 0 /\ stopped'[a] = clock)
             /\ \/ ts'[x] = ts[x]
                \/ x = t /\ ts'[x] = at /\ at <= clock + Skew /\ started[a] # 0 /\ at >= started[a]
  <2>1. RecordTrade(t, at, last) /\ Running(BotOf[t]) /\ Plausible(BotOf[t], at)
    BY <1>4 DEF RecordTrade, InsertsTrade
  <2>2. stopped'[a] = stopped[a] \/ (stopped[a] = 0 /\ stopped'[a] = clock)
    BY <1>0, <2>1 DEF RecordTrade, Running
  <2> QED BY <1>0, <2>1, <2>2 DEF RecordTrade, Insert, Plausible
<1>5. ASSUME NEW at \in Times, NEW e \in Events, RecordEvent(e, at)
      PROVE  /\ UNCHANGED <<clock, started, stopped>>
             /\ \/ ts'[x] = ts[x]
                \/ /\ x = e /\ ts'[x] = at /\ at <= clock + Skew /\ started[a] # 0 /\ at >= started[a]
                   /\ stopped[a] # 0 => at <= stopped[a] + Grace
  BY <1>0, <1>5 DEF RecordEvent, InsertsEvent, Insert, Plausible, MayBeDated, Stopped
<1>6. ASSUME NEW at \in Times, NEW s \in Snaps, RecordSnap(s, at)
      PROVE  /\ UNCHANGED <<clock, started, stopped>>
             /\ \/ ts'[x] = ts[x]
                \/ /\ x = s /\ ts'[x] = at /\ at <= clock + Skew
                   /\ stopped[a] # 0 /\ at >= stopped[a]
                   /\ started[a] # 0
  BY <1>0, <1>6 DEF RecordSnap, InsertsSnap, Insert, Stopped
<1>7. CASE UNCHANGED vars
  BY <1>0, <1>a, <1>7 DEF vars
<1> QED BY <1>0, <1>a, <1>1, <1>2, <1>3, <1>4, <1>5, <1>6, <1>7 DEF Next

-----------------------------------------------------------------------------
(* The ledger and its summary.                                             *)

Others(b) == \A x \in Items : BotOf[x] = b => ts'[x] = ts[x]

\* What a request does not touch of a bot it does not see otherwise either.
LEMMA UntouchedBot ==
  ASSUME NEW b \in Bots, Others(b), stopped'[b] = stopped[b]
  PROVE  /\ Of(b, Trades)' = Of(b, Trades) /\ Of(b, Events)' = Of(b, Events)
         /\ Of(b, Snaps)' = Of(b, Snaps)
         /\ Reconciled(b)' = Reconciled(b) /\ Finalized(b)' = Finalized(b)
<1>1. /\ Of(b, Trades)' = Of(b, Trades) /\ Of(b, Events)' = Of(b, Events)
      /\ Of(b, Snaps)' = Of(b, Snaps)
  BY DEF Of, Others
<1>2. \A s : Decides(s, b)' <=> Decides(s, b)
  <2>1. \A s \in Of(b, Snaps) : ts'[s] = ts[s]
    BY DEF Of, Others
  <2> QED BY <1>1, <2>1 DEF Decides
<1>3. \A e \in Of(b, Events) : ts'[e] = ts[e]
  BY DEF Of, Others
<1>4. \A s : Decides(s, b) => ts'[s] = ts[s]
  BY DEF Decides, Of, Others
<1>5. Reconciled(b)' = Reconciled(b)
  BY <1>1, <1>2, <1>3, <1>4 DEF Reconciled
<1>6. Finalized(b)' = Finalized(b)
  BY <1>1, <1>5 DEF Finalized, Flat, Stopped
<1> QED BY <1>1, <1>5, <1>6

\* The row of the bot is locked from the look at the other ledger to the insertion.
LEMMA OneLedgerPreserved == ASSUME OneLedgerPerBot, LedgerInvariant, [Next]_vars PROVE OneLedgerPerBot'
<1> USE ItemsAssumption DEF LedgerInvariant, TypeOK
<1> SUFFICES ASSUME NEW b \in Bots PROVE Of(b, Trades)' = {} \/ Of(b, Events)' = {}
  BY DEF OneLedgerPerBot
<1>1. CASE UNCHANGED ts
  BY <1>1 DEF OneLedgerPerBot, Of
<1>2. ASSUME NEW at \in Times, NEW t \in Trades, NEW last \in BOOLEAN, RecordTrade(t, at, last)
      PROVE  Of(b, Trades)' = {} \/ Of(b, Events)' = {}
  <2>1. \A x \in Items : x # t => ts'[x] = ts[x]
    BY <1>2 DEF RecordTrade, Insert
  <2>2. Of(b, Events)' = Of(b, Events)
    BY <2>1 DEF Of
  <2>3. CASE BotOf[t] = b
    BY <1>2, <2>2, <2>3 DEF RecordTrade, InsertsTrade
  <2>4. CASE BotOf[t] # b
    BY <2>1, <2>2, <2>4 DEF OneLedgerPerBot, Of
  <2> QED BY <2>3, <2>4
<1>3. ASSUME NEW at \in Times, NEW e \in Events, RecordEvent(e, at)
      PROVE  Of(b, Trades)' = {} \/ Of(b, Events)' = {}
  <2>1. \A x \in Items : x # e => ts'[x] = ts[x]
    BY <1>3 DEF RecordEvent, Insert
  <2>2. Of(b, Trades)' = Of(b, Trades)
    BY <2>1 DEF Of
  <2>3. CASE BotOf[e] = b
    BY <1>3, <2>2, <2>3 DEF RecordEvent, InsertsEvent
  <2>4. CASE BotOf[e] # b
    BY <2>1, <2>2, <2>4 DEF OneLedgerPerBot, Of
  <2> QED BY <2>3, <2>4
<1>4. ASSUME NEW at \in Times, NEW s \in Snaps, RecordSnap(s, at)
      PROVE  Of(b, Trades)' = {} \/ Of(b, Events)' = {}
  BY <1>4 DEF OneLedgerPerBot, Of, RecordSnap, Insert
<1> QED BY <1>1, <1>2, <1>3, <1>4 DEF Next, Tick, StartBot, StopBot, vars

Summary(b) == [trades |-> Cardinality(Of(b, Trades)), tradeNet |-> Total(Of(b, Trades)),
               events |-> Cardinality(Of(b, Events)), eventNet |-> Total(Of(b, Events)),
               reconciled |-> Reconciled(b), finalized |-> Finalized(b)]

\* Every request writes of the summary what it may have changed.  Only a bot at rest has
\* snapshots, so neither a trade nor the stop settles or unsettles anything.
LEMMA BookPreserved ==
  ASSUME BookMatchesLedger, LedgerInvariant, TypeOK', [Next]_vars
  PROVE  BookMatchesLedger'
<1> USE ItemsAssumption DEF LedgerInvariant, TypeOK
<1> SUFFICES ASSUME NEW b \in Bots PROVE book'[b] = Summary(b)'
  BY DEF BookMatchesLedger, Summary
<1>a. book[b] = Summary(b)
  BY DEF BookMatchesLedger, Summary
<1>b. ASSUME Others(b), stopped'[b] = stopped[b], book'[b] = book[b] PROVE book'[b] = Summary(b)'
  BY <1>a, <1>b, UntouchedBot DEF Summary
<1>c. Running(b) => Of(b, Snaps) = {}
  BY DEF EvidenceIsTimely, Of, Running, Stopped
<1>d. Of(b, Snaps) = {} => ~Reconciled(b) /\ ~Finalized(b)
  BY DEF Reconciled, Finalized, Decides
<1>e. Of(b, Snaps)' = {} => ~Reconciled(b)' /\ ~Finalized(b)'
  BY DEF Reconciled, Finalized, Decides
<1>1. CASE UNCHANGED <<stopped, ts, book>>
  BY <1>1, <1>b DEF Others
<1>2. ASSUME NEW d \in Bots, StopBot(d) PROVE book'[b] = Summary(b)'
  <2>1. Others(b) /\ book' = book
    BY <1>2 DEF StopBot, Others
  <2>2. CASE d = b
    <3>1. Of(b, Snaps) = {}
      BY <1>2, <1>c, <2>2 DEF StopBot
    <3>2. /\ Of(b, Trades)' = Of(b, Trades) /\ Of(b, Events)' = Of(b, Events)
          /\ Of(b, Snaps)' = {}
      BY <2>1, <3>1 DEF Of, Others
    <3>3. Reconciled(b)' = Reconciled(b) /\ Finalized(b)' = Finalized(b)
      BY <1>d, <1>e, <3>1, <3>2 DEF Reconciled, Finalized
    <3> QED BY <1>a, <2>1, <3>2, <3>3 DEF Summary
  <2>3. CASE d # b
    BY <1>2, <1>b, <2>1, <2>3 DEF StopBot
  <2> QED BY <2>2, <2>3
<1>3. ASSUME NEW at \in Times, NEW t \in Trades, NEW last \in BOOLEAN, RecordTrade(t, at, last)
      PROVE  book'[b] = Summary(b)'
  <2>1. \A x \in Items : x # t => ts'[x] = ts[x]
    BY <1>3 DEF RecordTrade, Insert
  <2>2. CASE BotOf[t] = b
    <3>1. Of(b, Snaps) = {} /\ Of(b, Snaps)' = {} /\ Of(b, Events)' = Of(b, Events)
      BY <1>3, <1>c, <2>1, <2>2 DEF RecordTrade, InsertsTrade, Of
    <3>2. Reconciled(b)' = Reconciled(b) /\ Finalized(b)' = Finalized(b)
      BY <1>d, <1>e, <3>1 DEF Reconciled, Finalized
    <3>3. book'[b] = [Summary(b) EXCEPT !.trades = Cardinality(Of(b, Trades)'),
                                        !.tradeNet = Total(Of(b, Trades)')]
      BY <1>3, <1>a, <2>2 DEF RecordTrade
    <3> QED BY <3>1, <3>2, <3>3 DEF Summary
  <2>3. CASE BotOf[t] # b
    BY <1>3, <1>b, <2>1, <2>3 DEF RecordTrade, Others
  <2> QED BY <2>2, <2>3
<1>4. ASSUME NEW at \in Times, NEW e \in Events, RecordEvent(e, at) PROVE book'[b] = Summary(b)'
  <2>1. \A x \in Items : x # e => ts'[x] = ts[x]
    BY <1>4 DEF RecordEvent, Insert
  <2>2. CASE BotOf[e] = b
    <3>1. Of(b, Trades)' = Of(b, Trades)
      BY <2>1 DEF Of
    <3>2. book'[b] = [Summary(b) EXCEPT !.events = Cardinality(Of(b, Events)'),
                                        !.eventNet = Total(Of(b, Events)'),
                                        !.reconciled = Reconciled(b)',
                                        !.finalized = Finalized(b)']
      BY <1>4, <1>a, <2>2 DEF RecordEvent
    <3> QED BY <3>1, <3>2 DEF Summary
  <2>3. CASE BotOf[e] # b
    BY <1>4, <1>b, <2>1, <2>3 DEF RecordEvent, Others
  <2> QED BY <2>2, <2>3
<1>5. ASSUME NEW at \in Times, NEW s \in Snaps, RecordSnap(s, at) PROVE book'[b] = Summary(b)'
  <2>1. \A x \in Items : x # s => ts'[x] = ts[x]
    BY <1>5 DEF RecordSnap, Insert
  <2>2. CASE BotOf[s] = b
    <3>1. Of(b, Trades)' = Of(b, Trades) /\ Of(b, Events)' = Of(b, Events)
      BY <2>1 DEF Of
    <3>2. book'[b] = [Summary(b) EXCEPT !.reconciled = Reconciled(b)',
                                        !.finalized = Finalized(b)']
      BY <1>5, <1>a, <2>2 DEF RecordSnap
    <3> QED BY <3>1, <3>2 DEF Summary
  <2>3. CASE BotOf[s] # b
    BY <1>5, <1>b, <2>1, <2>3 DEF RecordSnap, Others
  <2> QED BY <2>2, <2>3
<1> QED BY <1>1, <1>2, <1>3, <1>4, <1>5 DEF Next, Tick, StartBot, vars

-----------------------------------------------------------------------------
(* Theorems.                                                               *)

\* Types and dates hold: what is booked belongs to a started bot and its lifetime.
THEOREM DatesHold == Spec => []LedgerInvariant
<1>1. Init => LedgerInvariant
  BY TimesAssumption DEF Init, LedgerInvariant, TypeOK, EvidenceIsTimely, Stopped
<1>2. LedgerInvariant /\ [Next]_vars => LedgerInvariant'
  BY TypePreserved, DatesPreserved DEF LedgerInvariant
<1> QED BY <1>1, <1>2, PTL DEF Spec

\* A bot is booked by hand or by evidence of the exchange, never by both.
THEOREM LedgersNeverMix == Spec => []OneLedgerPerBot
<1>1. Init => OneLedgerPerBot
  BY DEF Init, OneLedgerPerBot, Of
<1> QED BY <1>1, DatesHold, OneLedgerPreserved, PTL DEF Spec

\* The stored summary is the one of the tables.
THEOREM BookIsRight == Spec => []BookMatchesLedger
<1>1. ASSUME Init PROVE BookMatchesLedger
  <2> SUFFICES ASSUME NEW b \in Bots PROVE book[b] = Summary(b)
    BY DEF BookMatchesLedger, Summary
  <2>1. Of(b, Trades) = {} /\ Of(b, Events) = {} /\ Of(b, Snaps) = {}
    BY <1>1 DEF Init, Of
  <2>2. Reconciled(b) = FALSE /\ Finalized(b) = FALSE
    BY <2>1 DEF Reconciled, Finalized, Decides
  <2>3. Cardinality({}) = 0
    BY FS_EmptySet
  <2>4. Summary(b) = EmptyBook
    BY <2>1, <2>2, <2>3, TotalOfNothing DEF EmptyBook, Summary
  <2> QED BY <1>1, <2>4 DEF Init
<1>2. LedgerInvariant' => TypeOK'
  BY DEF LedgerInvariant
<1> QED BY <1>1, <1>2, DatesHold, BookPreserved, PTL DEF Spec

\* The risk stream leaves no booked loss out: only the trades of a bot with executions are
\* left out, and there are none.
THEOREM LossesCount == Spec => []LossesAlwaysCount
<1>1. ASSUME LedgerInvariant, OneLedgerPerBot PROVE LossesAlwaysCount
  <2> USE <1>1, ItemsAssumption DEF LedgerInvariant, TypeOK
  <2> SUFFICES ASSUME NEW x \in Booked, ts[x] # 0, Net[x] < 0
               PROVE  x \in RiskRows(0) /\ RiskNet(x, Settled) = Net[x]
    BY DEF LossesAlwaysCount
  <2>1. x \in Trades => Of(BotOf[x], Events) = {}
    BY DEF OneLedgerPerBot, Of
  <2>2. x \in RiskRows(0)
    BY <2>1 DEF RiskRows, Executions
  <2>3. RiskNet(x, Settled) = Net[x]
    BY MinOfNegative DEF RiskNet
  <2> QED BY <2>2, <2>3
<1> QED BY <1>1, DatesHold, LedgersNeverMix, PTL

\* Who sends a booked request again is told that it is booked.
THEOREM RetriesAreAccepted == Spec => []RetriesSucceed
<1>1. ASSUME LedgerInvariant PROVE RetriesSucceed
  BY <1>1, ItemsAssumption
     DEF LedgerInvariant, EvidenceIsTimely, RetriesSucceed, DuplicatesTrade, DuplicatesEvent,
         DuplicatesSnap, Plausible, MayBeDated
<1> QED BY <1>1, DatesHold, PTL

\* Only new evidence or a later snapshot takes a finalized result back.
THEOREM FinalityIsKept == Spec => OnlyNewFactsReopen
<1> DEFINE NewFact(b) ==
      \/ Of(b, Events)' # Of(b, Events)
      \/ \E s \in Of(b, Snaps)' \ Of(b, Snaps) : \A o \in Of(b, Snaps) : ts'[s] >= ts[o]
    Kept == \A b \in Bots : Finalized(b) /\ ~Finalized(b)' => NewFact(b)
<1>1. ASSUME LedgerInvariant, [Next]_vars, NEW b \in Bots,
             Finalized(b), ~Finalized(b)', Of(b, Events)' = Of(b, Events)
      PROVE  \E s \in Of(b, Snaps)' \ Of(b, Snaps) : \A o \in Of(b, Snaps) : ts'[s] >= ts[o]
  <2> USE <1>1, ItemsAssumption DEF LedgerInvariant, TypeOK
  <2>1. Stopped(b)
    BY DEF Finalized
  <2>2. ~(Others(b) /\ stopped'[b] = stopped[b])
    BY UntouchedBot
  <2>3. ~UNCHANGED <<stopped, ts>>
    BY <2>2 DEF Others
  <2>4. ASSUME NEW d \in Bots, StopBot(d) PROVE FALSE
    BY <2>1, <2>2, <2>4 DEF StopBot, Others, Running, Stopped
  <2>5. ASSUME NEW at \in Times, NEW t \in Trades, NEW last \in BOOLEAN, RecordTrade(t, at, last)
        PROVE  FALSE
    <3>1. BotOf[t] # b
      BY <2>1, <2>5 DEF RecordTrade, InsertsTrade, Running, Stopped
    <3> QED BY <2>2, <2>5, <3>1 DEF RecordTrade, Insert, Others
  <2>6. ASSUME NEW at \in Times, NEW e \in Events, RecordEvent(e, at) PROVE FALSE
    <3>1. BotOf[e] = b
      BY <2>2, <2>6 DEF RecordEvent, Insert, Others
    <3>2. ts[e] = 0 /\ ts' = [ts EXCEPT ![e] = at] /\ at # 0
      BY <2>6 DEF RecordEvent, InsertsEvent, Insert, Times
    <3>3. e \notin Of(b, Events) /\ e \in Of(b, Events)'
      BY <3>1, <3>2 DEF Of
    <3> QED BY <3>3
  <2>7. ASSUME NEW at \in Times, NEW s \in Snaps, RecordSnap(s, at)
        PROVE  s \in Of(b, Snaps)' \ Of(b, Snaps) /\ \A o \in Of(b, Snaps) : ts'[s] >= ts[o]
    <3>1. BotOf[s] = b
      BY <2>2, <2>7 DEF RecordSnap, Insert, Others
    <3>2. s \notin Of(b, Snaps) /\ ts' = [ts EXCEPT ![s] = at] /\ at # 0 /\ at \in Nat
      BY <2>7 DEF RecordSnap, InsertsSnap, Insert, Of, Times
    <3>3. Of(b, Snaps)' = Of(b, Snaps) \union {s} /\ \A x \in Items \ {s} : ts'[x] = ts[x]
      BY <3>1, <3>2 DEF Of
    <3>4. SUFFICES ASSUME NEW o \in Of(b, Snaps), at < ts[o] PROVE FALSE
      BY <3>2, <3>3 DEF Of
    <3>5. PICK c \in Clean :
            /\ Decides(c, b)
            /\ ts[c] >= stopped[b] /\ \A e \in Of(b, Events) : ts[c] >= ts[e]
            /\ Cardinality(Executions(Covers[c])) = Cardinality(Executions(Of(b, Events)))
            /\ Cardinality(Funding(Covers[c])) = Cardinality(Funding(Of(b, Events)))
            /\ Total(Executions(Covers[c])) = Total(Executions(Of(b, Events)))
            /\ Total(Funding(Covers[c])) = Total(Funding(Of(b, Events)))
      BY DEF Finalized, Reconciled
    <3>6. c \in Snaps /\ c # s /\ ts[c] >= ts[o]
      BY <3>2, <3>4, <3>5 DEF Decides, Of
    <3>7. Decides(c, b)'
      BY <3>2, <3>3, <3>4, <3>5, <3>6 DEF Decides, Of
    <3>8. stopped' = stopped /\ \A e \in Of(b, Events) : ts'[e] = ts[e]
      BY <2>7, <3>3 DEF RecordSnap, Of
    <3>9. Reconciled(b)'
      BY <3>3, <3>5, <3>6, <3>7, <3>8 DEF Reconciled
    <3> QED BY <3>8, <3>9 DEF Finalized, Flat, Stopped
  <2> QED BY <2>3, <2>4, <2>5, <2>6, <2>7 DEF Next, Tick, StartBot, vars
<1>2. LedgerInvariant /\ [Next]_vars => [Kept]_vars
  BY <1>1
<1> QED BY <1>2, DatesHold, PTL DEF Spec, OnlyNewFactsReopen

-----------------------------------------------------------------------------
(* What the risk stream needs of numbers and sets.                         *)

\* Induction in first-order form: a set of numbers that is not empty has a least one.
LEMMA LeastNumber ==
  ASSUME NEW T, T \subseteq Nat, T # {}
  PROVE  \E n \in T : \A m \in T : n <= m
<1>1. PICK n \in T : \A m \in T : ~ (<<m, n>> \in OpToRel(<, Nat))
  BY NatLessThanWellFounded, WFMin
<1>2. \A m \in T : ~ (m < n)
  BY <1>1 DEF OpToRel
<1> QED BY <1>2

\* A finite set is no larger than any that includes it, and smaller without a member.
LEMMA Smaller ==
  ASSUME NEW S, IsFiniteSet(S), NEW x \in S
  PROVE  /\ IsFiniteSet(S \ {x}) /\ Cardinality(S) \in Nat /\ Cardinality(S \ {x}) \in Nat
         /\ Cardinality(S \ {x}) < Cardinality(S)
<1>1. IsFiniteSet(S \ {x}) /\ Cardinality(S) \in Nat /\ Cardinality(S \ {x}) \in Nat
  BY FS_CardinalityType, FS_RemoveElement
<1>2. Cardinality(S \ {x}) = Cardinality(S) - 1
  BY FS_RemoveElement
<1> QED BY <1>1, <1>2

\* A set of integers that is finite and not empty has a greatest one.
LEMMA Greatest ==
  ASSUME NEW S, IsFiniteSet(S), S \subseteq Int, S # {}
  PROVE  Max(S) \in S /\ \A y \in S : y <= Max(S)
<1> DEFINE Topped(T) == \E x \in T : \A y \in T : x >= y
           bad == {n \in Nat : \E T \in SUBSET S : T # {} /\ Cardinality(T) = n /\ ~Topped(T)}
<1>1. ASSUME bad # {} PROVE FALSE
  <2>1. PICK n \in bad : \A m \in bad : n <= m
    <3>1. bad \subseteq Nat
      OBVIOUS
    <3> HIDE DEF bad
    <3> QED BY <1>1, <3>1, LeastNumber
  <2>2. PICK T \in SUBSET S : T # {} /\ Cardinality(T) = n /\ ~Topped(T)
    OBVIOUS
  <2>3. PICK x \in T : TRUE
    BY <2>2
  <2>4. /\ IsFiniteSet(T \ {x}) /\ Cardinality(T \ {x}) \in Nat
        /\ Cardinality(T \ {x}) < n /\ n \in Nat
    <3>1. IsFiniteSet(T)
      BY FS_Subset
    <3> QED BY <2>2, <3>1, Smaller
  <2>5. Cardinality(T \ {x}) \notin bad
    <3> HIDE DEF bad
    <3> QED BY <2>1, <2>4
  <2>6. CASE T \ {x} = {}
    <3>1. \A y \in T : x >= y
      BY <2>2, <2>6
    <3> QED BY <2>2, <3>1
  <2>7. CASE T \ {x} # {}
    <3>1. Topped(T \ {x})
      BY <2>4, <2>5, <2>7
    <3>2. PICK z \in T \ {x} : \A y \in T \ {x} : z >= y
      BY <3>1
    <3>3. x \in Int /\ z \in Int /\ T \subseteq Int
      BY <2>2, <2>3
    <3>4. \E u \in {x, z} : \A y \in T : u >= y
      BY <3>2, <3>3
    <3> QED BY <2>2, <3>2, <3>4
  <2> QED BY <2>6, <2>7
<1>2. Topped(S)
  <2>1. Cardinality(S) \in Nat
    BY FS_CardinalityType
  <2>2. Cardinality(S) \notin bad
    BY <1>1
  <2> QED BY <2>1, <2>2
<1>3. \E x \in S : \A y \in S : x >= y
  BY <1>2
<1>4. Max(S) \in S /\ \A y \in S : Max(S) >= y
  BY <1>3 DEF Max
<1>5. \A x \in S, y \in S : x >= y => y <= x
  OBVIOUS
<1> QED BY <1>4, <1>5

---------------------------------------------------------------------------
(* Sums over finite sets.                                                  *)

\* h adds up what f has in every part of D, one member at a time.
AddsUp(f, D, h) ==
  \A s \in SUBSET D :
    h[s] = IF s = {} THEN 0 ELSE f[CHOOSE x \in s : TRUE] + h[s \ {CHOOSE x \in s : TRUE}]

\* Two ways of adding up agree.
LEMMA AddingIsUnique ==
  ASSUME NEW D, IsFiniteSet(D), NEW f, NEW g, NEW h, AddsUp(f, D, g), AddsUp(f, D, h)
  PROVE  \A s \in SUBSET D : g[s] = h[s]
<1> DEFINE bad == {n \in Nat : \E s \in SUBSET D : Cardinality(s) = n /\ g[s] # h[s]}
<1>1. ASSUME bad # {} PROVE FALSE
  <2>1. PICK n \in bad : \A m \in bad : n <= m
    <3>1. bad \subseteq Nat
      OBVIOUS
    <3> HIDE DEF bad
    <3> QED BY <1>1, <3>1, LeastNumber
  <2>2. PICK s \in SUBSET D : Cardinality(s) = n /\ g[s] # h[s]
    OBVIOUS
  <2> DEFINE c == CHOOSE x \in s : TRUE
  <2>3. s # {}
    BY <2>2 DEF AddsUp
  <2>4. c \in s
    BY <2>3
  <2>5. g[s] = f[c] + g[s \ {c}] /\ h[s] = f[c] + h[s \ {c}]
    BY <2>3 DEF AddsUp
  <2> HIDE DEF c
  <2>6. Cardinality(s \ {c}) \in Nat /\ Cardinality(s \ {c}) < n /\ n \in Nat
    <3>1. IsFiniteSet(s)
      BY FS_Subset
    <3> QED BY <2>2, <2>4, <3>1, Smaller
  <2>7. Cardinality(s \ {c}) \notin bad
    <3> HIDE DEF bad
    <3> QED BY <2>1, <2>6
  <2>8. g[s \ {c}] = h[s \ {c}]
    BY <2>6, <2>7
  <2> QED BY <2>2, <2>5, <2>8
<1>2. ASSUME NEW s \in SUBSET D PROVE g[s] = h[s]
  <2>1. Cardinality(s) \in Nat
    BY FS_Subset, FS_CardinalityType
  <2> QED BY <1>1, <2>1
<1> QED BY <1>2

\* There is one.
LEMMA AddingExists ==
  ASSUME NEW D, IsFiniteSet(D), NEW f, \A x \in D : f[x] \in Int
  PROVE  \E h \in [SUBSET D -> Int] : AddsUp(f, D, h)
<1> DEFINE Small(n) == {s \in SUBSET D : Cardinality(s) <= n}
           Step(h, s) == IF s = {} THEN 0
                         ELSE f[CHOOSE x \in s : TRUE] + h[s \ {CHOOSE x \in s : TRUE}]
           Right(n, h) == h \in [Small(n) -> Int] /\ \A s \in Small(n) : h[s] = Step(h, s)
           bad == {n \in Nat : ~ \E h : Right(n, h)}
<1>1. \A s \in SUBSET D : IsFiniteSet(s) /\ Cardinality(s) \in Nat
  BY FS_Subset, FS_CardinalityType
<1>2. \A s \in SUBSET D : s # {} => /\ (CHOOSE x \in s : TRUE) \in s
                                    /\ Cardinality(s \ {CHOOSE x \in s : TRUE}) < Cardinality(s)
  BY <1>1, Smaller
<1>3. ASSUME bad # {} PROVE FALSE
  <2>1. PICK n \in bad : \A m \in bad : n <= m
    <3>1. bad \subseteq Nat
      OBVIOUS
    <3> HIDE DEF bad
    <3> QED BY <1>3, <3>1, LeastNumber
  <2>2. n \in Nat /\ ~ \E h : Right(n, h)
    OBVIOUS
  <2>3. CASE n = 0
    <3> DEFINE zero == [s \in Small(0) |-> 0]
    <3>1. \A s \in Small(0) : s = {}
      BY <1>1, FS_EmptySet
    <3>2. Right(0, zero)
      BY <3>1
    <3> QED BY <2>2, <2>3, <3>2
  <2>4. CASE n # 0
    <3>1. n - 1 \in Nat /\ n - 1 < n
      BY <2>2, <2>4
    <3>2. n - 1 \notin bad
      <4> HIDE DEF bad
      <4> QED BY <2>1, <2>2, <3>1
    <3>3. PICK h : Right(n - 1, h)
      BY <3>1, <3>2
    <3> DEFINE k == [s \in Small(n) |-> Step(h, s)]
    <3>4. ASSUME NEW s \in Small(n), s # {} PROVE s \ {CHOOSE x \in s : TRUE} \in Small(n - 1)
      <4> DEFINE c == CHOOSE x \in s : TRUE
      <4>1. s \in SUBSET D /\ Cardinality(s) <= n /\ s \ {c} \in SUBSET D
        OBVIOUS
      <4>2. Cardinality(s \ {c}) < Cardinality(s)
        BY <1>2, <3>4, <4>1
      <4>3. Cardinality(s \ {c}) \in Nat /\ Cardinality(s) \in Nat
        BY <1>1, <4>1
      <4> HIDE DEF c
      <4>4. Cardinality(s \ {c}) <= n - 1
        BY <2>2, <4>1, <4>2, <4>3
      <4> QED BY <4>1, <4>4 DEF c
    <3>5. \A s \in Small(n - 1) : k[s] = h[s]
      <4>1. Small(n - 1) \subseteq Small(n)
        BY <1>1, <2>2, <3>1
      <4> QED BY <3>3, <4>1
    <3>6. ASSUME NEW s \in Small(n) PROVE k[s] \in Int /\ k[s] = Step(k, s)
      <4>1. CASE s = {}
        BY <4>1
      <4>2. CASE s # {}
        <5> DEFINE c == CHOOSE x \in s : TRUE
        <5>1. s \ {c} \in Small(n - 1) /\ c \in D
          BY <1>2, <3>4, <4>2
        <5>2. k[s] = f[c] + h[s \ {c}] /\ Step(k, s) = f[c] + k[s \ {c}]
          BY <4>2
        <5>3. h[s \ {c}] \in Int /\ k[s \ {c}] = h[s \ {c}] /\ f[c] \in Int
          BY <3>3, <3>5, <5>1
        <5> HIDE DEF c, k, Step
        <5> QED BY <5>2, <5>3
      <4> QED BY <4>1, <4>2
    <3>7. k = [s \in Small(n) |-> k[s]]
      OBVIOUS
    <3>8. Right(n, k)
      <4> HIDE DEF k, Step, Small
      <4> QED BY <3>6, <3>7
    <3> QED BY <2>2, <3>8
  <2> QED BY <2>3, <2>4
<1>4. PICK h : Right(Cardinality(D), h)
  BY <1>1, <1>3
<1>5. Small(Cardinality(D)) = SUBSET D
  BY FS_Subset, <1>1
<1>6. h \in [SUBSET D -> Int] /\ \A s \in SUBSET D : h[s] = Step(h, s)
  BY <1>4, <1>5
<1> QED BY <1>6 DEF AddsUp

\* What the library's sum is: zero of nothing, and one member more than without it.
LEMMA SumIsAddedUp ==
  ASSUME NEW D, IsFiniteSet(D), NEW f, NEW h \in [SUBSET D -> Int], AddsUp(f, D, h)
  PROVE  SumFunctionOnSet(f, D) = h[D]
<1> DEFINE P(iter) == iter = [s \in SUBSET D |->
                               IF s = {} THEN 0
                               ELSE LET x == CHOOSE y \in s : TRUE IN f[x] + iter[s \ {x}]]
           it == CHOOSE iter : P(iter)
           part == [s \in SUBSET D |-> h[s]]
<1>1. SumFunctionOnSet(f, D) = it[D]
  BY DEF SumFunctionOnSet, FoldFunctionOnSet, MapThenFoldSet
<1>2. P(part)
  <2>1. \A s \in SUBSET D : s \ {CHOOSE x \in s : TRUE} \in SUBSET D
    OBVIOUS
  <2>2. \A s \in SUBSET D :
          part[s] = IF s = {} THEN 0 ELSE LET x == CHOOSE y \in s : TRUE IN f[x] + part[s \ {x}]
    BY <2>1 DEF AddsUp
  <2>3. part = [s \in SUBSET D |-> part[s]]
    OBVIOUS
  <2> HIDE DEF part
  <2> QED BY <2>2, <2>3
<1>3. P(it)
  <2> HIDE DEF P
  <2> QED BY <1>2
<1>4. AddsUp(f, D, it)
  <2> HIDE DEF it
  <2> QED BY <1>3 DEF AddsUp
<1> HIDE DEF it
<1>5. \A s \in SUBSET D : it[s] = h[s]
  BY <1>4, AddingIsUnique
<1> QED BY <1>1, <1>5

\* In a sum any member may come first.
InAnyOrder(f, D, h) == \A s \in SUBSET D : \A x \in s : h[s] = f[x] + h[s \ {x}]

LEMMA AnyComesFirst ==
  ASSUME NEW D, IsFiniteSet(D), NEW f, \A x \in D : f[x] \in Int,
         NEW h \in [SUBSET D -> Int], AddsUp(f, D, h)
  PROVE  InAnyOrder(f, D, h)
<1> DEFINE Fits(s) == \A x \in s : h[s] = f[x] + h[s \ {x}]
           bad == {n \in Nat : \E s \in SUBSET D : Cardinality(s) = n /\ ~Fits(s)}
<1>1. ASSUME bad # {} PROVE FALSE
  <2>1. PICK n \in bad : \A m \in bad : n <= m
    <3>1. bad \subseteq Nat
      OBVIOUS
    <3> HIDE DEF bad
    <3> QED BY <1>1, <3>1, LeastNumber
  <2>2. PICK s \in SUBSET D : Cardinality(s) = n /\ ~Fits(s)
    OBVIOUS
  <2>3. PICK x \in s : h[s] # f[x] + h[s \ {x}]
    BY <2>2
  <2> DEFINE c == CHOOSE y \in s : TRUE
  <2>4. c \in s
    BY <2>3
  <2>5. h[s] = f[c] + h[s \ {c}]
    BY <2>3 DEF AddsUp
  <2> HIDE DEF c
  <2>6. x # c
    BY <2>3, <2>5
  <2>7. ASSUME NEW y \in s PROVE Fits(s \ {y})
    <3>1. IsFiniteSet(s)
      BY FS_Subset
    <3>2. Cardinality(s \ {y}) \in Nat /\ Cardinality(s \ {y}) < n /\ n \in Nat
      BY <2>2, <3>1, Smaller
    <3>3. Cardinality(s \ {y}) \notin bad
      <4> HIDE DEF bad
      <4> QED BY <2>1, <3>2
    <3> QED BY <3>2, <3>3
  <2>8. h[s \ {c}] = f[x] + h[(s \ {c}) \ {x}] /\ h[s \ {x}] = f[c] + h[(s \ {x}) \ {c}]
    BY <2>4, <2>6, <2>7
  <2>9. (s \ {c}) \ {x} = (s \ {x}) \ {c}
    OBVIOUS
  <2> DEFINE rest == (s \ {x}) \ {c}
  <2>10. f[c] \in Int /\ f[x] \in Int /\ h[rest] \in Int
    BY <2>4
  <2>11. h[s] = f[c] + (f[x] + h[rest]) /\ h[s \ {x}] = f[c] + h[rest]
    BY <2>5, <2>8, <2>9
  <2> HIDE DEF rest
  <2>12. h[s] = f[x] + h[s \ {x}]
    BY <2>10, <2>11
  <2> QED BY <2>3, <2>12
<1>2. ASSUME NEW s \in SUBSET D PROVE Fits(s)
  <2>1. Cardinality(s) \in Nat
    BY FS_Subset, FS_CardinalityType
  <2> QED BY <1>1, <2>1
<1> QED BY <1>2 DEF InAnyOrder

\* A sum of less, to which only more of what is not positive is added, is no greater.
LEMMA LessAddsUpToLess ==
  ASSUME NEW D, IsFiniteSet(D), NEW f, NEW g, NEW S \in SUBSET D, NEW T \in SUBSET D, S \subseteq T,
         \A x \in S : f[x] \in Int, \A x \in T : g[x] \in Int,
         \A x \in S : g[x] <= f[x], \A x \in T \ S : g[x] <= 0
  PROVE  /\ SumFunctionOnSet(f, S) \in Int /\ SumFunctionOnSet(g, T) \in Int
         /\ SumFunctionOnSet(g, T) <= SumFunctionOnSet(f, S)
<1>1. IsFiniteSet(S) /\ IsFiniteSet(T)
  BY FS_Subset
<1>2. PICK a \in [SUBSET S -> Int] : AddsUp(f, S, a)
  BY <1>1, AddingExists
<1>3. PICK b \in [SUBSET T -> Int] : AddsUp(g, T, b)
  BY <1>1, AddingExists
<1>4. SumFunctionOnSet(f, S) = a[S] /\ SumFunctionOnSet(g, T) = b[T]
  <2>1. SumFunctionOnSet(f, S) = a[S]
    BY ONLY <1>1, <1>2, SumIsAddedUp
  <2>2. SumFunctionOnSet(g, T) = b[T]
    BY ONLY <1>1, <1>3, SumIsAddedUp
  <2> QED BY <2>1, <2>2
<1>5. /\ \A s \in SUBSET S : \A x \in s : a[s] = f[x] + a[s \ {x}]
      /\ \A t \in SUBSET T : \A x \in t : b[t] = g[x] + b[t \ {x}]
  <2>1. InAnyOrder(f, S, a)
    BY <1>1, <1>2, AnyComesFirst
  <2>2. InAnyOrder(g, T, b)
    BY <1>1, <1>3, AnyComesFirst
  <2> QED BY <2>1, <2>2 DEF InAnyOrder
<1>6. a[{}] = 0 /\ b[{}] = 0
  BY <1>2, <1>3 DEF AddsUp
<1> DEFINE Fits(t) == b[t] <= a[t \intersect S]
           bad == {n \in Nat : \E t \in SUBSET T : Cardinality(t) = n /\ ~Fits(t)}
<1>7. ASSUME bad # {} PROVE FALSE
  <2>1. PICK n \in bad : \A m \in bad : n <= m
    <3>1. bad \subseteq Nat
      OBVIOUS
    <3> HIDE DEF bad
    <3> QED BY <1>7, <3>1, LeastNumber
  <2>2. PICK t \in SUBSET T : Cardinality(t) = n /\ ~Fits(t)
    OBVIOUS
  <2>3. CASE t = {}
    <3>1. t \intersect S = {}
      BY <2>3
    <3> QED BY <1>6, <2>2, <2>3, <3>1
  <2>4. CASE t # {}
    <3>1. PICK x \in t : TRUE
      BY <2>4
    <3>2. IsFiniteSet(t)
      BY <1>1, FS_Subset
    <3>3. Cardinality(t \ {x}) \in Nat /\ Cardinality(t \ {x}) < n /\ n \in Nat
      BY <2>2, <3>2, Smaller
    <3>4. Cardinality(t \ {x}) \notin bad
      <4> HIDE DEF bad
      <4> QED BY <2>1, <3>3
    <3>5. b[t \ {x}] <= a[(t \ {x}) \intersect S]
      BY <3>3, <3>4
    <3>6. b[t] = g[x] + b[t \ {x}] /\ b[t \ {x}] \in Int /\ g[x] \in Int
      BY <1>3, <1>5
    <3>7. CASE x \in S
      <4>1. (t \ {x}) \intersect S = (t \intersect S) \ {x} /\ x \in t \intersect S
        BY <3>7
      <4> DEFINE u == t \intersect S
      <4>2. a[u] = f[x] + a[u \ {x}] /\ a[u \ {x}] \in Int /\ f[x] \in Int /\ g[x] <= f[x]
        BY <1>2, <1>5, <3>7, <4>1
      <4>3. b[t \ {x}] <= a[u \ {x}]
        BY <3>5, <4>1
      <4> HIDE DEF u
      <4>4. b[t] <= a[u]
        BY <3>6, <4>2, <4>3
      <4> QED BY <2>2, <4>4 DEF u
    <3>8. CASE x \notin S
      <4>1. (t \ {x}) \intersect S = t \intersect S /\ g[x] <= 0
        BY <3>8
      <4>2. a[t \intersect S] \in Int
        BY <1>2
      <4> DEFINE u == t \intersect S
      <4>3. b[t \ {x}] <= a[u] /\ a[u] \in Int
        BY <3>5, <4>1, <4>2
      <4> HIDE DEF u
      <4>4. b[t] <= a[u]
        BY <3>6, <4>1, <4>3
      <4> QED BY <2>2, <4>4 DEF u
    <3> QED BY <3>7, <3>8
  <2> QED BY <2>3, <2>4
<1>8. Fits(T)
  <2>1. Cardinality(T) \in Nat
    BY <1>1, FS_CardinalityType
  <2> QED BY <1>7, <2>1
<1>9. T \intersect S = S /\ a[S] \in Int /\ b[T] \in Int
  BY <1>2, <1>3
<1> QED BY <1>4, <1>8, <1>9

---------------------------------------------------------------------------
(* The risk stream.                                                        *)

\* A loss counts in full, and a profit only where the exchange has vouched for the bot.
LEMMA RiskOfRow ==
  ASSUME NEW x \in Booked, NEW S, NEW T \in SUBSET S
  PROVE  /\ RiskNet(x, S) \in Int /\ RiskNet(x, T) \in Int
         /\ RiskNet(x, T) <= RiskNet(x, S)
         /\ ~(x \in Events /\ BotOf[x] \in T) => RiskNet(x, T) <= 0
<1>1. Net[x] \in Int
  BY ItemsAssumption
<1> DEFINE m == Min({0, Net[x]})
<1>2. m \in {0, Net[x]} /\ m <= 0 /\ m <= Net[x]
  <2>1. \E k \in {0, Net[x]} : \A y \in {0, Net[x]} : k <= y
    BY <1>1
  <2> QED BY <2>1 DEF Min
<1>3. RiskNet(x, S) \in {m, Net[x]} /\ RiskNet(x, T) \in {m, Net[x]}
      /\ (RiskNet(x, T) = m \/ RiskNet(x, S) = Net[x])
      /\ (~(x \in Events /\ BotOf[x] \in T) => RiskNet(x, T) = m)
  BY DEF RiskNet
<1> HIDE DEF m
<1> QED BY <1>1, <1>2, <1>3

\* The order of the stream by the dates d, and what it has from x to y.
Ordered(d, x, y, S) ==
  x = y \/ d[x] < d[y]
  \/ (d[x] = d[y] /\ (Source(x, S) < Source(y, S) \/ (Source(x, S) = Source(y, S) /\ x < y)))
Between(d, Q, S, x, y) == {z \in Q : Ordered(d, x, z, S) /\ Ordered(d, z, y, S)}

LEMMA SourcesAreRanks == \A x, S : Source(x, S) \in {0, 1, 2}
  BY DEF Source

\* Of the rows of one second one comes first, and one comes last.
LEMMA FirstAndLast ==
  ASSUME NEW d \in [Items -> Nat], NEW S, NEW G \in SUBSET Booked, G # {},
         \A x, y \in G : d[x] = d[y]
  PROVE  \E v \in G, w \in G : \A z \in G : Ordered(d, v, z, S) /\ Ordered(d, z, w, S)
<1>1. IsFiniteSet(G) /\ G \subseteq Nat
  BY ItemsAssumption, FS_Subset
<1> DEFINE ranks == {Source(z, S) : z \in G}
<1>2. PICK a \in ranks, c \in ranks : \A n \in ranks : a <= n /\ n <= c
  <2>1. ranks \subseteq {0, 1, 2} /\ ranks # {}
    BY SourcesAreRanks
  <2>2. ASSUME NEW k \in SUBSET {0, 1, 2}, k # {} PROVE \E a, c \in k : \A n \in k : a <= n /\ n <= c
    <3>1. k \subseteq Nat /\ k \subseteq Int /\ k \in SUBSET (0..2)
      BY <2>2
    <3>2. \E a \in k : \A n \in k : a <= n
      BY <2>2, <3>1, LeastNumber
    <3>3. \E c \in k : \A n \in k : n <= c
      <4>1. IsFiniteSet(k)
        <5>1. IsFiniteSet(0..2)
          BY FS_Interval, 0 \in Int, 2 \in Int
        <5> QED BY <3>1, <5>1, FS_Subset
      <4> QED BY <2>2, <3>1, <4>1, Greatest
    <3> QED BY <3>2, <3>3
  <2> HIDE DEF ranks
  <2> QED BY <2>1, <2>2
<1> DEFINE low == {z \in G : Source(z, S) = a}
           high == {z \in G : Source(z, S) = c}
<1>3. low # {} /\ high # {} /\ low \subseteq Nat /\ high \subseteq Int /\ IsFiniteSet(high)
  BY <1>1, <1>2, FS_Subset
<1>4. PICK v \in low : \A z \in low : v <= z
  <2> HIDE DEF low
  <2> QED BY <1>3, LeastNumber
<1>5. PICK w \in high : \A z \in high : z <= w
  <2> HIDE DEF high
  <2> QED BY <1>3, Greatest
<1>6. ASSUME NEW z \in G PROVE Ordered(d, v, z, S) /\ Ordered(d, z, w, S)
  <2>1. d[v] = d[z] /\ d[z] = d[w] /\ Source(v, S) = a /\ Source(w, S) = c
    OBVIOUS
  <2>2. a <= Source(z, S) /\ Source(z, S) <= c /\ Source(z, S) \in Int /\ a \in Int /\ c \in Int
    BY <1>2, SourcesAreRanks
  <2>3. Source(z, S) = a => v <= z
    BY <1>4
  <2>4. Source(z, S) = c => z <= w
    BY <1>5
  <2>5. z \in Nat /\ v \in Nat /\ w \in Nat
    BY <1>1
  <2> HIDE DEF low, high, ranks
  <2> QED BY <2>1, <2>2, <2>3, <2>4, <2>5 DEF Ordered
<1> QED BY <1>6

NoGreater(g, new, f, old) ==
  /\ SumFunctionOnSet(f, old) \in Int /\ SumFunctionOnSet(g, new) \in Int
  /\ SumFunctionOnSet(g, new) <= SumFunctionOnSet(f, old)

\* A stretch that falls is in the later stream part of one that falls as deep, when only rows
\* that count as losses have come, and nothing that was taken back moved past a profit.
LEMMA FallsDeepen ==
  ASSUME NEW d \in [Items -> Nat], NEW e \in [Items -> Nat], NEW R, NEW Q \in SUBSET Booked, R \subseteq Q,
         \A z \in R : e[z] = d[z],
         NEW S, NEW T \in SUBSET S,
         \A z \in Q \ R : ~(z \in Events /\ BotOf[z] \in T),
         \A z, w \in R : d[z] = d[w] => ~(BotOf[z] \in S \ T /\ BotOf[w] \in T),
         NEW x \in R, NEW y \in R,
         NEW f, f = [z \in R |-> RiskNet(z, S)], NEW g, g = [z \in Q |-> RiskNet(z, T)]
  PROVE  \E v, w \in Q : NoGreater(g, Between(e, Q, T, v, w), f, Between(d, R, S, x, y))
<1> DEFINE Turned(c) == \E z \in R : d[z] = c /\ z \in Events /\ BotOf[z] \in S \ T
           Second(c) == {z \in Q : e[z] = c}
<1>1. Booked \subseteq Items /\ IsFiniteSet(Booked) /\ R \subseteq Booked /\ Booked \subseteq Nat
  BY ItemsAssumption, FS_Subset
<1>2. ASSUME NEW c, Turned(c), NEW z \in Second(c) PROVE g[z] <= 0
  <2>1. ~(z \in Events /\ BotOf[z] \in T)
    BY <1>2
  <2> QED BY <2>1, RiskOfRow
<1>3. ASSUME NEW c, ~Turned(c), NEW z \in R, d[z] = c PROVE Source(z, S) = Source(z, T)
  BY <1>1, <1>3 DEF Source
<1>4. PICK v \in Q : /\ e[v] = d[x]
                     /\ Turned(d[x]) => \A z \in Second(d[x]) : Ordered(e, v, z, T)
                     /\ ~Turned(d[x]) => v = x
  <2>1. x \in Second(d[x]) /\ Second(d[x]) \in SUBSET Booked /\ \A a, b \in Second(d[x]) : e[a] = e[b]
    OBVIOUS
  <2>2. PICK v \in Second(d[x]) : \A z \in Second(d[x]) : Ordered(e, v, z, T)
    <3> HIDE DEF Second
    <3> QED BY <2>1, FirstAndLast
  <2> QED BY <2>1, <2>2
<1>5. PICK w \in Q : /\ e[w] = d[y]
                     /\ Turned(d[y]) => \A z \in Second(d[y]) : Ordered(e, z, w, T)
                     /\ ~Turned(d[y]) => w = y
  <2>1. y \in Second(d[y]) /\ Second(d[y]) \in SUBSET Booked /\ \A a, b \in Second(d[y]) : e[a] = e[b]
    OBVIOUS
  <2>2. PICK w \in Second(d[y]) : \A z \in Second(d[y]) : Ordered(e, z, w, T)
    <3> HIDE DEF Second
    <3> QED BY <2>1, FirstAndLast
  <2> QED BY <2>1, <2>2
<1> DEFINE old == Between(d, R, S, x, y)
           new == Between(e, Q, T, v, w)
<1>6. \A z \in R : d[z] \in Nat /\ e[z] = d[z]
  BY <1>1
<1>7. \A z \in Q : e[z] \in Nat
  BY <1>1
<1>8. ASSUME NEW z \in R, Ordered(d, x, z, S) PROVE Ordered(e, v, z, T)
  <2>1. CASE d[x] = d[z] /\ Turned(d[x])
    BY <1>4, <1>6, <2>1
  <2>2. CASE d[x] = d[z] /\ ~Turned(d[x])
    <3>1. v = x /\ Source(x, S) = Source(x, T) /\ Source(z, S) = Source(z, T)
      BY <1>3, <1>4, <2>2
    <3> HIDE DEF Turned, Second
    <3> QED BY <1>6, <1>8, <2>2, <3>1 DEF Ordered
  <2>3. CASE d[x] # d[z]
    <3> HIDE DEF Turned, Second
    <3> QED BY <1>4, <1>6, <1>8, <2>3 DEF Ordered
  <2> QED BY <2>1, <2>2, <2>3
<1>9. ASSUME NEW z \in R, Ordered(d, z, y, S) PROVE Ordered(e, z, w, T)
  <2>1. CASE d[y] = d[z] /\ Turned(d[y])
    BY <1>5, <1>6, <2>1
  <2>2. CASE d[y] = d[z] /\ ~Turned(d[y])
    <3>1. w = y /\ Source(y, S) = Source(y, T) /\ Source(z, S) = Source(z, T)
      BY <1>3, <1>5, <2>2
    <3> HIDE DEF Turned, Second
    <3> QED BY <1>6, <1>9, <2>2, <3>1 DEF Ordered
  <2>3. CASE d[y] # d[z]
    <3> HIDE DEF Turned, Second
    <3> QED BY <1>5, <1>6, <1>9, <2>3 DEF Ordered
  <2> QED BY <2>1, <2>2, <2>3
<1>10. old \subseteq new
  BY <1>8, <1>9 DEF Between
<1>11. ASSUME NEW z \in new \ old PROVE g[z] <= 0
  <2>1. CASE z \notin R
    <3>1. z \in Q
      BY DEF Between
    <3> QED BY <2>1, <3>1, RiskOfRow
  <2>2. CASE z \in R
    <3>1. z \in Q /\ Ordered(e, v, z, T) /\ Ordered(e, z, w, T)
      BY DEF Between
    <3>2. ~Ordered(d, x, z, S) \/ ~Ordered(d, z, y, S)
      BY <2>2 DEF Between
    <3>3. ASSUME ~Ordered(d, x, z, S) PROVE g[z] <= 0
      <4>1. d[x] \in Nat /\ d[z] \in Nat /\ e[z] = d[z] /\ e[v] = d[x]
        BY <1>4, <1>6, <2>2
      <4>2. d[x] = d[z]
        <5> HIDE DEF Turned, Second, old, new
        <5> QED BY <3>1, <3>3, <4>1 DEF Ordered
      <4>3. Turned(d[x])
        <5> SUFFICES ASSUME ~Turned(d[x]) PROVE FALSE
          OBVIOUS
        <5>1. v = x /\ Source(x, S) = Source(x, T) /\ Source(z, S) = Source(z, T)
          BY <1>3, <1>4, <2>2, <4>2
        <5> HIDE DEF Turned, Second, old, new
        <5> QED BY <3>1, <3>3, <4>1, <4>2, <5>1 DEF Ordered
      <4>4. z \in Second(d[x])
        BY <3>1, <4>1, <4>2
      <4> QED BY <1>2, <4>3, <4>4
    <3>4. ASSUME ~Ordered(d, z, y, S) PROVE g[z] <= 0
      <4>1. d[y] \in Nat /\ d[z] \in Nat /\ e[z] = d[z] /\ e[w] = d[y]
        BY <1>5, <1>6, <2>2
      <4>2. d[y] = d[z]
        <5> HIDE DEF Turned, Second, old, new
        <5> QED BY <3>1, <3>4, <4>1 DEF Ordered
      <4>3. Turned(d[y])
        <5> SUFFICES ASSUME ~Turned(d[y]) PROVE FALSE
          OBVIOUS
        <5>1. w = y /\ Source(y, S) = Source(y, T) /\ Source(z, S) = Source(z, T)
          BY <1>3, <1>5, <2>2, <4>2
        <5> HIDE DEF Turned, Second, old, new
        <5> QED BY <3>1, <3>4, <4>1, <4>2, <5>1 DEF Ordered
      <4>4. z \in Second(d[y])
        BY <3>1, <4>1, <4>2
      <4> QED BY <1>2, <4>3, <4>4
    <3> QED BY <3>2, <3>3, <3>4
  <2> QED BY <2>1, <2>2
<1>12. old \in SUBSET R /\ new \in SUBSET Q
  BY DEF Between
<1>13. /\ \A z \in old : f[z] \in Int /\ g[z] <= f[z]
       /\ \A z \in new : g[z] \in Int
  BY <1>1, <1>12, RiskOfRow
<1>14. old \in SUBSET Booked /\ new \in SUBSET Booked
  BY <1>1, <1>12
<1> HIDE DEF old, new
<1>15. /\ SumFunctionOnSet(f, old) \in Int /\ SumFunctionOnSet(g, new) \in Int
       /\ SumFunctionOnSet(g, new) <= SumFunctionOnSet(f, old)
  <2>1. \A z \in old : f[z] \in Int
    BY <1>13
  <2>2. \A z \in new : g[z] \in Int
    BY <1>13
  <2>3. \A z \in old : g[z] <= f[z]
    BY <1>13
  <2>4. \A z \in new \ old : g[z] <= 0
    BY <1>11
  <2>5. IsFiniteSet(Booked)
    BY <1>1
  <2> QED BY ONLY <1>10, <1>14, <2>1, <2>2, <2>3, <2>4, <2>5, LessAddsUpToLess
<1> QED BY <1>15 DEF old, new, NoGreater

\* What a step may do to the rows of the stream while no bot becomes settled.
LEMMA StreamGrows ==
  ASSUME LedgerInvariant, TypeOK', [Next]_vars, Settled' \subseteq Settled
  PROVE  /\ RiskRows(1) \subseteq RiskRows(1)' /\ RiskRows(1)' \subseteq Booked
         /\ \A z \in RiskRows(1) : ts'[z] = ts[z]
         /\ \A z \in RiskRows(1)' \ RiskRows(1) : ~(z \in Events /\ BotOf[z] \in Settled')
<1> USE ItemsAssumption DEF LedgerInvariant, TypeOK
<1>1. CASE UNCHANGED ts
  BY <1>1 DEF RiskRows, Of
<1>2. ASSUME NEW at \in Times, NEW t \in Trades, InsertsTrade(t, at), Insert(t, at)
      PROVE  /\ RiskRows(1) \subseteq RiskRows(1)' /\ RiskRows(1)' \subseteq Booked
             /\ \A z \in RiskRows(1) : ts'[z] = ts[z]
             /\ \A z \in RiskRows(1)' \ RiskRows(1) : ~(z \in Events /\ BotOf[z] \in Settled')
  <2>1. ts[t] = 0 /\ ts' = [ts EXCEPT ![t] = at] /\ t \notin Events
    BY <1>2 DEF InsertsTrade, Insert
  <2>2. \A b \in Bots : Of(b, Events)' = Of(b, Events)
    BY <2>1 DEF Of
  <2>3. \A z \in Items : z # t => ts'[z] = ts[z]
    BY <2>1
  <2>4. t \notin RiskRows(1)
    BY <2>1 DEF RiskRows
  <2> QED BY <2>1, <2>2, <2>3, <2>4 DEF RiskRows
<1>3. ASSUME NEW at \in Times, NEW e \in Events, RecordEvent(e, at)
      PROVE  /\ RiskRows(1) \subseteq RiskRows(1)' /\ RiskRows(1)' \subseteq Booked
             /\ \A z \in RiskRows(1) : ts'[z] = ts[z]
             /\ \A z \in RiskRows(1)' \ RiskRows(1) : ~(z \in Events /\ BotOf[z] \in Settled')
  <2> DEFINE b == BotOf[e]
  <2>1. ts[e] = 0 /\ ts' = [ts EXCEPT ![e] = at] /\ at # 0 /\ e \notin Trades /\ Of(b, Trades) = {}
    BY <1>3 DEF RecordEvent, InsertsEvent, Insert, Times
  <2>2. \A z \in Items : z # e => ts'[z] = ts[z]
    BY <2>1
  <2>3. \A c \in Bots : c # b => Of(c, Events)' = Of(c, Events)
    BY <2>2 DEF Of
  <2>4. Of(b, Events)' = Of(b, Events) \union {e} /\ e \notin Of(b, Events)
    BY <2>1, <2>2 DEF Of
  <2>5. Of(b, Snaps)' = Of(b, Snaps) /\ \A s \in Snaps : ts'[s] = ts[s]
    BY <2>1, <2>2 DEF Of
  <2>6. \A t \in Trades : ts[t] # 0 => BotOf[t] # b
    BY <2>1 DEF Of
  <2>7. RiskRows(1) \subseteq RiskRows(1)' /\ \A z \in RiskRows(1) : ts'[z] = ts[z]
    BY <2>1, <2>2, <2>3, <2>6 DEF RiskRows
  <2>8. b \notin Settled'
    <3> SUFFICES ASSUME b \in Settled' PROVE FALSE
      OBVIOUS
    <3>1. Reconciled(b) /\ Reconciled(b)'
      BY DEF Settled, Finalized
    <3> DEFINE E == Of(b, Events)
               new == Of(b, Events)'
    <3>2. PICK s \in Clean : /\ Decides(s, b)
                             /\ Cardinality(Executions(Covers[s])) = Cardinality(Executions(E))
                             /\ Cardinality(Funding(Covers[s])) = Cardinality(Funding(E))
      BY <3>1 DEF Reconciled
    <3>3. PICK r \in Clean : /\ Decides(r, b)'
                             /\ Cardinality(Executions(Covers[r])) = Cardinality(Executions(new))
                             /\ Cardinality(Funding(Covers[r])) = Cardinality(Funding(new))
      BY <3>1 DEF Reconciled
    <3>4. s \in Of(b, Snaps) /\ r \in Of(b, Snaps)
      BY <2>5, <3>2, <3>3 DEF Decides
    <3>5. s \in Snaps /\ r \in Snaps /\ s \in Nat /\ r \in Nat /\ ts[s] \in Nat /\ ts[r] \in Nat
      BY <3>4 DEF Of
    <3>6. /\ ts[r] < ts[s] \/ (ts[r] = ts[s] /\ r <= s)
          /\ ts[s] < ts[r] \/ (ts[s] = ts[r] /\ s <= r)
      BY <2>5, <3>2, <3>3, <3>4, <3>5 DEF Decides
    <3>7. r = s
      BY <3>5, <3>6
    <3>8. IsFiniteSet(E) /\ E \subseteq Events
      BY FS_Subset DEF Of
    <3> HIDE DEF E, new
    <3>9. new = E \union {e} /\ e \notin E
      BY <2>4 DEF E, new
    <3>10. CASE e \in Executions(new)
      <4>1. Executions(new) = Executions(E) \union {e} /\ e \notin Executions(E)
        BY <3>9, <3>10 DEF Executions
      <4>2. IsFiniteSet(Executions(E))
        <5>1. Executions(E) \in SUBSET E
          BY DEF Executions
        <5> QED BY <3>8, <5>1, FS_Subset
      <4>3. Cardinality(Executions(new)) = Cardinality(Executions(E)) + 1 /\ Cardinality(Executions(E)) \in Nat
        BY <4>1, <4>2, FS_AddElement, FS_CardinalityType
      <4> QED BY <3>2, <3>3, <3>7, <4>3
    <3>11. CASE e \notin Executions(new)
      <4>1. Funding(new) = Funding(E) \union {e} /\ e \notin Funding(E)
        BY <3>9, <3>11 DEF Executions, Funding
      <4>2. IsFiniteSet(Funding(E))
        <5>1. Funding(E) \in SUBSET E
          BY DEF Funding
        <5> QED BY <3>8, <5>1, FS_Subset
      <4>3. Cardinality(Funding(new)) = Cardinality(Funding(E)) + 1 /\ Cardinality(Funding(E)) \in Nat
        BY <4>1, <4>2, FS_AddElement, FS_CardinalityType
      <4> QED BY <3>2, <3>3, <3>7, <4>3
    <3> QED BY <3>10, <3>11
  <2>9. \A z \in RiskRows(1)' \ RiskRows(1) : z \in Events => z = e
    BY <2>2 DEF RiskRows
  <2>10. RiskRows(1)' \subseteq Booked
    BY DEF RiskRows
  <2> QED BY <2>7, <2>8, <2>9, <2>10
<1>4. ASSUME NEW at \in Times, NEW s \in Snaps, RecordSnap(s, at) PROVE \A z \in Booked : ts'[z] = ts[z]
  BY <1>4 DEF RecordSnap, Insert
<1>5. (\A z \in Booked : ts'[z] = ts[z]) =>
        /\ RiskRows(1)' = RiskRows(1)
        /\ \A z \in RiskRows(1) : ts'[z] = ts[z]
  BY DEF RiskRows, Of
<1>6. RiskRows(1) \subseteq Booked
  BY DEF RiskRows
<1> QED BY <1>1, <1>2, <1>3, <1>4, <1>5, <1>6
        DEF Next, Tick, StartBot, StopBot, RecordTrade, vars

\* The falls are of finitely many stretches, and each is a number.
LEMMA FallsAreNumbers ==
  ASSUME LedgerInvariant, NEW S
  PROVE  IsFiniteSet(Falls(RiskRows(1), S)) /\ Falls(RiskRows(1), S) \subseteq Int
<1> DEFINE R == RiskRows(1)
           net == [z \in R |-> RiskNet(z, S)]
           fall == [p \in R \X R |-> -SumFunctionOnSet(net, Stretch(R, S, p[1], p[2]))]
<1>1. R \subseteq Booked /\ IsFiniteSet(R)
  BY ItemsAssumption, FS_Subset DEF RiskRows
<1>2. Falls(R, S) = {-SumFunctionOnSet(net, Stretch(R, S, x, y)) : x, y \in R}
  BY DEF Falls
<1>3. \A x, y \in R : <<x, y>> \in R \X R /\ fall[<<x, y>>] = -SumFunctionOnSet(net, Stretch(R, S, x, y))
  OBVIOUS
<1>4. \A p \in R \X R : \E x, y \in R : p = <<x, y>>
  OBVIOUS
<1>5. ASSUME NEW x \in R, NEW y \in R PROVE SumFunctionOnSet(net, Stretch(R, S, x, y)) \in Int
  <2> DEFINE part == Stretch(R, S, x, y)
  <2>1. part \in SUBSET R
    BY DEF Stretch
  <2>2. \A z \in R : net[z] \in Int
    BY <1>1, RiskOfRow
  <2>3. \A z \in part : net[z] \in Int /\ net[z] <= net[z]
    BY <2>1, <2>2
  <2> HIDE DEF part, net, R
  <2> QED BY <1>1, <2>1, <2>3, LessAddsUpToLess DEF part
<1>6. DOMAIN fall = R \X R
  OBVIOUS
<1> HIDE DEF fall, net, R
<1>7. Falls(R, S) = {fall[p] : p \in R \X R}
  <2>1. ASSUME NEW n \in Falls(R, S) PROVE n \in {fall[p] : p \in R \X R}
    <3>1. PICK x \in R, y \in R : n = -SumFunctionOnSet(net, Stretch(R, S, x, y))
      BY <1>2, <2>1
    <3> QED BY <1>3, <3>1
  <2>2. ASSUME NEW p \in R \X R PROVE fall[p] \in Falls(R, S)
    <3>1. PICK x \in R, y \in R : p = <<x, y>>
      BY <1>4
    <3> QED BY <1>2, <1>3, <3>1
  <2> QED BY <2>1, <2>2
<1>8. IsFiniteSet(R \X R)
  BY <1>1, FS_Product
<1>9. IsFiniteSet({fall[p] : p \in R \X R})
  <2>1. fall = [p \in R \X R |-> fall[p]]
    BY DEF fall
  <2>2. fall \in Surjection(R \X R, {fall[p] : p \in R \X R})
    BY <2>1 DEF Surjection
  <2> QED BY <1>8, <2>2, FS_Surjection
<1>10. Falls(R, S) \subseteq Int
  BY <1>2, <1>5
<1> QED BY <1>7, <1>9, <1>10 DEF R

\* The drawdown is the greatest of the falls, or none.
DrawdownTops ==
  /\ DayDrawdown \in Int /\ DayDrawdown >= 0
  /\ \A n \in Falls(RiskRows(1), Settled) : n <= DayDrawdown
  /\ DayDrawdown = 0 \/ DayDrawdown \in Falls(RiskRows(1), Settled)

LEMMA DrawdownIsGreatest == LedgerInvariant => DrawdownTops
<1> SUFFICES ASSUME LedgerInvariant PROVE DrawdownTops
  OBVIOUS
<1> DEFINE F == Falls(RiskRows(1), Settled)
<1>1. DayDrawdown = Max({0} \union F)
  BY DEF DayDrawdown
<1>2. IsFiniteSet({0} \union F) /\ {0} \union F \subseteq Int
  BY FallsAreNumbers, FS_AddElement
<1> HIDE DEF F
<1>3. Max({0} \union F) \in {0} \union F /\ \A n \in {0} \union F : n <= Max({0} \union F)
  BY <1>2, Greatest
<1> QED BY <1>1, <1>2, <1>3 DEF F, DrawdownTops

\* While no bot becomes settled and none that is taken back moves past a profit, the
\* drawdown does not shrink.
LEMMA DrawdownStays ==
  ASSUME LedgerInvariant, LedgerInvariant', [Next]_vars, Settled' \subseteq Settled, ~Overtakes
  PROVE  ~(DayDrawdown' < DayDrawdown)
<1> DEFINE R == RiskRows(1)
           Q == RiskRows(1)'
           S == Settled
           T == Settled'
           f == [z \in R |-> RiskNet(z, S)]
           g == [z \in Q |-> RiskNet(z, T)]
<1>1. /\ R \subseteq Q /\ Q \subseteq Booked
      /\ \A z \in R : ts'[z] = ts[z]
      /\ \A z \in Q \ R : ~(z \in Events /\ BotOf[z] \in T)
  BY StreamGrows DEF LedgerInvariant
<1>2. /\ DayDrawdown \in Int /\ DayDrawdown >= 0
      /\ DayDrawdown = 0 \/ DayDrawdown \in Falls(R, S)
  BY DrawdownIsGreatest DEF DrawdownTops
<1>3. /\ DayDrawdown' \in Int /\ DayDrawdown' >= 0
      /\ \A n \in Falls(RiskRows(1), Settled)' : n <= DayDrawdown'
  <2>1. DrawdownTops'
    BY DrawdownIsGreatest, PTL
  <2> QED BY <2>1 DEF DrawdownTops
<1>4. ASSUME DayDrawdown \in Falls(R, S) PROVE DayDrawdown <= DayDrawdown'
  <2>1. PICK x \in R, y \in R : DayDrawdown = -SumFunctionOnSet(f, Stretch(R, S, x, y))
    BY <1>4 DEF Falls
  <2>2. Stretch(R, S, x, y) = Between(ts, R, S, x, y)
    BY DEF Stretch, Between, UpTo, Precedes, Ordered
  <2>3. \A v, w : Stretch(RiskRows(1), Settled, v, w)' = Between(ts', Q, T, v, w)
    BY DEF Stretch, Between, UpTo, Precedes, Ordered
  <2>4. \A z, w \in R : ts[z] = ts[w] => ~(BotOf[z] \in S \ T /\ BotOf[w] \in T)
    BY DEF Overtakes
  <2>5. ts \in [Items -> Nat] /\ ts' \in [Items -> Nat] /\ T \in SUBSET S
    BY DEF LedgerInvariant, TypeOK
  <2>6. f = [z \in R |-> RiskNet(z, S)] /\ g = [z \in Q |-> RiskNet(z, T)]
    OBVIOUS
  <2>7. /\ Q \in SUBSET Booked /\ R \subseteq Q
        /\ \A z \in R : ts'[z] = ts[z]
        /\ \A z \in Q \ R : ~(z \in Events /\ BotOf[z] \in T)
    BY <1>1
  <2>8. \A v, w \in Q : -SumFunctionOnSet(g, Between(ts', Q, T, v, w)) <= DayDrawdown'
    <3>1. \A v, w \in Q : -SumFunctionOnSet(g, Between(ts', Q, T, v, w)) \in Falls(RiskRows(1), Settled)'
      BY <2>3 DEF Falls, RiskNet
    <3> QED BY <1>3, <3>1
  <2> DEFINE old == Between(ts, R, S, x, y)
             new(v, w) == Between(ts', Q, T, v, w)
  <2>9. DayDrawdown = -SumFunctionOnSet(f, old) /\ \A v, w \in Q : -SumFunctionOnSet(g, new(v, w)) <= DayDrawdown'
    BY <2>1, <2>2, <2>8
  <2> HIDE DEF R, Q, S, T, f, g
  <2>10. x \in R /\ y \in R
    BY <2>1
  <2>11. PICK v \in Q, w \in Q : NoGreater(g, new(v, w), f, old)
    BY ONLY <2>4, <2>5, <2>6, <2>7, <2>10, FallsDeepen
  <2>12. -SumFunctionOnSet(g, new(v, w)) <= DayDrawdown'
    BY <2>9
  <2> HIDE DEF old, new
  <2> QED BY <1>2, <1>3, <2>9, <2>11, <2>12 DEF NoGreater
<1> QED BY <1>2, <1>3, <1>4

\* The drawdown shrinks only when the exchange vouches for a result, or when a result that is
\* taken back moves behind another bot's profit of the same second.
THEOREM OnlyTheExchangeGives == Spec => OnlyTheExchangeRelieves
<1>1. LedgerInvariant /\ LedgerInvariant' /\ [Next]_vars
        => [DayDrawdown' < DayDrawdown => ~(Settled' \subseteq Settled) \/ Overtakes]_vars
  BY DrawdownStays
<1> QED BY <1>1, DatesHold, PTL DEF Spec, OnlyTheExchangeRelieves

=============================================================================
