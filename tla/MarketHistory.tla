---------------------------- MODULE MarketHistory ----------------------------
(***************************************************************************)
(* The minute candles of one symbol and the slower candles made from them. *)
(*                                                                         *)
(* Two workers under leases of their own write the same tables.  The hot   *)
(* collector keeps the newest minutes: after a long outage it fetches the  *)
(* recent tail only and leaves the hole before it to a durable job.  The   *)
(* backfill works the job off page by page.  Minutes are numbered; minute  *)
(* now is open, and what is stored of it is not its last word.             *)
(***************************************************************************)
EXTENDS Integers, FiniteSets, FiniteSetsExt

CONSTANTS
  MaxNow,      \* bound of the clock
  MaxOutages,  \* bound of the outages that are longer than the tail
  MaxRetries,  \* bound of the deadlocks that a write of candles retries
  Holes,       \* minutes the exchange has no candle of
  Fillers,     \* backfill workers: the leader, and one that does not know it is not
  Tail,        \* _HOT_RECENT_TAIL_BARS
  Page,        \* _GAP_BACKFILL_CHUNK_BARS
  Overlap,     \* overlap_bars
  Ratio,       \* minutes in a derived candle
  Floor        \* derived candles below which the whole history is derived

ASSUME MarketAssumption ==
  /\ {MaxOutages, MaxRetries, Overlap, Floor} \subseteq Nat
  /\ {MaxNow, Tail, Page, Ratio} \subseteq Nat \ {0}
  /\ Holes \subseteq 1..MaxNow

VARIABLES
  now,      \* the open minute
  candle,   \* ohlcv of one minute
  derived,  \* ohlcv of Ratio minutes
  job,      \* app_config collector_gap_backfill, committed
  staged,   \* the job the collector's transaction has written
  hot,      \* the collector's cycle
  filler,   \* the backfill's cycles
  outages, retries

marketVars == <<now, candle, derived, job, staged, hot, filler, outages, retries>>

Minutes == 1..MaxNow
Buckets == 0..(MaxNow - 1) \div Ratio
Of(b) == {m \in Minutes : (m - 1) \div Ratio = b}

NoJob == [status |-> "none", next |-> 0, end |-> 0, at |-> 0]
Jobs == [status : {"none", "pending", "complete"}, next : 0..MaxNow + 1, end : 0..MaxNow, at : 0..MaxNow]
Idle == [phase |-> "idle", at |-> 0, last |-> 0, rows |-> {}]
Waiting == [phase |-> "idle", at |-> 0, job |-> NoJob, read |-> NoJob, rows |-> {}]
Deriving == [Waiting EXCEPT !.phase = "derive"]

\* Every variable has its type.
MarketTypeOK ==
  /\ now \in Minutes
  /\ candle \in [Minutes -> {"none", "open", "final"}]
  /\ derived \in [Buckets -> {"none", "early", "final"}]
  /\ job \in Jobs /\ staged \in Jobs
  /\ hot \in [phase : {"idle", "fetched", "staged", "stored"}, at : 0..MaxNow, last : 0..MaxNow,
              rows : SUBSET Minutes]
  /\ filler \in [Fillers -> [phase : {"idle", "fetched", "stored", "advanced", "derive"},
                             at : 0..MaxNow, job : Jobs, read : Jobs, rows : SUBSET Minutes]]
  /\ outages \in 0..MaxOutages /\ retries \in 0..MaxRetries

MarketInit ==
  /\ now = 1
  /\ candle = [m \in Minutes |-> "none"]
  /\ derived = [b \in Buckets |-> "none"]
  /\ job = NoJob /\ staged = NoJob
  /\ hot = Idle
  /\ filler = [f \in Fillers |-> Waiting]
  /\ outages = 0 /\ retries = 0

-----------------------------------------------------------------------------
(* The tables.                                                             *)

Stored == {m \in Minutes : candle[m] # "none"}
Last == IF Stored = {} THEN 0 ELSE Max(Stored)

\* What the exchange has of a span at a moment: not the holes.
Listed(from, to, at) == {m \in Minutes : from <= m /\ m <= to /\ m <= at} \ Holes

\* upsert_ohlcv of rows that were fetched at a moment.
Upserted(rows, at) ==
  [m \in Minutes |-> IF m \in rows THEN (IF m < at THEN "final" ELSE "open") ELSE candle[m]]

\* Mutant: a bucket with a hole in it is aggregated.
CompleteSome(b, rows) == Of(b) \intersect rows # {}

\* _resample_rows: only buckets with every minute.
Complete(b, rows) == Of(b) \subseteq rows

\* _derive_local_tf_rows reads the newest rows only, unless there is little yet.
Newest == {m \in Stored : Cardinality({k \in Stored : k > m}) < 2 * Ratio + 2}
Source == IF Cardinality({b \in Buckets : derived[b] # "none"}) < Floor THEN Stored ELSE Newest

Derived ==
  [b \in Buckets |->
     IF Complete(b, Source)
     THEN IF \A m \in Of(b) : candle[m] = "final" THEN "final" ELSE "early"
     ELSE derived[b]]

-----------------------------------------------------------------------------
(* The clock.  The collector may be down or refused for any time.          *)

MinutePasses ==
  /\ now < MaxNow
  /\ Last = 0 \/ outages < MaxOutages \/ now + 1 - Last <= Tail
  /\ now' = now + 1
  /\ UNCHANGED <<candle, derived, job, staged, hot, filler, outages, retries>>

-----------------------------------------------------------------------------
(* The collector.                                                          *)

LongGap(last) == last # 0 /\ now - last > Tail

\* _kline_fetch_windows.
WindowStart(last) == IF last = 0 \/ LongGap(last) THEN now - Tail + 1 ELSE last - Overlap

HotFetch ==
  /\ hot.phase = "idle"
  /\ LET rows == Listed(WindowStart(Last), now, now) IN
     /\ rows # {}
     /\ hot' = [phase |-> "fetched", at |-> now, last |-> Last, rows |-> rows]
  /\ outages' = IF LongGap(Last) /\ outages < MaxOutages THEN outages + 1 ELSE outages
  /\ UNCHANGED <<now, candle, derived, job, staged, filler, retries>>

\* _schedule_gap_backfill: a pending job is widened.
Scheduled(next, end, at) ==
  IF job.status = "pending"
  THEN [status |-> "pending", next |-> Min({next, job.next}), end |-> Max({end, job.end}), at |-> at]
  ELSE [status |-> "pending", next |-> next, end |-> end, at |-> at]

GapEnd == Min(hot.rows) - 1

\* A cycle that found a long gap: the job is written in the transaction of the candles.
Resets == hot.last # 0 /\ hot.at - hot.last > Tail /\ hot.last + 1 <= GapEnd

Stage ==
  /\ hot.phase = "fetched"
  /\ staged' = IF Resets THEN Scheduled(hot.last + 1, GapEnd, hot.at) ELSE NoJob
  /\ hot' = [hot EXCEPT !.phase = "staged"]
  /\ UNCHANGED <<now, candle, derived, job, filler, outages, retries>>

\* The commit.  A deadlock rolls everything back, and _commit_write_with_retry writes
\* the candles again, without the job.
Store ==
  /\ hot.phase = "staged"
  /\ \E retried \in BOOLEAN :
       /\ retried => retries < MaxRetries
       /\ retries' = IF retried THEN retries + 1 ELSE retries
       /\ job' = IF retried \/ staged = NoJob THEN job ELSE staged
  /\ candle' = Upserted(hot.rows, hot.at)
  /\ staged' = NoJob
  /\ hot' = [Idle EXCEPT !.phase = "stored"]
  /\ UNCHANGED <<now, derived, filler, outages>>

HotDerive ==
  /\ hot.phase = "stored"
  /\ derived' = Derived
  /\ hot' = Idle
  /\ UNCHANGED <<now, candle, job, staged, filler, outages, retries>>

\* An error of the exchange, a lost lease or a crash: what is not committed is gone.
HotFails ==
  /\ hot.phase # "idle"
  /\ hot' = Idle
  /\ staged' = NoJob
  /\ UNCHANGED <<now, candle, derived, job, filler, outages, retries>>

-----------------------------------------------------------------------------
(* The backfill.                                                           *)

PageEnd(j) == Min({j.next + Page - 1, j.end})

\* Mutant: the cursor moves before the page is stored.
LoadAdvancing(f) ==
  /\ filler[f].phase = "idle" /\ job.status = "pending" /\ job.next <= job.end
  /\ LET rows == Listed(job.next, PageEnd(job), now) IN
     /\ rows # {}
     /\ filler' = [filler EXCEPT ![f] = [phase |-> "fetched", at |-> now, job |-> job, read |-> NoJob, rows |-> rows]]
     /\ job' = [job EXCEPT !.next = Max(rows) + 1]
  /\ UNCHANGED <<now, candle, derived, staged, hot, outages, retries>>

\* collect_backfill_once: one page of the job.
Load(f) ==
  /\ filler[f].phase = "idle" /\ job.status = "pending" /\ job.next <= job.end
  /\ LET rows == Listed(job.next, PageEnd(job), now) IN
     /\ rows # {}
     /\ filler' = [filler EXCEPT ![f] = [phase |-> "fetched", at |-> now, job |-> job, read |-> NoJob, rows |-> rows]]
  /\ UNCHANGED <<now, candle, derived, job, staged, hot, outages, retries>>

StorePage(f) ==
  /\ filler[f].phase = "fetched"
  /\ candle' = Upserted(filler[f].rows, filler[f].at)
  /\ filler' = [filler EXCEPT ![f].phase = "stored"]
  /\ UNCHANGED <<now, derived, job, staged, hot, outages, retries>>

\* The job is read again.
Reread(f) ==
  /\ filler[f].phase = "stored"
  /\ filler' = IF job.at = filler[f].job.at
               THEN [filler EXCEPT ![f].phase = "advanced", ![f].read = job]
               ELSE [filler EXCEPT ![f] = Deriving]
  /\ UNCHANGED <<now, candle, derived, job, staged, hot, outages, retries>>

\* Mutant: the cursor stays on the last minute that was stored.
CursorAtLast(j, rows) == Max(rows)

Cursor(j, rows) == Max(rows) + 1

\* The write of what was read waits for the collector's transaction.
Advance(f) ==
  LET next == Cursor(filler[f].job, filler[f].rows)
      read == filler[f].read
  IN
  /\ filler[f].phase = "advanced" /\ staged = NoJob
  /\ job' = [read EXCEPT !.next = next, !.status = IF next > read.end THEN "complete" ELSE @]
  /\ filler' = [filler EXCEPT ![f] = Deriving]
  /\ UNCHANGED <<now, candle, derived, staged, hot, outages, retries>>

FillDerive(f) ==
  /\ filler[f].phase = "derive"
  /\ derived' = Derived
  /\ filler' = [filler EXCEPT ![f] = Waiting]
  /\ UNCHANGED <<now, candle, job, staged, hot, outages, retries>>

FillFails(f) ==
  /\ filler[f].phase # "idle"
  /\ filler' = [filler EXCEPT ![f] = Waiting]
  /\ UNCHANGED <<now, candle, derived, job, staged, hot, outages, retries>>

Hot == HotFetch \/ Stage \/ Store \/ HotDerive
Fill(f) == Load(f) \/ StorePage(f) \/ Reread(f) \/ Advance(f) \/ FillDerive(f)

MarketNext ==
  \/ MinutePasses
  \/ Hot \/ HotFails
  \/ \E f \in Fillers : Fill(f) \/ FillFails(f)

MarketSpec == MarketInit /\ [][MarketNext]_marketVars

\* The loops run; a cycle that is tried for ever succeeds some time.
FairMarketSpec ==
  /\ MarketSpec
  /\ WF_marketVars(HotFetch) /\ WF_marketVars(Stage) /\ SF_marketVars(Store) /\ WF_marketVars(HotDerive)
  /\ \A f \in Fillers : WF_marketVars(Load(f)) /\ SF_marketVars(StorePage(f)) /\ SF_marketVars(Reread(f)) /\ SF_marketVars(Advance(f))
                         /\ WF_marketVars(FillDerive(f))

-----------------------------------------------------------------------------
(* Properties.                                                             *)

\* The minutes that are missing between stored ones.
Gaps == {m \in Minutes \ Holes : candle[m] = "none" /\ m < Last /\ \E k \in Stored : k < m}

InFlight == hot.phase \in {"fetched", "staged"}
AtWork(f) == filler[f].phase \in {"fetched", "stored", "advanced"}

\* What the collector has fetched is all that the exchange has of its window, and a job
\* is staged by its transaction only (collect_once).
WindowIsWhole ==
  /\ InFlight =>
       /\ hot.at \in 1..now /\ hot.rows # {}
       /\ LET from == IF hot.last = 0 \/ hot.at - hot.last > Tail THEN hot.at - Tail + 1 ELSE hot.last - Overlap
          IN  hot.rows = {m \in Minutes \ Holes : from <= m /\ m <= hot.at}
  /\ hot.phase # "staged" => staged = NoJob

\* The same of a page of the backfill, all of which is closed minutes.
PagesAreWhole ==
  \A f \in Fillers :
    /\ AtWork(f) => filler[f].rows # {}
    /\ filler[f].phase = "fetched" =>
         /\ filler[f].job.end < filler[f].at
         /\ filler[f].rows = {m \in Minutes \ Holes : filler[f].job.next <= m /\ m <= PageEnd(filler[f].job)}

\* A job ends before the cycle that wrote it, and a final minute was closed before the
\* cycle that fetches it again.
Behind(m) == m < now /\ (InFlight => m < hot.at)
JobsAreBehind ==
  /\ Behind(job.end) /\ Behind(staged.end)
  /\ \A f \in Fillers : Behind(filler[f].job.end) /\ Behind(filler[f].read.end)
FinalsAreBehind == \A m \in Minutes : candle[m] = "final" => Behind(m)

FetchedIsBehind == WindowIsWhole /\ PagesAreWhole /\ JobsAreBehind /\ FinalsAreBehind

\* The collector knows the newest minute, and what it has staged is the job that its
\* outage makes of the one that is there.
JobIsStaged ==
  /\ Last <= now /\ (InFlight => hot.last = Last /\ Last <= hot.at)
  /\ hot.phase = "staged" =>
       staged = IF Resets THEN Scheduled(hot.last + 1, GapEnd, hot.at) ELSE NoJob

\* A job owns the minutes that lie ahead of its cursor.
Owns(j, m) == j.status = "pending" /\ j.next <= m /\ m <= j.end

\* The job, and what the workers have read of it at one time or another.
Copies ==
  {job} \union {filler[f].job : f \in {g \in Fillers : AtWork(g)}}
        \union {filler[f].read : f \in {g \in Fillers : filler[g].phase = "advanced"}}

\* A job lies between stored minutes, and is no younger than the newest of them allows.
Within(j) ==
  j # NoJob =>
    /\ j.status # "none" /\ 0 < j.at /\ j.at - Last < Tail
    /\ j.end < Last /\ \E k \in Stored : k < j.next

\* Two copies of one job own the same holes, however far each has come.
Agree(j, k) == j.at = k.at => j.end = k.end /\ \A m \in Gaps : Owns(j, m) <=> Owns(k, m)

CopiesAgree == \A j \in Copies : Within(j) /\ \A k \in Copies : Agree(j, k)

\* The page of a worker lies within the job it has loaded, whose holes lie ahead of what
\* is stored of the page.
PagesLieWithin ==
  \A f \in Fillers : AtWork(f) =>
    /\ filler[f].job.status = "pending"
    /\ \A r \in filler[f].rows : Owns(filler[f].job, r)
    /\ filler[f].phase # "fetched" =>
         \A m \in Gaps : Owns(filler[f].job, m) => \A r \in filler[f].rows : r < m
    /\ filler[f].phase = "advanced" => filler[f].read.at = filler[f].job.at

\* The inductive invariant.
MarketInvariant == MarketTypeOK /\ FetchedIsBehind /\ JobIsStaged /\ CopiesAgree /\ PagesLieWithin

\* A hole lies ahead of the cursor of a pending job: none is forgotten, whatever
\* crashes, fails, or works on a page that is done.
GapsAreOwned == \A m \in Gaps : Owns(job, m)

\* The two steps that leave a hole to nobody: the commit that is retried without the job
\* it had staged, and the write of a job that was replaced since it was read.
JobIsDropped == staged # NoJob /\ retries' # retries
JobIsOverwritten == \E f \in Fillers : Advance(f) /\ filler[f].read.at # job.at

\* No other step makes a hole that nobody owns, or takes the owner of one, in any number
\* of outages and retries.
HolesKeepTheirOwner ==
  [][JobIsDropped \/ JobIsOverwritten
     \/ \A m \in Gaps' : Owns(job, m)' \/ (m \in Gaps /\ ~ Owns(job, m))]_marketVars

\* The last word on a minute is not unsaid.
FinalCandlesStay == [][\A m \in Minutes : candle[m] = "final" => candle'[m] = "final"]_marketVars

\* A derived candle is made of all of its minutes.
DerivedAreWhole == \A b \in Buckets : derived[b] # "none" => Of(b) \subseteq Stored

\* Every hole is filled.
HolesAreFilled == Gaps # {} ~> Gaps = {}

\* What a comment says of the derived candles, that they are maintained: when nobody
\* is at work, each that lies before the newest minutes and can be made has been made.
DerivedAreMaintained ==
  hot = Idle /\ (\A f \in Fillers : filler[f] = Waiting) =>
    \A b \in Buckets : (\A m \in Of(b) : candle[m] = "final" /\ m \notin Newest) => derived[b] = "final"

=============================================================================
