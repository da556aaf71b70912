---------------------------- MODULE TradeJournal ----------------------------
(***************************************************************************)
(* The public trade journal of one symbol: the publicTrade WebSocket       *)
(* session that writes it, the REST poll that fills in while no session is *)
(* active, retention, and the path an outcome replays.                     *)
(*                                                                         *)
(* The exchange matches trades in the order of the tape; a trade is named  *)
(* by its place there.  A session stores each message in a transaction it  *)
(* commits now and then, and claims with it a span of time in which it saw *)
(* every trade.  A path is replayed only from one session's span, so every *)
(* span must be right about what the session really stored: across first   *)
(* milliseconds, rolled back batches, crashes, rows the poll stored first, *)
(* and retention.  Whether the symbol is captured at all (it has an open   *)
(* grid label window) is left open: a session or a poll may start or not.  *)
(***************************************************************************)
EXTENDS Integers, Sequences, FiniteSets, FiniteSetsExt

CONSTANTS
  MaxNow,       \* bound of the clock
  MaxTrades,    \* bound of the tape
  MaxSessions,  \* bound of the connections
  CommitBatch,  \* market_trade_stream_commit_batch_messages
  MaxSession,   \* market_trade_capture_refresh_sec
  PollLimit,    \* market_trade_poll_limit
  Retention     \* market_trade_retention_hours

ASSUME JournalAssumption ==
  /\ {MaxNow, MaxTrades, MaxSessions} \subseteq Nat
  /\ {CommitBatch, MaxSession, PollLimit, Retention} \subseteq Nat \ {0}

VARIABLES
  now,      \* the exchange's clock
  tape,     \* match time of every trade of the symbol
  stream,   \* the stream worker and its session
  txn,      \* the journal as the session's open transaction sees it
  disk,     \* the journal as committed
  poll,     \* the collector's REST poll
  pruned    \* the latest retention cutoff

vars == <<now, tape, stream, txn, disk, poll, pruned>>

Ids == 1..MaxTrades
Sessions == 1..MaxSessions
Starts == 1..MaxNow + 1
Taped == 1..Len(tape)

Absent == [session |-> -1, message |-> 0, index |-> 0]
Polled == [session |-> 0, message |-> 0, index |-> 0]
NoSpan == [start |-> 0, end |-> 0, state |-> "none"]

\* A row is absent, polled, or has its place in a session.  A session has one span,
\* a polled span is named after its start.
Rows == [session : {-1, 0} \union Sessions, message : Nat, index : Nat]
Spans == [start : Nat, end : Nat, state : {"none", "open", "closed"}]
Journals == [rows : [Ids -> Rows], spans : [Sessions -> Spans], rest : [Starts -> Spans]]

Streams == [phase : {"down", "up"}, session : 0..MaxSessions, opened : Nat, known : BOOLEAN,
            message : Nat, seen : Nat, pending : Nat]
Polls == [phase : {"idle", "due", "fetched"}, rows : SUBSET Ids, at : Nat]

\* Every variable has its type.
TypeOK ==
  /\ now \in Nat
  /\ tape \in Seq(Nat) /\ Len(tape) <= MaxTrades
  /\ stream \in Streams /\ stream.seen <= Len(tape)
  /\ txn \in Journals /\ disk \in Journals
  /\ poll \in Polls /\ poll.rows \subseteq Taped
  /\ pruned \in Nat

EmptyJournal == [rows |-> [i \in Ids |-> Absent], spans |-> [s \in Sessions |-> NoSpan], rest |-> [t \in Starts |-> NoSpan]]

Init ==
  /\ now = 1
  /\ tape = <<>>
  /\ stream = [phase |-> "down", session |-> 0, opened |-> 0, known |-> FALSE,
               message |-> 0, seen |-> 0, pending |-> 0]
  /\ txn = EmptyJournal
  /\ disk = EmptyJournal
  /\ poll = [phase |-> "idle", rows |-> {}, at |-> 0]
  /\ pruned = 0

Larger(a, b) == IF a >= b THEN a ELSE b

-----------------------------------------------------------------------------
(* The exchange.                                                           *)

Tick ==
  /\ now < MaxNow
  /\ now' = now + 1
  /\ UNCHANGED <<tape, stream, txn, disk, poll, pruned>>

Match ==
  /\ Len(tape) < MaxTrades
  /\ tape' = Append(tape, now)
  /\ UNCHANGED <<now, stream, txn, disk, poll, pruned>>

-----------------------------------------------------------------------------
(* What the writers do to the journal.                                     *)

\* Mutant: the later session takes a trade over.
UpsertStealing(rows, ids, position) ==
  [i \in Ids |-> IF i \in ids THEN position[i] ELSE rows[i]]

\* Mutant: a conflicting row is left as it is.
UpsertIgnoring(rows, ids, position) ==
  [i \in Ids |-> IF i \in ids /\ rows[i] = Absent THEN position[i] ELSE rows[i]]

\* upsert_market_trades: a conflict only adds the position of a stream to a polled row.
Upsert(rows, ids, position) ==
  [i \in Ids |-> IF i \in ids /\ (rows[i] = Absent \/ rows[i] = Polled)
                 THEN position[i] ELSE rows[i]]

InMessage(s, m, first) == [i \in Ids |-> [session |-> s, message |-> m, index |-> i - first]]
ByPoll == [i \in Ids |-> Polled]

\* The first millisecond of a session may have begun before it: it is not claimed.
FirstSpan(oldest) == oldest + 1

\* insert_market_trade_coverage of an open span: its start stays, its end never moves back.
Extended(span, start, end) ==
  LET begin == IF span = NoSpan THEN start ELSE span.start
  IN  [start |-> begin, end |-> Larger(Larger(end, begin), span.end), state |-> "open"]

\* record_market_trade_stream_batch: trades i \in ids in message m, generated at ts.
Recorded(j, s, m, ids, ts) ==
  LET first == Min(ids) IN
  [j EXCEPT !.rows = Upsert(@, ids, InMessage(s, m, first)),
            !.spans[s] = Extended(@, FirstSpan(tape[first]), ts)]

\* close_market_trade_coverage: a span that was never committed is not there.
Closed(j, s) ==
  IF s \in Sessions /\ j.spans[s].state = "open"
  THEN [j EXCEPT !.spans[s].state = "closed"] ELSE j

\* record_market_trade_poll: an overlap with any stored trade extends the open span,
\* and without one the open span is closed and the next begins.
OpenRest(j) == {t \in Starts : j.rest[t].state = "open"}
Newest(j) == CHOOSE t \in OpenRest(j) : \A u \in OpenRest(j) : j.rest[u].end <= j.rest[t].end
Overlap(j, ids) == {i \in ids : j.rows[i] # Absent}

PolledSpans(j, ids, snapshot) ==
  LET start == FirstSpan(tape[Min(ids)]) IN
  IF OpenRest(j) # {} /\ Overlap(j, ids) # {}
  THEN [j.rest EXCEPT ![Newest(j)] = Extended(@, @.start, snapshot)]
  ELSE [t \in Starts |->
         IF t = start THEN Extended(j.rest[t], start, snapshot)
         ELSE IF OpenRest(j) # {} /\ t = Newest(j) THEN [j.rest[t] EXCEPT !.state = "closed"]
         ELSE j.rest[t]]

PolledInto(j, ids, snapshot) ==
  IF ids = {} THEN j
  ELSE [j EXCEPT !.rows = Upsert(@, ids, ByPoll), !.rest = PolledSpans(j, ids, snapshot)]

\* prune_market_trade_journal.
Pruned(j, cutoff) ==
  [j EXCEPT !.rows = [i \in Ids |-> IF i \in Taped /\ tape[i] < cutoff THEN Absent ELSE @[i]],
            !.spans = [s \in Sessions |-> IF @[s].end < cutoff THEN NoSpan ELSE @[s]],
            !.rest = [t \in Starts |-> IF @[t].end < cutoff THEN NoSpan ELSE @[t]]]

-----------------------------------------------------------------------------
(* The stream worker.                                                      *)

Up == stream.phase = "up"
Quiet == stream.pending = 0
RefreshDue == now - stream.opened >= MaxSession

\* _market_trade_stream_thread: a new connection, told of no trade made before it.
Connect ==
  /\ ~Up
  /\ stream.session < MaxSessions
  /\ stream' = [phase |-> "up", session |-> stream.session + 1, opened |-> now, known |-> FALSE,
                message |-> 0, seen |-> Len(tape), pending |-> 0]
  /\ UNCHANGED <<now, tape, txn, disk, poll, pruned>>

\* The next message: the trades up to last, generated before any later one.
NextMessage(last, ts) ==
  /\ last \in stream.seen + 1 .. Len(tape)
  /\ ts \in tape[last] .. now
  /\ last < Len(tape) => ts <= tape[last + 1]

\* record_market_trade_stream_batch refuses a span that is gone.
SpanIsGone == stream.known /\ txn.spans[stream.session].state # "open"

\* _commit_pending.
Commit(journal) == disk' = journal /\ txn' = journal

Receive ==
  /\ Up /\ ~RefreshDue /\ ~SpanIsGone
  /\ \E last \in Ids, ts \in 1..MaxNow :
       LET m == stream.message + 1
           journal == Recorded(txn, stream.session, m, stream.seen + 1 .. last, ts)
       IN /\ NextMessage(last, ts)
          /\ \E kept \in {0, stream.pending + 1} :
               /\ kept < CommitBatch
               /\ stream' = [stream EXCEPT !.known = TRUE, !.message = m, !.seen = last, !.pending = kept]
               /\ IF kept = 0 THEN Commit(journal) ELSE txn' = journal /\ UNCHANGED disk
  /\ UNCHANGED <<now, tape, poll, pruned>>

\* Mutant: the commit is only thought of when a message is there.
IdleCommitOnMessage ==
  /\ Up /\ ~Quiet /\ Len(tape) > stream.seen
  /\ Commit(txn)
  /\ stream' = [stream EXCEPT !.pending = 0]
  /\ UNCHANGED <<now, tape, poll, pruned>>

\* recv times out and commit_batch_sec has passed.
IdleCommit ==
  /\ Up /\ ~Quiet
  /\ Commit(txn)
  /\ stream' = [stream EXCEPT !.pending = 0]
  /\ UNCHANGED <<now, tape, poll, pruned>>

Down == [stream EXCEPT !.phase = "down", !.pending = 0]

\* The finally block: a refresh, a disconnect, a lost lease, a shutdown, a bad payload.
EndSession ==
  /\ Up
  /\ stream' = Down
  /\ Commit(Closed(txn, stream.session))
  /\ UNCHANGED <<now, tape, poll, pruned>>

\* A batch cannot be stored: all that is pending is rolled back, the span closed.
BatchFails ==
  /\ Up
  /\ Len(tape) > stream.seen
  /\ stream' = Down
  /\ Commit(Closed(disk, stream.session))
  /\ UNCHANGED <<now, tape, poll, pruned>>

\* The process dies, or the last commit fails: the span stays open.
Crash ==
  /\ Up
  /\ stream' = Down
  /\ txn' = disk
  /\ poll' \in {poll, [poll EXCEPT !.phase = "idle", !.rows = {}, !.at = 0]}
  /\ UNCHANGED <<now, tape, disk, pruned>>

-----------------------------------------------------------------------------
(* The collector and retention.                                            *)

\* _collect_hot_once reads the stream's state long before the poll.
PollIsDue ==
  /\ poll.phase = "idle" /\ ~Up
  /\ poll' = [poll EXCEPT !.phase = "due"]
  /\ UNCHANGED <<now, tape, stream, txn, disk, pruned>>

\* get_recent_public_trades: the newest trades, no more than the limit.
Fetch ==
  /\ poll.phase = "due"
  /\ poll' = [phase |-> "fetched", rows |-> {i \in Taped : i > Len(tape) - PollLimit}, at |-> now]
  /\ UNCHANGED <<now, tape, stream, txn, disk, pruned>>

\* record_market_trade_poll waits for the ingest lock the stream's transaction holds.
Record ==
  /\ poll.phase = "fetched" /\ Quiet
  /\ Commit(PolledInto(disk, poll.rows, poll.at))
  /\ poll' = [phase |-> "idle", rows |-> {}, at |-> 0]
  /\ UNCHANGED <<now, tape, stream, pruned>>

\* The request fails or the wait for the lock times out.
GiveUp ==
  /\ poll.phase # "idle"
  /\ poll' = [phase |-> "idle", rows |-> {}, at |-> 0]
  /\ UNCHANGED <<now, tape, stream, txn, disk, pruned>>

Prune ==
  /\ Quiet /\ now > Retention + pruned
  /\ pruned' = now - Retention
  /\ Commit(Pruned(disk, pruned'))
  /\ UNCHANGED <<now, tape, stream, poll>>

Next ==
  \/ Tick \/ Match
  \/ Connect \/ Receive \/ IdleCommit \/ EndSession \/ BatchFails \/ Crash
  \/ PollIsDue \/ Fetch \/ Record \/ GiveUp
  \/ Prune

Spec == Init /\ [][Next]_vars

\* The receive loop runs; the collector's job ends.
FairSpec == Spec /\ WF_vars(IdleCommit) /\ WF_vars(Record) /\ WF_vars(Fetch)

-----------------------------------------------------------------------------
(* The path.                                                               *)

Claims(span, from, to) == span.state # "none" /\ span.start <= from /\ span.end >= to

InWindow(t, from, to) == from <= t /\ t < to

\* get_market_trade_path and observed_trade_path: the sessions a replay may use.
Exact(from, to) == {s \in Sessions : Claims(disk.spans[s], from, to)}

\* The rows of session s that get_market_trade_path returns.
PathOf(s, from, to) ==
  {i \in Taped : disk.rows[i].session = s /\ InWindow(tape[i], from, to)}

Before(a, b) == a.message < b.message \/ (a.message = b.message /\ a.index < b.index)

-----------------------------------------------------------------------------
(* Properties.                                                             *)

\* A path that is replayed as exact holds every trade of its window, in the
\* order of the matches, as long as retention has not reached the window:
\* whatever was rolled back, lost in a crash, or stored by the poll first.
ExactPathsAreComplete ==
  \A from, to \in 1..MaxNow : from >= pruned =>
    \A s \in Exact(from, to) :
      /\ \A i \in Taped : InWindow(tape[i], from, to) => disk.rows[i].session = s
      /\ \A i, k \in PathOf(s, from, to) : i < k => Before(disk.rows[i], disk.rows[k])

\* A span that was closed, or whose session is over, never claims more.
EndedSpansStay ==
  [][\A s \in Sessions :
       /\ disk.spans[s].state = "closed" => disk'.spans[s] \in {disk.spans[s], NoSpan}
       /\ s < stream.session => disk'.spans[s].end <= disk.spans[s].end]_vars

\* A trade keeps its place in its session until retention removes it.
PlacesAreKept ==
  [][\A i \in Ids : disk.rows[i].session > 0 =>
       disk'.rows[i] = disk.rows[i] \/ (tape[i] < pruned' /\ disk'.rows[i] = Absent)]_vars

\* What the client says of a poll's span: every trade in it was stored, since each
\* snapshot overlaps the one before it.
PolledSpansHaveNoGaps ==
  \A t \in Starts, i \in Taped :
    InWindow(tape[i], disk.rest[t].start, disk.rest[t].end) /\ tape[i] >= pruned =>
      disk.rows[i] # Absent

\* The ingest lock is always given back: polls and retention are not starved.
LockIsReleased == []<>Quiet

=============================================================================
