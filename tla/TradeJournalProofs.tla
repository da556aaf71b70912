-------------------------- MODULE TradeJournalProofs ------------------------
(***************************************************************************)
(* The trade journal for every number of trades, sessions and seconds: a   *)
(* path that is replayed as exact is complete and in order, and a trade    *)
(* keeps its place.                                                        *)
(***************************************************************************)
EXTENDS TradeJournal, TLAPS

-----------------------------------------------------------------------------
(* The inductive invariant.                                                *)

\* Trades are matched in the order of the tape and of the clock.
TapeInOrder ==
  /\ now >= 1
  /\ \A i \in Taped : tape[i] \in 1..now
  /\ \A i, k \in Taped : i < k => tape[i] <= tape[k]

\* A session that is up has a name; what nobody has pending is committed.
SessionInOrder ==
  /\ Up => stream.session \in Sessions
  /\ ~Up => Quiet
  /\ Quiet => txn = disk
  /\ pruned <= now

\* What a journal says of a trade: nothing, a poll, or a place in a session so far.
RowInOrder(row, st) ==
  /\ row.session = -1 => row = Absent
  /\ row.session = 0 => row = Polled
  /\ row.session <= st.session
  /\ row.session = st.session => row.message <= st.message

\* A trade that the stream st has not seen has no place in a session yet, and one
\* that is not on the tape t is nowhere.
RowsInOrder(j, t, st) ==
  \A i \in Ids :
    /\ RowInOrder(j.rows[i], st)
    /\ i > st.seen => j.rows[i].session <= 0
    /\ i > Len(t) => j.rows[i] = Absent

\* A span that is there belongs to a session so far, and ends in the past or is empty.
SpansInOrder(j, st, n) ==
  \A s \in Sessions :
    /\ j.spans[s].state = "none" => j.spans[s] = NoSpan
    /\ j.spans[s].state # "none" =>
         /\ s <= st.session
         /\ j.spans[s].end <= n \/ j.spans[s].end = j.spans[s].start
    /\ s = st.session /\ st.known = FALSE => j.spans[s] = NoSpan

\* What the cutoff p has left of the trades of a span has its place in that session.
Complete(j, t, p) ==
  \A s \in Sessions, i \in 1..Len(t) :
    /\ j.spans[s].state # "none"
    /\ InWindow(t[i], j.spans[s].start, j.spans[s].end)
    /\ t[i] >= p
    => j.rows[i].session = s

\* The places in a session are in the order of the matches.
Ordered(j) ==
  \A i, k \in Ids :
    i < k /\ j.rows[i].session > 0 /\ j.rows[i].session = j.rows[k].session =>
      Before(j.rows[i], j.rows[k])

Sound(j, t, st, p, n) ==
  RowsInOrder(j, t, st) /\ SpansInOrder(j, st, n) /\ Complete(j, t, p) /\ Ordered(j)

\* The session that is up has stored all it has seen since its span began.
NothingSkipped(j, t, st, p) ==
  st.phase = "up" /\ j.spans[st.session].state # "none" =>
    \A i \in 1..st.seen :
      t[i] >= j.spans[st.session].start /\ t[i] >= p => j.rows[i].session = st.session

JournalInvariant ==
  /\ TypeOK /\ TapeInOrder /\ SessionInOrder
  /\ Sound(txn, tape, stream, pruned, now)
  /\ Sound(disk, tape, stream, pruned, now)
  /\ NothingSkipped(txn, tape, stream, pruned)

-----------------------------------------------------------------------------
(* Types.                                                                  *)

LEMMA Bounds == MaxNow \in Nat /\ MaxTrades \in Nat /\ MaxSessions \in Nat
BY JournalAssumption

LEMMA RowFields == ASSUME NEW row \in Rows PROVE row.session \in Int /\ row.message \in Nat /\ row.index \in Nat
BY Bounds DEF Rows, Sessions

LEMMA SpanFields == ASSUME NEW span \in Spans PROVE span.start \in Nat /\ span.end \in Nat
BY DEF Spans

LEMMA StreamFields ==
  ASSUME NEW st \in Streams
  PROVE  /\ st.session \in Nat /\ st.message \in Nat /\ st.seen \in Nat
         /\ st.known \in BOOLEAN /\ st.pending \in Nat
BY Bounds DEF Streams

\* An interval that is not empty has its first number as minimum.
LEMMA FirstOfInterval == ASSUME NEW a \in Int, NEW b \in Int, a <= b PROVE Min(a .. b) = a
<1>1. a \in a .. b /\ \A y \in a .. b : a <= y
  OBVIOUS
<1>2. \A x \in a .. b : (\A y \in a .. b : x <= y) => x = a
  BY <1>1
<1> QED BY <1>1, <1>2 DEF Min

\* The spans that an extension or a closure leaves are spans.
LEMMA ExtendedIsSpan ==
  ASSUME NEW span \in Spans, NEW start \in Nat, NEW end \in Nat
  PROVE  Extended(span, start, end) \in Spans
BY DEF Extended, Spans, NoSpan, Larger

LEMMA UpsertIsTyped ==
  ASSUME NEW rows \in [Ids -> Rows], NEW ids \in SUBSET Ids, NEW position,
         \A i \in ids : position[i] \in Rows
  PROVE  Upsert(rows, ids, position) \in [Ids -> Rows]
BY DEF Upsert

LEMMA ClosedIsTyped ==
  ASSUME NEW j \in Journals, NEW s \in 0..MaxSessions
  PROVE  Closed(j, s) \in Journals
<1> DEFINE span == [j.spans[s] EXCEPT !.state = "closed"]
<1>1. s \in Sessions => span \in Spans
  BY DEF Journals, Spans
<1>2. s \in Sessions => [j.spans EXCEPT ![s] = span] \in [Sessions -> Spans]
  BY <1>1 DEF Journals
<1>3. s \in Sessions => [j EXCEPT !.spans = [j.spans EXCEPT ![s] = span]] \in Journals
  BY <1>2 DEF Journals
<1> QED BY <1>3 DEF Closed

LEMMA RecordedIsTyped ==
  ASSUME NEW j \in Journals, NEW s \in Sessions, NEW m \in Nat, tape \in Seq(Nat), Len(tape) <= MaxTrades,
         NEW first \in Taped, NEW last \in Taped, first <= last, NEW ts \in Nat
  PROVE  Recorded(j, s, m, first .. last, ts) \in Journals
<1> USE JournalAssumption DEF Taped, Ids
<1> DEFINE ids == first .. last
           position == InMessage(s, m, first)
           span == Extended(j.spans[s], FirstSpan(tape[first]), ts)
<1>1. Min(ids) = first
  BY FirstOfInterval
<1>2. tape[first] \in Nat /\ ids \in SUBSET Ids /\ \A i \in ids : position[i] \in Rows
  BY SMTT(60) DEF InMessage, Rows
<1>3. Upsert(j.rows, ids, position) \in [Ids -> Rows]
  BY <1>2, UpsertIsTyped DEF Journals
<1>4. span \in Spans
  <2>1. j.spans[s] \in Spans /\ FirstSpan(tape[first]) \in Nat
    BY <1>2, SMTT(60) DEF Journals, FirstSpan
  <2> QED BY <2>1, ExtendedIsSpan
<1>5. [j.spans EXCEPT ![s] = span] \in [Sessions -> Spans]
  BY <1>4 DEF Journals
<1>6. Recorded(j, s, m, ids, ts) = [j EXCEPT !.rows = Upsert(@, ids, position), !.spans[s] = span]
  BY <1>1 DEF Recorded
<1> QED BY <1>3, <1>5, <1>6 DEF Journals

LEMMA PolledIsTyped ==
  ASSUME NEW j \in Journals, NEW ids \in SUBSET Ids, NEW snapshot \in Nat
  PROVE  PolledInto(j, ids, snapshot) \in Journals
<1>1. Upsert(j.rows, ids, ByPoll) \in [Ids -> Rows]
  BY UpsertIsTyped DEF Journals, ByPoll, Rows, Polled
<1>2. \A t \in Starts : Extended(j.rest[t], t, snapshot) \in Spans
                     /\ Extended(j.rest[t], j.rest[t].start, snapshot) \in Spans
                     /\ [j.rest[t] EXCEPT !.state = "closed"] \in Spans
  <2> TAKE t \in Starts
  <2>1. j.rest[t] \in Spans /\ t \in Nat /\ j.rest[t].start \in Nat
    BY JournalAssumption DEF Journals, Spans, Starts
  <2>2. [j.rest[t] EXCEPT !.state = "closed"] \in Spans
    BY <2>1 DEF Spans
  <2> QED BY <2>1, <2>2, ExtendedIsSpan
<1>3. [j.rest EXCEPT ![Newest(j)] = Extended(@, @.start, snapshot)] \in [Starts -> Spans]
  BY <1>2 DEF Journals
<1>4. PolledSpans(j, ids, snapshot) \in [Starts -> Spans]
  <2>1. CASE OpenRest(j) # {} /\ Overlap(j, ids) # {}
    BY <1>3, <2>1 DEF PolledSpans
  <2>2. CASE ~(OpenRest(j) # {} /\ Overlap(j, ids) # {})
    BY <1>2, <2>2 DEF PolledSpans, Journals
  <2> QED BY <2>1, <2>2
<1> QED BY <1>1, <1>4 DEF PolledInto, Journals

LEMMA PrunedIsTyped ==
  ASSUME NEW j \in Journals, NEW cutoff \in Int
  PROVE  Pruned(j, cutoff) \in Journals
<1>1. NoSpan \in Spans /\ Absent \in Rows
  BY DEF NoSpan, Spans, Absent, Rows
<1> QED BY <1>1 DEF Pruned, Journals

-----------------------------------------------------------------------------
(* What keeps a journal sound.                                             *)

\* A tape goes on with trades of second n; a stream goes on, or another session begins.
Prolongs(t, t2, n) ==
  /\ Len(t) <= Len(t2)
  /\ \A i \in 1..Len(t) : t2[i] = t[i]
  /\ \A i \in Len(t) + 1 .. Len(t2) : t2[i] = n

Continues(st, st2) ==
  /\ st.session <= st2.session
  /\ st.seen <= st2.seen
  /\ st.session = st2.session => st.message <= st2.message /\ (st2.known = FALSE => st.known = FALSE)

\* Time, new trades, a new session, the end of one and a later cutoff.
LEMMA SoundLater ==
  ASSUME NEW j \in Journals, NEW st \in Streams, NEW st2 \in Streams,
         NEW t \in Seq(Nat), NEW t2 \in Seq(Nat), NEW p \in Int, NEW p2 \in Int, NEW n \in Nat, NEW n2 \in Nat,
         Sound(j, t, st, p, n), n <= n2, p <= p2, Prolongs(t, t2, n), Continues(st, st2)
  PROVE  Sound(j, t2, st2, p2, n2)
<1>1. \A i \in Ids : j.rows[i] \in Rows
  BY DEF Journals
<1>2. \A s \in Sessions : j.spans[s] \in Spans /\ s \in Nat
  BY Bounds DEF Journals, Sessions
<1>3. st.session \in Nat /\ st2.session \in Nat /\ st.seen \in Nat /\ st2.seen \in Nat
    /\ st.message \in Nat /\ st2.message \in Nat
  BY StreamFields
<1>4. RowsInOrder(j, t2, st2)
  <2> SUFFICES ASSUME NEW i \in Ids
               PROVE  /\ RowInOrder(j.rows[i], st2)
                      /\ i > st2.seen => j.rows[i].session <= 0
                      /\ i > Len(t2) => j.rows[i] = Absent
    BY DEF RowsInOrder
  <2>1. /\ RowInOrder(j.rows[i], st)
        /\ i > st.seen => j.rows[i].session <= 0
        /\ i > Len(t) => j.rows[i] = Absent
    BY DEF Sound, RowsInOrder
  <2>2. j.rows[i].session \in Int /\ j.rows[i].message \in Nat /\ i \in Nat
    BY <1>1, RowFields DEF Ids
  <2>3. RowInOrder(j.rows[i], st2)
    <3>1. j.rows[i].session <= st.session /\ (j.rows[i].session = st.session => j.rows[i].message <= st.message)
      BY <2>1 DEF RowInOrder
    <3>2. j.rows[i].session <= st2.session /\ (j.rows[i].session = st2.session => j.rows[i].message <= st2.message)
      BY <1>3, <2>2, <3>1, SMTT(60) DEF Continues
    <3> QED BY <2>1, <3>2 DEF RowInOrder
  <2>4. i > Len(t2) => i > Len(t)
    BY <2>2 DEF Prolongs
  <2> QED BY <1>3, <2>1, <2>2, <2>3, <2>4, SMTT(60) DEF Continues
<1>5. SpansInOrder(j, st2, n2)
  <2> SUFFICES ASSUME NEW s \in Sessions
               PROVE  /\ j.spans[s].state = "none" => j.spans[s] = NoSpan
                      /\ j.spans[s].state # "none" =>
                           /\ s <= st2.session
                           /\ j.spans[s].end <= n2 \/ j.spans[s].end = j.spans[s].start
                      /\ s = st2.session /\ st2.known = FALSE => j.spans[s] = NoSpan
    BY DEF SpansInOrder
  <2>1. /\ j.spans[s].state = "none" => j.spans[s] = NoSpan
        /\ j.spans[s].state # "none" =>
             /\ s <= st.session
             /\ j.spans[s].end <= n \/ j.spans[s].end = j.spans[s].start
        /\ s = st.session /\ st.known = FALSE => j.spans[s] = NoSpan
    BY DEF Sound, SpansInOrder
  <2>2. s \in Nat /\ j.spans[s].end \in Nat /\ j.spans[s].start \in Nat
    BY <1>2, SpanFields
  <2>3. s = st2.session => s = st.session \/ j.spans[s] = NoSpan
    BY <1>3, <2>1, <2>2, SMTT(60) DEF Continues
  <2> QED BY <1>3, <2>1, <2>2, <2>3, SMTT(60) DEF Continues
<1>6. Complete(j, t2, p2)
  <2> SUFFICES ASSUME NEW s \in Sessions, NEW i \in 1..Len(t2), j.spans[s].state # "none",
                      InWindow(t2[i], j.spans[s].start, j.spans[s].end), t2[i] >= p2
               PROVE  j.rows[i].session = s
    BY DEF Complete
  <2>1. s \in Nat /\ j.spans[s].end \in Nat /\ j.spans[s].start \in Nat /\ t2[i] \in Nat
    BY <1>2, SpanFields
  <2>2. j.spans[s].end <= n \/ j.spans[s].end = j.spans[s].start
    BY DEF Sound, SpansInOrder
  <2>3. t2[i] # n
    BY <2>1, <2>2, SMTT(60) DEF InWindow
  <2>4. i \in 1..Len(t)
    BY <2>3 DEF Prolongs
  <2>5. t[i] = t2[i] /\ t[i] >= p
    BY <2>1, <2>4, SMTT(60) DEF Prolongs
  <2> QED BY <2>4, <2>5 DEF Sound, Complete
<1> QED BY <1>4, <1>5, <1>6 DEF Sound

LEMMA ClosedIsSound ==
  ASSUME NEW j \in Journals, NEW s \in 0..MaxSessions, NEW t, NEW st, NEW p, NEW n, Sound(j, t, st, p, n)
  PROVE  Sound(Closed(j, s), t, st, p, n)
<1> DEFINE c == Closed(j, s)
<1>1. c.rows = j.rows
  BY DEF Closed, Journals
<1>2. \A u \in Sessions : /\ c.spans[u].start = j.spans[u].start /\ c.spans[u].end = j.spans[u].end
                          /\ c.spans[u].state = "none" <=> j.spans[u].state = "none"
                          /\ c.spans[u].state = "none" => c.spans[u] = j.spans[u]
                          /\ j.spans[u] = NoSpan => c.spans[u] = NoSpan
  BY DEF Closed, Journals, Spans, NoSpan
<1> HIDE DEF c
<1>3. RowsInOrder(c, t, st) /\ Ordered(c)
  BY <1>1 DEF Sound, RowsInOrder, Ordered
<1>4. SpansInOrder(c, st, n)
  BY <1>2 DEF Sound, SpansInOrder
<1>5. Complete(c, t, p)
  BY <1>1, <1>2 DEF Sound, Complete
<1> QED BY <1>3, <1>4, <1>5 DEF Sound, c

LEMMA PolledIsSound ==
  ASSUME NEW j \in Journals, NEW ids \in SUBSET Ids, NEW snapshot, NEW t \in Seq(Nat), NEW st \in Streams, NEW p, NEW n,
         Sound(j, t, st, p, n), Len(t) <= MaxTrades, ids \subseteq 1..Len(t)
  PROVE  Sound(PolledInto(j, ids, snapshot), t, st, p, n)
<1> DEFINE c == PolledInto(j, ids, snapshot)
<1>1. c.spans = j.spans
  BY DEF PolledInto, Journals
<1>0. \A i \in Ids : j.rows[i] \in Rows /\ j.rows[i].session \in Int
  BY DEF Journals, Rows, Sessions
<1>2. \A i \in Ids : c.rows[i] = j.rows[i] \/ (j.rows[i].session <= 0 /\ c.rows[i] = Polled /\ i \in ids)
  BY DEF PolledInto, Journals, Upsert, ByPoll, Absent, Polled
<1>3. \A i \in Ids : c.rows[i].session > 0 \/ j.rows[i].session > 0 => c.rows[i] = j.rows[i]
  BY <1>0, <1>2 DEF Polled
<1> HIDE DEF c
<1>4. RowsInOrder(c, t, st)
  <2> SUFFICES ASSUME NEW i \in Ids
               PROVE  /\ RowInOrder(c.rows[i], st)
                      /\ i > st.seen => c.rows[i].session <= 0
                      /\ i > Len(t) => c.rows[i] = Absent
    BY DEF RowsInOrder
  <2>1. /\ RowInOrder(j.rows[i], st)
        /\ i > st.seen => j.rows[i].session <= 0
        /\ i > Len(t) => j.rows[i] = Absent
    BY DEF Sound, RowsInOrder
  <2>2. CASE c.rows[i] = j.rows[i]
    BY <2>1, <2>2
  <2>3. CASE c.rows[i] = Polled /\ i \in ids
    <3>1. st.session \in Nat /\ st.message \in Nat /\ i <= Len(t)
      BY <2>3, StreamFields, Bounds
    <3> QED BY <2>3, <3>1 DEF RowInOrder, Polled, Ids
  <2> QED BY <1>2, <2>2, <2>3
<1>5. Ordered(c)
  BY <1>3 DEF Sound, Ordered
<1>6. SpansInOrder(c, st, n)
  BY <1>1 DEF Sound, SpansInOrder
<1>7. Complete(c, t, p)
  <2> SUFFICES ASSUME NEW s \in Sessions, NEW i \in 1..Len(t), j.spans[s].state # "none",
                      InWindow(t[i], j.spans[s].start, j.spans[s].end), t[i] >= p
               PROVE  c.rows[i].session = s
    BY <1>1 DEF Complete
  <2>1. j.rows[i].session = s /\ s > 0
    BY DEF Sound, Complete, Sessions
  <2> QED BY <1>3, <2>1, JournalAssumption, SMTT(60) DEF Ids
<1> QED BY <1>4, <1>5, <1>6, <1>7 DEF Sound, c

\* The rows and spans that retention leaves of a journal.
LEMMA PrunedIsSound ==
  ASSUME NEW j \in Journals, NEW cutoff \in Int, NEW st \in Streams, NEW p \in Int, NEW n \in Nat,
         tape \in Seq(Nat), Len(tape) <= MaxTrades, Sound(j, tape, st, p, n), p <= cutoff
  PROVE  Sound(Pruned(j, cutoff), tape, st, cutoff, n)
<1> DEFINE c == Pruned(j, cutoff)
<1>1. \A i \in Ids : c.rows[i] = IF i \in Taped /\ tape[i] < cutoff THEN Absent ELSE j.rows[i]
  BY DEF Pruned, Journals
<1>2. \A s \in Sessions : c.spans[s] = j.spans[s] \/ c.spans[s] = NoSpan
  BY DEF Pruned, Journals
<1> HIDE DEF c
<1>3. RowsInOrder(c, tape, st)
  <2> SUFFICES ASSUME NEW i \in Ids
               PROVE  /\ RowInOrder(c.rows[i], st)
                      /\ i > st.seen => c.rows[i].session <= 0
                      /\ i > Len(tape) => c.rows[i] = Absent
    BY DEF RowsInOrder
  <2>1. CASE c.rows[i] = j.rows[i]
    BY <2>1 DEF Sound, RowsInOrder
  <2>2. CASE c.rows[i] = Absent
    <3>1. st.session \in Nat
      BY StreamFields
    <3> QED BY <2>2, <3>1 DEF RowInOrder, Absent
  <2> QED BY <1>1, <2>1, <2>2
<1>4. SpansInOrder(c, st, n)
  <2> SUFFICES ASSUME NEW s \in Sessions
               PROVE  /\ c.spans[s].state = "none" => c.spans[s] = NoSpan
                      /\ c.spans[s].state # "none" =>
                           /\ s <= st.session
                           /\ c.spans[s].end <= n \/ c.spans[s].end = c.spans[s].start
                      /\ s = st.session /\ st.known = FALSE => c.spans[s] = NoSpan
    BY DEF SpansInOrder
  <2>1. CASE c.spans[s] = j.spans[s]
    BY <2>1 DEF Sound, SpansInOrder
  <2>2. CASE c.spans[s] = NoSpan
    BY <2>2 DEF NoSpan
  <2> QED BY <1>2, <2>1, <2>2
<1>5. Complete(c, tape, cutoff)
  <2> SUFFICES ASSUME NEW s \in Sessions, NEW i \in Taped, c.spans[s].state # "none",
                      InWindow(tape[i], c.spans[s].start, c.spans[s].end), tape[i] >= cutoff
               PROVE  c.rows[i].session = s
    BY DEF Complete, Taped
  <2>1. c.spans[s] = j.spans[s]
    BY <1>2 DEF NoSpan
  <2>2. tape[i] \in Nat /\ tape[i] >= p /\ ~(tape[i] < cutoff)
    BY DEF Taped
  <2>3. j.rows[i].session = s
    BY <2>1, <2>2 DEF Sound, Complete, Taped
  <2>4. i \in Ids
    BY Bounds DEF Ids, Taped
  <2> QED BY <1>1, <2>2, <2>3, <2>4
<1>6. Ordered(c)
  <2> SUFFICES ASSUME NEW i \in Ids, NEW k \in Ids,
                      i < k, c.rows[i].session > 0, c.rows[i].session = c.rows[k].session
               PROVE  Before(c.rows[i], c.rows[k])
    BY DEF Ordered
  <2>1. c.rows[i] = j.rows[i] /\ c.rows[k] = j.rows[k]
    BY <1>1 DEF Absent
  <2> QED BY <2>1 DEF Sound, Ordered
<1> QED BY <1>3, <1>4, <1>5, <1>6 DEF Sound, c

\* A message that is recorded: its trades had no place, and the span ends where the
\* next message begins.
LEMMA RecordedIsSound ==
  ASSUME NEW j \in Journals, NEW st \in Streams, NEW st2 \in Streams, NEW last \in Taped, NEW ts \in Nat,
         TypeOK, TapeInOrder, st.session \in Sessions, st.phase = "up",
         Sound(j, tape, st, pruned, now), NothingSkipped(j, tape, st, pruned),
         st.seen < last, tape[last] <= ts, ts <= now, last < Len(tape) => ts <= tape[last + 1],
         st.known = TRUE => j.spans[st.session].state # "none",
         st.known \in BOOLEAN, st2.known = TRUE,
         st2.session = st.session, st2.message = st.message + 1, st2.seen = last
  PROVE  LET c == Recorded(j, st.session, st.message + 1, st.seen + 1 .. last, ts)
         IN  Sound(c, tape, st2, pruned, now) /\ NothingSkipped(c, tape, st2, pruned)
<1> DEFINE me == st.session
           first == st.seen + 1
           old == j.spans[me]
           span == Extended(old, FirstSpan(tape[first]), ts)
           c == Recorded(j, me, st.message + 1, first .. last, ts)
<1>1. /\ tape \in Seq(Nat) /\ Len(tape) \in Nat /\ now \in Nat /\ pruned \in Nat /\ me \in Nat /\ me > 0
      /\ st.seen \in Nat /\ first \in Taped /\ last \in Nat /\ first <= last /\ last <= Len(tape)
      /\ st.message \in Nat
  <2>1. tape \in Seq(Nat) /\ Len(tape) \in Nat /\ now \in Nat /\ pruned \in Nat
    BY DEF TypeOK
  <2>2. me \in Nat /\ st.seen \in Nat /\ st.message \in Nat
    BY StreamFields
  <2>3. me > 0
    BY Bounds DEF Sessions
  <2>4. last \in Nat /\ last <= Len(tape)
    BY <2>1 DEF Taped
  <2> QED BY <2>1, <2>2, <2>3, <2>4, SMTT(60) DEF Taped
<1>2. \A i \in Taped : i \in Ids /\ i \in Nat /\ tape[i] \in Nat
  <2> SUFFICES ASSUME NEW i \in Taped PROVE i \in Ids /\ i \in Nat /\ tape[i] \in Nat
    OBVIOUS
  <2>1. i \in Nat /\ 1 <= i /\ i <= Len(tape) /\ tape[i] \in Nat
    <3>1. i \in 1 .. Len(tape)
      BY DEF Taped
    <3> QED BY <1>1, <3>1, SMTT(60)
  <2>2. Len(tape) <= MaxTrades
    BY DEF TypeOK
  <2> QED BY <1>1, <2>1, <2>2, Bounds DEF Ids
<1>3. \A i \in Ids : i \in first .. last => j.rows[i] = Absent \/ j.rows[i] = Polled
  <2> SUFFICES ASSUME NEW i \in Ids, i \in first .. last PROVE j.rows[i] = Absent \/ j.rows[i] = Polled
    OBVIOUS
  <2>1. j.rows[i].session <= 0 /\ RowInOrder(j.rows[i], st)
    BY <1>1 DEF Sound, RowsInOrder, Ids
  <2>2. j.rows[i].session \in {-1, 0} \union (1 .. MaxSessions)
    BY DEF Journals, Rows, Sessions
  <2>3. j.rows[i].session \in {-1, 0}
    BY <2>1, <2>2, Bounds
  <2> QED BY <2>1, <2>3 DEF RowInOrder
<1>4. Min(first .. last) = first
  BY <1>1, FirstOfInterval
<1>5. \A i \in Ids : c.rows[i] = IF i \in first .. last
                                 THEN [session |-> me, message |-> st.message + 1, index |-> i - first] ELSE j.rows[i]
  BY <1>3, <1>4 DEF Recorded, Journals, Upsert, InMessage
<1>6. \A s \in Sessions : c.spans[s] = IF s = me THEN span ELSE j.spans[s]
  BY <1>4 DEF Recorded, Journals
<1>7. old \in Spans /\ old.start \in Nat /\ old.end \in Nat /\ FirstSpan(tape[first]) \in Nat
  <2>1. old \in Spans
    BY DEF Journals
  <2>2. tape[first] \in Nat
    BY <1>1, <1>2
  <2> QED BY <2>1, <2>2, SpanFields DEF FirstSpan
<1>8. old = NoSpan \/ old.state # "none"
  BY DEF Sound, SpansInOrder
<1>9. /\ span.start = IF old = NoSpan THEN tape[first] + 1 ELSE old.start
      /\ span.end = Larger(Larger(ts, span.start), old.end)
      /\ span.start \in Nat /\ span.end \in Nat /\ span.state = "open"
  BY <1>7 DEF Extended, FirstSpan, Larger
<1>10. old = NoSpan => old.end = 0
  BY DEF NoSpan
<1>11. old # NoSpan => old.end <= now \/ old.end = old.start
  BY <1>8 DEF Sound, SpansInOrder
<1> HIDE DEF c, span
<1>12. span.end <= now \/ span.end = span.start
  <2>1. CASE old = NoSpan
    BY <1>1, <1>7, <1>9, <1>10, <2>1 DEF Larger
  <2>2. CASE old # NoSpan
    <3>1. span.start = old.start /\ (old.end <= now \/ old.end = span.start)
      BY <1>9, <1>11, <2>2
    <3> HIDE DEF old
    <3> QED BY <1>1, <1>7, <1>9, <3>1 DEF Larger
  <2> QED BY <2>1, <2>2
<1>13. \A i \in Taped : i > last /\ InWindow(tape[i], span.start, span.end) =>
         old # NoSpan /\ InWindow(tape[i], old.start, old.end)
  <2> SUFFICES ASSUME NEW i \in Taped, i > last, InWindow(tape[i], span.start, span.end)
               PROVE  old # NoSpan /\ InWindow(tape[i], old.start, old.end)
    OBVIOUS
  <2>1. last + 1 \in Taped /\ last < Len(tape) /\ tape[last + 1] <= tape[i]
    <3>1. last + 1 \in Taped /\ last < Len(tape) /\ i \in Nat
      <4>1. i \in Nat /\ i <= Len(tape)
        BY <1>1 DEF Taped
      <4> QED BY <1>1, <4>1, SMTT(60) DEF Taped
    <3>2. CASE i = last + 1
      BY <1>2, <3>1, <3>2
    <3>3. CASE i > last + 1
      BY <3>1, <3>3 DEF TapeInOrder
    <3> QED BY <1>1, <3>1, <3>2, <3>3
  <2>2. ts <= tape[i]
    BY <1>2, <2>1
  <2> QED BY <1>2, <1>7, <1>9, <1>10, <2>2, SMTT(60) DEF Larger, InWindow
<1>14. \A i \in 1 .. last : tape[i] >= span.start /\ tape[i] >= pruned => c.rows[i].session = me
  <2> SUFFICES ASSUME NEW i \in 1 .. last, tape[i] >= span.start, tape[i] >= pruned PROVE c.rows[i].session = me
    OBVIOUS
  <2>1. i \in Taped /\ i \in Ids /\ i \in Nat
    BY <1>1, <1>2, SMTT(60) DEF Taped
  <2>2. CASE i \in first .. last
    <3>1. c.rows[i] = [session |-> me, message |-> st.message + 1, index |-> i - first]
      BY <1>5, <2>1, <2>2
    <3> QED BY <3>1
  <2>3. CASE i < first /\ old = NoSpan
    <3>1. tape[i] <= tape[first]
      BY <1>1, <2>1, <2>3 DEF TapeInOrder
    <3>2. tape[first] \in Nat /\ tape[i] \in Nat /\ span.start = tape[first] + 1
      BY <1>1, <1>2, <1>9, <2>1, <2>3
    <3> QED BY <3>1, <3>2
  <2>4. CASE i < first /\ old # NoSpan
    <3>1. j.rows[i].session = me
      <4>1. old.state # "none" /\ tape[i] >= old.start
        BY <1>8, <1>9, <2>4
      <4>2. i \in 1 .. st.seen
        BY <1>1, <2>1, <2>4
      <4> QED BY <4>1, <4>2 DEF NothingSkipped
    <3>2. i \notin first .. last
      BY <1>1, <2>1, <2>4
    <3> QED BY <1>5, <2>1, <3>1, <3>2
  <2> QED BY <1>1, <2>1, <2>2, <2>3, <2>4, SMTT(60)
<1>15. RowsInOrder(c, tape, st2)
  <2> SUFFICES ASSUME NEW i \in Ids
               PROVE  /\ RowInOrder(c.rows[i], st2)
                      /\ i > st2.seen => c.rows[i].session <= 0
                      /\ i > Len(tape) => c.rows[i] = Absent
    BY DEF RowsInOrder
  <2>1. /\ RowInOrder(j.rows[i], st)
        /\ i > st.seen => j.rows[i].session <= 0
        /\ i > Len(tape) => j.rows[i] = Absent
    BY DEF Sound, RowsInOrder
  <2>2. i \in Nat /\ j.rows[i].message \in Nat
    <3>1. j.rows[i] \in Rows
      BY DEF Journals
    <3>2. i \in Nat
      BY DEF Ids
    <3> QED BY <3>1, <3>2, RowFields
  <2>3. CASE i \in first .. last
    <3>1. c.rows[i] = [session |-> me, message |-> st.message + 1, index |-> i - first]
      BY <1>5, <2>3
    <3>2. i <= last /\ i <= Len(tape)
      BY <1>1, <2>2, <2>3
    <3>3. RowInOrder(c.rows[i], st2)
      BY <1>1, <3>1, SMTT(60) DEF RowInOrder
    <3> QED BY <1>1, <2>2, <3>2, <3>3
  <2>4. CASE i \notin first .. last
    <3>1. c.rows[i] = j.rows[i]
      BY <1>5, <2>4
    <3>2. RowInOrder(j.rows[i], st2)
      <4>1. j.rows[i].session = me => j.rows[i].message <= st.message + 1
        <5>1. j.rows[i].session = me => j.rows[i].message <= st.message
          BY <2>1 DEF RowInOrder
        <5> QED BY <1>1, <2>2, <5>1
      <4> QED BY <2>1, <4>1 DEF RowInOrder
    <3> QED BY <1>1, <2>1, <2>2, <2>4, <3>1, <3>2
  <2> QED BY <2>3, <2>4
<1>16. SpansInOrder(c, st2, now)
  <2> SUFFICES ASSUME NEW s \in Sessions
               PROVE  /\ c.spans[s].state = "none" => c.spans[s] = NoSpan
                      /\ c.spans[s].state # "none" =>
                           /\ s <= st2.session
                           /\ c.spans[s].end <= now \/ c.spans[s].end = c.spans[s].start
                      /\ s = st2.session /\ st2.known = FALSE => c.spans[s] = NoSpan
    BY DEF SpansInOrder
  <2>1. CASE s = me
    <3>1. c.spans[s] = span /\ span.state = "open" /\ s <= st2.session
      <4>1. s <= st2.session
        BY <1>1, <2>1
      <4> QED BY <1>6, <1>9, <2>1, <4>1
    <3> QED BY <1>12, <3>1
  <2>2. CASE s # me
    BY <1>6, <2>2 DEF Sound, SpansInOrder
  <2> QED BY <2>1, <2>2
<1>17. Complete(c, tape, pruned)
  <2> SUFFICES ASSUME NEW s \in Sessions, NEW i \in Taped, c.spans[s].state # "none",
                      InWindow(tape[i], c.spans[s].start, c.spans[s].end), tape[i] >= pruned
               PROVE  c.rows[i].session = s
    BY DEF Complete, Taped
  <2>1. CASE s # me
    <3>1. j.rows[i].session = s
      BY <1>6, <2>1 DEF Sound, Complete, Taped
    <3>2. s > 0
      BY Bounds DEF Sessions
    <3>3. i \notin first .. last
      BY <1>2, <1>3, <3>1, <3>2 DEF Absent, Polled
    <3> QED BY <1>2, <1>5, <3>1, <3>3
  <2>2. CASE s = me /\ i <= last
    <3>1. tape[i] >= span.start
      BY <1>6, <2>2 DEF InWindow
    <3> QED BY <1>1, <1>2, <1>14, <2>2, <3>1, SMTT(60) DEF Taped
  <2>3. CASE s = me /\ i > last
    <3>1. old.state # "none" /\ InWindow(tape[i], old.start, old.end)
      BY <1>6, <1>8, <1>13, <2>3
    <3>2. j.rows[i].session = me
      BY <3>1 DEF Sound, Complete, Taped
    <3>3. j.rows[i].session <= 0
      <4>1. i > st.seen /\ i \in Ids
        BY <1>1, <1>2, <2>3
      <4> QED BY <4>1 DEF Sound, RowsInOrder
    <3> QED BY <1>1, <3>2, <3>3
  <2> QED BY <1>1, <1>2, <2>1, <2>2, <2>3
<1>18. Ordered(c)
  <2> SUFFICES ASSUME NEW i \in Ids, NEW k \in Ids,
                      i < k, c.rows[i].session > 0, c.rows[i].session = c.rows[k].session
               PROVE  Before(c.rows[i], c.rows[k])
    BY DEF Ordered
  <2>1. i \in Nat /\ k \in Nat
    BY DEF Ids
  <2>2. CASE i \in first .. last /\ k \in first .. last
    <3>1. /\ c.rows[i] = [session |-> me, message |-> st.message + 1, index |-> i - first]
          /\ c.rows[k] = [session |-> me, message |-> st.message + 1, index |-> k - first]
      BY <1>5, <2>2
    <3>2. i - first < k - first
      BY <1>1, <2>1
    <3> QED BY <3>1, <3>2 DEF Before
  <2>3. CASE i \notin first .. last /\ k \notin first .. last
    BY <1>5, <2>3 DEF Sound, Ordered
  <2>4. CASE i \notin first .. last /\ k \in first .. last
    <3>1. c.rows[i] = j.rows[i] /\ c.rows[k].session = me /\ c.rows[k].message = st.message + 1
      <4>1. c.rows[k] = [session |-> me, message |-> st.message + 1, index |-> k - first]
        BY <1>5, <2>4
      <4>2. c.rows[i] = j.rows[i]
        BY <1>5, <2>4
      <4> QED BY <4>1, <4>2
    <3>2. j.rows[i].message <= st.message /\ j.rows[i].message \in Nat
      BY <3>1, RowFields DEF Sound, RowsInOrder, RowInOrder, Journals
    <3> QED BY <1>1, <3>1, <3>2, SMTT(60) DEF Before
  <2>5. CASE i \in first .. last /\ k \notin first .. last
    <3>1. k > st.seen /\ c.rows[k] = j.rows[k] /\ c.rows[i].session = me
      <4>1. c.rows[i] = [session |-> me, message |-> st.message + 1, index |-> i - first]
        BY <1>5, <2>5
      <4>2. k > st.seen
        BY <1>1, <2>1, <2>5
      <4>3. c.rows[k] = j.rows[k]
        BY <1>5, <2>5
      <4> QED BY <4>1, <4>2, <4>3
    <3>2. j.rows[k].session <= 0
      BY <3>1 DEF Sound, RowsInOrder
    <3> QED BY <1>1, <3>1, <3>2
  <2> QED BY <2>2, <2>3, <2>4, <2>5
<1>19. NothingSkipped(c, tape, st2, pruned)
  <2>1. c.spans[me] = span
    BY <1>6
  <2> QED BY <1>14, <2>1 DEF NothingSkipped
<1> QED BY <1>15, <1>16, <1>17, <1>18, <1>19 DEF Sound, c

-----------------------------------------------------------------------------
(* Types are kept.                                                         *)

LEMMA DownIsTyped == ASSUME TypeOK PROVE Down \in Streams /\ Down.seen = stream.seen
BY DEF TypeOK, Down, Streams

\* Every action leaves every variable with its type.
LEMMA TypePreserved == ASSUME TypeOK, TapeInOrder, SessionInOrder, [Next]_vars PROVE TypeOK'
<1> USE DEF TypeOK
<1>1. CASE Tick
  BY <1>1 DEF Tick, Taped
<1>2. CASE Match
  <2>1. tape' \in Seq(Nat) /\ Len(tape') = Len(tape) + 1 /\ Len(tape) \in Nat
    BY <1>2 DEF Match
  <2>2. Len(tape') <= MaxTrades /\ stream.seen <= Len(tape') /\ stream.seen \in Nat
    BY <1>2, <2>1, Bounds, StreamFields DEF Match
  <2>3. Taped \subseteq Taped'
    BY <2>1 DEF Taped
  <2> QED BY <1>2, <2>1, <2>2, <2>3 DEF Match
<1>3. CASE Connect
  <2>1. Len(tape) \in Nat /\ stream.session + 1 \in 0..MaxSessions
    BY <1>3, Bounds DEF Connect, Streams
  <2>2. stream' \in Streams /\ stream'.seen = Len(tape)
    BY <1>3, <2>1 DEF Connect, Streams
  <2> QED BY <1>3, <2>1, <2>2 DEF Connect, Taped
<1>4. CASE Receive
  <2>1. PICK last \in Ids, ts \in 1..MaxNow, kept \in {0, stream.pending + 1} :
          LET m == stream.message + 1
              journal == Recorded(txn, stream.session, m, stream.seen + 1 .. last, ts)
          IN /\ NextMessage(last, ts)
             /\ stream' = [stream EXCEPT !.known = TRUE, !.message = m, !.seen = last, !.pending = kept]
             /\ IF kept = 0 THEN Commit(journal) ELSE txn' = journal /\ UNCHANGED disk
    BY <1>4 DEF Receive
  <2> DEFINE journal == Recorded(txn, stream.session, stream.message + 1, stream.seen + 1 .. last, ts)
  <2>2. /\ stream.session \in Sessions /\ stream.message + 1 \in Nat /\ stream.seen \in Nat /\ kept \in Nat
        /\ ts \in Nat /\ Len(tape) \in Nat
    <3>1. stream.message \in Nat /\ stream.seen \in Nat /\ stream.pending \in Nat
      BY StreamFields
    <3>2. stream.session \in Sessions
      BY <1>4 DEF Receive, SessionInOrder
    <3>3. kept \in Nat /\ ts \in Nat /\ Len(tape) \in Nat
      BY <2>1, <3>1, Bounds
    <3> QED BY <3>1, <3>2, <3>3
  <2>3. last \in stream.seen + 1 .. Len(tape)
    BY <2>1 DEF NextMessage
  <2>4. last \in Taped /\ stream.seen + 1 \in Taped /\ stream.seen + 1 <= last /\ last \in Nat /\ last <= Len(tape)
    BY <2>2, <2>3 DEF Taped
  <2>5. journal \in Journals
    BY <2>2, <2>4, RecordedIsTyped
  <2>6. txn' \in Journals /\ disk' \in Journals
    BY <2>1, <2>5 DEF Commit
  <2>7. stream' \in Streams /\ stream'.seen = last
    BY <2>1, <2>2, <2>4 DEF Streams
  <2> QED BY <1>4, <2>4, <2>6, <2>7 DEF Receive, Taped
<1>5. CASE IdleCommit
  <2>1. stream' \in Streams /\ stream'.seen = stream.seen
    BY <1>5 DEF IdleCommit, Streams
  <2> QED BY <1>5, <2>1 DEF IdleCommit, Commit, Taped
<1>6. CASE EndSession
  <2>1. Closed(txn, stream.session) \in Journals
    BY ClosedIsTyped DEF Streams
  <2> QED BY <1>6, <2>1, DownIsTyped DEF EndSession, Commit, Taped
<1>7. CASE BatchFails
  <2>1. Closed(disk, stream.session) \in Journals
    BY ClosedIsTyped DEF Streams
  <2> QED BY <1>7, <2>1, DownIsTyped DEF BatchFails, Commit, Taped
<1>8. CASE Crash
  <2>1. poll' \in Polls /\ poll'.rows \subseteq Taped
    <3>1. poll' = poll \/ poll' = [poll EXCEPT !.phase = "idle", !.rows = {}, !.at = 0]
      BY <1>8 DEF Crash
    <3>2. [poll EXCEPT !.phase = "idle", !.rows = {}, !.at = 0] \in Polls
      BY DEF Polls
    <3>3. [poll EXCEPT !.phase = "idle", !.rows = {}, !.at = 0].rows = {}
      BY DEF Polls
    <3> QED BY <3>1, <3>2, <3>3
  <2> QED BY <1>8, <2>1, DownIsTyped DEF Crash, Taped
<1>9. CASE PollIsDue
  <2>1. poll' \in Polls /\ poll'.rows = poll.rows
    BY <1>9 DEF PollIsDue, Polls
  <2> QED BY <1>9, <2>1 DEF PollIsDue, Taped
<1>10. CASE Fetch
  <2>1. Len(tape) \in Nat /\ Taped \subseteq Ids
    BY Bounds DEF Taped, Ids
  <2>2. poll' \in Polls /\ poll'.rows \subseteq Taped
    BY <1>10, <2>1 DEF Fetch, Polls
  <2> QED BY <1>10, <2>2 DEF Fetch, Taped
<1>11. CASE Record
  <2>1. poll.rows \in SUBSET Ids /\ poll.at \in Nat
    BY DEF Polls
  <2>2. PolledInto(disk, poll.rows, poll.at) \in Journals
    BY <2>1, PolledIsTyped
  <2>3. poll' \in Polls /\ poll'.rows = {}
    BY <1>11 DEF Record, Polls
  <2> QED BY <1>11, <2>2, <2>3 DEF Record, Commit, Taped
<1>12. CASE GiveUp
  <2>1. poll' \in Polls /\ poll'.rows = {}
    BY <1>12 DEF GiveUp, Polls
  <2> QED BY <1>12, <2>1 DEF GiveUp, Taped
<1>13. CASE Prune
  <2>1. pruned' \in Nat
    BY <1>13, JournalAssumption DEF Prune
  <2>2. Pruned(disk, pruned') \in Journals
    BY <2>1, PrunedIsTyped
  <2> QED BY <1>13, <2>1, <2>2 DEF Prune, Commit, Taped
<1>14. CASE UNCHANGED vars
  BY <1>14 DEF vars, Taped
<1> QED BY <1>1, <1>2, <1>3, <1>4, <1>5, <1>6, <1>7, <1>8, <1>9, <1>10, <1>11, <1>12, <1>13, <1>14 DEF Next

-----------------------------------------------------------------------------
(* The invariant.                                                          *)

LEMMA JournalInit == Init => JournalInvariant
<1> SUFFICES ASSUME Init PROVE JournalInvariant
  OBVIOUS
<1> USE Bounds DEF Init
<1>1. EmptyJournal \in Journals
  BY DEF EmptyJournal, Journals, Rows, Spans, Absent, NoSpan
<1>2. stream \in Streams /\ stream.seen = 0 /\ poll \in Polls /\ Len(tape) = 0
  BY DEF Streams, Polls
<1>3. TypeOK
  BY <1>1, <1>2 DEF TypeOK
<1>4. TapeInOrder /\ SessionInOrder
  BY <1>2 DEF TapeInOrder, SessionInOrder, Taped, Up, Quiet
<1>5. \A i \in Ids : EmptyJournal.rows[i] = Absent
  BY DEF EmptyJournal
<1>6. \A u \in Sessions : EmptyJournal.spans[u] = NoSpan
  BY DEF EmptyJournal
<1>7. RowsInOrder(EmptyJournal, tape, stream)
  BY <1>5 DEF RowsInOrder, RowInOrder, Absent
<1>8. SpansInOrder(EmptyJournal, stream, now)
  BY <1>6 DEF SpansInOrder, NoSpan
<1>9. Complete(EmptyJournal, tape, pruned)
  BY <1>2 DEF Complete
<1>10. Ordered(EmptyJournal)
  BY <1>5 DEF Ordered, Absent
<1>11. NothingSkipped(txn, tape, stream, pruned)
  BY DEF NothingSkipped
<1> QED BY <1>3, <1>4, <1>7, <1>8, <1>9, <1>10, <1>11 DEF JournalInvariant, Sound

\* Both views stay sound, and nothing is skipped, when only time, the tape or the
\* stream goes on.
LEMMA BothLater ==
  ASSUME JournalInvariant, TypeOK', now <= now', pruned <= pruned',
         Prolongs(tape, tape', now), Continues(stream, stream'), UNCHANGED <<txn, disk>>
  PROVE  Sound(txn, tape, stream, pruned, now)' /\ Sound(disk, tape, stream, pruned, now)'
<1>1. /\ txn \in Journals /\ disk \in Journals /\ stream \in Streams /\ stream' \in Streams
      /\ tape \in Seq(Nat) /\ tape' \in Seq(Nat) /\ now \in Nat /\ now' \in Nat /\ pruned \in Int /\ pruned' \in Int
  BY DEF JournalInvariant, TypeOK
<1>2. Sound(txn, tape', stream', pruned', now')
  BY <1>1, SoundLater DEF JournalInvariant
<1>3. Sound(disk, tape', stream', pruned', now')
  BY <1>1, SoundLater DEF JournalInvariant
<1> QED BY <1>2, <1>3

\* What only ends the session.
LEMMA DownContinues ==
  ASSUME TypeOK
  PROVE  /\ Continues(stream, Down) /\ Prolongs(tape, tape, now)
         /\ Down.phase = "down" /\ Down.pending = 0 /\ Down.session = stream.session
<1>1. /\ Down.session = stream.session /\ Down.seen = stream.seen /\ Down.message = stream.message
      /\ Down.known = stream.known /\ Down.phase = "down" /\ Down.pending = 0
  BY DEF Down, TypeOK, Streams
<1>2. stream.session \in Nat /\ stream.seen \in Nat /\ stream.message \in Nat /\ Len(tape) \in Nat
  BY StreamFields DEF TypeOK
<1> QED BY <1>1, <1>2 DEF Continues, Prolongs

\* The order of tape and sessions: what can disturb it is time and a match.
LEMMA TapeKept == ASSUME TypeOK, TapeInOrder, [Next]_vars PROVE TapeInOrder'
<1>1. CASE Tick
  BY <1>1 DEF Tick, TapeInOrder, TypeOK, Taped
<1>2. CASE Match
  <2>1. /\ tape \in Seq(Nat) /\ now \in Nat /\ now' = now /\ now >= 1 /\ Len(tape) \in Nat
        /\ Len(tape') = Len(tape) + 1 /\ tape'[Len(tape) + 1] = now
        /\ \A i \in Taped : tape'[i] = tape[i] /\ tape[i] \in 1..now /\ i \in Nat
    BY <1>2 DEF Match, TypeOK, TapeInOrder, Taped
  <2>2. \A i \in Taped' : i \in Taped \/ i = Len(tape) + 1
    BY <2>1 DEF Taped
  <2>3. \A i \in Taped' : tape'[i] \in 1..now
    BY <2>1, <2>2
  <2>4. \A i, k \in Taped' : i < k => tape'[i] <= tape'[k]
    <3> SUFFICES ASSUME NEW i \in Taped', NEW k \in Taped', i < k PROVE tape'[i] <= tape'[k]
      OBVIOUS
    <3>1. i \in Taped
      BY <2>1, <2>2 DEF Taped
    <3>2. CASE k \in Taped
      BY <2>1, <3>1, <3>2 DEF TapeInOrder
    <3>3. CASE k = Len(tape) + 1
      BY <2>1, <3>1, <3>3
    <3> QED BY <2>2, <3>2, <3>3
  <2> QED BY <2>1, <2>3, <2>4 DEF TapeInOrder
<1>3. CASE UNCHANGED <<now, tape>>
  BY <1>3 DEF TapeInOrder, Taped
<1> QED BY <1>1, <1>2, <1>3 DEF Next, vars, Connect, Receive, IdleCommit, EndSession, BatchFails, Crash,
                                PollIsDue, Fetch, Record, GiveUp, Prune

LEMMA SessionKept == ASSUME TypeOK, SessionInOrder, [Next]_vars PROVE SessionInOrder'
<1> USE DEF SessionInOrder, Up, Quiet
<1>1. CASE Tick \/ Match
  BY <1>1 DEF Tick, Match, TypeOK
<1>2. CASE Connect
  <2>1. stream'.session \in Sessions /\ stream'.pending = 0 /\ stream'.phase = "up"
    BY <1>2, Bounds, StreamFields DEF Connect, Sessions, TypeOK
  <2> QED BY <1>2, <2>1 DEF Connect
<1>3. CASE Receive
  <2>1. stream.phase = "up" /\ stream.session \in Sessions /\ stream.pending \in Nat
    BY <1>3, StreamFields DEF Receive, TypeOK
  <2>2. PICK kept \in {0, stream.pending + 1} :
          /\ stream'.phase = "up" /\ stream'.session = stream.session /\ stream'.pending = kept
          /\ kept = 0 => txn' = disk'
    BY <1>3, <2>1 DEF Receive, Commit, TypeOK, Streams
  <2> QED BY <1>3, <2>1, <2>2 DEF Receive
<1>4. CASE IdleCommit
  BY <1>4 DEF IdleCommit, Commit, TypeOK, Streams
<1>5. CASE EndSession \/ BatchFails \/ Crash
  <2>1. txn' = disk' /\ pruned' = pruned /\ now' = now /\ stream' = Down
    BY <1>5 DEF EndSession, BatchFails, Crash, Commit
  <2> QED BY <2>1, DownContinues
<1>6. CASE PollIsDue \/ Fetch \/ GiveUp
  BY <1>6 DEF PollIsDue, Fetch, GiveUp
<1>7. CASE Record
  BY <1>7 DEF Record, Commit
<1>8. CASE Prune
  BY <1>8, JournalAssumption DEF Prune, Commit, TypeOK
<1>9. CASE UNCHANGED vars
  BY <1>9 DEF vars
<1> QED BY <1>1, <1>2, <1>3, <1>4, <1>5, <1>6, <1>7, <1>8, <1>9 DEF Next

\* Every step keeps both views sound and skips nothing.
LEMMA SoundKept ==
  ASSUME JournalInvariant, TypeOK', [Next]_vars
  PROVE  /\ Sound(txn, tape, stream, pruned, now)' /\ Sound(disk, tape, stream, pruned, now)'
         /\ NothingSkipped(txn, tape, stream, pruned)'
<1>0. /\ TypeOK /\ TapeInOrder /\ SessionInOrder
      /\ txn \in Journals /\ disk \in Journals /\ stream \in Streams /\ tape \in Seq(Nat)
      /\ Len(tape) \in Nat /\ Len(tape) <= MaxTrades /\ stream.seen \in Nat /\ stream.seen <= Len(tape)
      /\ now \in Nat /\ pruned \in Nat /\ stream.session \in 0..MaxSessions
      /\ Sound(txn, tape, stream, pruned, now) /\ Sound(disk, tape, stream, pruned, now)
      /\ NothingSkipped(txn, tape, stream, pruned)
  BY StreamFields, SMTT(60) DEF JournalInvariant, TypeOK, Streams
<1>1. CASE Tick
  <2>1. Prolongs(tape, tape', now) /\ Continues(stream, stream')
    BY <1>0, <1>1, StreamFields DEF Tick, Prolongs, Continues
  <2> QED BY <1>0, <1>1, <2>1, BothLater DEF Tick
<1>2. CASE Match
  <2>1. Prolongs(tape, tape', now) /\ Continues(stream, stream')
    BY <1>0, <1>2, StreamFields DEF Match, Prolongs, Continues
  <2>2. NothingSkipped(txn, tape, stream, pruned)'
    BY <1>0, <1>2, <2>1 DEF Match, NothingSkipped, Prolongs
  <2> QED BY <1>0, <1>2, <2>1, <2>2, BothLater DEF Match
<1>3. CASE Connect
  <2>1. Prolongs(tape, tape', now) /\ Continues(stream, stream')
    BY <1>0, <1>3 DEF Connect, Prolongs, Continues
  <2>2. stream'.session \in Sessions /\ stream'.session > stream.session
    BY <1>0, <1>3, Bounds DEF Connect, Sessions
  <2>3. txn.spans[stream'.session].state = "none"
    BY <1>0, <2>2 DEF Sound, SpansInOrder, Sessions
  <2> QED BY <1>0, <1>3, <2>1, <2>3, BothLater DEF Connect, NothingSkipped
<1>4. CASE Receive
  <2>1. PICK last \in Ids, ts \in 1..MaxNow, kept \in {0, stream.pending + 1} :
          LET m == stream.message + 1
              journal == Recorded(txn, stream.session, m, stream.seen + 1 .. last, ts)
          IN /\ NextMessage(last, ts)
             /\ stream' = [stream EXCEPT !.known = TRUE, !.message = m, !.seen = last, !.pending = kept]
             /\ IF kept = 0 THEN Commit(journal) ELSE txn' = journal /\ UNCHANGED disk
    BY <1>4 DEF Receive
  <2> DEFINE journal == Recorded(txn, stream.session, stream.message + 1, stream.seen + 1 .. last, ts)
  <2>2. /\ stream.phase = "up" /\ stream.session \in Sessions /\ UNCHANGED <<now, tape, pruned>>
        /\ stream.known = TRUE => txn.spans[stream.session].state # "none"
    BY <1>0, <1>4 DEF Receive, Up, SessionInOrder, SpanIsGone
  <2>3. /\ last \in Taped /\ last \in Nat /\ stream.seen < last /\ ts \in Nat
        /\ tape[last] <= ts /\ ts <= now /\ (last < Len(tape) => ts <= tape[last + 1])
    <3>1. last \in stream.seen + 1 .. Len(tape) /\ ts \in tape[last] .. now /\ (last < Len(tape) => ts <= tape[last + 1])
      BY <2>1 DEF NextMessage
    <3>2. last \in Taped /\ last \in Nat /\ stream.seen < last
      BY <1>0, <3>1 DEF Taped
    <3>3. tape[last] \in Nat
      BY <1>0, <3>2 DEF Taped
    <3>4. ts \in Nat
      BY Bounds
    <3> QED BY <1>0, <3>1, <3>2, <3>3, <3>4
  <2>4. /\ stream' \in Streams /\ stream'.session = stream.session /\ stream'.message = stream.message + 1
        /\ stream'.seen = last /\ stream'.known = TRUE /\ stream.known \in BOOLEAN /\ stream.message \in Nat
    BY <1>0, <2>1, StreamFields DEF Streams, TypeOK
  <2>5. Sound(journal, tape, stream', pruned, now) /\ NothingSkipped(journal, tape, stream', pruned)
    <3> HIDE DEF journal
    <3> QED BY <1>0, <2>2, <2>3, <2>4, RecordedIsSound DEF journal
  <2>6. Continues(stream, stream') /\ Prolongs(tape, tape, now)
    BY <1>0, <2>3, <2>4, SMTT(60) DEF Continues, Prolongs
  <2>7. Sound(disk, tape, stream', pruned, now)
    BY <1>0, <2>4, <2>6, SoundLater
  <2>8. txn' = journal /\ (disk' = journal \/ disk' = disk)
    BY <2>1 DEF Commit
  <2> QED BY <2>2, <2>5, <2>7, <2>8
<1>5. CASE IdleCommit
  <2>1. /\ stream' \in Streams /\ stream'.session = stream.session /\ stream'.message = stream.message
        /\ stream'.seen = stream.seen /\ stream'.known = stream.known /\ stream'.phase = stream.phase
    BY <1>0, <1>5 DEF IdleCommit, Streams
  <2>2. Continues(stream, stream') /\ Prolongs(tape, tape, now)
    BY <1>0, <2>1, StreamFields DEF Continues, Prolongs
  <2>3. Sound(txn, tape, stream', pruned, now)
    BY <1>0, <2>1, <2>2, SoundLater
  <2>4. NothingSkipped(txn, tape, stream', pruned)
    BY <1>0, <2>1 DEF NothingSkipped
  <2> QED BY <1>5, <2>3, <2>4 DEF IdleCommit, Commit
<1>6. CASE EndSession \/ BatchFails \/ Crash
  <2>1. stream' = Down /\ UNCHANGED <<now, tape, pruned>>
    BY <1>6 DEF EndSession, BatchFails, Crash
  <2>2. Down \in Streams /\ Continues(stream, Down) /\ Prolongs(tape, tape, now) /\ Down.phase = "down"
    BY <1>0, DownIsTyped, DownContinues
  <2>3. Sound(txn, tape, Down, pruned, now) /\ Sound(disk, tape, Down, pruned, now)
    BY <1>0, <2>2, SoundLater
  <2>4. \A j \in {txn, disk} : Sound(Closed(j, stream.session), tape, Down, pruned, now)
    BY <1>0, <2>3, ClosedIsSound
  <2>5. /\ txn' \in {Closed(txn, stream.session), Closed(disk, stream.session), disk}
        /\ disk' = txn'
    BY <1>6 DEF EndSession, BatchFails, Crash, Commit
  <2>6. NothingSkipped(txn', tape, Down, pruned)
    BY <2>2 DEF NothingSkipped
  <2> QED BY <2>1, <2>3, <2>4, <2>5, <2>6
<1>7. CASE PollIsDue \/ Fetch \/ GiveUp \/ UNCHANGED vars
  <2>1. UNCHANGED <<now, tape, stream, txn, disk, pruned>>
    BY <1>7 DEF PollIsDue, Fetch, GiveUp, vars
  <2> QED BY <1>0, <2>1
<1>8. CASE Record
  <2>1. txn = disk /\ UNCHANGED <<now, tape, stream, pruned>>
        /\ txn' = PolledInto(disk, poll.rows, poll.at) /\ disk' = txn'
    BY <1>0, <1>8 DEF Record, Commit, SessionInOrder
  <2>2. poll.rows \in SUBSET Ids /\ poll.rows \subseteq 1..Len(tape)
    BY <1>0 DEF TypeOK, Polls, Taped
  <2>3. Sound(txn', tape, stream, pruned, now)
    BY <1>0, <2>1, <2>2, PolledIsSound
  <2>4. NothingSkipped(txn', tape, stream, pruned)
    <3> SUFFICES ASSUME stream.phase = "up", txn'.spans[stream.session].state # "none", NEW i \in 1..stream.seen,
                        tape[i] >= txn'.spans[stream.session].start, tape[i] >= pruned
                 PROVE  txn'.rows[i].session = stream.session
      BY DEF NothingSkipped
    <3>1. txn'.spans = txn.spans
      BY <1>0, <2>1 DEF PolledInto, Journals
    <3>2. txn.rows[i].session = stream.session
      BY <1>0, <3>1 DEF NothingSkipped
    <3>3. stream.session > 0 /\ i \in Ids
      BY <1>0, Bounds DEF SessionInOrder, Up, Sessions, Ids
    <3>4. txn'.rows[i] = txn.rows[i]
      BY <1>0, <2>1, <3>2, <3>3 DEF PolledInto, Journals, Upsert, Absent, Polled
    <3> QED BY <3>2, <3>4
  <2> QED BY <2>1, <2>3, <2>4
<1>9. CASE Prune
  <2>1. txn = disk /\ UNCHANGED <<now, tape, stream>> /\ txn' = Pruned(disk, pruned') /\ disk' = txn'
    BY <1>0, <1>9 DEF Prune, Commit, SessionInOrder
  <2>2. pruned' \in Nat /\ pruned <= pruned'
    BY <1>0, <1>9, JournalAssumption, SMTT(60) DEF Prune
  <2>3. Sound(txn', tape, stream, pruned', now)
    BY <1>0, <2>1, <2>2, PrunedIsSound
  <2>4. NothingSkipped(txn', tape, stream, pruned')
    <3> SUFFICES ASSUME stream.phase = "up", txn'.spans[stream.session].state # "none", NEW i \in 1..stream.seen,
                        tape[i] >= txn'.spans[stream.session].start, tape[i] >= pruned'
                 PROVE  txn'.rows[i].session = stream.session
      BY DEF NothingSkipped
    <3>1. stream.session \in Sessions /\ i \in Ids /\ tape[i] \in Nat
      BY <1>0, Bounds DEF SessionInOrder, Up, Ids
    <3>2. txn'.spans[stream.session] = txn.spans[stream.session]
      BY <1>0, <2>1, <3>1 DEF Pruned, Journals, NoSpan
    <3>3. txn.rows[i].session = stream.session
      BY <1>0, <2>2, <3>1, <3>2 DEF NothingSkipped
    <3>4. txn'.rows[i] = txn.rows[i]
      BY <1>0, <2>1, <2>2, <3>1 DEF Pruned, Journals
    <3> QED BY <3>3, <3>4
  <2> QED BY <2>1, <2>3, <2>4
<1> QED BY <1>1, <1>2, <1>3, <1>4, <1>5, <1>6, <1>7, <1>8, <1>9 DEF Next

\* The invariant of the journal holds in every reachable state.
THEOREM JournalIsSound == Spec => []JournalInvariant
<1>1. JournalInvariant /\ [Next]_vars => JournalInvariant'
  BY TypePreserved, TapeKept, SessionKept, SoundKept DEF JournalInvariant
<1> QED BY JournalInit, <1>1, PTL DEF Spec

\* Every variable keeps its type.
THEOREM JournalIsTyped == Spec => []TypeOK
<1>1. JournalInvariant => TypeOK
  BY DEF JournalInvariant
<1> QED BY JournalIsSound, <1>1, PTL

\* A path that is replayed as exact holds every trade of its window in the order of the
\* matches, for any number of sessions, trades, rollbacks, crashes and polls.
THEOREM ExactPathsHold == Spec => []ExactPathsAreComplete
<1>1. JournalInvariant => ExactPathsAreComplete
  <2> SUFFICES ASSUME JournalInvariant, NEW from \in 1..MaxNow, NEW to \in 1..MaxNow, from >= pruned,
                      NEW s \in Exact(from, to)
               PROVE  /\ \A i \in Taped : InWindow(tape[i], from, to) => disk.rows[i].session = s
                      /\ \A i, k \in PathOf(s, from, to) : i < k => Before(disk.rows[i], disk.rows[k])
    BY DEF ExactPathsAreComplete
  <2>1. /\ s \in Sessions /\ disk.spans[s].state # "none"
        /\ disk.spans[s].start <= from /\ disk.spans[s].end >= to
    BY DEF Exact, Claims
  <2>2. /\ from \in Nat /\ to \in Nat /\ pruned \in Nat /\ disk.spans[s].start \in Nat /\ disk.spans[s].end \in Nat
    BY <2>1, Bounds, SpanFields DEF JournalInvariant, TypeOK, Journals
  <2>3. ASSUME NEW i \in Taped, InWindow(tape[i], from, to) PROVE disk.rows[i].session = s
    <3>1. tape[i] \in Nat
      BY DEF JournalInvariant, TypeOK, Taped
    <3>2. InWindow(tape[i], disk.spans[s].start, disk.spans[s].end) /\ tape[i] >= pruned
      BY <2>1, <2>2, <2>3, <3>1 DEF InWindow
    <3> QED BY <2>1, <3>2 DEF JournalInvariant, Sound, Complete, Taped
  <2>4. ASSUME NEW i \in PathOf(s, from, to), NEW k \in PathOf(s, from, to), i < k
        PROVE  Before(disk.rows[i], disk.rows[k])
    <3>1. i \in Ids /\ k \in Ids
      BY Bounds DEF PathOf, Taped, Ids, JournalInvariant, TypeOK
    <3>2. disk.rows[i].session = s /\ disk.rows[k].session = s /\ s > 0
      BY <2>1, Bounds DEF PathOf, Sessions
    <3> QED BY <2>4, <3>1, <3>2 DEF JournalInvariant, Sound, Ordered
  <2> QED BY <2>3, <2>4
<1> QED BY JournalIsSound, <1>1, PTL

-----------------------------------------------------------------------------
(* Places.                                                                 *)

\* The open transaction has every place that is committed.
PlacesAgree == \A i \in Ids : disk.rows[i].session > 0 => txn.rows[i] = disk.rows[i]

\* A row with a place is as it was, in the view of the session and on disk.
Places(j, j2) == \A i \in Ids : j.rows[i].session > 0 => j2.rows[i] = j.rows[i]

\* A message writes the places of its trades only where there is none.
LEMMA RecordedKeepsPlaces ==
  ASSUME NEW j \in Journals, NEW s, NEW m, NEW ids, NEW ts
  PROVE  Places(j, Recorded(j, s, m, ids, ts))
BY DEF Places, Recorded, Upsert, Journals, Absent, Polled

LEMMA PolledKeepsPlaces ==
  ASSUME NEW j \in Journals, NEW ids, NEW snapshot
  PROVE  Places(j, PolledInto(j, ids, snapshot))
BY DEF Places, PolledInto, Upsert, Journals, Absent, Polled

LEMMA ClosedKeepsPlaces ==
  ASSUME NEW j \in Journals, NEW s
  PROVE  Closed(j, s).rows = j.rows
BY DEF Closed, Journals

\* What a step does to the places.
LEMMA PlacesStep ==
  ASSUME JournalInvariant, PlacesAgree, [Next]_vars
  PROVE  /\ PlacesAgree'
         /\ \A i \in Ids : disk.rows[i].session > 0 =>
              disk'.rows[i] = disk.rows[i] \/ (tape[i] < pruned' /\ disk'.rows[i] = Absent)
<1>0. txn \in Journals /\ disk \in Journals /\ SessionInOrder
  BY DEF JournalInvariant, TypeOK
<1>1. CASE UNCHANGED <<txn, disk>>
  BY <1>1 DEF PlacesAgree
<1>2. CASE Receive
  <2>1. PICK last \in Ids, ts \in 1..MaxNow :
          LET journal == Recorded(txn, stream.session, stream.message + 1, stream.seen + 1 .. last, ts)
          IN  txn' = journal /\ (disk' = journal \/ disk' = disk)
    BY <1>2 DEF Receive, Commit
  <2>2. Places(txn, txn')
    BY <1>0, <2>1, RecordedKeepsPlaces
  <2> QED BY <2>1, <2>2 DEF PlacesAgree, Places
<1>3. CASE IdleCommit \/ EndSession \/ BatchFails \/ Crash
  <2>1. txn' = disk' /\ (txn'.rows = txn.rows \/ txn'.rows = disk.rows)
    BY <1>0, <1>3, ClosedKeepsPlaces DEF IdleCommit, EndSession, BatchFails, Crash, Commit
  <2> QED BY <2>1 DEF PlacesAgree
<1>4. CASE Record
  <2>1. txn' = disk' /\ Places(disk, disk')
    BY <1>0, <1>4, PolledKeepsPlaces DEF Record, Commit
  <2> QED BY <2>1 DEF PlacesAgree, Places
<1>5. CASE Prune
  <2>1. txn' = disk' /\ disk' = Pruned(disk, pruned')
    BY <1>5 DEF Prune, Commit
  <2> QED BY <1>0, <2>1 DEF PlacesAgree, Pruned, Journals
<1> QED BY <1>1, <1>2, <1>3, <1>4, <1>5 DEF Next, vars, Tick, Match, Connect, PollIsDue, Fetch, GiveUp

\* A trade keeps its place in its session until retention removes it.
THEOREM PlacesHold == Spec => PlacesAreKept
<1>1. Init => PlacesAgree
  BY DEF Init, PlacesAgree
<1>2. JournalInvariant /\ PlacesAgree /\ [Next]_vars => PlacesAgree'
  BY PlacesStep
<1>3. JournalInvariant /\ PlacesAgree /\ [Next]_vars =>
        [\A i \in Ids : disk.rows[i].session > 0 =>
           disk'.rows[i] = disk.rows[i] \/ (tape[i] < pruned' /\ disk'.rows[i] = Absent)]_vars
  BY PlacesStep
<1> QED BY JournalIsSound, <1>1, <1>2, <1>3, PTL DEF Spec, PlacesAreKept

=============================================================================
