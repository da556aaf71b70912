----------------------------- MODULE CalmStream -----------------------------
(***************************************************************************)
(* The journal of a stream that nothing disturbs: a trade at every moment, *)
(* delivered and committed at once, no disconnect, no crash.  What remains *)
(* is the session's own refresh, which ends it after MaxSession so that    *)
(* the next session subscribes to the symbols then wanted.  By default a   *)
(* session lasts 30 seconds, half a minute.                                *)
(***************************************************************************)
EXTENDS TradeJournal

CONSTANT Minute  \* what an outcome replays at a time

\* Time passes over trades that were received and committed.
CalmTick ==
  /\ Up /\ Quiet /\ stream.seen = Len(tape)
  /\ tape # <<>> /\ tape[Len(tape)] = now
  /\ Tick

\* capture_scope_refresh.
Refresh == RefreshDue /\ EndSession

CalmNext == CalmTick \/ Match \/ Connect \/ Receive \/ IdleCommit \/ Refresh

CalmSpec == Init /\ [][CalmNext]_vars

\* A minute the stream saw all of can be replayed: after two calm minutes
\* there is one.
CalmMinutesAreReplayable ==
  now > 2 * Minute + 1 /\ Quiet =>
    \E from \in 1..(now - Minute) : Exact(from, from + Minute) # {}

=============================================================================
