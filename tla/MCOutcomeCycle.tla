--------------------------- MODULE MCOutcomeCycle ---------------------------
(* Instances of OutcomeCycle for TLC.                                      *)
EXTENDS OutcomeCycle

Row(exact, needs, looked, span) ==
  [sound |-> TRUE, exact |-> exact, expects |-> span # {}, needs |-> needs,
   looked |-> looked, span |-> span, mismatch |-> "none"]
Exactly(S) == Row(TRUE, S, S, S)
Loosely(needs, looked, span) == Row(FALSE, needs, looked, span)
Plain == Exactly({})
Void == [Plain EXCEPT !.sound = FALSE]
Old(source, row) == [row EXCEPT !.mismatch = source]

\* A row that may wait for ever in front of one whose settlements come out of order; one
\* that ended before its first settlement and waits for it without a schedule; two old
\* rows, of which a cycle looks at one; an old row before a mismatch that stays.
MCShapes ==
  {<<Plain, Exactly({1, 2})>>,
   <<Loosely({}, {}, {1}), Loosely({}, {1}, {1, 2})>>,
   <<Old("rest", Plain), Old("rest", Loosely({2}, {1, 2}, {1, 2}))>>,
   <<Old("rest", Void), Old("other", Plain)>>}
=============================================================================
