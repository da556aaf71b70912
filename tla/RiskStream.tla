------------------------------ MODULE RiskStream -----------------------------
(***************************************************************************)
(* The drawdown that compute_risk_status measures on the rows of           *)
(* list_risk_net_events within one day.                                    *)
(***************************************************************************)
EXTENDS BotLedger, Functions

\* The sort of list_risk_net_events: rows of one second by the name of their source
\* ("exchange...", "legacy...", "unreconciled..."), then by id.
Source(x, settled) == IF x \in Trades THEN 1 ELSE IF BotOf[x] \in settled THEN 0 ELSE 2

Precedes(x, y, settled) ==
  \/ ts[x] < ts[y]
  \/ ts[x] = ts[y] /\ Source(x, settled) < Source(y, settled)
  \/ ts[x] = ts[y] /\ Source(x, settled) = Source(y, settled) /\ x < y

UpTo(x, y, settled) == x = y \/ Precedes(x, y, settled)

\* The loop of compute_risk_status measures the equity below its earlier peak: the sums of
\* the rows from one to another.
Stretch(rows, settled, x, y) == {z \in rows : UpTo(x, z, settled) /\ UpTo(z, y, settled)}

Falls(rows, settled) ==
  LET net == [z \in rows |-> RiskNet(z, settled)]
  IN  {-SumFunctionOnSet(net, Stretch(rows, settled, x, y)) : x, y \in rows}

\* The drawdown of one day.  (The singletons bind the rows and the settled bots.)
DayDrawdown ==
  Max({0} \union UNION {Falls(rows, settled) : rows \in {RiskRows(1)}, settled \in {Settled}})

\* A result that is taken back moves behind the others of its second: its losses may come
\* to stand after another bot's profit.
Overtakes ==
  \E x, y \in RiskRows(1) :
    ts[x] = ts[y] /\ BotOf[x] \in Settled \ Settled' /\ BotOf[y] \in Settled'

\* The drawdown that keeps new bots from starting only shrinks when the exchange vouches
\* for a result: a profit booked on anybody's word, before or after the losses, a stop or
\* a snapshot that does not match makes no room.
OnlyTheExchangeRelieves ==
  [][DayDrawdown' < DayDrawdown => ~(Settled' \subseteq Settled) \/ Overtakes]_vars

=============================================================================
