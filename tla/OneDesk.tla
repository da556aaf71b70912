------------------------------- MODULE OneDesk ------------------------------
(***************************************************************************)
(* What the execute endpoint promises about the bots, whatever happens     *)
(* inside: a chain has one running bot, a bot starts once, and where the   *)
(* database serialises the writers a start respects the operator's limits  *)
(* and the one-way rule as they are at that moment, not as they were.      *)
(***************************************************************************)
EXTENDS Naturals, FiniteSets

CONSTANTS Recs, Symbol, Contract, Root

VARIABLES
  bot,         \* the bot started from each recommendation
  limits,      \* the operator's limits in force
  tripped,     \* the daily loss limit or the cooldown after a loss is on
  serialised   \* the database lets one writer in at a time

deskVars == <<bot, limits, tripped, serialised>>

Running == {r \in Recs : bot[r] = "running"}
RunningOn(s) == {r \in Running : Symbol[r] = s}
SameChain(r) == {b \in Running : Root[b] = Root[r]}

Permitted(r) ==
  /\ Cardinality(Running) < limits.bots
  /\ Cardinality(RunningOn(Symbol[r])) < limits.symbol
  /\ ~tripped
  /\ \A b \in RunningOn(Symbol[r]) : Contract[b] = Contract[r]

DeskInit == bot = [r \in Recs |-> "none"]

StartBot(r) ==
  /\ bot[r] = "none" /\ SameChain(r) = {}
  /\ serialised => Permitted(r)
  /\ bot' = [bot EXCEPT ![r] = "running"]
  /\ UNCHANGED <<limits, tripped, serialised>>

EndBot(r) ==
  /\ bot[r] = "running"
  /\ bot' = [bot EXCEPT ![r] = "stopped"]
  /\ UNCHANGED <<limits, tripped, serialised>>

Surroundings == (limits' # limits \/ tripped' # tripped) /\ UNCHANGED <<bot, serialised>>

DeskNext == (\E r \in Recs : StartBot(r) \/ EndBot(r)) \/ Surroundings

DeskSpec == DeskInit /\ [][DeskNext]_deskVars

=============================================================================
