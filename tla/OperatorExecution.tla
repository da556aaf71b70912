-------------------------- MODULE OperatorExecution -------------------------
(***************************************************************************)
(* Execute requests of the operator for recommendations of several ideas,  *)
(* with everything they are checked against: the bots that run, the limits *)
(* the operator may change, the losses that trip the daily limit or the    *)
(* cooldown, and the one-way rule of a symbol.                             *)
(*                                                                         *)
(* A request is one database transaction, but its reads are statements of  *)
(* their own.  SQLite's BEGIN IMMEDIATE admits one writer at a time; on    *)
(* PostgreSQL the same line is a plain BEGIN (READ COMMITTED), the request *)
(* locks its own recommendation row, and only the unique indexes on        *)
(* bot_instances hold two requests apart.                                  *)
(***************************************************************************)
EXTENDS Naturals, FiniteSets

CONSTANTS
  Recs,          \* recommendations
  Reqs,          \* concurrent execute requests
  Symbol,        \* symbol of each recommendation
  Contract,      \* its bot_type and direction
  Root,          \* its publication_root_rec_id
  Engines,       \* the database engines considered
  LimitChoices,  \* risk limits the operator may set
  None           \* no recommendation

ASSUME ChainsAssumption ==
  /\ IsFiniteSet(Recs)
  /\ Root \in [Recs -> Recs]
  /\ \A r \in Recs : Symbol[Root[r]] = Symbol[r]
ASSUME NoneAssumption == None \notin Recs
ASSUME EnginesAssumption == Engines \subseteq {"sqlite", "postgresql"}
ASSUME LimitsAssumption == LimitChoices \subseteq [bots : Nat \ {0}, symbol : Nat \ {0}]

VARIABLES
  engine,   \* of the deployment
  limits,   \* the active row of risk_limits
  tripped,  \* daily drawdown at its limit, or cooldown after a loss
  status,   \* of each recommendation, as far as execution tells it apart
  bot,      \* the bot instance with this origin_rec_id
  pc,       \* where each request is
  job,      \* the recommendation it executes
  found,    \* the bot its SELECT found, before the answer is committed
  reply     \* the bot it answered with

tables == <<engine, limits, tripped, status, bot>>
requests == <<pc, job, found, reply>>
vars == <<tables, requests>>

Checking == {"begun", "capped", "oneWay", "refused"}
InTransaction == Checking \union {"attaching"}
Places == {"idle", "waiting", "done"} \union InTransaction

\* Every variable has its type.
TypeOK ==
  /\ engine \in Engines
  /\ limits \in LimitChoices
  /\ tripped \in BOOLEAN
  /\ status \in [Recs -> {"actionable", "closed", "executed"}]
  /\ bot \in [Recs -> {"none", "running", "stopped"}]
  /\ pc \in [Reqs -> Places]
  /\ job \in [Reqs -> Recs \union {None}]
  /\ found \in [Reqs -> Recs \union {None}]
  /\ reply \in [Reqs -> Recs \union {None}]
  /\ \A q \in Reqs : pc[q] # "idle" => job[q] \in Recs

Init ==
  /\ engine \in Engines
  /\ limits \in LimitChoices
  /\ tripped = FALSE
  /\ status \in [Recs -> {"actionable", "closed"}]
  /\ bot = [r \in Recs |-> "none"]
  /\ pc = [q \in Reqs |-> "idle"]
  /\ job = [q \in Reqs |-> None]
  /\ found = [q \in Reqs |-> None]
  /\ reply = [q \in Reqs |-> None]

-----------------------------------------------------------------------------
(* Transactions.                                                           *)

Open == {q \in Reqs : pc[q] \in InTransaction}

\* Mutant: BEGIN IMMEDIATE is left out; the locks of PostgreSQL's rows are all there is.
WriterMayRunPlain == TRUE

\* Another writer of tables that are not locked row by row may run.
WriterMayRun == engine = "sqlite" => Open = {}

\* begin_immediate, and the FOR UPDATE of get_recommendation_by_id.
MayBegin(r) == WriterMayRun /\ \A q \in Open : job[q] # r

Running == {r \in Recs : bot[r] = "running"}
RunningOn(s) == {r \in Running : Symbol[r] = s}
ChainBot(r) == {b \in Running : Root[b] = Root[r]}

Finish(q, b) ==
  /\ pc' = [pc EXCEPT ![q] = "done"]
  /\ reply' = [reply EXCEPT ![q] = b]
  /\ found' = [found EXCEPT ![q] = None]
  /\ UNCHANGED job

Goto(q, place) == pc' = [pc EXCEPT ![q] = place] /\ UNCHANGED <<job, found, reply>>

\* A SELECT returned the bot to answer with.  The bot's row is not locked.
Find(q, b) ==
  /\ pc' = [pc EXCEPT ![q] = "attaching"]
  /\ found' = [found EXCEPT ![q] = b]
  /\ UNCHANGED <<job, reply>>

-----------------------------------------------------------------------------
(* The request.                                                            *)

\* The endpoint is called (again); the metadata is fetched before the transaction.
Submit(q) ==
  /\ pc[q] \in {"idle", "done"}
  /\ \E r \in Recs : job' = [job EXCEPT ![q] = r]
  /\ pc' = [pc EXCEPT ![q] = "waiting"]
  /\ reply' = [reply EXCEPT ![q] = None]
  /\ UNCHANGED <<tables, found>>

\* SQLite gives up waiting for the write lock after busy_timeout.
BusyTimeout(q) ==
  /\ pc[q] = "waiting" /\ engine = "sqlite" /\ ~MayBegin(job[q])
  /\ Finish(q, None)
  /\ UNCHANGED tables

\* Mutant: any bot that runs on the symbol will do.
ReusableSymbol(r) == IF bot[r] # "none" THEN {r} ELSE RunningOn(Symbol[r])

\* The bot an execute of r finds instead of making one: its own, running or not, or
\* the running one of its chain, if it is of the same bot type and direction.
Reusable(r) ==
  IF bot[r] # "none" THEN {r} ELSE {b \in ChainBot(r) : Contract[b] = Contract[r]}

\* A closed recommendation is not revived by the running bot of its chain.
BeginReuse(q) ==
  LET r == job[q] IN
  /\ pc[q] = "waiting" /\ MayBegin(r)
  /\ bot[r] # "none" \/ status[r] # "closed"
  /\ \E b \in Reusable(r) : Find(q, b)
  /\ UNCHANGED tables

\* The update of the status and the commit, statements after the SELECT: on PostgreSQL
\* the bot that was found may have been stopped between them.
Attach(q) ==
  /\ pc[q] = "attaching"
  /\ status' = [status EXCEPT ![job[q]] = IF @ = "closed" THEN "closed" ELSE "executed"]
  /\ Finish(q, found[q])
  /\ UNCHANGED <<engine, limits, tripped, bot>>

\* 409: closed; executed with no bot that runs; or a bad timestamp, direction or chain.
BeginRefuse(q) ==
  LET r == job[q] IN
  /\ pc[q] = "waiting" /\ MayBegin(r)
  /\ bot[r] = "none" /\ (status[r] = "executed" => Reusable(r) = {})
  /\ Finish(q, None)
  /\ UNCHANGED tables

\* 409: the row or its chain is out of time, and the request itself expires the row.
BeginExpire(q) ==
  LET r == job[q] IN
  /\ pc[q] = "waiting" /\ MayBegin(r)
  /\ bot[r] = "none" /\ status[r] = "actionable"
  /\ status' = [status EXCEPT ![r] = "closed"]
  /\ Finish(q, None)
  /\ UNCHANGED <<engine, limits, tripped, bot>>

Begin(q) ==
  LET r == job[q] IN
  /\ pc[q] = "waiting" /\ MayBegin(r)
  /\ bot[r] = "none" /\ status[r] = "actionable" /\ ChainBot(r) = {}
  /\ Goto(q, "begun")
  /\ UNCHANGED tables

\* gate_candidate on a fresh compute_risk_status.
WithinCaps(r) ==
  /\ Cardinality(Running) < limits.bots
  /\ Cardinality(RunningOn(Symbol[r])) < limits.symbol
  /\ ~tripped

CheckCaps(q) ==
  /\ pc[q] = "begun" /\ WithinCaps(job[q])
  /\ Goto(q, "capped")
  /\ UNCHANGED tables

\* Mutant: only bots of the recommendation's own chain are compared.
OneWayChain(r) == \A b \in ChainBot(r) : Contract[b] = Contract[r]

\* _execution_symbol_direction_conflict_blocks finds nothing.
OneWay(r) == \A b \in RunningOn(Symbol[r]) : Contract[b] = Contract[r]

CheckOneWay(q) ==
  /\ pc[q] = "capped" /\ OneWay(job[q])
  /\ Goto(q, "oneWay")
  /\ UNCHANGED tables

\* A failed check, the preflight on market data, the size caps, or any error: the
\* transaction ends without effect.
Refuse(q) ==
  /\ pc[q] \in InTransaction
  /\ Finish(q, None)
  /\ UNCHANGED tables

\* The insert finds no running bot of the chain (unique index) and commits.
Launch(q) ==
  LET r == job[q] IN
  /\ pc[q] = "oneWay" /\ ChainBot(r) = {}
  /\ bot' = [bot EXCEPT ![r] = "running"]
  /\ status' = [status EXCEPT ![r] = "executed"]
  /\ Finish(q, r)
  /\ UNCHANGED <<engine, limits, tripped>>

\* The unique index refuses the insert: another request of the chain was faster.
InsertRefused(q) ==
  /\ pc[q] = "oneWay" /\ ChainBot(job[q]) # {}
  /\ Goto(q, "refused")
  /\ UNCHANGED tables

\* The bot in the way is looked up again, if it still runs; if not, Refuse: 409.
FindDuplicate(q) ==
  /\ pc[q] = "refused"
  /\ \E b \in ChainBot(job[q]) : Contract[b] = Contract[job[q]] /\ Find(q, b)
  /\ UNCHANGED tables

Request(q) ==
  \/ Submit(q) \/ BusyTimeout(q)
  \/ BeginReuse(q) \/ BeginRefuse(q) \/ BeginExpire(q) \/ Begin(q)
  \/ CheckCaps(q) \/ CheckOneWay(q) \/ Refuse(q) \/ Launch(q)
  \/ InsertRefused(q) \/ FindDuplicate(q) \/ Attach(q)

-----------------------------------------------------------------------------
(* Everybody else.                                                         *)

\* api_stop_bot, or a trade with stop_bot: locks the bot's row only.
Stop(r) ==
  /\ bot[r] = "running" /\ WriterMayRun
  /\ bot' = [bot EXCEPT ![r] = "stopped"]
  /\ UNCHANGED <<engine, limits, tripped, status, requests>>

\* A trade, an execution event or a reconciliation of a bot books a loss or a drawdown.
Loss ==
  /\ WriterMayRun /\ \E r \in Recs : bot[r] # "none"
  /\ tripped' = TRUE
  /\ UNCHANGED <<engine, limits, status, bot, requests>>

\* The day ends, the cooldown runs out.
Recover ==
  /\ tripped' = FALSE
  /\ UNCHANGED <<engine, limits, status, bot, requests>>

\* api_update_risk_limits, the loss limits among them.
SetLimits ==
  /\ WriterMayRun /\ limits' \in LimitChoices /\ tripped' \in BOOLEAN
  /\ UNCHANGED <<engine, status, bot, requests>>

\* The TTL sweep, the reviewer or an ignore closes the row; the first two also one that
\* was executed after they read it.
Close(r) ==
  /\ status[r] # "closed" /\ MayBegin(r)
  /\ status' = [status EXCEPT ![r] = "closed"]
  /\ UNCHANGED <<engine, limits, tripped, bot, requests>>

Next ==
  \/ \E q \in Reqs : Request(q)
  \/ \E r \in Recs : Stop(r) \/ Close(r)
  \/ Loss \/ Recover \/ SetLimits

Spec == Init /\ [][Next]_vars

BeginAny(q) == BeginReuse(q) \/ BeginRefuse(q) \/ BeginExpire(q) \/ Begin(q)
Work(q) ==
  \/ CheckCaps(q) \/ CheckOneWay(q) \/ Refuse(q) \/ Launch(q)
  \/ InsertRefused(q) \/ FindDuplicate(q) \/ Attach(q)

\* A transaction's code runs on, and a wait for a lock ends: PostgreSQL serves a row's
\* waiters in turn; on SQLite the lock is free or its busy_timeout runs out.
FairSpec ==
  /\ Spec
  /\ \A q \in Reqs : WF_vars(Work(q)) /\ SF_vars(BeginAny(q) \/ BusyTimeout(q))

-----------------------------------------------------------------------------
(* Properties.                                                             *)

OneWriter == engine = "sqlite" => \A p, q \in Open : p = q

RowsAreLocked ==
  \A p, q \in Open : job[p] = job[q] => p = q

JobsAreUntouched ==
  \A q \in Reqs :
    /\ pc[q] \in {"waiting"} \union InTransaction => reply[q] = None
    /\ pc[q] \in Checking => bot[job[q]] = "none" /\ status[job[q]] = "actionable"

FindsAreRight ==
  \A q \in Reqs : pc[q] = "attaching" =>
    /\ found[q] \in Recs /\ bot[found[q]] # "none"
    /\ Root[found[q]] = Root[job[q]] /\ Contract[found[q]] = Contract[job[q]]
    /\ engine = "sqlite" => bot[found[q]] = "running" \/ found[q] = job[q]

ChecksStillHold ==
  engine = "sqlite" =>
    \A q \in Open :
      /\ pc[q] # "attaching" => ChainBot(job[q]) = {}
      /\ pc[q] \in {"capped", "oneWay"} => WithinCaps(job[q])
      /\ pc[q] = "oneWay" => OneWay(job[q])

\* The locks of begin_immediate do what their comments ask of them: between the BEGIN and
\* the commit nobody touches the request's recommendation, and on SQLite the read-check-
\* write sequence stays coherent: what an earlier statement checked or found is true at the
\* insert or at the answer.
ExecutionInvariant ==
  /\ TypeOK /\ OneWriter /\ RowsAreLocked /\ JobsAreUntouched
  /\ FindsAreRight /\ ChecksStillHold

\* On SQLite, where execution is serialised, the bots that run on one symbol are of one
\* bot type and one direction: the repository has no hedge mode.
OneWaySymbols ==
  engine = "sqlite" =>
    \A a, b \in Running : Symbol[a] = Symbol[b] => Contract[a] = Contract[b]

\* The same on every engine, as the architecture document has it.
OneWayOnEveryEngine ==
  \A a, b \in Running : Symbol[a] = Symbol[b] => Contract[a] = Contract[b]

\* On either engine, also after a race of two members of one chain: the bot a request
\* answers with is a bot of the recommendation's own chain and strategy.
RepliesNameTheRightBot ==
  \A q \in Reqs : reply[q] # None =>
    /\ bot[reply[q]] # "none"
    /\ Root[reply[q]] = Root[job[q]]
    /\ Contract[reply[q]] = Contract[job[q]]

StaleAnswer(q) ==
  /\ reply[q] = None /\ reply'[q] # None
  /\ bot[reply'[q]] = "stopped" /\ reply'[q] # job[q]

\* On SQLite the bot that was found still runs when the answer is committed, three
\* statements later: the API never calls a signal executed by a bot that was stopped
\* meanwhile, other than the one the recommendation started itself.
NoReattachToStoppedBots == [][engine = "sqlite" => \A q \in Reqs : ~StaleAnswer(q)]_vars

\* The same on every engine, as the comment at the SELECT has it.
NoReattachOnAnyEngine == [][\A q \in Reqs : ~StaleAnswer(q)]_vars

\* A request is answered in the end: no lock is kept, no wait is for ever.
ExecutesReturn == \A q \in Reqs : pc[q] = "waiting" ~> pc[q] = "done"

\* On either engine a chain has one running bot and no bot starts twice; on SQLite a bot
\* only starts within the caps, the loss limits and the one-way rule of that moment,
\* though they were read by earlier statements.
Desk == INSTANCE OneDesk WITH serialised <- engine = "sqlite"
ImplementsOneDesk == Desk!DeskSpec

=============================================================================
