----------------------- MODULE OperatorExecutionProofs ----------------------
(***************************************************************************)
(* The execute transaction for every set of recommendations, requests and  *)
(* limits: the invariant of its locks, the one-way rule on SQLite, the     *)
(* right answers, and the refinement of OneDesk.                           *)
(***************************************************************************)
EXTENDS OperatorExecution, TLAPS

\* A request ends or moves within its transaction; the tables stay as they are.
LEMMA TypePreserved == ASSUME TypeOK, [Next]_vars PROVE TypeOK'
<1> USE DEF TypeOK, Places, InTransaction, Checking
<1>1. ASSUME NEW q \in Reqs, Request(q) PROVE TypeOK'
  <2>1. CASE Submit(q)
    BY <2>1 DEF Submit, tables
  <2>2. CASE BusyTimeout(q)
    BY <2>2 DEF BusyTimeout, Finish, tables
  <2>3. CASE BeginReuse(q)
    <3>1. PICK b \in Reusable(job[q]) : Find(q, b)
      BY <2>3 DEF BeginReuse
    <3>2. job[q] \in Recs => b \in Recs
      BY DEF Reusable, ChainBot, Running
    <3>3. job[q] \in Recs
      BY <2>3 DEF BeginReuse
    <3> QED BY <2>3, <3>1, <3>2, <3>3 DEF BeginReuse, Find, tables
  <2>4. CASE BeginRefuse(q)
    BY <2>4 DEF BeginRefuse, Finish, tables
  <2>5. CASE BeginExpire(q)
    BY <2>5 DEF BeginExpire, Finish
  <2>6. CASE Begin(q)
    BY <2>6 DEF Begin, Goto, tables
  <2>7. CASE CheckCaps(q)
    BY <2>7 DEF CheckCaps, Goto, tables
  <2>8. CASE CheckOneWay(q)
    BY <2>8 DEF CheckOneWay, Goto, tables
  <2>9. CASE Refuse(q)
    BY <2>9 DEF Refuse, Finish, tables
  <2>10. CASE Launch(q)
    BY <2>10 DEF Launch, Finish
  <2>11. CASE InsertRefused(q)
    BY <2>11 DEF InsertRefused, Goto, tables
  <2>12. CASE FindDuplicate(q)
    BY <2>12 DEF FindDuplicate, Find, ChainBot, Running, tables
  <2>13. CASE Attach(q)
    BY <2>13 DEF Attach, Finish
  <2> QED BY <1>1, <2>1, <2>2, <2>3, <2>4, <2>5, <2>6, <2>7, <2>8, <2>9, <2>10, <2>11, <2>12,
             <2>13 DEF Request
<1>2. ASSUME NEW r \in Recs, Stop(r) PROVE TypeOK'
  BY <1>2 DEF Stop, requests
<1>3. ASSUME NEW r \in Recs, Close(r) PROVE TypeOK'
  BY <1>3 DEF Close, requests
<1>4. CASE Loss
  BY <1>4 DEF Loss, requests
<1>5. CASE Recover
  BY <1>5 DEF Recover, requests
<1>6. CASE SetLimits
  BY <1>6 DEF SetLimits, requests
<1>7. CASE UNCHANGED vars
  BY <1>7 DEF vars, tables, requests
<1> QED BY <1>1, <1>2, <1>3, <1>4, <1>5, <1>6, <1>7 DEF Next

\* The checks read the bots, the limits and the losses, and nothing else.
LEMMA ChecksUnmoved ==
  ASSUME UNCHANGED <<bot, limits, tripped>>
  PROVE  \A r : /\ ChainBot(r)' = ChainBot(r) /\ OneWay(r)' = OneWay(r)
                /\ WithinCaps(r)' = WithinCaps(r)
BY DEF ChainBot, WithinCaps, OneWay, Running, RunningOn

\* What a request does is invisible to the locks and checks of the other open ones.
LEMMA LocksPreserved ==
  ASSUME ExecutionInvariant, TypeOK', [Next]_vars
  PROVE  OneWriter' /\ RowsAreLocked' /\ JobsAreUntouched' /\ FindsAreRight' /\ ChecksStillHold'
<1> DEFINE Locks == /\ OneWriter /\ RowsAreLocked /\ JobsAreUntouched
                    /\ FindsAreRight /\ ChecksStillHold
<1> SUFFICES Locks'
  OBVIOUS
<1> USE DEF ExecutionInvariant, TypeOK, Places, InTransaction, Checking, Open
<1> USE DEF OneWriter, RowsAreLocked, JobsAreUntouched
<1>1. ASSUME NEW q \in Reqs, Request(q) PROVE Locks'
  <2> DEFINE Others == \A p \in Reqs : p # q =>
                         /\ pc'[p] = pc[p] /\ job'[p] = job[p]
                         /\ found'[p] = found[p] /\ reply'[p] = reply[p]
  <2>0. Others
    BY <1>1 DEF Request, Submit, BusyTimeout, BeginReuse, BeginRefuse, BeginExpire, Begin,
                CheckCaps, CheckOneWay, Refuse, Launch, InsertRefused, FindDuplicate, Attach,
                Finish, Goto, Find
  <2>1. ASSUME pc'[q] \notin InTransaction, pc'[q] = "waiting" => reply'[q] = None,
               UNCHANGED tables
        PROVE  Locks'
    <3>1. Open' = Open \ {q} /\ \A p \in Open' : p # q /\ job'[p] = job[p] /\ pc'[p] = pc[p]
      BY <2>0, <2>1
    <3>2. UNCHANGED <<engine, limits, tripped, status, bot>>
      BY <2>1 DEF tables
    <3>3. OneWriter' /\ RowsAreLocked' /\ JobsAreUntouched'
      BY <2>0, <2>1, <3>1, <3>2
    <3>4. ChecksStillHold'
      BY <3>1, <3>2, ChecksUnmoved DEF ChecksStillHold
    <3>5. FindsAreRight'
      BY <2>0, <2>1, <3>2 DEF FindsAreRight
    <3> QED BY <3>3, <3>4, <3>5
  <2>2. CASE Submit(q)
    BY <2>1, <2>2 DEF Submit
  <2>3. CASE BusyTimeout(q)
    BY <2>1, <2>3 DEF BusyTimeout, Finish
  <2>4. CASE BeginRefuse(q)
    BY <2>1, <2>4 DEF BeginRefuse, Finish
  <2>5. CASE Refuse(q)
    BY <2>1, <2>5 DEF Refuse, Finish
  <2>6. CASE BeginExpire(q)
    <3>1. /\ MayBegin(job[q]) /\ pc[q] = "waiting" /\ pc'[q] = "done"
          /\ UNCHANGED <<engine, limits, tripped, bot, job>>
          /\ \A r \in Recs : r # job[q] => status'[r] = status[r]
      BY <2>6 DEF BeginExpire, Finish
    <3>2. Open' = Open
      BY <2>0, <3>1
    <3>3. OneWriter' /\ RowsAreLocked' /\ JobsAreUntouched'
      BY <2>0, <3>1, <3>2 DEF MayBegin
    <3>4. ChecksStillHold'
      BY <2>0, <3>1, <3>2, ChecksUnmoved DEF ChecksStillHold
    <3>5. FindsAreRight'
      BY <2>0, <3>1 DEF FindsAreRight
    <3> QED BY <3>3, <3>4, <3>5
  <2>7. CASE Begin(q)
    <3>1. /\ MayBegin(job[q]) /\ UNCHANGED <<tables, job, found, reply>> /\ pc[q] = "waiting"
          /\ bot[job[q]] = "none" /\ status[job[q]] = "actionable" /\ ChainBot(job[q]) = {}
          /\ pc' = [pc EXCEPT ![q] = "begun"]
      BY <2>7 DEF Begin, Goto
    <3>2. Open' = Open \union {q} /\ q \notin Open
      BY <3>1
    <3>3. OneWriter' /\ RowsAreLocked' /\ JobsAreUntouched'
      BY <3>1, <3>2 DEF MayBegin, WriterMayRun, tables
    <3>4. ChecksStillHold'
      <4>1. ChainBot(job[q])' = {}
        BY <3>1 DEF ChainBot, Running, tables
      <4>2. engine' = "sqlite" => Open' = {q}
        BY <3>1, <3>2 DEF MayBegin, WriterMayRun, tables
      <4> QED BY <4>1, <4>2, <3>1 DEF ChecksStillHold
    <3>5. FindsAreRight'
      BY <3>1 DEF FindsAreRight, tables
    <3> QED BY <3>3, <3>4, <3>5
  <2>8. CASE CheckCaps(q) \/ CheckOneWay(q) \/ InsertRefused(q)
    <3>1. UNCHANGED <<tables, job, found, reply>> /\ q \in Open
      BY <2>8 DEF CheckCaps, CheckOneWay, InsertRefused, Goto
    <3>2. \/ pc[q] = "begun" /\ WithinCaps(job[q]) /\ pc' = [pc EXCEPT ![q] = "capped"]
          \/ pc[q] = "capped" /\ OneWay(job[q]) /\ pc' = [pc EXCEPT ![q] = "oneWay"]
          \/ pc[q] = "oneWay" /\ pc' = [pc EXCEPT ![q] = "refused"]
      BY <2>8 DEF CheckCaps, CheckOneWay, InsertRefused, Goto
    <3>3. Open' = Open
      BY <3>2
    <3>4. OneWriter' /\ RowsAreLocked' /\ JobsAreUntouched'
      BY <3>1, <3>2, <3>3 DEF tables
    <3>5. ChecksStillHold'
      BY <3>1, <3>2, <3>3, ChecksUnmoved DEF ChecksStillHold, tables
    <3>6. FindsAreRight'
      BY <3>1, <3>2 DEF FindsAreRight, tables
    <3> QED BY <3>4, <3>5, <3>6
  <2>9. CASE Launch(q)
    <3>1. /\ q \in Open /\ UNCHANGED <<engine, limits, tripped, job>> /\ pc'[q] = "done"
          /\ bot[job[q]] = "none"
      BY <2>9 DEF Launch, Finish
    <3>2. \A r \in Recs : r # job[q] => status'[r] = status[r] /\ bot'[r] = bot[r]
      BY <2>9 DEF Launch
    <3>3. Open' = Open \ {q}
      BY <2>0, <3>1
    <3>4. OneWriter' /\ RowsAreLocked' /\ JobsAreUntouched'
      BY <2>0, <3>1, <3>2, <3>3
    <3>5. ChecksStillHold'
      BY <3>1, <3>3 DEF ChecksStillHold
    <3>6. FindsAreRight'
      BY <2>0, <3>1, <3>2 DEF FindsAreRight
    <3> QED BY <3>4, <3>5, <3>6
  <2>10. CASE BeginReuse(q) \/ FindDuplicate(q)
    <3>1. PICK b \in Recs : /\ bot[b] # "none" /\ Find(q, b)
                            /\ Root[b] = Root[job[q]] /\ Contract[b] = Contract[job[q]]
                            /\ bot[b] = "running" \/ b = job[q]
      BY <2>10 DEF BeginReuse, FindDuplicate, Reusable, ChainBot, Running
    <3>2. UNCHANGED <<engine, limits, tripped, status, bot>>
      BY <2>10 DEF BeginReuse, FindDuplicate, tables
    <3>3. pc'[q] = "attaching" /\ found'[q] = b /\ UNCHANGED <<job, reply>>
      BY <3>1 DEF Find
    <3>4. Open' = Open \union {q} /\ (q \notin Open => MayBegin(job[q]) /\ pc[q] = "waiting")
      BY <2>0, <2>10, <3>3 DEF BeginReuse, FindDuplicate
    <3>5. OneWriter' /\ RowsAreLocked'
      BY <2>0, <3>2, <3>3, <3>4 DEF MayBegin, WriterMayRun
    <3>6. JobsAreUntouched'
      BY <2>0, <2>10, <3>2, <3>3 DEF BeginReuse, FindDuplicate
    <3>7. FindsAreRight'
      BY <2>0, <3>1, <3>2, <3>3 DEF FindsAreRight
    <3>8. ChecksStillHold'
      BY <2>0, <3>2, <3>3, <3>4, ChecksUnmoved DEF ChecksStillHold
    <3> QED BY <3>5, <3>6, <3>7, <3>8
  <2>11. CASE Attach(q)
    <3>1. /\ q \in Open /\ UNCHANGED <<engine, limits, tripped, bot, job>> /\ pc'[q] = "done"
          /\ \A r \in Recs : r # job[q] => status'[r] = status[r]
      BY <2>11 DEF Attach, Finish
    <3>2. Open' = Open \ {q}
      BY <2>0, <3>1
    <3>3. OneWriter' /\ RowsAreLocked' /\ JobsAreUntouched'
      BY <2>0, <3>1, <3>2
    <3>4. ChecksStillHold'
      BY <3>1, <3>2 DEF ChecksStillHold
    <3>5. FindsAreRight'
      BY <2>0, <3>1 DEF FindsAreRight
    <3> QED BY <3>3, <3>4, <3>5
  <2> QED BY <1>1, <2>2, <2>3, <2>4, <2>5, <2>6, <2>7, <2>8, <2>9, <2>10, <2>11 DEF Request
<1>2. ASSUME NEW r \in Recs, Stop(r) PROVE Locks'
  <2>1. /\ WriterMayRun /\ UNCHANGED <<engine, limits, tripped, status, pc, job, found, reply>>
        /\ bot[r] = "running" /\ bot'[r] = "stopped"
        /\ \A s \in Recs : s # r => bot'[s] = bot[s]
    BY <1>2 DEF Stop, requests
  <2>2. OneWriter' /\ RowsAreLocked' /\ JobsAreUntouched'
    BY <2>1
  <2>3. ChecksStillHold' /\ FindsAreRight'
    BY <2>1 DEF ChecksStillHold, FindsAreRight, WriterMayRun
  <2> QED BY <2>2, <2>3
<1>3. ASSUME NEW r \in Recs, Close(r) PROVE Locks'
  <2>1. /\ MayBegin(r) /\ UNCHANGED <<engine, limits, tripped, bot, pc, job, found, reply>>
        /\ \A s \in Recs : s # r => status'[s] = status[s]
    BY <1>3 DEF Close, requests
  <2>2. OneWriter' /\ RowsAreLocked' /\ JobsAreUntouched'
    BY <2>1 DEF MayBegin
  <2>3. ChecksStillHold' /\ FindsAreRight'
    BY <2>1 DEF ChecksStillHold, FindsAreRight, MayBegin, WriterMayRun
  <2> QED BY <2>2, <2>3
<1>4. CASE Loss \/ SetLimits
  <2>1. WriterMayRun /\ UNCHANGED <<engine, status, bot, pc, job, found, reply>>
    BY <1>4 DEF Loss, SetLimits, requests
  <2> QED BY <2>1 DEF ChecksStillHold, FindsAreRight, WriterMayRun
<1>5. CASE Recover
  <2>1. tripped' = FALSE /\ UNCHANGED <<engine, limits, status, bot, pc, job, found, reply>>
    BY <1>5 DEF Recover, requests
  <2>2. OneWriter' /\ RowsAreLocked' /\ JobsAreUntouched' /\ FindsAreRight'
    BY <2>1 DEF FindsAreRight
  <2>3. ChecksStillHold'
    <3>1. \A r : /\ ChainBot(r)' = ChainBot(r) /\ OneWay(r)' = OneWay(r)
                 /\ WithinCaps(r) => WithinCaps(r)'
      BY <2>1 DEF ChainBot, WithinCaps, OneWay, Running, RunningOn
    <3> QED BY <2>1, <3>1 DEF ChecksStillHold
  <2> QED BY <2>2, <2>3
<1>6. CASE UNCHANGED vars
  <2>1. UNCHANGED <<engine, limits, tripped, status, bot, pc, job, found, reply>>
    BY <1>6 DEF vars, tables, requests
  <2> QED BY <2>1, ChecksUnmoved DEF ChecksStillHold, FindsAreRight
<1> QED BY <1>1, <1>2, <1>3, <1>4, <1>5, <1>6 DEF Next

\* The locks of begin_immediate and FOR UPDATE hold whatever the numbers of requests and
\* recommendations: on SQLite what a request checked or found is still true when it inserts its bot or answers.
THEOREM LocksHold == Spec => []ExecutionInvariant
<1>1. Init => ExecutionInvariant
  <2>1. Init => Open = {} /\ \A q \in Reqs : pc[q] = "idle"
    BY DEF Init, Open, InTransaction, Checking
  <2>2. Init => TypeOK
    <3>1. Init => status \in [Recs -> {"actionable", "closed", "executed"}]
      BY DEF Init
    <3>2. Init => /\ bot \in [Recs -> {"none", "running", "stopped"}]
                  /\ pc \in [Reqs -> Places]
      BY DEF Init, Places
    <3>3. Init => job \in [Reqs -> Recs \union {None}] /\ reply \in [Reqs -> Recs \union {None}]
                  /\ found \in [Reqs -> Recs \union {None}]
      BY DEF Init
    <3> QED BY <2>1, <3>1, <3>2, <3>3 DEF Init, TypeOK
  <2> QED BY <2>1, <2>2 DEF ExecutionInvariant, OneWriter, RowsAreLocked, JobsAreUntouched,
                            FindsAreRight, ChecksStillHold, InTransaction, Checking
<1>2. ExecutionInvariant /\ [Next]_vars => ExecutionInvariant'
  BY TypePreserved, LocksPreserved DEF ExecutionInvariant
<1> QED BY <1>1, <1>2, PTL DEF Spec

\* The bots change in Launch and in Stop only.
LEMMA WhoChangesBots ==
  ASSUME [Next]_vars
  PROVE  \/ bot' = bot
         \/ \E q \in Reqs : Launch(q)
         \/ \E r \in Recs : Stop(r)
<1>1. ASSUME NEW q \in Reqs, Request(q) PROVE bot' = bot \/ Launch(q)
  BY <1>1 DEF Request, Submit, BusyTimeout, BeginReuse, BeginRefuse, BeginExpire, Begin,
              CheckCaps, CheckOneWay, Refuse, InsertRefused, FindDuplicate, Attach, tables
<1>2. ASSUME NEW r \in Recs, Close(r) PROVE bot' = bot
  BY <1>2 DEF Close
<1>3. Loss \/ Recover \/ SetLimits \/ UNCHANGED vars => bot' = bot
  BY DEF Loss, Recover, SetLimits, vars, tables
<1> QED BY <1>1, <1>2, <1>3 DEF Next

\* One-way rule: on SQLite no two bots on one symbol differ in type or direction, however
\* the requests interleave with stops, losses and changes of the limits.
THEOREM OneWayOnSqlite == Spec => []OneWaySymbols
<1>1. Init => OneWaySymbols
  BY DEF Init, OneWaySymbols, Running
<1>2. ExecutionInvariant /\ OneWaySymbols /\ [Next]_vars => OneWaySymbols'
  <2> SUFFICES ASSUME ExecutionInvariant, OneWaySymbols, [Next]_vars PROVE OneWaySymbols'
    OBVIOUS
  <2>1. engine' = engine
    BY DEF Next, Request, Submit, BusyTimeout, BeginReuse, BeginRefuse, BeginExpire, Begin,
           CheckCaps, CheckOneWay, Refuse, Launch, InsertRefused, FindDuplicate, Attach,
           Stop, Close, Loss, Recover, SetLimits, vars, tables
  <2>2. CASE bot' = bot
    BY <2>1, <2>2 DEF OneWaySymbols, Running
  <2>3. ASSUME NEW q \in Reqs, Launch(q) PROVE OneWaySymbols'
    <3>1. /\ q \in Open /\ pc[q] = "oneWay" /\ job[q] \in Recs
          /\ bot' = [bot EXCEPT ![job[q]] = "running"]
      BY <2>3 DEF Launch, ExecutionInvariant, TypeOK, Open, InTransaction, Checking
    <3>2. engine = "sqlite" => OneWay(job[q])
      BY <3>1 DEF ExecutionInvariant, ChecksStillHold
    <3>3. Running' \subseteq Running \union {job[q]}
      BY <3>1 DEF ExecutionInvariant, TypeOK, Running
    <3> QED BY <2>1, <3>2, <3>3 DEF OneWaySymbols, OneWay, RunningOn
  <2>4. ASSUME NEW r \in Recs, Stop(r) PROVE OneWaySymbols'
    BY <2>1, <2>4 DEF Stop, OneWaySymbols, Running, ExecutionInvariant, TypeOK
  <2> QED BY <2>2, <2>3, <2>4, WhoChangesBots
<1> QED BY <1>1, <1>2, LocksHold, PTL DEF Spec

\* The answer of an execute names a bot of the recommendation's own chain and contract.
THEOREM AnswersAreRight == Spec => []RepliesNameTheRightBot
<1>1. Init => RepliesNameTheRightBot
  BY DEF Init, RepliesNameTheRightBot
<1>2. ExecutionInvariant /\ RepliesNameTheRightBot /\ [Next]_vars => RepliesNameTheRightBot'
  <2> SUFFICES ASSUME ExecutionInvariant, RepliesNameTheRightBot, [Next]_vars
               PROVE  RepliesNameTheRightBot'
    OBVIOUS
  <2> USE DEF ExecutionInvariant, TypeOK
  <2> DEFINE Right(q) == /\ bot[reply[q]] # "none"
                         /\ Root[reply[q]] = Root[job[q]]
                         /\ Contract[reply[q]] = Contract[job[q]]
  <2>1. \A b \in Recs : bot[b] # "none" => bot'[b] # "none"
    BY WhoChangesBots DEF Launch, Stop
  <2>2. ASSUME NEW q \in Reqs, UNCHANGED <<job[q], reply[q]>>, reply'[q] # None
        PROVE  Right(q)'
    BY <2>1, <2>2 DEF RepliesNameTheRightBot
  <2>3. ASSUME NEW q \in Reqs, Request(q)
        PROVE  \/ reply'[q] = None
               \/ UNCHANGED <<job[q], reply[q]>>
               \/ Right(q)'
    <3>1. CASE Attach(q)
      BY <2>1, <3>1 DEF Attach, Finish, FindsAreRight
    <3>2. CASE Launch(q)
      BY <3>2 DEF Launch, Finish
    <3>3. CASE Submit(q) \/ BusyTimeout(q) \/ BeginRefuse(q) \/ BeginExpire(q) \/ Refuse(q)
      BY <3>3 DEF Submit, BusyTimeout, BeginRefuse, BeginExpire, Refuse, Finish
    <3>4. CASE \/ Begin(q) \/ CheckCaps(q) \/ CheckOneWay(q) \/ InsertRefused(q)
               \/ BeginReuse(q) \/ FindDuplicate(q)
      BY <3>4 DEF Begin, CheckCaps, CheckOneWay, InsertRefused, BeginReuse, FindDuplicate,
                  Goto, Find
    <3> QED BY <2>3, <3>1, <3>2, <3>3, <3>4 DEF Request
  <2>4. ASSUME NEW q \in Reqs, Request(q), NEW p \in Reqs, p # q
        PROVE  UNCHANGED <<job[p], reply[p]>>
    BY <2>4 DEF Request, Submit, BusyTimeout, BeginReuse, BeginRefuse, BeginExpire, Begin,
                CheckCaps, CheckOneWay, Refuse, Launch, InsertRefused, FindDuplicate, Attach,
                Finish, Goto, Find
  <2>5. ASSUME ~ \E q \in Reqs : Request(q) PROVE UNCHANGED <<job, reply>>
    BY <2>5 DEF Next, Stop, Close, Loss, Recover, SetLimits, vars, requests
  <2> QED BY <2>2, <2>3, <2>4, <2>5 DEF RepliesNameTheRightBot
<1> QED BY <1>1, <1>2, LocksHold, PTL DEF Spec

\* On SQLite no execute answers with a stopped bot that another recommendation started,
\* though the bot was looked up by an earlier statement of the transaction.
THEOREM NeverReattached == Spec => NoReattachToStoppedBots
<1> DEFINE Fine == engine = "sqlite" => \A q \in Reqs : ~StaleAnswer(q)
<1>1. ExecutionInvariant /\ [Next]_vars => Fine
  <2> SUFFICES ASSUME ExecutionInvariant, [Next]_vars, engine = "sqlite",
                      NEW q \in Reqs, reply[q] = None, reply'[q] # None
               PROVE  bot[reply'[q]] # "stopped" \/ reply'[q] = job[q]
    BY DEF StaleAnswer
  <2> USE DEF ExecutionInvariant, TypeOK
  <2>1. Request(q)
    <3>1. ASSUME NEW p \in Reqs, Request(p), p # q PROVE reply'[q] = reply[q]
      BY <3>1 DEF Request, Submit, BusyTimeout, BeginReuse, BeginRefuse, BeginExpire, Begin,
                  CheckCaps, CheckOneWay, Refuse, Launch, InsertRefused, FindDuplicate, Attach,
                  Finish, Goto, Find
    <3>2. ASSUME ~ \E p \in Reqs : Request(p) PROVE reply' = reply
      BY <3>2 DEF Next, Stop, Close, Loss, Recover, SetLimits, vars, requests
    <3> QED BY <3>1, <3>2
  <2>2. CASE Attach(q)
    BY <2>2 DEF Attach, Finish, FindsAreRight
  <2>3. CASE Launch(q)
    BY <2>3 DEF Launch, Finish
  <2>4. CASE Submit(q) \/ BusyTimeout(q) \/ BeginRefuse(q) \/ BeginExpire(q) \/ Refuse(q)
    BY <2>4 DEF Submit, BusyTimeout, BeginRefuse, BeginExpire, Refuse, Finish
  <2>5. CASE \/ Begin(q) \/ CheckCaps(q) \/ CheckOneWay(q) \/ InsertRefused(q)
             \/ BeginReuse(q) \/ FindDuplicate(q)
    BY <2>5 DEF Begin, CheckCaps, CheckOneWay, InsertRefused, BeginReuse, FindDuplicate,
                Goto, Find
  <2> QED BY <2>1, <2>2, <2>3, <2>4, <2>5 DEF Request
<1>2. ExecutionInvariant /\ [Next]_vars =>
        (engine = "sqlite" => \A q \in Reqs : ~StaleAnswer(q))
  BY <1>1
<1> QED BY <1>2, LocksHold, PTL DEF Spec, NoReattachToStoppedBots

\* The execute transaction implements OneDesk: a chain has one running bot, a bot starts
\* once, and on SQLite it starts within the limits and the one-way rule of that moment.
THEOREM DeskIsImplemented == Spec => ImplementsOneDesk
<1>1. Init => Desk!DeskInit
  BY DEF Init, Desk!DeskInit
<1>2. ExecutionInvariant /\ [Next]_vars => [Desk!DeskNext]_(Desk!deskVars)
  <2> SUFFICES ASSUME ExecutionInvariant, [Next]_vars
               PROVE  Desk!DeskNext \/ UNCHANGED Desk!deskVars
    OBVIOUS
  <2> USE DEF ExecutionInvariant, TypeOK
  <2>1. engine' = engine
    BY DEF Next, Request, Submit, BusyTimeout, BeginReuse, BeginRefuse, BeginExpire, Begin,
           CheckCaps, CheckOneWay, Refuse, Launch, InsertRefused, FindDuplicate, Attach,
           Stop, Close, Loss, Recover, SetLimits, vars, tables
  <2>2. CASE bot' = bot
    BY <2>1, <2>2 DEF Desk!DeskNext, Desk!Surroundings, Desk!deskVars
  <2>3. ASSUME NEW q \in Reqs, Launch(q) PROVE Desk!DeskNext
    <3>1. /\ q \in Open /\ pc[q] = "oneWay" /\ job[q] \in Recs /\ ChainBot(job[q]) = {}
          /\ bot' = [bot EXCEPT ![job[q]] = "running"] /\ UNCHANGED <<limits, tripped>>
      BY <2>3 DEF Launch, Open, InTransaction, Checking
    <3>2. bot[job[q]] = "none"
      BY <3>1 DEF JobsAreUntouched, Checking
    <3>3. engine = "sqlite" => WithinCaps(job[q]) /\ OneWay(job[q])
      BY <3>1 DEF ChecksStillHold
    <3>4. engine = "sqlite" => Desk!Permitted(job[q])
      <4>1. Desk!Running = Running
        BY DEF Running, Desk!Running
      <4>2. Desk!RunningOn(Symbol[job[q]]) = RunningOn(Symbol[job[q]])
        BY <4>1 DEF RunningOn, Desk!RunningOn
      <4>3. \A S : Desk!Cardinality(S) = Cardinality(S)
        BY DEF Cardinality, Desk!Cardinality
      <4> QED BY <3>3, <4>1, <4>2, <4>3 DEF WithinCaps, OneWay, Desk!Permitted
    <3>5. Desk!StartBot(job[q])
      BY <2>1, <3>1, <3>2, <3>4 DEF Desk!StartBot, Desk!SameChain, Desk!Running, ChainBot, Running
    <3> QED BY <3>1, <3>5 DEF Desk!DeskNext
  <2>4. ASSUME NEW r \in Recs, Stop(r) PROVE Desk!DeskNext
    BY <2>1, <2>4 DEF Stop, Desk!DeskNext, Desk!EndBot
  <2> QED BY <2>2, <2>3, <2>4, WhoChangesBots
<1> QED BY <1>1, <1>2, LocksHold, PTL DEF Spec, ImplementsOneDesk, Desk!DeskSpec

=============================================================================
