---------------------------- MODULE RuntimeLease ----------------------------
(***************************************************************************)
(* One row of the runtime_locks table and the supervised background worker *)
(* that every application process runs for that lock key: the lease of     *)
(* app/db.py, the supervisor, the lifespan and the canonical worker loop   *)
(* of app/main.py.                                                         *)
(*                                                                         *)
(* A member of Procs is an owner string "hostname:pid".  Time is relative: *)
(* instead of the timestamps the code stores, the state holds their AGES,  *)
(* so that it stays finite while time runs on forever.                     *)
(***************************************************************************)
EXTENDS Naturals

CONSTANTS
  Procs,        \* owner strings
  NoOwner,      \* no row in runtime_locks
  HostOf,       \* the hostname part of an owner string
  Ttl,          \* ttl_sec, in ticks
  MaxLag,       \* how long one lock statement may wait for the database
  Checkpoints,  \* how many heartbeats a cycle must pass before it commits
  Reusable      \* owner strings that may be started again after they died

ASSUME NoOwnerAssumption == NoOwner \notin Procs
ASSUME BoundsAssumption == Ttl \in Nat /\ MaxLag \in Nat /\ Checkpoints \in Nat
ASSUME ReuseAssumption == Reusable \subseteq Procs

VARIABLES
  row,      \* owner column of the lock row, or NoOwner
  rowAge,   \* age of its heartbeat_ts
  pc,       \* where the worker of each process is
  lag,      \* age of the now_ts() a pending lock statement will use
  left,     \* heartbeats the current cycle still has to pass
  conf,     \* age of the clock reading of the last confirmed lease; Ttl+1: none
  suspect   \* owner a starting process has read and may declare dead

vars == <<row, rowAge, pc, lag, left, conf, suspect>>

-----------------------------------------------------------------------------

NotRunning == {"unborn", "dead"}
Reading == {"claim", "beat"}
InCycle == {"work", "beat"}
Serving == {"idle", "claim", "work", "beat"}
Places == NotRunning \union Serving \union
            {"reclaim", "check", "delete", "backoff", "stopping"}

Unconfirmed == Ttl + 1
OldestAge == Ttl + MaxLag + 1   \* every greater age behaves like this one

\* Every variable has its type; a heartbeat in flight is one the cycle still owes.
TypeOK ==
  /\ row \in Procs \union {NoOwner}
  /\ rowAge \in 0..OldestAge
  /\ pc \in [Procs -> Places]
  /\ lag \in [Procs -> 0..MaxLag]
  /\ left \in [Procs -> 0..Checkpoints]
  /\ conf \in [Procs -> 0..Unconfirmed]
  /\ suspect \in [Procs -> Procs \union {NoOwner}]
  /\ \A p \in Procs : pc[p] = "beat" => left[p] > 0

Init ==
  /\ row = NoOwner
  /\ rowAge = 0
  /\ pc = [p \in Procs |-> "unborn"]
  /\ lag = [p \in Procs |-> 0]
  /\ left = [p \in Procs |-> 0]
  /\ conf = [p \in Procs |-> Unconfirmed]
  /\ suspect = [p \in Procs |-> NoOwner]

Alive(p) == pc[p] \notin NotRunning
Goto(p, place) == pc' = [pc EXCEPT ![p] = place]
Confirmed(age) == IF age > Ttl THEN Unconfirmed ELSE age
\* A confirmation counts for as long as a competitor cannot find the row stale.
Fresh(p) == conf[p] <= Ttl

-----------------------------------------------------------------------------
(* Startup: the lifespan deletes leases of dead local owners.              *)

Start(p) ==
  /\ pc[p] = "unborn" \/ (p \in Reusable /\ pc[p] = "dead")
  /\ Goto(p, "reclaim")
  /\ UNCHANGED <<row, rowAge, lag, left, conf, suspect>>

ReclaimRead(p) ==
  /\ pc[p] = "reclaim"
  /\ suspect' = [suspect EXCEPT ![p] = row]
  /\ Goto(p, "check")
  /\ UNCHANGED <<row, rowAge, lag, left, conf>>

\* A foreign owner of this host whose process is gone.
MayDelete(p, q) == q \in Procs \ {p} /\ HostOf[q] = HostOf[p] /\ ~Alive(q)

ReclaimCheckDead(p) ==
  /\ pc[p] = "check"
  /\ MayDelete(p, suspect[p])
  /\ Goto(p, "delete")
  /\ UNCHANGED <<row, rowAge, lag, left, conf, suspect>>

\* A remote, own, live or undecided owner is spared; so is any owner when the
\* liveness probe or the statement raises.
ReclaimSpare(p) ==
  /\ pc[p] \in {"reclaim", "check", "delete"}
  /\ suspect' = [suspect EXCEPT ![p] = NoOwner]
  /\ Goto(p, "idle")
  /\ UNCHANGED <<row, rowAge, lag, left, conf>>

ReclaimDelete(p) ==
  /\ pc[p] = "delete"
  /\ row' = IF row = suspect[p] THEN NoOwner ELSE row
  /\ rowAge' = IF row = suspect[p] THEN 0 ELSE rowAge
  /\ suspect' = [suspect EXCEPT ![p] = NoOwner]
  /\ Goto(p, "idle")
  /\ UNCHANGED <<lag, left, conf>>

-----------------------------------------------------------------------------
(* acquire_runtime_lock: now_ts() is read before the transaction, so the   *)
(* decision and the stored heartbeat use a reading that is lag[p] old.     *)

ClaimRead(p) ==
  /\ pc[p] = "idle"
  /\ Goto(p, "claim")
  /\ UNCHANGED <<row, rowAge, lag, left, conf, suspect>>

\* Mutant: a lease that is just as old as the ttl is taken over.
GrantedAtTtl(p) == row \in {NoOwner, p} \/ rowAge >= Ttl + lag[p]
\* Mutant: an expired lease is never taken over.
GrantedOnlyIfFree(p) == row \in {NoOwner, p}

Granted(p) == row \in {NoOwner, p} \/ rowAge > Ttl + lag[p]

EndRead(p, place) ==
  /\ Goto(p, place)
  /\ lag' = [lag EXCEPT ![p] = 0]

Claim(p) ==
  /\ pc[p] = "claim"
  /\ Granted(p)
  /\ row' = p
  /\ rowAge' = lag[p]
  /\ conf' = [conf EXCEPT ![p] = Confirmed(lag[p])]
  /\ left' = [left EXCEPT ![p] = Checkpoints]
  /\ EndRead(p, "work")
  /\ UNCHANGED suspect

ClaimDenied(p) ==
  /\ pc[p] = "claim"
  /\ ~Granted(p)
  /\ EndRead(p, "idle")
  /\ UNCHANGED <<row, rowAge, left, conf, suspect>>

\* An OperationalError ends the retries and reads as "no lock"; when the commit
\* itself raised, the row may nevertheless have been written.
ClaimError(p) ==
  /\ pc[p] = "claim"
  /\ \/ UNCHANGED <<row, rowAge>>
     \/ Granted(p) /\ row' = p /\ rowAge' = lag[p]
  /\ EndRead(p, "idle")
  /\ UNCHANGED <<left, conf, suspect>>

-----------------------------------------------------------------------------
(* The worker's cycle: heartbeats between its stages, then the commit.     *)

HeartbeatRead(p) ==
  /\ pc[p] = "work"
  /\ left[p] > 0
  /\ Goto(p, "beat")
  /\ UNCHANGED <<row, rowAge, lag, left, conf, suspect>>

\* Mutant: the UPDATE's rowcount is ignored.
HeartbeatBlind(p) ==
  /\ pc[p] = "beat"
  /\ rowAge' = IF row = p THEN lag[p] ELSE rowAge
  /\ conf' = [conf EXCEPT ![p] = Confirmed(lag[p])]
  /\ left' = [left EXCEPT ![p] = @ - 1]
  /\ EndRead(p, "work")
  /\ UNCHANGED <<row, suspect>>

Heartbeat(p) ==
  /\ pc[p] = "beat"
  /\ row = p
  /\ rowAge' = lag[p]
  /\ conf' = [conf EXCEPT ![p] = Confirmed(lag[p])]
  /\ left' = [left EXCEPT ![p] = @ - 1]
  /\ EndRead(p, "work")
  /\ UNCHANGED <<row, suspect>>

AbandonCycle(p) ==
  /\ conf' = [conf EXCEPT ![p] = Unconfirmed]
  /\ left' = [left EXCEPT ![p] = 0]

\* The UPDATE matched no row, or raised (before or after it took effect):
\* RuntimeLockLostError, rollback, wait for the next interval.
HeartbeatLost(p) ==
  /\ pc[p] = "beat"
  /\ \/ UNCHANGED rowAge
     \/ row = p /\ rowAge' = lag[p]
  /\ AbandonCycle(p)
  /\ EndRead(p, "idle")
  /\ UNCHANGED <<row, suspect>>

Commit(p) ==
  /\ pc[p] = "work"
  /\ left[p] = 0
  /\ AbandonCycle(p)
  /\ Goto(p, "idle")
  /\ UNCHANGED <<row, rowAge, lag, suspect>>

-----------------------------------------------------------------------------
(* The supervisor and the end of a process.                                *)

\* The worker loop raises (the outcome worker on a lost lease, any worker on an
\* error outside its own try): the supervisor sleeps, releases, runs it again.
Raise(p) ==
  /\ pc[p] \in Serving
  /\ AbandonCycle(p)
  /\ EndRead(p, "backoff")
  /\ UNCHANGED <<row, rowAge, suspect>>

\* The stop event is set and the loop returns at its next test.
Stop(p) ==
  /\ pc[p] = "idle"
  /\ Goto(p, "stopping")
  /\ UNCHANGED <<row, rowAge, lag, left, conf, suspect>>

AfterRelease(p) == IF pc[p] = "backoff" THEN "idle" ELSE "dead"

\* Mutant: DELETE ... WHERE lock_key=? without the owner.
ReleaseAny(p) ==
  /\ pc[p] \in {"backoff", "stopping"}
  /\ row' = NoOwner
  /\ rowAge' = 0
  /\ Goto(p, AfterRelease(p))
  /\ UNCHANGED <<lag, left, conf, suspect>>

Release(p) ==
  /\ pc[p] \in {"backoff", "stopping"}
  /\ row' = IF row = p THEN NoOwner ELSE row
  /\ rowAge' = IF row = p THEN 0 ELSE rowAge
  /\ Goto(p, AfterRelease(p))
  /\ UNCHANGED <<lag, left, conf, suspect>>

\* A failed release is logged and swallowed: the row stays.
ReleaseError(p) ==
  /\ pc[p] \in {"backoff", "stopping"}
  /\ Goto(p, AfterRelease(p))
  /\ UNCHANGED <<row, rowAge, lag, left, conf, suspect>>

Crash(p) ==
  /\ Alive(p)
  /\ AbandonCycle(p)
  /\ suspect' = [suspect EXCEPT ![p] = NoOwner]
  /\ EndRead(p, "dead")
  /\ UNCHANGED <<row, rowAge>>

-----------------------------------------------------------------------------

Older(age, oldest) == IF age < oldest THEN age + 1 ELSE oldest

\* Time passes everywhere, as long as no lock statement has waited for MaxLag.
Tick ==
  /\ \A p \in Procs : pc[p] \in Reading => lag[p] < MaxLag
  /\ rowAge' = IF row = NoOwner THEN rowAge ELSE Older(rowAge, OldestAge)
  /\ lag' = [p \in Procs |-> IF pc[p] \in Reading THEN lag[p] + 1 ELSE lag[p]]
  /\ conf' = [p \in Procs |-> Older(conf[p], Unconfirmed)]
  /\ UNCHANGED <<row, pc, left, suspect>>

Reclaim(p) == ReclaimRead(p) \/ ReclaimCheckDead(p) \/ ReclaimSpare(p) \/ ReclaimDelete(p)
Acquire(p) == ClaimRead(p) \/ Claim(p) \/ ClaimDenied(p) \/ ClaimError(p)
Cycle(p) == HeartbeatRead(p) \/ Heartbeat(p) \/ HeartbeatLost(p) \/ Commit(p)
Supervise(p) == Raise(p) \/ Stop(p) \/ Release(p) \/ ReleaseError(p)

Next ==
  \/ \E p \in Procs : \/ Start(p) \/ Reclaim(p) \/ Acquire(p)
                      \/ Cycle(p) \/ Supervise(p) \/ Crash(p)
  \/ Tick

Spec == Init /\ [][Next]_vars

(***************************************************************************)
(* Threads that are running keep running and clocks advance.  Failures,    *)
(* starts and stops are never forced.  A claim statement may fail any      *)
(* number of times but is not the one write that never gets through: six   *)
(* attempts with growing pauses in each of infinitely many intervals.      *)
(***************************************************************************)
Progress(p) == Reclaim(p) \/ Acquire(p) \/ Cycle(p) \/ Release(p) \/ ReleaseError(p)

Fairness ==
  /\ WF_vars(Tick)
  /\ \A p \in Procs : WF_vars(Progress(p)) /\ SF_vars(Claim(p))

FairSpec == Spec /\ Fairness

-----------------------------------------------------------------------------
(* Properties.                                                             *)

\* The hypothesis under which the guarantees below hold: where the operating system
\* hands a dead owner's pid out again, no other process runs on that host.
ReuseIsSolitary ==
  \A p \in Reusable, q \in Procs : HostOf[p] = HostOf[q] => p = q

\* While a worker's last confirmation (claim or heartbeat that returned True) is no
\* older than the ttl, counted from the clock reading it used, the row is its own:
\* however late the statement ran, whatever the others claimed, released, reclaimed.
FreshConfirmationOwnsLease == \A p \in Procs : Fresh(p) => row = p

\* The stored heartbeat is never older than the owner's own idea of its lease, a
\* declared-dead owner is dead (and was alive once), and only a running cycle trusts a
\* confirmation.
LeaseInvariant ==
  /\ \A p \in Procs : Fresh(p) => row = p /\ rowAge <= conf[p] /\ pc[p] \in InCycle
  /\ \A p \in Procs : pc[p] = "delete" => MayDelete(p, suspect[p])
  /\ \A p, q \in Procs : pc[p] = "unborn" => row # p /\ suspect[q] # p

\* A live process loses its row only through its own release or after more than
\* the ttl of silence: the startup reclaim never takes a live owner's lease.
LiveLeaseOnlyLostBySilence ==
  [][\A p \in Procs : row = p /\ row' # p /\ Alive(p)
        => rowAge > Ttl \/ Release(p)]_vars

\* The lease does not stay with a dead process for ever as long as some worker's
\* loop keeps running: it expires and is taken over, or reclaimed.
Up(p) == pc[p] \in Serving
Orphaned == row \in Procs /\ pc[row] = "dead"
OrphanedLeaseIsTakenOver ==
  \A p \in Procs : <>[]Up(p) => []<>~Orphaned

-----------------------------------------------------------------------------
(* What the lease promises, and the state of the promise in this module.   *)

FreshWriters == {p \in Procs : Fresh(p)}

Abstract == INSTANCE ExclusiveWriter WITH Clients <- Procs, Nobody <- NoOwner,
                                          holder <- row, writers <- FreshWriters

\* The worker threads, the lock table and the reclaim implement a single writer.
ImplementsExclusiveWriter == Abstract!Spec
=============================================================================
