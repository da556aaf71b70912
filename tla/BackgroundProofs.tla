--------------------------- MODULE BackgroundProofs ---------------------------
(***************************************************************************)
(* Theorems about the background workers: the lease each of them runs      *)
(* under, and the candles that two of them write.                          *)
(*                                                                         *)
(* The lease: for every set of owners, every ttl, every bound on the lag   *)
(* of a lock statement and every number of heartbeats per cycle, a fresh   *)
(* confirmation owns the lease.  The candles: for every tail, page, window *)
(* and set of minutes the exchange lacks, no hole of an outage is          *)
(* forgotten.                                                              *)
(***************************************************************************)
EXTENDS RuntimeLease, MarketHistory, WellFoundedInduction, NaturalsInduction, TLAPS

USE NoOwnerAssumption, BoundsAssumption, ReuseAssumption

\* One step of one process, with the action spelt out.
LEMMA StepCases ==
  ASSUME NEW p \in Procs,
         Start(p) \/ Reclaim(p) \/ Acquire(p) \/ Cycle(p) \/ Supervise(p) \/ Crash(p)
  PROVE  \/ Start(p) \/ ReclaimRead(p) \/ ReclaimCheckDead(p) \/ ReclaimSpare(p)
         \/ ReclaimDelete(p) \/ ClaimRead(p) \/ Claim(p) \/ ClaimDenied(p) \/ ClaimError(p)
         \/ HeartbeatRead(p) \/ Heartbeat(p) \/ HeartbeatLost(p) \/ Commit(p)
         \/ Raise(p) \/ Stop(p) \/ Release(p) \/ ReleaseError(p) \/ Crash(p)
  BY DEF Reclaim, Acquire, Cycle, Supervise

\* A step of one worker keeps the state well typed.
LEMMA WorkerTypes ==
  ASSUME TypeOK, NEW p \in Procs,
         Start(p) \/ Reclaim(p) \/ Acquire(p) \/ Cycle(p) \/ Supervise(p) \/ Crash(p)
  PROVE  TypeOK'
<1> USE DEF TypeOK, Goto, EndRead, AbandonCycle, Confirmed, Unconfirmed, OldestAge,
            Places, NotRunning, Serving, Reading, InCycle
<1>1. CASE Start(p) BY <1>1 DEF Start
<1>2. CASE ReclaimRead(p) BY <1>2 DEF ReclaimRead
<1>3. CASE ReclaimCheckDead(p) BY <1>3 DEF ReclaimCheckDead
<1>4. CASE ReclaimSpare(p) BY <1>4 DEF ReclaimSpare
<1>5. CASE ReclaimDelete(p) BY <1>5 DEF ReclaimDelete
<1>6. CASE ClaimRead(p) BY <1>6 DEF ClaimRead
<1>7. CASE Claim(p) BY <1>7 DEF Claim
<1>8. CASE ClaimDenied(p) BY <1>8 DEF ClaimDenied
<1>9. CASE ClaimError(p) BY <1>9 DEF ClaimError
<1>10. CASE HeartbeatRead(p) BY <1>10 DEF HeartbeatRead
<1>11. CASE Heartbeat(p) BY <1>11 DEF Heartbeat
<1>12. CASE HeartbeatLost(p) BY <1>12 DEF HeartbeatLost
<1>13. CASE Commit(p) BY <1>13 DEF Commit
<1>14. CASE Raise(p) BY <1>14 DEF Raise
<1>15. CASE Stop(p) BY <1>15 DEF Stop
<1>16. CASE Release(p) BY <1>16 DEF Release, AfterRelease
<1>17. CASE ReleaseError(p) BY <1>17 DEF ReleaseError, AfterRelease
<1>18. CASE Crash(p) BY <1>18 DEF Crash
<1>19. QED BY StepCases, <1>1, <1>2, <1>3, <1>4, <1>5, <1>6, <1>7, <1>8, <1>9, <1>10,
              <1>11, <1>12, <1>13, <1>14, <1>15, <1>16, <1>17, <1>18

\* Type correctness of the lease: every step of the lock table and its workers.
THEOREM TypeCorrect == Spec => []TypeOK
<1>1. Init => TypeOK
  BY DEF Init, TypeOK, Places, NotRunning, OldestAge, Unconfirmed
<1>2. TypeOK /\ [Next]_vars => TypeOK'
  <2> SUFFICES ASSUME TypeOK, [Next]_vars PROVE TypeOK' OBVIOUS
  <2>1. CASE Tick BY <2>1 DEF Tick, TypeOK, Older, OldestAge, Unconfirmed, Reading
  <2>2. CASE UNCHANGED vars BY <2>2 DEF vars, TypeOK
  <2>3. QED BY <2>1, <2>2, WorkerTypes DEF Next
<1>3. QED BY <1>1, <1>2, PTL DEF Spec

-----------------------------------------------------------------------------

\* A step of one worker keeps the invariant.  Whoever takes the row finds it more
\* than Ttl old, so its previous owner, whose confirmation is no younger than the
\* row, has stopped trusting it; whoever deletes a foreign row has seen its owner
\* dead, and without pid reuse on a shared host it is dead still.
LEMMA WorkerKeepsLease ==
  ASSUME TypeOK, LeaseInvariant, ReuseIsSolitary, NEW p \in Procs,
         Start(p) \/ Reclaim(p) \/ Acquire(p) \/ Cycle(p) \/ Supervise(p) \/ Crash(p)
  PROVE  LeaseInvariant'
<1> USE DEF TypeOK, LeaseInvariant, Fresh, MayDelete, Alive, Goto, EndRead, AbandonCycle,
            Confirmed, Unconfirmed, OldestAge, NotRunning, InCycle
<1>1. CASE Start(p) BY <1>1 DEF Start, ReuseIsSolitary
<1>2. CASE ReclaimRead(p) BY <1>2 DEF ReclaimRead
<1>3. CASE ReclaimCheckDead(p) BY <1>3 DEF ReclaimCheckDead
<1>4. CASE ReclaimSpare(p) BY <1>4 DEF ReclaimSpare
<1>5. CASE ReclaimDelete(p) BY <1>5 DEF ReclaimDelete
<1>6. CASE ClaimRead(p) BY <1>6 DEF ClaimRead
<1>7. CASE Claim(p) BY <1>7 DEF Claim, Granted
<1>8. CASE ClaimDenied(p) BY <1>8 DEF ClaimDenied
<1>9. CASE ClaimError(p) BY <1>9 DEF ClaimError, Granted
<1>10. CASE HeartbeatRead(p) BY <1>10 DEF HeartbeatRead
<1>11. CASE Heartbeat(p) BY <1>11 DEF Heartbeat
<1>12. CASE HeartbeatLost(p) BY <1>12 DEF HeartbeatLost
<1>13. CASE Commit(p) BY <1>13 DEF Commit
<1>14. CASE Raise(p) BY <1>14 DEF Raise, Serving
<1>15. CASE Stop(p) BY <1>15 DEF Stop
<1>16. CASE Release(p) BY <1>16 DEF Release, AfterRelease
<1>17. CASE ReleaseError(p) BY <1>17 DEF ReleaseError, AfterRelease
<1>18. CASE Crash(p) BY <1>18 DEF Crash
<1>19. QED BY StepCases, <1>1, <1>2, <1>3, <1>4, <1>5, <1>6, <1>7, <1>8, <1>9, <1>10,
              <1>11, <1>12, <1>13, <1>14, <1>15, <1>16, <1>17, <1>18

\* The passing of time keeps it: row and confirmation age together.
LEMMA TickKeepsLease ==
  ASSUME TypeOK, LeaseInvariant, Tick
  PROVE  LeaseInvariant'
  BY DEF TypeOK, LeaseInvariant, Tick, Fresh, MayDelete, Alive, Older, OldestAge, Unconfirmed


THEOREM LeaseIsInvariant == ASSUME ReuseIsSolitary PROVE Spec => []LeaseInvariant
<1>1. Init => LeaseInvariant
  BY DEF Init, LeaseInvariant, Fresh, Unconfirmed, MayDelete
<1>2. TypeOK /\ LeaseInvariant /\ [Next]_vars => LeaseInvariant'
  <2> SUFFICES ASSUME TypeOK, LeaseInvariant, [Next]_vars PROVE LeaseInvariant' OBVIOUS
  <2>1. CASE UNCHANGED vars BY <2>1 DEF vars, LeaseInvariant, Fresh, MayDelete, Alive
  <2>2. QED BY <2>1, WorkerKeepsLease, TickKeepsLease DEF Next
<1>3. QED BY <1>1, <1>2, TypeCorrect, PTL DEF Spec

\* The point of the lease: as long as a worker's last confirmation is no older than
\* the ttl, the row is its own, for every number of processes, hosts and failures.
THEOREM FreshConfirmationIsExclusive ==
  ASSUME ReuseIsSolitary PROVE Spec => []FreshConfirmationOwnsLease
<1>1. LeaseInvariant => FreshConfirmationOwnsLease
  BY DEF LeaseInvariant, FreshConfirmationOwnsLease
<1>2. QED BY <1>1, LeaseIsInvariant, PTL


-----------------------------------------------------------------------------

\* A live process loses the row by its own release or after more than ttl of silence.
THEOREM LiveLeaseIsSpared == ASSUME ReuseIsSolitary PROVE Spec => LiveLeaseOnlyLostBySilence
<1> DEFINE Spared == \A p \in Procs :
                       row = p /\ row' # p /\ Alive(p) => rowAge > Ttl \/ Release(p)
<1>1. TypeOK /\ LeaseInvariant /\ [Next]_vars => [Spared]_vars
  <2> SUFFICES ASSUME TypeOK, LeaseInvariant, Next,
                      NEW p \in Procs, row = p, row' # p, Alive(p)
               PROVE  rowAge > Ttl \/ Release(p)
    OBVIOUS
  <2>1. ~Tick BY DEF Tick
  <2>2. PICK q \in Procs : \/ Start(q) \/ Reclaim(q) \/ Acquire(q) \/ Cycle(q)
                           \/ Supervise(q) \/ Crash(q)
    BY <2>1 DEF Next
  <2>3. Claim(q) \/ ClaimError(q) \/ ReclaimDelete(q) \/ Release(q)
    BY <2>2, StepCases
       DEF Start, ReclaimRead, ReclaimCheckDead, ReclaimSpare, ClaimRead, ClaimDenied,
           HeartbeatRead, Heartbeat, HeartbeatLost, Commit, Raise, Stop, ReleaseError, Crash
  <2>4. CASE Claim(q) \/ ClaimError(q)
    BY <2>4 DEF Claim, ClaimError, Granted, TypeOK, OldestAge
  <2>5. CASE ReclaimDelete(q) BY <2>5 DEF ReclaimDelete, LeaseInvariant, MayDelete
  <2>6. CASE Release(q) BY <2>6 DEF Release
  <2>7. QED BY <2>3, <2>4, <2>5, <2>6
<1>2. QED BY <1>1, TypeCorrect, LeaseIsInvariant, PTL DEF Spec, LiveLeaseOnlyLostBySilence

-----------------------------------------------------------------------------

\* With a fresh confirmation the row is its writer's, so there is at most one writer.
LEMMA WritersAreHolders ==
  ASSUME LeaseInvariant
  PROVE  \A p \in FreshWriters : row = p
  BY DEF LeaseInvariant, FreshWriters

\* A step of one worker is a step of the single writer, or changes nothing of it.
LEMMA WorkerImplements ==
  ASSUME TypeOK, LeaseInvariant, NEW p \in Procs,
         Start(p) \/ Reclaim(p) \/ Acquire(p) \/ Cycle(p) \/ Supervise(p) \/ Crash(p)
  PROVE  [Abstract!Next]_<<row, FreshWriters>>
<1> USE WritersAreHolders
<1> USE DEF TypeOK, Fresh, FreshWriters, Goto, EndRead, AbandonCycle, Unconfirmed, OldestAge,
            Abstract!Next, Abstract!Take, Abstract!Confirm, Abstract!Lapse, Abstract!Vacate
<1>1. CASE Start(p) BY <1>1 DEF Start
<1>2. CASE ReclaimRead(p) BY <1>2 DEF ReclaimRead
<1>3. CASE ReclaimCheckDead(p) BY <1>3 DEF ReclaimCheckDead
<1>4. CASE ReclaimSpare(p) BY <1>4 DEF ReclaimSpare
<1>5. CASE ReclaimDelete(p)
  <2>1. CASE row # suspect[p] BY <1>5, <2>1 DEF ReclaimDelete
  <2>2. CASE row = suspect[p]
    <3>1. FreshWriters = {} /\ FreshWriters' = FreshWriters
      BY <1>5, <2>2 DEF ReclaimDelete, LeaseInvariant, MayDelete, Alive, NotRunning, InCycle
    <3>2. QED BY <1>5, <2>2, <3>1 DEF ReclaimDelete
  <2>3. QED BY <2>1, <2>2
<1>6. CASE ClaimRead(p) BY <1>6 DEF ClaimRead
<1>7. CASE Claim(p)
  <2>1. FreshWriters = {}
    BY <1>7 DEF Claim, Granted, LeaseInvariant, InCycle
  <2>2. FreshWriters' \in {{}, {p}} BY <1>7, <2>1 DEF Claim, Confirmed
  <2>3. QED BY <1>7, <2>1, <2>2 DEF Claim
<1>8. CASE ClaimDenied(p) BY <1>8 DEF ClaimDenied
<1>9. CASE ClaimError(p)
  <2>1. CASE UNCHANGED row BY <1>9, <2>1 DEF ClaimError
  <2>2. CASE row' # row
    <3>1. FreshWriters = {} /\ FreshWriters' = FreshWriters
      BY <1>9, <2>2 DEF ClaimError, Granted, LeaseInvariant, InCycle
    <3>2. QED BY <1>9, <2>2, <3>1 DEF ClaimError
  <2>3. QED BY <2>1, <2>2
<1>10. CASE HeartbeatRead(p) BY <1>10 DEF HeartbeatRead
<1>11. CASE Heartbeat(p)
  <2>1. FreshWriters' \in {{}, {p}} BY <1>11 DEF Heartbeat, Confirmed
  <2>2. QED BY <1>11, <2>1 DEF Heartbeat
<1>12. CASE HeartbeatLost(p)
  <2>1. FreshWriters' = {} \/ FreshWriters' = FreshWriters BY <1>12 DEF HeartbeatLost
  <2>2. QED BY <1>12, <2>1 DEF HeartbeatLost
<1>13. CASE Commit(p)
  <2>1. FreshWriters' = {} \/ FreshWriters' = FreshWriters BY <1>13 DEF Commit
  <2>2. QED BY <1>13, <2>1 DEF Commit
<1>14. CASE Raise(p)
  <2>1. FreshWriters' = {} \/ FreshWriters' = FreshWriters BY <1>14 DEF Raise
  <2>2. QED BY <1>14, <2>1 DEF Raise
<1>15. CASE Stop(p) BY <1>15 DEF Stop
<1>16. CASE Release(p)
  <2>1. CASE row # p BY <1>16, <2>1 DEF Release
  <2>2. CASE row = p
    <3>1. FreshWriters = {} /\ FreshWriters' = FreshWriters
      BY <1>16, <2>2 DEF Release, LeaseInvariant, InCycle
    <3>2. QED BY <1>16, <2>2, <3>1 DEF Release
  <2>3. QED BY <2>1, <2>2
<1>17. CASE ReleaseError(p) BY <1>17 DEF ReleaseError
<1>18. CASE Crash(p)
  <2>1. FreshWriters' = {} \/ FreshWriters' = FreshWriters BY <1>18 DEF Crash
  <2>2. QED BY <1>18, <2>1 DEF Crash
<1>19. QED BY StepCases, <1>1, <1>2, <1>3, <1>4, <1>5, <1>6, <1>7, <1>8, <1>9, <1>10,
              <1>11, <1>12, <1>13, <1>14, <1>15, <1>16, <1>17, <1>18


\* The clock can only make confirmations run out.
LEMMA TickImplements ==
  ASSUME TypeOK, LeaseInvariant, Tick
  PROVE  [Abstract!Next]_<<row, FreshWriters>>
<1>1. \A p \in FreshWriters' : p \in FreshWriters
  BY DEF TypeOK, Tick, Older, Fresh, FreshWriters, Unconfirmed
<1>2. FreshWriters' = {} \/ FreshWriters' = FreshWriters
  BY <1>1, WritersAreHolders DEF FreshWriters
<1>3. QED BY <1>2 DEF Tick, Abstract!Next, Abstract!Lapse

\* The lease implements the single writer, failures, reclaims and clock included.
THEOREM LeaseImplementsExclusiveWriter ==
  ASSUME ReuseIsSolitary PROVE Spec => ImplementsExclusiveWriter
<1>1. Init => Abstract!Init
  BY DEF Init, Abstract!Init, FreshWriters, Fresh, Unconfirmed
<1>2. TypeOK /\ LeaseInvariant /\ [Next]_vars => [Abstract!Next]_<<row, FreshWriters>>
  <2> SUFFICES ASSUME TypeOK, LeaseInvariant, [Next]_vars
               PROVE  [Abstract!Next]_<<row, FreshWriters>>
    OBVIOUS
  <2>1. CASE UNCHANGED vars BY <2>1 DEF vars, FreshWriters, Fresh
  <2>2. QED BY <2>1, WorkerImplements, TickImplements DEF Next
<1>3. QED BY <1>1, <1>2, TypeCorrect, LeaseIsInvariant, PTL
       DEF Spec, ImplementsExclusiveWriter, Abstract!Spec

-----------------------------------------------------------------------------
(* The candles of one symbol.  Numbers first.                              *)

\* A nonempty set of numbers has a least one.
LEMMA LeastNumber ==
  ASSUME NEW T, T \subseteq Nat, T # {}
  PROVE  \E n \in T : \A m \in T : n <= m
<1>1. PICK n \in T : \A m \in T : ~ (<<m, n>> \in OpToRel(<, Nat))
  BY NatLessThanWellFounded, WFMin
<1>2. \A m \in T : ~ (m < n)
  BY <1>1 DEF OpToRel
<1> QED BY <1>2

\* The first and the last of some minutes.
LEMMA FirstMinute ==
  ASSUME NEW S, S \subseteq Minutes, S # {}
  PROVE  Min(S) \in S /\ \A m \in S : Min(S) <= m
<1>1. S \subseteq Nat
  BY MarketAssumption DEF Minutes
<1>2. PICK n \in S : \A m \in S : n <= m
  BY <1>1, LeastNumber
<1> QED BY <1>2, Zenon DEF Min

LEMMA LastMinute ==
  ASSUME NEW S, S \subseteq Minutes, S # {}
  PROVE  Max(S) \in S /\ \A m \in S : m <= Max(S)
<1> DEFINE below == {k \in Nat : MaxNow - k \in S}
<1> USE MarketAssumption DEF Minutes
<1>1. below # {}
  <2>1. PICK m \in S : TRUE
    OBVIOUS
  <2>2. MaxNow - m \in below
    BY <2>1
  <2> QED BY <2>2
<1>2. PICK k \in below : \A j \in below : k <= j
  BY <1>1, LeastNumber
<1>3. MaxNow - k \in S /\ \A m \in S : MaxNow - k >= m
  <2> SUFFICES ASSUME NEW m \in S PROVE MaxNow - k >= m
    OBVIOUS
  <2>1. MaxNow - m \in below
    OBVIOUS
  <2> QED BY <1>2, <2>1
<1> QED BY <1>3, Zenon DEF Max

\* The smaller and the larger of two numbers.
LEMMA OfTwo ==
  ASSUME NEW a \in Int, NEW b \in Int
  PROVE  Min({a, b}) = (IF a <= b THEN a ELSE b) /\ Max({a, b}) = (IF a >= b THEN a ELSE b)
<1>1. Min({a, b}) \in {a, b} /\ \A x \in {a, b} : Min({a, b}) <= x
  <2>1. \E x \in {a, b} : \A y \in {a, b} : x <= y
    OBVIOUS
  <2> QED BY <2>1, Zenon DEF Min
<1>2. Max({a, b}) \in {a, b} /\ \A x \in {a, b} : Max({a, b}) >= x
  <2>1. \E x \in {a, b} : \A y \in {a, b} : x >= y
    OBVIOUS
  <2> QED BY <2>1, Zenon DEF Max
<1> QED BY <1>1, <1>2

\* What is assumed of the constants, one by one.
LEMMA Bounds ==
  /\ MaxNow \in Nat /\ MaxNow >= 1 /\ Tail \in Nat /\ Tail >= 1 /\ Page \in Nat /\ Page >= 1
  /\ Overlap \in Nat /\ MaxOutages \in Nat /\ MaxRetries \in Nat
BY MarketAssumption

\* The newest of some minutes, 0 if there is none.
NewestOf(S) == IF S = {} THEN 0 ELSE Max(S)

LEMMA LastIsNewest ==
  ASSUME NEW S, S \subseteq Minutes
  PROVE  /\ NewestOf(S) \in 0..MaxNow
         /\ S # {} => NewestOf(S) \in S
         /\ S = {} <=> NewestOf(S) = 0
         /\ \A m \in S : m <= NewestOf(S)
<1>1. CASE S = {}
  BY <1>1, Bounds DEF NewestOf
<1>2. CASE S # {}
  <2>1. Max(S) \in S /\ \A m \in S : m <= Max(S)
    BY <1>2, LastMinute
  <2>2. NewestOf(S) = Max(S)
    BY <1>2 DEF NewestOf
  <2>3. Max(S) \in 1..MaxNow
    BY <2>1 DEF Minutes
  <2>4. Max(S) \in 0..MaxNow /\ Max(S) # 0
    BY <2>3, Bounds
  <2> QED BY <1>2, <2>1, <2>2, <2>4, Zenon
<1> QED BY <1>1, <1>2

\* What is stored, and the newest of it.
LEMMA LastIsStored ==
  ASSUME MarketTypeOK
  PROVE  /\ Stored \subseteq Minutes /\ Last \in 0..MaxNow
         /\ Stored # {} => Last \in Stored
         /\ Stored = {} <=> Last = 0
         /\ \A m \in Stored : m <= Last
<1>1. Stored \subseteq Minutes /\ Last = NewestOf(Stored)
  BY DEF Stored, Last, NewestOf
<1> QED BY <1>1, LastIsNewest

\* The same after a step.
LEMMA LastIsStoredNext ==
  ASSUME MarketTypeOK'
  PROVE  /\ Stored' \subseteq Minutes /\ Last' \in 0..MaxNow
         /\ Stored' # {} => Last' \in Stored'
         /\ Stored' = {} <=> Last' = 0
         /\ \A m \in Stored' : m <= Last'
<1>1. Stored' \subseteq Minutes /\ Last' = NewestOf(Stored')
  BY DEF Stored, Last, NewestOf
<1> QED BY <1>1, LastIsNewest

\* Storing adds, and only adds.
LEMMA UpsertAdds ==
  ASSUME MarketTypeOK, NEW rows, rows \subseteq Minutes, NEW at \in Int, candle' = Upserted(rows, at)
  PROVE  /\ candle' \in [Minutes -> {"none", "open", "final"}]
         /\ Stored' = Stored \union rows
         /\ \A m \in Minutes : candle'[m] = "final" => (candle[m] = "final" /\ m \notin rows) \/ (m \in rows /\ m < at)
<1>1. candle \in [Minutes -> {"none", "open", "final"}]
  BY DEF MarketTypeOK
<1>2. /\ candle' \in [Minutes -> {"none", "open", "final"}]
      /\ \A m \in Minutes : candle'[m] = IF m \in rows THEN (IF m < at THEN "final" ELSE "open") ELSE candle[m]
  BY <1>1 DEF Upserted
<1>3. \A m \in Minutes : candle'[m] # "none" <=> candle[m] # "none" \/ m \in rows
  BY <1>2
<1>4. Stored' = Stored \union rows
  BY <1>3 DEF Stored
<1>5. ASSUME NEW m \in Minutes, candle'[m] = "final"
      PROVE  (candle[m] = "final" /\ m \notin rows) \/ (m \in rows /\ m < at)
  <2>1. CASE m \in rows
    BY <1>2, <1>5, <2>1, Zenon
  <2>2. CASE m \notin rows
    BY <1>2, <1>5, <2>2
  <2> QED BY <2>1, <2>2
<1> QED BY <1>2, <1>4, <1>5

\* The page of a job ends with the job.
LEMMA PageEnds ==
  ASSUME NEW j \in Jobs
  PROVE  PageEnd(j) \in Int /\ PageEnd(j) <= j.end
<1>1. j.next + Page - 1 \in Int /\ j.end \in Int
  BY Bounds DEF Jobs
<1> QED BY <1>1, OfTwo DEF PageEnd

\* A widened job.
LEMMA ScheduledIsJob ==
  ASSUME job \in Jobs, NEW next \in 0..MaxNow + 1, NEW end \in 0..MaxNow, NEW at \in 0..MaxNow
  PROVE  /\ Scheduled(next, end, at) \in Jobs
         /\ Scheduled(next, end, at).end \in {end, job.end}
<1>1. job.next \in Int /\ job.end \in Int /\ job.next \in 0..MaxNow + 1 /\ job.end \in 0..MaxNow
  BY DEF Jobs
<1> next \in Int /\ end \in Int
  BY Bounds
<1>2. Min({next, job.next}) \in {next, job.next} /\ Max({end, job.end}) \in {end, job.end}
  BY <1>1, OfTwo
<1>3. CASE job.status = "pending"
  BY <1>1, <1>2, <1>3 DEF Scheduled, Jobs
<1>4. CASE job.status # "pending"
  BY <1>4 DEF Scheduled, Jobs
<1> QED BY <1>3, <1>4

-----------------------------------------------------------------------------
(* Types.                                                                  *)

\* What a filler may hold.
FillerStates ==
  [phase : {"idle", "fetched", "stored", "advanced", "derive"}, at : 0..MaxNow, job : Jobs, read : Jobs,
   rows : SUBSET Minutes]

\* What an idle worker holds.
LEMMA QuietJobs == NoJob \in Jobs /\ Waiting \in FillerStates /\ Deriving \in FillerStates
BY Bounds DEF NoJob, Jobs, Waiting, Deriving, FillerStates

\* The cycles that found a gap have a job for it.
LEMMA ResetIsJob ==
  ASSUME MarketTypeOK, hot.rows # {}, Resets
  PROVE  hot.last + 1 \in 0..MaxNow + 1 /\ GapEnd \in 0..MaxNow /\ GapEnd \in Int
<1>1. hot.rows \subseteq Minutes /\ hot.last \in 0..MaxNow
  BY DEF MarketTypeOK
<1>2. Min(hot.rows) \in 1..MaxNow
  BY <1>1, FirstMinute DEF Minutes
<1> QED BY <1>1, <1>2, Bounds DEF GapEnd

\* Every step keeps the state of the market well typed.
LEMMA StepKeepsTypes ==
  ASSUME MarketTypeOK, WindowIsWhole, PagesAreWhole, [MarketNext]_marketVars
  PROVE  MarketTypeOK'
<1> USE Bounds, QuietJobs
<1>1. filler \in [Fillers -> FillerStates]
  BY DEF MarketTypeOK, FillerStates
<1>2. \A d \in {Derived} : d \in [Buckets -> {"none", "early", "final"}]
  BY DEF Derived, MarketTypeOK
<1>4. CASE MinutePasses
  BY <1>4 DEF MinutePasses, MarketTypeOK, Minutes
<1>5. CASE HotFetch
  <2>1. Listed(WindowStart(Last), now, now) \subseteq Minutes
    BY DEF Listed
  <2>2. Last \in 0..MaxNow /\ now \in 0..MaxNow
    BY LastIsStored DEF MarketTypeOK, Minutes
  <2>3. outages' \in 0..MaxOutages
    BY <1>5 DEF HotFetch, MarketTypeOK
  <2> QED BY <1>5, <2>1, <2>2, <2>3 DEF HotFetch, MarketTypeOK
<1>6. CASE Stage
  <2>1. staged' \in Jobs
    <3>1. CASE Resets
      <4>1. hot.rows # {} /\ hot.at \in 0..MaxNow /\ job \in Jobs
        BY <1>6 DEF Stage, WindowIsWhole, InFlight, MarketTypeOK
      <4> QED BY <1>6, <3>1, <4>1, ResetIsJob, ScheduledIsJob DEF Stage
    <3>2. CASE ~ Resets
      BY <1>6, <3>2 DEF Stage
    <3> QED BY <3>1, <3>2
  <2> QED BY <1>6, <2>1 DEF Stage, MarketTypeOK
<1>7. CASE Store
  <2>1. candle' \in [Minutes -> {"none", "open", "final"}]
    BY <1>7, UpsertAdds DEF Store, MarketTypeOK
  <2>2. job' \in Jobs /\ retries' \in 0..MaxRetries
    BY <1>7 DEF Store, MarketTypeOK
  <2> QED BY <1>7, <2>1, <2>2 DEF Store, MarketTypeOK, Idle
<1>8. CASE HotDerive
  BY <1>2, <1>8 DEF HotDerive, MarketTypeOK, Idle
<1>9. CASE HotFails
  BY <1>9 DEF HotFails, MarketTypeOK, Idle
<1>10. ASSUME NEW f \in Fillers, Load(f) PROVE MarketTypeOK'
  <2>1. Listed(job.next, PageEnd(job), now) \subseteq Minutes /\ now \in 0..MaxNow /\ job \in Jobs
    BY DEF Listed, MarketTypeOK, Minutes
  <2>2. filler' \in [Fillers -> FillerStates]
    BY <1>1, <1>10, <2>1 DEF Load, FillerStates
  <2> QED BY <1>10, <2>2 DEF Load, MarketTypeOK, FillerStates
<1>11. ASSUME NEW f \in Fillers, StorePage(f) PROVE MarketTypeOK'
  <2>1. filler[f].rows \subseteq Minutes /\ filler[f].at \in Int
    BY <1>1 DEF FillerStates
  <2>2. candle' \in [Minutes -> {"none", "open", "final"}]
    BY <1>11, <2>1, UpsertAdds DEF StorePage
  <2>3. filler' \in [Fillers -> FillerStates]
    BY <1>1, <1>11 DEF StorePage, FillerStates
  <2> QED BY <1>11, <2>2, <2>3 DEF StorePage, MarketTypeOK, FillerStates
<1>12. ASSUME NEW f \in Fillers, Reread(f) PROVE MarketTypeOK'
  <2>1. filler' \in [Fillers -> FillerStates]
    <3>1. job \in Jobs
      BY DEF MarketTypeOK
    <3>2. CASE job.at = filler[f].job.at
      <4>1. filler' = [filler EXCEPT ![f].phase = "advanced", ![f].read = job]
        BY <1>12, <3>2 DEF Reread
      <4> QED BY <1>1, <3>1, <4>1 DEF FillerStates
    <3>3. CASE job.at # filler[f].job.at
      <4>1. filler' = [filler EXCEPT ![f] = Deriving]
        BY <1>12, <3>3 DEF Reread
      <4> QED BY <1>1, <4>1
    <3> QED BY <3>2, <3>3
  <2> QED BY <1>12, <2>1 DEF Reread, MarketTypeOK, FillerStates
<1>13. ASSUME NEW f \in Fillers, Advance(f) PROVE MarketTypeOK'
  <2>1. filler[f].rows \subseteq Minutes /\ filler[f].rows # {} /\ filler[f].read \in Jobs
    BY <1>1, <1>13 DEF FillerStates, Advance, PagesAreWhole, AtWork
  <2>2. Cursor(filler[f].job, filler[f].rows) \in 0..MaxNow + 1
    BY <2>1, LastMinute DEF Cursor, Minutes
  <2>3. job' \in Jobs
    BY <1>13, <2>1, <2>2 DEF Advance, Jobs
  <2>4. filler' \in [Fillers -> FillerStates]
    BY <1>1, <1>13 DEF Advance
  <2> QED BY <1>13, <2>3, <2>4 DEF Advance, MarketTypeOK, FillerStates
<1>14. ASSUME NEW f \in Fillers, FillDerive(f) PROVE MarketTypeOK'
  <2>1. filler' \in [Fillers -> FillerStates]
    BY <1>1, <1>14 DEF FillDerive
  <2> QED BY <1>2, <1>14, <2>1 DEF FillDerive, MarketTypeOK, FillerStates
<1>15. ASSUME NEW f \in Fillers, FillFails(f) PROVE MarketTypeOK'
  <2>1. filler' \in [Fillers -> FillerStates]
    BY <1>1, <1>15 DEF FillFails
  <2> QED BY <1>15, <2>1 DEF FillFails, MarketTypeOK, FillerStates
<1>16. CASE UNCHANGED marketVars
  BY <1>16 DEF marketVars, MarketTypeOK
<1> QED BY <1>4, <1>5, <1>6, <1>7, <1>8, <1>9, <1>10, <1>11, <1>12, <1>13, <1>14, <1>15, <1>16
        DEF MarketNext, Hot, Fill

-----------------------------------------------------------------------------
(* Fetched spans and jobs, for any number of outages and retries.          *)

\* What the collector holds is what the exchange had of its window.
LEMMA WindowStaysWhole ==
  ASSUME MarketTypeOK, WindowIsWhole, [MarketNext]_marketVars
  PROVE  WindowIsWhole'
<1> USE Bounds DEF WindowIsWhole, InFlight
<1> now \in Int /\ now >= 1
  BY DEF MarketTypeOK, Minutes
<1>1. CASE MinutePasses
  BY <1>1 DEF MinutePasses
<1>2. CASE HotFetch
  <2>1. Last \in Int
    BY LastIsStored
  <2>2. hot'.phase = "fetched" /\ hot'.at = now /\ hot'.last = Last /\ hot'.rows # {} /\ UNCHANGED <<now, staged>>
        /\ hot'.rows = Listed(WindowStart(Last), now, now)
    BY <1>2 DEF HotFetch
  <2>3. hot'.rows = {m \in Minutes \ Holes : WindowStart(Last) <= m /\ m <= now}
    BY <2>2 DEF Listed, Minutes
  <2>4. WindowStart(Last) = IF Last = 0 \/ now - Last > Tail THEN now - Tail + 1 ELSE Last - Overlap
    BY <2>1 DEF WindowStart, LongGap
  <2>5. staged = NoJob
    BY <1>2 DEF HotFetch
  <2> QED BY <2>1, <2>2, <2>3, <2>4, <2>5
<1>3. CASE Stage
  BY <1>3 DEF Stage, MarketTypeOK
<1>4. CASE Store
  BY <1>4 DEF Store, Idle, MarketTypeOK
<1>5. CASE HotDerive
  BY <1>5 DEF HotDerive, Idle
<1>6. CASE HotFails
  BY <1>6 DEF HotFails, Idle
<1>7. CASE UNCHANGED <<now, hot, staged>>
  BY <1>7
<1> QED BY <1>1, <1>2, <1>3, <1>4, <1>5, <1>6, <1>7
        DEF MarketNext, Hot, Fill, Load, StorePage, Reread, Advance, FillDerive, FillFails, marketVars

\* What a filler holds is what the exchange had of its page.
LEMMA PagesStayWhole ==
  ASSUME MarketTypeOK, PagesAreWhole, JobsAreBehind, [MarketNext]_marketVars
  PROVE  PagesAreWhole'
<1> DEFINE Whole(s) ==
      /\ s.phase \in {"fetched", "stored", "advanced"} => s.rows # {}
      /\ s.phase = "fetched" =>
           /\ s.job.end < s.at
           /\ s.rows = {m \in Minutes \ Holes : s.job.next <= m /\ m <= PageEnd(s.job)}
<1>1. \A f \in Fillers : Whole(filler[f])
  BY DEF PagesAreWhole, AtWork
<1>2. SUFFICES \A f \in Fillers : Whole(filler'[f])
  <2>1. \A f \in Fillers : PageEnd(filler[f].job)' = PageEnd(filler'[f].job)
    BY DEF PageEnd
  <2> QED BY <2>1 DEF PagesAreWhole, AtWork
<1>3. filler \in [Fillers -> FillerStates]
  BY DEF MarketTypeOK, FillerStates
<1>4. Whole(Waiting) /\ Whole(Deriving)
  BY DEF Waiting, Deriving
<1>5. ASSUME NEW f \in Fillers, Load(f) PROVE \A g \in Fillers : Whole(filler'[g])
  <2> DEFINE rows == Listed(job.next, PageEnd(job), now)
  <2>1. job \in Jobs /\ job.end < now /\ now \in Int
    BY DEF JobsAreBehind, Behind, MarketTypeOK, Minutes
  <2>2. rows = {m \in Minutes \ Holes : job.next <= m /\ m <= PageEnd(job)}
    <3>1. PageEnd(job) \in Int /\ PageEnd(job) <= job.end /\ job.end \in Int
      BY <2>1, PageEnds DEF Jobs
    <3>2. \A m \in Minutes : m \in Int
      BY Bounds DEF Minutes
    <3> QED BY <2>1, <3>1, <3>2 DEF Listed
  <2>3. rows # {} /\ filler' = [filler EXCEPT ![f] =
          [phase |-> "fetched", at |-> now, job |-> job, read |-> NoJob, rows |-> rows]]
    BY <1>5 DEF Load
  <2>4. Whole([phase |-> "fetched", at |-> now, job |-> job, read |-> NoJob, rows |-> rows])
    BY <2>1, <2>2, <2>3
  <2> QED BY <1>1, <1>3, <2>3, <2>4
<1>6. ASSUME NEW f \in Fillers, StorePage(f) PROVE \A g \in Fillers : Whole(filler'[g])
  BY <1>1, <1>3, <1>6 DEF StorePage, FillerStates
<1>7. ASSUME NEW f \in Fillers, Reread(f) PROVE \A g \in Fillers : Whole(filler'[g])
  <2>1. CASE job.at = filler[f].job.at
    BY <1>1, <1>3, <1>7, <2>1 DEF Reread, FillerStates
  <2>2. CASE job.at # filler[f].job.at
    BY <1>1, <1>3, <1>4, <1>7, <2>2 DEF Reread
  <2> QED BY <2>1, <2>2
<1>8. ASSUME NEW f \in Fillers, Advance(f) \/ FillDerive(f) \/ FillFails(f) PROVE \A g \in Fillers : Whole(filler'[g])
  BY <1>1, <1>3, <1>4, <1>8 DEF Advance, FillDerive, FillFails
<1>9. CASE UNCHANGED filler
  BY <1>1, <1>9
<1> QED BY <1>5, <1>6, <1>7, <1>8, <1>9
        DEF MarketNext, Hot, Fill, MinutePasses, HotFetch, Stage, Store, HotDerive, HotFails, marketVars

\* What lies behind is not caught up with.
LEMMA BehindStays ==
  ASSUME MarketTypeOK, WindowIsWhole, [MarketNext]_marketVars, NEW m \in Int, Behind(m)
  PROVE  Behind(m)'
<1> USE DEF Behind, InFlight
<1>1. now \in Int /\ hot.at \in Int
  BY Bounds DEF MarketTypeOK, Minutes
<1>2. CASE MinutePasses
  BY <1>1, <1>2 DEF MinutePasses
<1>3. CASE HotFetch
  BY <1>1, <1>3 DEF HotFetch
<1>4. CASE Stage
  BY <1>1, <1>4 DEF Stage, MarketTypeOK
<1>5. CASE Store
  BY <1>1, <1>5 DEF Store, MarketTypeOK, Idle
<1>6. CASE HotDerive \/ HotFails
  BY <1>1, <1>6 DEF HotDerive, HotFails, Idle
<1>7. CASE UNCHANGED <<now, hot>>
  BY <1>7
<1> QED BY <1>2, <1>3, <1>4, <1>5, <1>6, <1>7
        DEF MarketNext, Hot, Fill, Load, StorePage, Reread, Advance, FillDerive, FillFails, marketVars

\* Jobs end before the cycle that is at work.
LEMMA JobsStayBehind ==
  ASSUME MarketTypeOK, WindowIsWhole, JobsAreBehind, [MarketNext]_marketVars
  PROVE  JobsAreBehind'
<1>1. now \in Int /\ now >= 1 /\ hot.at \in Int
  BY Bounds DEF MarketTypeOK, Minutes
<1>2. filler \in [Fillers -> FillerStates] /\ job \in Jobs /\ staged \in Jobs
  BY DEF MarketTypeOK, FillerStates
<1>3. /\ job.end \in Int /\ staged.end \in Int /\ 0 \in Int
      /\ \A f \in Fillers : filler[f].job.end \in Int /\ filler[f].read.end \in Int
  BY <1>2, Bounds DEF Jobs, FillerStates
<1>4. NoJob.end = 0 /\ Behind(0)
  BY <1>1 DEF NoJob, Behind, WindowIsWhole
<1>5. /\ Behind(job.end) /\ Behind(staged.end)
      /\ \A f \in Fillers : Behind(filler[f].job.end) /\ Behind(filler[f].read.end)
  BY <1>3, BehindStays DEF JobsAreBehind
<1> DEFINE Later(m) == m < now' /\ (hot'.phase \in {"fetched", "staged"} => m < hot'.at)
<1>6. \A m \in Int : Behind(m) => Later(m)
  BY BehindStays DEF Behind, InFlight
<1>7. Later(0) /\ Later(job.end) /\ Later(staged.end)
      /\ \A f \in Fillers : Later(filler[f].job.end) /\ Later(filler[f].read.end)
  BY <1>3, <1>4, <1>5, <1>6
<1>8. SUFFICES Later(job'.end) /\ Later(staged'.end)
               /\ \A f \in Fillers : Later(filler'[f].job.end) /\ Later(filler'[f].read.end)
  BY DEF JobsAreBehind, Behind, InFlight
<1> HIDE DEF Later
<1>9. CASE MinutePasses \/ HotFetch \/ HotDerive \/ UNCHANGED marketVars
  BY <1>7, <1>9 DEF MinutePasses, HotFetch, HotDerive, marketVars
<1>10. CASE HotFails
  BY <1>4, <1>7, <1>10 DEF HotFails
<1>11. CASE Stage
  <2>1. UNCHANGED <<job, filler>>
    BY <1>11 DEF Stage
  <2>2. Later(staged'.end)
    <3>1. CASE Resets
      <4>1. InFlight /\ hot.rows # {} /\ hot.rows \subseteq Minutes /\ (\A m \in hot.rows : m <= hot.at) /\ hot.at <= now
            /\ hot.at \in 0..MaxNow
        BY <1>11 DEF Stage, WindowIsWhole, InFlight, MarketTypeOK
      <4>2. GapEnd \in Int /\ GapEnd \in 0..MaxNow /\ hot.last + 1 \in 0..MaxNow + 1
        BY <3>1, <4>1, ResetIsJob
      <4>3. GapEnd < hot.at
        <5>1. Min(hot.rows) \in hot.rows
          BY <4>1, FirstMinute
        <5> QED BY <1>1, <4>1, <4>2, <5>1, Bounds DEF GapEnd, Minutes
      <4>4. Behind(GapEnd)
        BY <1>1, <4>1, <4>2, <4>3 DEF Behind
      <4>5. staged'.end \in {GapEnd, job.end}
        BY <1>2, <1>11, <3>1, <4>1, <4>2, ScheduledIsJob DEF Stage
      <4> QED BY <1>6, <1>7, <4>2, <4>4, <4>5
    <3>2. CASE ~ Resets
      BY <1>4, <1>7, <1>11, <3>2 DEF Stage
    <3> QED BY <3>1, <3>2
  <2> QED BY <1>7, <2>1, <2>2
<1>12. CASE Store
  BY <1>4, <1>7, <1>12 DEF Store
<1>13. ASSUME NEW f \in Fillers, Load(f)
       PROVE  Later(job'.end) /\ Later(staged'.end)
               /\ \A g \in Fillers : Later(filler'[g].job.end) /\ Later(filler'[g].read.end)
  BY <1>2, <1>4, <1>7, <1>13 DEF Load
<1>14. ASSUME NEW f \in Fillers, StorePage(f)
       PROVE  Later(job'.end) /\ Later(staged'.end)
               /\ \A g \in Fillers : Later(filler'[g].job.end) /\ Later(filler'[g].read.end)
  BY <1>2, <1>4, <1>7, <1>14 DEF StorePage, FillerStates
<1>15. ASSUME NEW f \in Fillers, Reread(f)
       PROVE  Later(job'.end) /\ Later(staged'.end)
               /\ \A g \in Fillers : Later(filler'[g].job.end) /\ Later(filler'[g].read.end)
  BY <1>2, <1>4, <1>7, <1>15 DEF Reread, FillerStates, Deriving, Waiting
<1>16. ASSUME NEW f \in Fillers, Advance(f)
       PROVE  Later(job'.end) /\ Later(staged'.end)
               /\ \A g \in Fillers : Later(filler'[g].job.end) /\ Later(filler'[g].read.end)
  <2>1. job'.end = filler[f].read.end
    BY <1>2, <1>16 DEF Advance, FillerStates, Jobs
  <2> QED BY <1>2, <1>4, <1>7, <1>16, <2>1 DEF Advance, Deriving, Waiting
<1>17. ASSUME NEW f \in Fillers, FillDerive(f) \/ FillFails(f)
       PROVE  Later(job'.end) /\ Later(staged'.end)
               /\ \A g \in Fillers : Later(filler'[g].job.end) /\ Later(filler'[g].read.end)
  BY <1>2, <1>4, <1>7, <1>17 DEF FillDerive, FillFails, Waiting
<1> QED BY <1>9, <1>10, <1>11, <1>12, <1>13, <1>14, <1>15, <1>16, <1>17 DEF MarketNext, Hot, Fill

\* A page is of minutes that were closed when it was fetched, and still behind.
LEMMA PageIsClosed ==
  ASSUME MarketTypeOK, PagesAreWhole, JobsAreBehind, NEW f \in Fillers, filler[f].phase = "fetched"
  PROVE  \A m \in filler[f].rows : m \in Minutes /\ Behind(m) /\ m < filler[f].at
<1>1. filler[f] \in FillerStates
  BY DEF MarketTypeOK, FillerStates
<1>2. /\ filler[f].job \in Jobs /\ filler[f].job.end \in Int /\ filler[f].at \in Int /\ now \in Int /\ hot.at \in Int
  BY <1>1, Bounds DEF FillerStates, Jobs, MarketTypeOK, Minutes
<1>3. PageEnd(filler[f].job) \in Int /\ PageEnd(filler[f].job) <= filler[f].job.end
  BY <1>2, PageEnds
<1>4. \A m \in filler[f].rows : m \in Minutes /\ m <= PageEnd(filler[f].job)
  BY DEF PagesAreWhole
<1>5. \A m \in filler[f].rows : m \in Int /\ m <= filler[f].job.end
  BY <1>2, <1>3, <1>4, Bounds DEF Minutes
<1>6. filler[f].job.end < filler[f].at /\ Behind(filler[f].job.end)
  BY DEF PagesAreWhole, JobsAreBehind
<1> QED BY <1>2, <1>4, <1>5, <1>6 DEF Behind

\* The last word on a minute is kept, and is about a closed minute.
LEMMA FinalsStay ==
  ASSUME MarketTypeOK, WindowIsWhole, PagesAreWhole, JobsAreBehind, FinalsAreBehind, [MarketNext]_marketVars
  PROVE  FinalsAreBehind' /\ \A m \in Minutes : candle[m] = "final" => candle'[m] = "final"
<1>1. \A m \in Minutes : m \in Int
  BY Bounds DEF Minutes
<1>2. \A m \in Minutes : Behind(m) => Behind(m)'
  BY <1>1, BehindStays
<1>3. SUFFICES /\ \A m \in Minutes : candle'[m] = "final" => Behind(m)'
               /\ \A m \in Minutes : candle[m] = "final" => candle'[m] = "final"
  BY DEF FinalsAreBehind, Behind, InFlight
<1>4. CASE UNCHANGED candle
  BY <1>2, <1>4 DEF FinalsAreBehind
<1>5. CASE Store
  <2>1. hot.rows \subseteq Minutes /\ hot.at \in Int /\ hot.at <= now /\ now \in Int
    BY <1>5, Bounds DEF Store, WindowIsWhole, InFlight, MarketTypeOK, Minutes
  <2>2. \A m \in Minutes : candle'[m] = "final" => (candle[m] = "final" /\ m \notin hot.rows) \/ (m \in hot.rows /\ m < hot.at)
    BY <1>5, <2>1, UpsertAdds DEF Store
  <2>3. hot'.phase = "stored" /\ now' = now /\ hot.phase = "staged"
    BY <1>5 DEF Store, MarketTypeOK, Idle
  <2>4. \A m \in Minutes : candle'[m] = "final" => Behind(m)'
    BY <1>1, <1>2, <2>1, <2>2, <2>3 DEF FinalsAreBehind, Behind, InFlight
  <2>5. \A m \in Minutes : candle[m] = "final" => m < hot.at
    BY <2>3 DEF FinalsAreBehind, Behind, InFlight
  <2>6. \A m \in Minutes : candle'[m] = IF m \in hot.rows THEN (IF m < hot.at THEN "final" ELSE "open") ELSE candle[m]
    BY <1>5 DEF Store, Upserted
  <2> QED BY <2>4, <2>5, <2>6
<1>6. ASSUME NEW f \in Fillers, StorePage(f)
      PROVE  /\ \A m \in Minutes : candle'[m] = "final" => Behind(m)'
             /\ \A m \in Minutes : candle[m] = "final" => candle'[m] = "final"
  <2>1. \A m \in filler[f].rows : m \in Minutes /\ Behind(m) /\ m < filler[f].at
    BY <1>6, PageIsClosed DEF StorePage
  <2>2. \A m \in Minutes : candle'[m] = IF m \in filler[f].rows THEN (IF m < filler[f].at THEN "final" ELSE "open") ELSE candle[m]
    BY <1>6 DEF StorePage, Upserted
  <2> QED BY <1>2, <2>1, <2>2 DEF FinalsAreBehind
<1> QED BY <1>4, <1>5, <1>6 DEF MarketNext, Hot, Fill, MinutePasses, HotFetch, Stage, HotDerive, HotFails, Load,
                                Reread, Advance, FillDerive, FillFails, marketVars

\* What holds for any number of outages.
Sound == MarketTypeOK /\ FetchedIsBehind

\* The general part of the invariant, for any number of outages.
LEMMA StepIsSound == Sound /\ [MarketNext]_marketVars => Sound'
BY StepKeepsTypes, WindowStaysWhole, PagesStayWhole, JobsStayBehind, FinalsStay DEF Sound, FetchedIsBehind

\* It holds of empty tables.
LEMMA StartIsSound == MarketInit => Sound
<1> SUFFICES ASSUME MarketInit PROVE Sound
  OBVIOUS
<1> USE Bounds DEF MarketInit
<1>1. MarketTypeOK
  <2>1. filler \in [Fillers -> FillerStates]
    BY QuietJobs
  <2> QED BY <2>1, QuietJobs DEF MarketTypeOK, FillerStates, Idle, Minutes
<1>2. WindowIsWhole
  BY DEF WindowIsWhole, InFlight, Idle
<1>3. PagesAreWhole
  BY DEF PagesAreWhole, AtWork, Waiting
<1>4. JobsAreBehind
  BY DEF JobsAreBehind, Behind, InFlight, Idle, Waiting, NoJob
<1>5. FinalsAreBehind
  BY DEF FinalsAreBehind
<1> QED BY <1>1, <1>2, <1>3, <1>4, <1>5 DEF Sound, FetchedIsBehind

\* For any number of outages, retries and workers, what the workers have fetched and the
\* jobs they hold lie behind the open minute.
THEOREM MarketIsSound == MarketSpec => [](MarketTypeOK /\ FetchedIsBehind)
<1>1. MarketInit => Sound
  BY StartIsSound
<1>2. Sound /\ [MarketNext]_marketVars => Sound'
  BY StepIsSound
<1> QED BY <1>1, <1>2, PTL DEF MarketSpec, Sound

\* A candle that is final is never written over by one that was fetched before the minute
\* was closed, though two workers write the same table (upsert_ohlcv).
THEOREM FinalsAreKept == MarketSpec => FinalCandlesStay
<1>1. MarketInit => Sound
  BY StartIsSound
<1>2. Sound /\ [MarketNext]_marketVars => Sound'
  BY StepIsSound
<1>3. Sound /\ [MarketNext]_marketVars => [\A m \in Minutes : candle[m] = "final" => candle'[m] = "final"]_marketVars
  BY FinalsStay DEF Sound, FetchedIsBehind
<1> QED BY <1>1, <1>2, <1>3, PTL DEF MarketSpec, FinalCandlesStay

\* A derived candle is made of stored minutes only, whichever minutes it was read from.
THEOREM DerivedHold == MarketSpec => []DerivedAreWhole
<1>1. MarketInit => DerivedAreWhole
  BY DEF MarketInit, DerivedAreWhole
<1>2. Sound /\ DerivedAreWhole /\ [MarketNext]_marketVars => DerivedAreWhole'
  <2> SUFFICES ASSUME Sound, DerivedAreWhole, [MarketNext]_marketVars PROVE DerivedAreWhole'
    OBVIOUS
  <2>1. MarketTypeOK /\ PagesAreWhole
    BY DEF Sound, FetchedIsBehind
  <2>2. Stored \subseteq Stored'
    <3>1. CASE Store
      <4>1. hot.rows \subseteq Minutes /\ hot.at \in Int
        BY <2>1, Bounds DEF MarketTypeOK
      <4> QED BY <2>1, <3>1, <4>1, UpsertAdds DEF Store
    <3>2. ASSUME NEW f \in Fillers, StorePage(f) PROVE Stored \subseteq Stored'
      <4>1. filler[f].rows \subseteq Minutes /\ filler[f].at \in Int
        BY <2>1, Bounds DEF MarketTypeOK
      <4> QED BY <2>1, <3>2, <4>1, UpsertAdds DEF StorePage
    <3>3. CASE UNCHANGED candle
      BY <3>3 DEF Stored
    <3> QED BY <3>1, <3>2, <3>3 DEF MarketNext, Hot, Fill, MinutePasses, HotFetch, Stage, HotDerive, HotFails, Load,
                                    Reread, Advance, FillDerive, FillFails, marketVars
  <2>3. \A b \in Buckets : derived'[b] # "none" => Of(b) \subseteq Stored
    <3>1. CASE derived' = Derived
      <4>1. Source \subseteq Stored
        BY DEF Source, Newest
      <4>2. \A b \in Buckets : Complete(b, Source) => Of(b) \subseteq Stored
        BY <4>1 DEF Complete
      <4> QED BY <3>1, <4>2 DEF Derived, DerivedAreWhole
    <3>2. CASE UNCHANGED derived
      BY <3>2 DEF DerivedAreWhole
    <3> QED BY <3>1, <3>2 DEF MarketNext, Hot, Fill, MinutePasses, HotFetch, Stage, Store, HotDerive, HotFails, Load,
                              StorePage, Reread, Advance, FillDerive, FillFails, marketVars
  <2> QED BY <2>2, <2>3 DEF DerivedAreWhole, Of
<1>3. MarketInit => Sound
  BY StartIsSound
<1>4. Sound /\ [MarketNext]_marketVars => Sound'
  BY StepIsSound
<1> QED BY <1>1, <1>2, <1>3, <1>4, PTL DEF MarketSpec

-----------------------------------------------------------------------------
(* Holes.                                                                  *)

\* A cycle that found an outage longer than the tail.
Long == hot.last # 0 /\ hot.at - hot.last > Tail

\* Steps that store nothing move no hole.
LEMMA NothingStored ==
  ASSUME UNCHANGED candle
  PROVE  Stored' = Stored /\ Last' = Last /\ Gaps' = Gaps
BY DEF Stored, Last, Gaps

\* A job that is copied has the type of a job.
LEMMA CopiesAreJobs == MarketTypeOK => Copies \subseteq Jobs
BY DEF MarketTypeOK, Copies

\* The minutes of a page lie between stored ones.
LEMMA PageWithin ==
  ASSUME MarketTypeOK, CopiesAgree, PagesLieWithin, NEW f \in Fillers, AtWork(f)
  PROVE  /\ filler[f].job \in Copies /\ filler[f].job # NoJob
         /\ \A r \in filler[f].rows : r \in Int /\ r < Last /\ \E k \in Stored : k < r
<1>1. filler[f].job \in Copies /\ filler[f].job # NoJob
  BY DEF Copies, PagesLieWithin, NoJob
<1>2. /\ filler[f].job \in Jobs /\ filler[f].rows \subseteq Minutes
      /\ filler[f].job.end \in Int /\ filler[f].job.next \in Int
  BY <1>1, CopiesAreJobs, Bounds DEF MarketTypeOK, Jobs
<1>3. filler[f].job.end < Last /\ \E k \in Stored : k < filler[f].job.next
  BY <1>1 DEF CopiesAgree, Within
<1>4. \A r \in filler[f].rows : filler[f].job.next <= r /\ r <= filler[f].job.end
  BY DEF PagesLieWithin, Owns
<1>5. Last \in Int /\ Stored \subseteq Minutes /\ \A m \in Minutes : m \in Int
  BY LastIsStored, Bounds DEF Minutes
<1> QED BY <1>1, <1>2, <1>3, <1>4, <1>5

\* A page closes holes and makes none.
LEMMA PageCloses ==
  ASSUME Sound, Sound', CopiesAgree, PagesLieWithin, NEW f \in Fillers, StorePage(f)
  PROVE  /\ Stored' = Stored \union filler[f].rows
         /\ Last' = Last
         /\ Gaps' = Gaps \ filler[f].rows
<1>1. MarketTypeOK /\ MarketTypeOK'
  BY DEF Sound
<1>2. filler[f].rows \subseteq Minutes /\ filler[f].at \in Int
  BY <1>1, Bounds DEF MarketTypeOK
<1>3. Stored' = Stored \union filler[f].rows
  BY <1>1, <1>2, UpsertAdds DEF StorePage
<1>4. \A r \in filler[f].rows : r < Last /\ \E k \in Stored : k < r
  BY <1>1, PageWithin DEF StorePage, AtWork
<1>5. \A m \in Minutes : m \in Int
  BY Bounds DEF Minutes
<1>6. Last' = Last
  <2>1. Last \in Int /\ Last' \in Int
    BY <1>1, LastIsStored, LastIsStoredNext, Bounds
  <2>2. CASE Stored = {}
    BY <1>3, <1>4, <2>2, <1>1, LastIsStored, LastIsStoredNext
  <2>3. CASE Stored # {}
    <3>1. Last \in Stored' /\ Last' \in Stored'
      BY <1>1, <1>3, <2>3, LastIsStored, LastIsStoredNext
    <3>2. Last <= Last'
      BY <1>1, <3>1, LastIsStoredNext
    <3>3. Last' <= Last
      BY <1>1, <1>2, <1>3, <1>4, <1>5, <2>1, <3>1, LastIsStored
    <3> QED BY <2>1, <3>2, <3>3
  <2> QED BY <2>2, <2>3
<1>7. \A m \in Minutes : candle'[m] = "none" <=> candle[m] = "none" /\ m \notin filler[f].rows
  BY <1>3 DEF Stored
<1>8. ASSUME NEW m \in Minutes
      PROVE  (\E k \in Stored' : k < m) <=> \E k \in Stored : k < m
  <2>1. Stored \subseteq Minutes
    BY DEF Stored
  <2> QED BY <1>2, <1>3, <1>4, <1>5, <2>1
<1>9. Gaps' = {m \in Minutes \ Holes : candle'[m] = "none" /\ m < Last' /\ \E k \in Stored' : k < m}
  BY DEF Gaps
<1>10. Gaps = {m \in Minutes \ Holes : candle[m] = "none" /\ m < Last /\ \E k \in Stored : k < m}
  BY DEF Gaps
<1>11. \A m : m \in Gaps' <=> m \in Gaps /\ m \notin filler[f].rows
  BY <1>6, <1>7, <1>8, <1>9, <1>10
<1> QED BY <1>3, <1>6, <1>11

\* What a cycle stores: everything from its window on, and in the one cycle that found
\* the outage nothing between the newest minute and the job's end.
LEMMA WindowMoves ==
  ASSUME Sound, Sound', JobIsStaged, Store
  PROVE  /\ Stored' = Stored \union hot.rows
         /\ Last' \in Stored' /\ Last <= Last' /\ Last' <= hot.at /\ Last' # 0
         /\ ~ Long => Gaps' \subseteq Gaps
         /\ Long => /\ Resets /\ hot.at - Last' < Tail /\ GapEnd < Last' /\ hot.last \in Stored
                    /\ \A m \in Gaps' : m \in Gaps \/ (hot.last + 1 <= m /\ m <= GapEnd)
<1>1. MarketTypeOK /\ MarketTypeOK' /\ InFlight /\ WindowIsWhole /\ hot.last = Last
  BY DEF Sound, FetchedIsBehind, Store, InFlight, JobIsStaged
<1>2. hot.rows \subseteq Minutes /\ hot.at \in Int /\ hot.rows # {} /\ now \in Int /\ Last <= hot.at
  BY <1>1, Bounds DEF MarketTypeOK, WindowIsWhole, Minutes, JobIsStaged
<1>3. Stored' = Stored \union hot.rows
  BY <1>1, <1>2, UpsertAdds DEF Store
<1>4. \A m \in Minutes : m \in Int /\ m >= 1
  BY Bounds DEF Minutes
<1>5. Last \in Int /\ Last' \in Int /\ Last >= 0
  BY <1>1, LastIsStored, LastIsStoredNext, Bounds
<1>6. Last' \in Stored' /\ Last' # 0 /\ \A m \in Stored' : m <= Last'
  BY <1>1, <1>2, <1>3, LastIsStoredNext
<1>7. Last <= Last'
  <2>1. CASE Stored = {}
    BY <1>1, <1>5, <2>1, LastIsStored, LastIsStoredNext, Bounds
  <2>2. CASE Stored # {}
    BY <1>1, <1>3, <1>6, <2>2, LastIsStored
  <2> QED BY <2>1, <2>2
<1> DEFINE from == IF hot.last = 0 \/ hot.at - hot.last > Tail THEN hot.at - Tail + 1 ELSE hot.last - Overlap
<1>8. hot.rows = {m \in Minutes \ Holes : from <= m /\ m <= hot.at}
  BY <1>1 DEF WindowIsWhole
<1>9. Last' <= hot.at
  <2>1. CASE Last' \in hot.rows
    BY <1>8, <2>1
  <2>2. CASE Last' \in Stored
    <3>1. Last' <= Last
      BY <1>1, <2>2, LastIsStored
    <3> QED BY <1>2, <1>5, <3>1
  <2> QED BY <1>3, <1>6, <2>1, <2>2
<1>10. from \in Int
  BY <1>1, <1>2, <1>5, Bounds
<1>11. Stored \subseteq Minutes /\ Stored' \subseteq Minutes /\ \A m \in Stored : m <= Last
  BY <1>1, LastIsStored, LastIsStoredNext
<1>12. ASSUME NEW m \in Gaps'
       PROVE  m < from /\ m \in Minutes \ Holes /\ candle[m] = "none" /\ m < Last' /\ \E k \in Stored' : k < m
  <2>1. m \in Minutes \ Holes /\ candle'[m] = "none" /\ m < Last' /\ \E k \in Stored' : k < m
    BY <1>12 DEF Gaps
  <2>2. m \notin Stored'
    BY <2>1 DEF Stored
  <2>3. ~ (from <= m /\ m <= hot.at) /\ candle[m] = "none"
    BY <1>3, <1>8, <2>1, <2>2 DEF Stored
  <2> QED BY <1>2, <1>4, <1>5, <1>9, <1>10, <2>1, <2>3
<1> HIDE DEF from
<1>13. ASSUME NEW m \in Gaps' PROVE \E k \in Stored : k < m
  <2>1. PICK k \in Stored' : k < m
    BY <1>12
  <2>2. k \notin hot.rows
    BY <1>4, <1>8, <1>10, <1>12, <2>1
  <2> QED BY <1>3, <2>1, <2>2
<1>14. ASSUME ~ Long PROVE Gaps' \subseteq Gaps
  <2> SUFFICES ASSUME NEW m \in Gaps' PROVE m \in Gaps
    OBVIOUS
  <2>1. Stored # {} /\ Last # 0
    BY <1>1, <1>13, LastIsStored
  <2>2. from = Last - Overlap
    BY <1>1, <1>14, <2>1 DEF Long, from
  <2>3. m < Last
    BY <1>4, <1>5, <1>12, <2>2, Bounds
  <2> QED BY <1>12, <1>13, <2>3 DEF Gaps
<1>15. ASSUME Long
       PROVE  /\ Resets /\ hot.at - Last' < Tail /\ GapEnd < Last' /\ hot.last \in Stored
              /\ \A m \in Gaps' : m \in Gaps \/ (hot.last + 1 <= m /\ m <= GapEnd)
  <2>1. from = hot.at - Tail + 1 /\ Last # 0 /\ hot.at - Last > Tail
    BY <1>1, <1>15 DEF Long, from
  <2>2. Min(hot.rows) \in hot.rows /\ Min(hot.rows) \in Int
    BY <1>2, <1>4, FirstMinute
  <2>3. GapEnd >= hot.at - Tail /\ GapEnd \in Int /\ GapEnd + 1 \in hot.rows
    <3>1. from <= Min(hot.rows)
      BY <1>8, <2>2
    <3>2. GapEnd = Min(hot.rows) - 1
      BY DEF GapEnd
    <3> QED BY <1>2, <2>1, <2>2, <3>1, <3>2, Bounds
  <2>4. Resets
    BY <1>1, <1>2, <1>5, <2>1, <2>3, Bounds DEF Resets
  <2>5. GapEnd + 1 <= Last'
    BY <1>3, <1>6, <2>3
  <2>6. hot.at - Last' < Tail /\ GapEnd < Last'
    BY <1>2, <1>5, <2>3, <2>5, Bounds
  <2>7. hot.last \in Stored
    BY <1>1, <2>1, LastIsStored
  <2>8. ASSUME NEW m \in Gaps' PROVE m \in Gaps \/ (hot.last + 1 <= m /\ m <= GapEnd)
    <3>1. m \in Int /\ m <= hot.at - Tail
      BY <1>2, <1>4, <1>12, <2>1, Bounds
    <3>2. CASE m < Last
      BY <1>12, <1>13, <3>2 DEF Gaps
    <3>3. CASE m = Last
      BY <1>1, <1>12, <2>7, <3>3 DEF Stored
    <3>4. CASE m > Last
      BY <1>1, <1>2, <1>5, <2>3, <3>1, <3>4, Bounds
    <3> QED BY <1>5, <3>1, <3>2, <3>3, <3>4
  <2> QED BY <2>4, <2>6, <2>7, <2>8
<1> QED BY <1>3, <1>6, <1>7, <1>9, <1>14, <1>15


\* What is stored stays stored, and a new hole lies after the minute that was the newest.
LEMMA HistoryGrows ==
  ASSUME Sound, Sound', JobIsStaged, CopiesAgree, PagesLieWithin, [MarketNext]_marketVars
  PROVE  /\ Stored \subseteq Stored' /\ Last <= Last' /\ Last \in Int /\ Last' \in Int
         /\ \A m \in Gaps' : m < Last => m \in Gaps
         /\ ~ Store => Last' = Last /\ Gaps' \subseteq Gaps
<1>1. /\ Last \in Int /\ Last' \in Int /\ (\A m \in Minutes : m \in Int)
      /\ Store => hot.last = Last
  <2>1. MarketTypeOK /\ MarketTypeOK'
    BY DEF Sound
  <2>2. Store => hot.last = Last
    BY DEF JobIsStaged, Store, InFlight
  <2> QED BY <2>1, <2>2, LastIsStored, LastIsStoredNext, Bounds DEF Minutes
<1>2. CASE UNCHANGED candle
  <2>1. ~ Store \/ (Stored \subseteq Stored' /\ Last <= Last' /\ \A m \in Gaps' : m < Last => m \in Gaps)
    BY <1>1, <1>2, NothingStored
  <2> QED BY <1>1, <1>2, <2>1, NothingStored
<1>3. CASE Store
  <2>1. \A m \in Gaps' : m \in Gaps \/ hot.last + 1 <= m
    BY <1>3, WindowMoves
  <2>2. \A m \in Gaps' : m \in Int
    BY <1>1 DEF Gaps
  <2>3. \A m \in Gaps' : m < Last => m \in Gaps
    BY <1>1, <1>3, <2>1, <2>2
  <2> QED BY <1>1, <1>3, <2>3, WindowMoves
<1>4. ASSUME NEW f \in Fillers, StorePage(f)
      PROVE  Stored \subseteq Stored' /\ Last' = Last /\ Gaps' \subseteq Gaps
  BY <1>4, PageCloses
<1>5. UNCHANGED candle \/ Store \/ \E f \in Fillers : StorePage(f)
  BY DEF MarketNext, Hot, Fill, MinutePasses, HotFetch, Stage, HotDerive, HotFails, Load, Reread, Advance,
         FillDerive, FillFails, marketVars
<1> QED BY <1>1, <1>2, <1>3, <1>4, <1>5

-----------------------------------------------------------------------------
(* The copies of a job.                                                    *)

\* The commit of a cycle that found an outage, or of one that did not.
LEMMA StoredJob ==
  ASSUME Sound, Sound', JobIsStaged, Store
  PROVE  /\ Resets <=> Long
         /\ ~ Resets => job' = job
         /\ Resets => job' = job \/ job' = Scheduled(hot.last + 1, GapEnd, hot.at)
         /\ Resets /\ ~ JobIsDropped => job' = Scheduled(hot.last + 1, GapEnd, hot.at)
         /\ job' # job => Resets
<1>1. hot.phase = "staged" /\ staged = IF Resets THEN Scheduled(hot.last + 1, GapEnd, hot.at) ELSE NoJob
  BY DEF Store, JobIsStaged
<1>2. PICK retried \in BOOLEAN :
        /\ retries' = IF retried THEN retries + 1 ELSE retries
        /\ job' = IF retried \/ staged = NoJob THEN job ELSE staged
  BY DEF Store
<1>3. retries \in Int
  BY Bounds DEF Sound, MarketTypeOK
<1>4. Scheduled(hot.last + 1, GapEnd, hot.at) # NoJob
  BY DEF Scheduled, NoJob
<1>5. retried /\ staged # NoJob => JobIsDropped
  BY <1>2, <1>3 DEF JobIsDropped
<1>6. Resets <=> Long
  BY WindowMoves DEF Resets, Long
<1> QED BY <1>1, <1>2, <1>4, <1>5, <1>6

\* A step makes no copy but the job's next state.
LEMMA CopiesMade == MarketTypeOK /\ [MarketNext]_marketVars => Copies' \subseteq Copies \union {job'}
<1> SUFFICES ASSUME MarketTypeOK, [MarketNext]_marketVars PROVE Copies' \subseteq Copies \union {job'}
  OBVIOUS
<1> DEFINE Held(s) == s.phase \in {"fetched", "stored", "advanced"} => s.job \in Copies
           Read(s) == s.phase = "advanced" => s.read \in Copies
<1>1. \A f \in Fillers : Held(filler[f]) /\ Read(filler[f])
  BY DEF Copies, AtWork
<1>2. filler \in [Fillers -> FillerStates]
  BY DEF MarketTypeOK, FillerStates
<1>3. job \in Copies
  BY DEF Copies
<1>4. SUFFICES \A f \in Fillers : Held(filler'[f]) /\ Read(filler'[f])
  BY DEF Copies, AtWork
<1> HIDE DEF Copies
<1>5. ASSUME NEW f \in Fillers, Load(f) PROVE \A g \in Fillers : Held(filler'[g]) /\ Read(filler'[g])
  BY <1>1, <1>2, <1>3, <1>5 DEF Load
<1>6. ASSUME NEW f \in Fillers, StorePage(f) PROVE \A g \in Fillers : Held(filler'[g]) /\ Read(filler'[g])
  BY <1>1, <1>2, <1>6 DEF StorePage, FillerStates
<1>7. ASSUME NEW f \in Fillers, Reread(f) PROVE \A g \in Fillers : Held(filler'[g]) /\ Read(filler'[g])
  <2>1. CASE job.at = filler[f].job.at
    BY <1>1, <1>2, <1>3, <1>7, <2>1 DEF Reread, FillerStates
  <2>2. CASE job.at # filler[f].job.at
    BY <1>1, <1>2, <1>7, <2>2 DEF Reread, Deriving, Waiting
  <2> QED BY <2>1, <2>2
<1>8. ASSUME NEW f \in Fillers, Advance(f) \/ FillDerive(f) \/ FillFails(f)
      PROVE  \A g \in Fillers : Held(filler'[g]) /\ Read(filler'[g])
  BY <1>1, <1>2, <1>8 DEF Advance, FillDerive, FillFails, Deriving, Waiting
<1>9. CASE UNCHANGED filler
  BY <1>1, <1>9
<1> QED BY <1>5, <1>6, <1>7, <1>8, <1>9
        DEF MarketNext, Hot, Fill, MinutePasses, HotFetch, Stage, Store, HotDerive, HotFails, marketVars

\* Copies that agree stay so when the job is none of them, or goes on as one of them.
LEMMA CopiesStayAgreed ==
  ASSUME MarketTypeOK, MarketTypeOK', CopiesAgree, Copies' \subseteq Copies \union {job'},
         Stored \subseteq Stored', Last \in Int, Last' \in Int, Last <= Last',
         \A m \in Gaps' : m < Last => m \in Gaps,
         Within(job)',
         \/ \A k \in Copies : k.at # job'.at
         \/ \E k \in Copies : /\ k.at = job'.at /\ k.end = job'.end
                              /\ \A m \in Gaps : Owns(k, m) <=> Owns(job, m)'
  PROVE  CopiesAgree'
<1> DEFINE Later(j) == j # NoJob =>
                         /\ j.status # "none" /\ 0 < j.at /\ j.at - Last' < Tail
                         /\ j.end < Last' /\ \E k \in Stored' : k < j.next
           Same(j, k) == j.end = k.end /\ \A m \in Gaps' : Owns(j, m) <=> Owns(k, m)
<1>1. SUFFICES \A j \in Copies \union {job'} :
                 Later(j) /\ \A k \in Copies \union {job'} : j.at = k.at => Same(j, k)
  BY DEF CopiesAgree, Within, Agree, Owns
<1>2. \A j \in Copies : j \in Jobs /\ Within(j)
  BY CopiesAreJobs DEF CopiesAgree
<1>3. ASSUME NEW j \in Copies PROVE Later(j)
  BY <1>2, <1>3, Bounds DEF Within, Jobs
<1>4. Later(job')
  BY DEF Within
<1>5. ASSUME NEW j \in Copies, NEW m \in Gaps', Owns(j, m) PROVE m \in Gaps
  <2>1. j # NoJob /\ j.end \in Int /\ m \in Int /\ m <= j.end
    BY <1>2, <1>5, Bounds DEF Owns, NoJob, Jobs, Gaps, Minutes
  <2> QED BY <1>2, <2>1 DEF Within
<1>6. ASSUME NEW j \in Copies, NEW k \in Copies, j.at = k.at PROVE Same(j, k)
  BY <1>5, <1>6 DEF CopiesAgree, Agree
<1>7. ASSUME NEW j \in Copies, j.at = job'.at PROVE Same(j, job')
  <2>1. PICK k \in Copies : /\ k.at = job'.at /\ k.end = job'.end
                            /\ \A m \in Gaps : Owns(k, m) <=> Owns(job', m)
    BY <1>7 DEF Owns
  <2>2. Same(j, k)
    BY <1>6, <1>7, <2>1
  <2>3. ASSUME NEW m \in Gaps', Owns(job', m) PROVE m \in Gaps
    <3>1. m \in Int /\ m <= k.end /\ k.end \in Int
      BY <1>2, <2>1, <2>3, Bounds DEF Owns, Jobs, Gaps, Minutes
    <3>2. CASE k = NoJob
      <4>1. k.end = 0 /\ m >= 1
        BY <3>2, Bounds DEF NoJob, Gaps, Minutes
      <4> QED BY <3>1, <4>1
    <3>3. CASE k # NoJob
      BY <1>2, <3>1, <3>3 DEF Within
    <3> QED BY <3>2, <3>3
  <2>4. \A m \in Gaps' : Owns(k, m) <=> Owns(job', m)
    BY <1>5, <2>1, <2>3
  <2> QED BY <2>1, <2>2, <2>4
<1> QED BY <1>3, <1>4, <1>6, <1>7

\* A job that an outage has widened lies within the history, and is younger than all others.
LEMMA NewJobWithin ==
  ASSUME Sound, Sound', JobIsStaged, CopiesAgree, Store, Resets, job' = Scheduled(hot.last + 1, GapEnd, hot.at)
  PROVE  /\ Within(job)' /\ \A k \in Copies : k.at # job'.at
         /\ job'.status = "pending" /\ job'.next \in Int /\ job'.end \in Int
         /\ job'.next <= hot.last + 1 /\ GapEnd <= job'.end
         /\ job.status = "pending" => job'.next <= job.next /\ job.end <= job'.end
<1>1. MarketTypeOK /\ MarketTypeOK' /\ WindowIsWhole /\ InFlight /\ hot.last = Last
  BY DEF Sound, FetchedIsBehind, Store, InFlight, JobIsStaged
<1>2. hot.rows # {} /\ hot.at \in Int /\ hot.at >= 1 /\ Last \in Int /\ Last' \in Int /\ job \in Jobs
  BY <1>1, LastIsStored, LastIsStoredNext, Bounds DEF MarketTypeOK, WindowIsWhole
<1>3. Long /\ GapEnd \in Int /\ hot.at - Last > Tail
  BY <1>1, <1>2, ResetIsJob DEF Resets, Long
<1>4. /\ Stored' = Stored \union hot.rows /\ Last <= Last'
      /\ hot.at - Last' < Tail /\ GapEnd < Last' /\ hot.last \in Stored
  BY <1>3, WindowMoves
<1>5. job.next \in Int /\ job.end \in Int
  BY <1>2, Bounds DEF Jobs
<1>6. job \in Copies /\ \A k \in Copies : Within(k) /\ k \in Jobs
  BY <1>1, CopiesAreJobs DEF CopiesAgree, Copies
<1>7. job'.at = hot.at /\ job'.status = "pending"
  BY DEF Scheduled
<1>8. ASSUME NEW k \in Copies PROVE k.at # job'.at
  <2>1. CASE k = NoJob
    BY <1>2, <1>7, <2>1 DEF NoJob
  <2>2. CASE k # NoJob
    <3>1. k.at - Last < Tail /\ k.at \in Int
      BY <1>6, <2>2, Bounds DEF Within, Jobs
    <3> QED BY <1>2, <1>3, <1>7, <3>1, Bounds
  <2> QED BY <2>1, <2>2
<1>9. CASE job.status # "pending"
  <2>1. job'.next = hot.last + 1 /\ job'.end = GapEnd
    BY <1>9 DEF Scheduled
  <2>2. \E k \in Stored' : k < job'.next
    BY <1>1, <1>2, <1>4, <2>1
  <2>3. Within(job)'
    BY <1>2, <1>4, <1>7, <2>1, <2>2 DEF Within
  <2> QED BY <1>1, <1>2, <1>3, <1>7, <1>8, <1>9, <2>1, <2>3
<1>10. CASE job.status = "pending"
  <2>1. job'.next = Min({hot.last + 1, job.next}) /\ job'.end = Max({GapEnd, job.end})
    BY <1>10 DEF Scheduled
  <2>2. job'.next \in {hot.last + 1, job.next} /\ job'.next <= hot.last + 1 /\ job'.next <= job.next
    BY <1>1, <1>2, <1>5, <2>1, OfTwo
  <2>3. job'.end \in {GapEnd, job.end} /\ GapEnd <= job'.end /\ job.end <= job'.end
    <3>1. Max({GapEnd, job.end}) = IF GapEnd >= job.end THEN GapEnd ELSE job.end
      BY <1>3, <1>5, OfTwo
    <3> QED BY <1>3, <1>5, <2>1, <3>1
  <2>4. job.end < Last /\ \E k \in Stored : k < job.next
    BY <1>6, <1>10 DEF Within, NoJob
  <2>5. job'.end < Last'
    BY <1>2, <1>3, <1>4, <1>5, <2>3, <2>4
  <2>6. \E k \in Stored' : k < job'.next
    BY <1>1, <1>2, <1>4, <2>2, <2>4
  <2>7. Within(job)'
    BY <1>2, <1>4, <1>7, <2>5, <2>6 DEF Within
  <2> QED BY <1>1, <1>2, <1>3, <1>5, <1>7, <1>8, <2>2, <2>3, <2>7
<1> QED BY <1>9, <1>10

\* The worker that writes the job back goes on with the holes of what it has read.
LEMMA AdvancedJob ==
  ASSUME MarketTypeOK, PagesAreWhole, CopiesAgree, PagesLieWithin, NEW f \in Fillers, Advance(f)
  PROVE  /\ filler[f].read \in Copies /\ filler[f].job \in Copies /\ filler[f].read.at = filler[f].job.at
         /\ job'.at = filler[f].read.at /\ job'.end = filler[f].read.end
         /\ \A m \in Gaps : Owns(filler[f].read, m) <=> Owns(job, m)'
         /\ Within(filler[f].read) => Within(job)'
<1> DEFINE s == filler[f]
           next == Cursor(s.job, s.rows)
<1>1. s.phase = "advanced" /\ AtWork(f)
  BY DEF Advance, AtWork
<1>2. s.rows # {} /\ s.rows \subseteq Minutes /\ s.read \in Jobs /\ s.job \in Jobs
  BY <1>1 DEF PagesAreWhole, MarketTypeOK
<1>3. s.read \in Copies /\ s.job \in Copies /\ s.read.at = s.job.at
  BY <1>1 DEF Copies, PagesLieWithin
<1>4. job' = [s.read EXCEPT !.next = next, !.status = IF next > s.read.end THEN "complete" ELSE @]
      /\ Stored' = Stored /\ Last' = Last
  BY NothingStored DEF Advance
<1>5. Max(s.rows) \in s.rows /\ next = Max(s.rows) + 1 /\ Max(s.rows) \in Int /\ next \in Int
  BY <1>2, LastMinute, Bounds DEF Cursor, Minutes
<1>6. s.job.status = "pending" /\ s.job.next <= Max(s.rows)
      /\ \A m \in Gaps : Owns(s.job, m) => Max(s.rows) < m
  BY <1>1, <1>5 DEF PagesLieWithin, Owns
<1>7. s.read.end \in Int /\ s.job.next \in Int /\ \A m \in Gaps : m \in Int
  BY <1>2, Bounds DEF Jobs, Gaps, Minutes
<1>8. s.job.end = s.read.end /\ \A m \in Gaps : Owns(s.job, m) <=> Owns(s.read, m)
  BY <1>3 DEF CopiesAgree, Agree
<1>9. \E k \in Stored : k < Max(s.rows)
  BY <1>1, <1>5, PageWithin
<1>10. next > Max(s.rows) /\ \E k \in Stored : k < next
  <2>1. \A k \in Stored : k \in Int
    BY Bounds DEF Stored, Minutes
  <2> QED BY <1>5, <1>9, <2>1
<1> HIDE DEF next
<1>11. /\ job'.at = s.read.at /\ job'.end = s.read.end /\ job'.next = next
       /\ job'.status = IF next > s.read.end THEN "complete" ELSE s.read.status
  BY <1>2, <1>4 DEF Jobs
<1>12. ASSUME NEW m \in Gaps PROVE Owns(s.read, m) <=> Owns(job', m)
  <2>1. ASSUME Owns(s.read, m) PROVE Owns(job', m)
    <3>1. Max(s.rows) < m /\ m <= s.read.end /\ s.read.status = "pending"
      BY <1>6, <1>8, <2>1 DEF Owns
    <3> QED BY <1>5, <1>7, <1>11, <3>1 DEF Owns
  <2>2. ASSUME Owns(job', m) PROVE Owns(s.read, m)
    <3>1. next <= m /\ m <= s.read.end
      BY <1>11, <2>2 DEF Owns
    <3>2. s.job.next <= m
      BY <1>5, <1>6, <1>7, <1>10, <3>1
    <3>3. Owns(s.job, m)
      BY <1>6, <1>8, <3>1, <3>2 DEF Owns
    <3> QED BY <1>8, <3>3
  <2> QED BY <2>1, <2>2
<1>13. ASSUME Within(s.read) PROVE Within(job)'
  <2>1. s.read # NoJob
    <3>1. s.job # NoJob /\ 0 < s.job.at
      BY <1>3, <1>6 DEF CopiesAgree, Within, NoJob
    <3> QED BY <1>3, <3>1 DEF NoJob
  <2>2. s.read.status # "none" /\ 0 < s.read.at /\ s.read.at - Last < Tail /\ s.read.end < Last
    BY <1>13, <2>1 DEF Within
  <2>3. job'.status # "none"
    BY <1>11, <2>2
  <2> QED BY <1>4, <1>10, <1>11, <2>2, <2>3 DEF Within
<1> QED BY <1>3, <1>11, <1>12, <1>13 DEF Owns

\* The copies of a job own the same holes after every step.
LEMMA CopiesKeepAgreeing ==
  ASSUME MarketInvariant, Sound', [MarketNext]_marketVars
  PROVE  CopiesAgree'
<1>1. /\ Sound /\ JobIsStaged /\ CopiesAgree /\ PagesLieWithin /\ MarketTypeOK /\ MarketTypeOK' /\ PagesAreWhole
  BY DEF MarketInvariant, Sound, FetchedIsBehind
<1>2. /\ Stored \subseteq Stored' /\ Last <= Last' /\ Last \in Int /\ Last' \in Int
      /\ \A m \in Gaps' : m < Last => m \in Gaps
  BY <1>1, HistoryGrows
<1>3. Copies' \subseteq Copies \union {job'}
  BY <1>1, CopiesMade
<1>4. SUFFICES /\ Within(job)'
               /\ \/ \A k \in Copies : k.at # job'.at
                  \/ \E k \in Copies : /\ k.at = job'.at /\ k.end = job'.end
                                       /\ \A m \in Gaps : Owns(k, m) <=> Owns(job, m)'
  BY <1>1, <1>2, <1>3, CopiesStayAgreed
<1>5. job \in Copies /\ Within(job) /\ job \in Jobs
  BY <1>1 DEF Copies, CopiesAgree, MarketTypeOK
<1>6. CASE job' = job
  <2>1. Within(job)'
    <3>1. job.at \in Int /\ job.end \in Int
      BY <1>5, Bounds DEF Jobs
    <3> QED BY <1>2, <1>5, <1>6, <3>1, Bounds DEF Within
  <2>2. \A m \in Gaps : Owns(job, m) <=> Owns(job, m)'
    BY <1>6 DEF Owns
  <2> QED BY <1>5, <1>6, <2>1, <2>2
<1>7. CASE Store /\ job' # job
  <2>1. Resets /\ job' = Scheduled(hot.last + 1, GapEnd, hot.at)
    BY <1>1, <1>7, StoredJob
  <2> QED BY <1>1, <1>7, <2>1, NewJobWithin
<1>8. ASSUME NEW f \in Fillers, Advance(f)
      PROVE  /\ Within(job)'
             /\ \E k \in Copies : /\ k.at = job'.at /\ k.end = job'.end
                                  /\ \A m \in Gaps : Owns(k, m) <=> Owns(job, m)'
  <2>1. filler[f].read \in Copies /\ Within(filler[f].read)
    BY <1>1, <1>8, AdvancedJob DEF CopiesAgree
  <2> QED BY <1>1, <1>8, <2>1, AdvancedJob
<1> QED BY <1>6, <1>7, <1>8
        DEF MarketNext, Hot, Fill, MinutePasses, HotFetch, Stage, HotDerive, HotFails, Load, StorePage, Reread,
            FillDerive, FillFails, marketVars

-----------------------------------------------------------------------------
(* The pages of the workers, and the cycle's job.                          *)

\* A page stays within its job, and ahead of the cursor nothing is left out.
LEMMA PagesStayWithin ==
  ASSUME MarketInvariant, Sound', [MarketNext]_marketVars
  PROVE  PagesLieWithin'
<1>1. /\ Sound /\ JobIsStaged /\ CopiesAgree /\ PagesLieWithin /\ MarketTypeOK /\ PagesAreWhole
  BY DEF MarketInvariant, Sound, FetchedIsBehind
<1> DEFINE InPage(s, gaps) ==
      s.phase \in {"fetched", "stored", "advanced"} =>
        /\ s.job.status = "pending"
        /\ \A r \in s.rows : Owns(s.job, r)
        /\ s.phase # "fetched" => \A m \in gaps : Owns(s.job, m) => \A r \in s.rows : r < m
        /\ s.phase = "advanced" => s.read.at = s.job.at
<1>2. \A f \in Fillers : InPage(filler[f], Gaps)
  BY <1>1 DEF PagesLieWithin, AtWork
<1>3. SUFFICES \A f \in Fillers : InPage(filler'[f], Gaps')
  BY DEF PagesLieWithin, AtWork, Owns
<1>4. filler \in [Fillers -> FillerStates]
  BY <1>1 DEF MarketTypeOK, FillerStates
<1>5. Last \in Int /\ (\A m \in Gaps' : m < Last => m \in Gaps) /\ (\A m \in Minutes : m \in Int)
  BY <1>1, HistoryGrows, Bounds DEF Minutes
<1>6. ASSUME NEW f \in Fillers, AtWork(f), NEW m \in Gaps', Owns(filler[f].job, m) PROVE m \in Gaps
  <2>1. filler[f].job \in Copies /\ filler[f].job # NoJob
    BY <1>1, <1>6, PageWithin
  <2>2. filler[f].job.end < Last /\ filler[f].job.end \in Int
    BY <1>1, <2>1, CopiesAreJobs, Bounds DEF CopiesAgree, Within, Jobs
  <2>3. m \in Int /\ m <= filler[f].job.end
    BY <1>5, <1>6 DEF Owns, Gaps
  <2> QED BY <1>5, <2>2, <2>3
<1>7. \A f \in Fillers : InPage(filler[f], Gaps')
  BY <1>2, <1>6 DEF AtWork
<1>8. InPage(Waiting, Gaps') /\ InPage(Deriving, Gaps')
  BY DEF Waiting, Deriving
<1>9. ASSUME NEW f \in Fillers, Load(f) PROVE \A g \in Fillers : InPage(filler'[g], Gaps')
  <2> DEFINE rows == Listed(job.next, PageEnd(job), now)
             s == [phase |-> "fetched", at |-> now, job |-> job, read |-> NoJob, rows |-> rows]
  <2>1. filler' = [filler EXCEPT ![f] = s] /\ job.status = "pending" /\ job \in Jobs
    BY <1>1, <1>9 DEF Load, MarketTypeOK
  <2>2. PageEnd(job) \in Int /\ PageEnd(job) <= job.end /\ job.end \in Int
    BY <2>1, PageEnds, Bounds DEF Jobs
  <2>3. \A r \in rows : r \in Int /\ job.next <= r /\ r <= PageEnd(job)
    BY <1>5 DEF Listed
  <2>4. \A r \in rows : Owns(job, r)
    BY <2>1, <2>2, <2>3 DEF Owns
  <2>5. InPage(s, Gaps')
    BY <2>1, <2>4
  <2> HIDE DEF s, InPage
  <2> QED BY <1>4, <1>7, <2>1, <2>5
<1>10. ASSUME NEW f \in Fillers, StorePage(f) PROVE \A g \in Fillers : InPage(filler'[g], Gaps')
  <2>1. filler[f].phase = "fetched" /\ filler' = [filler EXCEPT ![f].phase = "stored"] /\ AtWork(f)
    BY <1>10 DEF StorePage, AtWork
  <2>2. Gaps' = Gaps \ filler[f].rows
    BY <1>1, <1>10, PageCloses
  <2>3. filler[f].rows = {m \in Minutes \ Holes : filler[f].job.next <= m /\ m <= PageEnd(filler[f].job)}
    BY <1>1, <2>1 DEF PagesAreWhole
  <2>4. PageEnd(filler[f].job) \in Int
    BY <1>4, PageEnds DEF FillerStates
  <2>5. ASSUME NEW m \in Gaps', Owns(filler[f].job, m), NEW r \in filler[f].rows PROVE r < m
    <3>1. m \in Minutes \ Holes /\ filler[f].job.next <= m /\ m \notin filler[f].rows
      BY <2>2, <2>5 DEF Gaps, Owns
    <3>2. ~ (m <= PageEnd(filler[f].job)) /\ r <= PageEnd(filler[f].job) /\ r \in Int /\ m \in Int
      BY <1>5, <2>3, <3>1
    <3> QED BY <2>4, <3>2
  <2>6. filler'[f].phase = "stored" /\ filler'[f].job = filler[f].job /\ filler'[f].rows = filler[f].rows
    BY <1>4, <2>1 DEF FillerStates
  <2>7. InPage(filler'[f], Gaps')
    BY <1>2, <2>1, <2>5, <2>6
  <2> HIDE DEF InPage
  <2> QED BY <1>4, <1>7, <2>1, <2>7
<1>11. ASSUME NEW f \in Fillers, Reread(f) PROVE \A g \in Fillers : InPage(filler'[g], Gaps')
  <2>1. CASE job.at = filler[f].job.at
    <3>1. /\ filler' = [filler EXCEPT ![f].phase = "advanced", ![f].read = job] /\ filler[f].phase = "stored"
      BY <1>11, <2>1 DEF Reread
    <3>2. /\ filler'[f].phase = "advanced" /\ filler'[f].read = job /\ filler'[f].job = filler[f].job
          /\ filler'[f].rows = filler[f].rows
      BY <1>4, <3>1 DEF FillerStates
    <3>3. InPage(filler'[f], Gaps')
      BY <1>7, <2>1, <3>1, <3>2
    <3> HIDE DEF InPage
    <3> QED BY <1>4, <1>7, <3>1, <3>3
  <2>2. CASE job.at # filler[f].job.at
    <3>1. filler' = [filler EXCEPT ![f] = Deriving]
      BY <1>11, <2>2 DEF Reread
    <3> HIDE DEF InPage
    <3> QED BY <1>4, <1>7, <1>8, <3>1
  <2> QED BY <2>1, <2>2
<1>12. ASSUME NEW f \in Fillers, Advance(f) \/ FillDerive(f) \/ FillFails(f)
       PROVE  \A g \in Fillers : InPage(filler'[g], Gaps')
  <2>1. filler' = [filler EXCEPT ![f] = Deriving] \/ filler' = [filler EXCEPT ![f] = Waiting]
    BY <1>12 DEF Advance, FillDerive, FillFails
  <2> HIDE DEF InPage
  <2> QED BY <1>4, <1>7, <1>8, <2>1
<1>13. CASE UNCHANGED filler
  BY <1>7, <1>13
<1> QED BY <1>9, <1>10, <1>11, <1>12, <1>13
        DEF MarketNext, Hot, Fill, MinutePasses, HotFetch, Stage, Store, HotDerive, HotFails, marketVars

\* What is staged stays the job that the commit makes of the one that is there: a worker
\* that writes waits for the commit.
LEMMA JobStaysStaged ==
  ASSUME MarketInvariant, Sound', [MarketNext]_marketVars
  PROVE  JobIsStaged'
<1>1. /\ Sound /\ JobIsStaged /\ CopiesAgree /\ PagesLieWithin /\ MarketTypeOK /\ WindowIsWhole
  BY DEF MarketInvariant, Sound, FetchedIsBehind
<1>2. now \in Int /\ hot.at \in Int /\ Last \in Int /\ Last' \in Int /\ Last <= now
      /\ (InFlight => hot.last = Last /\ Last <= hot.at /\ hot.at <= now)
      /\ (~ Store => Last' = Last)
  <2>1. now \in Int /\ hot.at \in Int
    BY <1>1, Bounds DEF MarketTypeOK, Minutes
  <2>2. Last <= now /\ (InFlight => hot.last = Last /\ Last <= hot.at /\ hot.at <= now)
    BY <1>1 DEF JobIsStaged, WindowIsWhole
  <2>3. Last \in Int /\ Last' \in Int /\ (~ Store => Last' = Last)
    BY <1>1, HistoryGrows
  <2> QED BY <2>1, <2>2, <2>3
<1>3. CASE MinutePasses
  <2>1. hot' = hot /\ now' = now + 1 /\ job' = job /\ staged' = staged /\ Last' = Last
    BY <1>3, NothingStored DEF MinutePasses
  <2>2. Last' <= now' /\ (InFlight' => hot'.last = Last' /\ Last' <= hot'.at)
    BY <1>2, <2>1 DEF InFlight
  <2>3. hot'.phase = "staged" =>
          staged' = IF Resets' THEN Scheduled(hot.last + 1, GapEnd, hot.at)' ELSE NoJob
    BY <1>1, <2>1 DEF JobIsStaged, Resets, GapEnd, Scheduled
  <2> QED BY <2>2, <2>3 DEF JobIsStaged
<1>4. CASE HotFetch
  <2>1. Last' = Last /\ now' = now /\ hot'.phase = "fetched" /\ hot'.at = now /\ hot'.last = Last
    BY <1>4, NothingStored DEF HotFetch
  <2> QED BY <1>2, <2>1 DEF JobIsStaged
<1>5. CASE Stage
  <2>1. /\ Last' = Last /\ now' = now /\ job' = job /\ hot.phase = "fetched"
        /\ hot'.phase = "staged" /\ hot'.at = hot.at /\ hot'.last = hot.last /\ hot'.rows = hot.rows
        /\ staged' = IF Resets THEN Scheduled(hot.last + 1, GapEnd, hot.at) ELSE NoJob
    BY <1>1, <1>5, NothingStored DEF Stage, MarketTypeOK
  <2>2. staged' = IF Resets' THEN Scheduled(hot.last + 1, GapEnd, hot.at)' ELSE NoJob
    BY <2>1 DEF Resets, GapEnd, Scheduled
  <2>3. Last' <= now' /\ hot'.last = Last' /\ Last' <= hot'.at
    BY <1>2, <2>1 DEF InFlight
  <2> QED BY <2>2, <2>3 DEF JobIsStaged
<1>6. CASE Store
  <2>1. hot'.phase = "stored" /\ now' = now /\ InFlight
    BY <1>6 DEF Store, Idle, InFlight
  <2>2. Last' <= hot.at
    BY <1>1, <1>6, WindowMoves
  <2> QED BY <1>2, <2>1, <2>2 DEF JobIsStaged, InFlight
<1>7. CASE HotDerive \/ HotFails
  <2>1. Last' = Last /\ now' = now /\ hot'.phase = "idle"
    BY <1>7, NothingStored DEF HotDerive, HotFails, Idle
  <2> QED BY <1>2, <2>1 DEF JobIsStaged, InFlight
<1>8. ASSUME Last' = Last, UNCHANGED <<now, hot, staged>>, job' = job \/ staged = NoJob PROVE JobIsStaged'
  <2>1. Last' <= now' /\ (InFlight' => hot'.last = Last' /\ Last' <= hot'.at)
    BY <1>2, <1>8 DEF InFlight
  <2>2. (Resets' <=> Resets) /\ GapEnd' = GapEnd
    BY <1>8 DEF Resets, GapEnd
  <2>3. CASE job' = job
    <3>1. Scheduled(hot.last + 1, GapEnd, hot.at)' = Scheduled(hot.last + 1, GapEnd, hot.at)
      BY <1>8, <2>2, <2>3 DEF Scheduled
    <3> QED BY <1>1, <1>8, <2>1, <2>2, <3>1 DEF JobIsStaged
  <2>4. CASE staged = NoJob
    <3>1. Scheduled(hot.last + 1, GapEnd, hot.at) # NoJob
      BY DEF Scheduled, NoJob
    <3>2. hot.phase = "staged" => ~ Resets
      BY <1>1, <2>4, <3>1 DEF JobIsStaged
    <3> QED BY <1>8, <2>1, <2>2, <2>4, <3>2 DEF JobIsStaged
  <2> QED BY <1>8, <2>3, <2>4
<1>9. ASSUME NEW f \in Fillers, StorePage(f) PROVE JobIsStaged'
  BY <1>1, <1>8, <1>9, PageCloses DEF StorePage
<1>10. ASSUME NEW f \in Fillers, Advance(f) PROVE JobIsStaged'
  BY <1>8, <1>10, NothingStored DEF Advance
<1>11. ASSUME UNCHANGED <<now, candle, job, staged, hot>> PROVE JobIsStaged'
  BY <1>8, <1>11, NothingStored
<1> QED BY <1>3, <1>4, <1>5, <1>6, <1>7, <1>9, <1>10, <1>11
        DEF MarketNext, Hot, Fill, Load, Reread, FillDerive, FillFails, marketVars

\* Empty tables have no job.
LEMMA StartHasNoJob == MarketInit => MarketInvariant
<1> SUFFICES ASSUME MarketInit PROVE MarketInvariant
  OBVIOUS
<1>1. Stored = {} /\ Last = 0 /\ Gaps = {}
  BY DEF MarketInit, Stored, Last, Gaps
<1>2. JobIsStaged
  BY <1>1, Bounds DEF MarketInit, JobIsStaged, InFlight, Idle
<1>3. Copies = {NoJob}
  BY DEF MarketInit, Copies, AtWork, Waiting
<1>4. CopiesAgree
  BY <1>1, <1>3 DEF CopiesAgree, Within, Agree
<1>5. PagesLieWithin
  BY DEF MarketInit, PagesLieWithin, AtWork, Waiting
<1> QED BY <1>2, <1>4, <1>5, StartIsSound DEF MarketInvariant, Sound

\* The step of the invariant, for any number of outages, retries and workers.
LEMMA MarketStep == MarketInvariant /\ [MarketNext]_marketVars => MarketInvariant'
<1> SUFFICES ASSUME MarketInvariant, [MarketNext]_marketVars PROVE MarketInvariant'
  OBVIOUS
<1>1. Sound'
  BY StepIsSound DEF MarketInvariant, Sound
<1> QED BY <1>1, CopiesKeepAgreeing, PagesStayWithin, JobStaysStaged DEF MarketInvariant, Sound

\* Whatever outages, retries, crashes and workers there are, all copies of one backfill
\* job own the same holes, the page of each worker lies within the job it has loaded, and
\* a job lies between stored minutes (_schedule_gap_backfill, _advance_gap_backfill).
THEOREM MarketInvariantHolds == MarketSpec => []MarketInvariant
BY StartHasNoJob, MarketStep, PTL DEF MarketSpec

-----------------------------------------------------------------------------
(* The owners of the holes.                                                *)

\* A step that is neither of the two keeps the owner of a hole, and a new hole has one.
LEMMA OwnersStay ==
  ASSUME MarketInvariant, [MarketNext]_marketVars, ~ JobIsDropped, ~ JobIsOverwritten
  PROVE  \A m \in Gaps' : Owns(job, m)' \/ (m \in Gaps /\ ~ Owns(job, m))
<1>1. Sound /\ Sound' /\ JobIsStaged /\ CopiesAgree /\ PagesLieWithin /\ MarketTypeOK /\ PagesAreWhole
  BY StepIsSound DEF MarketInvariant, Sound, FetchedIsBehind
<1>2. \A m \in Minutes : m \in Int
  BY Bounds DEF Minutes
<1>3. ~ Store => Gaps' \subseteq Gaps
  BY <1>1, HistoryGrows
<1>4. CASE job' = job /\ Gaps' \subseteq Gaps
  BY <1>4 DEF Owns
<1>5. CASE Store
  <2>1. CASE ~ Resets
    BY <1>1, <1>4, <1>5, <2>1, StoredJob, WindowMoves
  <2>2. CASE Resets
    <3>1. /\ job' = Scheduled(hot.last + 1, GapEnd, hot.at)
          /\ \A m \in Gaps' : m \in Gaps \/ (hot.last + 1 <= m /\ m <= GapEnd)
      BY <1>1, <1>5, <2>2, StoredJob, WindowMoves
    <3>2. /\ job'.status = "pending" /\ job'.next \in Int /\ job'.end \in Int
          /\ job'.next <= hot.last + 1 /\ GapEnd <= job'.end
          /\ job.status = "pending" => job'.next <= job.next /\ job.end <= job'.end
      BY <1>1, <1>5, <2>2, <3>1, NewJobWithin
    <3>3. hot.last \in Int /\ GapEnd \in Int /\ job.next \in Int /\ job.end \in Int
      <4>1. hot.rows # {} /\ job \in Jobs
        BY <1>1, <1>5 DEF Store, Sound, FetchedIsBehind, WindowIsWhole, InFlight, MarketTypeOK
      <4> QED BY <1>1, <2>2, <4>1, ResetIsJob, Bounds DEF MarketTypeOK, Jobs
    <3>4. ASSUME NEW m \in Gaps' PROVE Owns(job, m)' \/ (m \in Gaps /\ ~ Owns(job, m))
      <4>1. m \in Int
        BY <1>2 DEF Gaps
      <4>2. CASE hot.last + 1 <= m /\ m <= GapEnd
        BY <3>2, <3>3, <4>1, <4>2 DEF Owns
      <4>3. CASE m \in Gaps /\ Owns(job, m)
        BY <3>2, <3>3, <4>1, <4>3 DEF Owns
      <4> QED BY <3>1, <4>2, <4>3
    <3> QED BY <3>4
  <2> QED BY <2>1, <2>2
<1>6. ASSUME NEW f \in Fillers, Advance(f)
      PROVE  \A m \in Gaps' : Owns(job, m)' \/ (m \in Gaps /\ ~ Owns(job, m))
  <2>1. Gaps' = Gaps /\ filler[f].read.at = job.at
    BY <1>6, NothingStored DEF Advance, JobIsOverwritten
  <2>2. filler[f].read \in Copies /\ job \in Copies
    BY <1>1, <1>6, AdvancedJob DEF Copies
  <2>3. \A m \in Gaps : Owns(job, m) <=> Owns(filler[f].read, m)
    BY <1>1, <2>1, <2>2 DEF CopiesAgree, Agree
  <2>4. \A m \in Gaps : Owns(filler[f].read, m) <=> Owns(job, m)'
    BY <1>1, <1>6, AdvancedJob
  <2> QED BY <2>1, <2>3, <2>4
<1> QED BY <1>3, <1>4, <1>5, <1>6
        DEF MarketNext, Hot, Fill, MinutePasses, HotFetch, Stage, HotDerive, HotFails, Load, StorePage, Reread,
            FillDerive, FillFails, marketVars

\* A hole loses its owner in two steps only: in a commit that is retried without the job
\* it had staged, and when a worker writes back a job that was replaced since it was read.
\* No failure, crash or second worker, and no number of outages, does it otherwise.
THEOREM OwnersAreKept == MarketSpec => HolesKeepTheirOwner
<1>1. MarketInvariant /\ [MarketNext]_marketVars =>
        [JobIsDropped \/ JobIsOverwritten
         \/ \A m \in Gaps' : Owns(job, m)' \/ (m \in Gaps /\ ~ Owns(job, m))]_marketVars
  BY OwnersStay
<1> QED BY <1>1, MarketInvariantHolds, PTL DEF MarketSpec, HolesKeepTheirOwner

\* So every missing minute lies ahead of the cursor of a pending job for as long as the
\* job of no commit is dropped and that of no worker overwritten, through any number of
\* outages, retried commits without a job, failures and crashes.
THEOREM HolesAreOwned ==
  MarketSpec /\ [][~ JobIsDropped /\ ~ JobIsOverwritten]_marketVars => []GapsAreOwned
<1>1. MarketInit => GapsAreOwned
  BY DEF MarketInit, GapsAreOwned, Gaps, Stored
<1>2. MarketInvariant /\ GapsAreOwned /\ [MarketNext]_marketVars
      /\ [~ JobIsDropped /\ ~ JobIsOverwritten]_marketVars => GapsAreOwned'
  <2> SUFFICES ASSUME MarketInvariant, GapsAreOwned, [MarketNext]_marketVars,
                      [~ JobIsDropped /\ ~ JobIsOverwritten]_marketVars
               PROVE  GapsAreOwned'
    OBVIOUS
  <2>1. CASE UNCHANGED marketVars
    BY <2>1 DEF marketVars, GapsAreOwned, Gaps, Stored, Last, Owns
  <2>2. CASE ~ JobIsDropped /\ ~ JobIsOverwritten
    BY <2>2, OwnersStay DEF GapsAreOwned
  <2> QED BY <2>1, <2>2
<1> QED BY <1>1, <1>2, MarketInvariantHolds, PTL DEF MarketSpec

=============================================================================
