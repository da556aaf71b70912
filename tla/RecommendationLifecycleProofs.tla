-------------------- MODULE RecommendationLifecycleProofs -------------------
(***************************************************************************)
(* For every number of rows, every ttl and every setting of the reviewer:  *)
(* what holds of the rows of one idea whoever acts on them in which order. *)
(***************************************************************************)
EXTENDS RecommendationLifecycle, TLAPS

USE BoundsAssumption, SettingsAssumption

\* What the recommender may decide to publish is a well-formed draft of that row.
LEMMA DecisionsAreDrafts ==
  ASSUME TypeOK, NEW n \in Rows, NEW d \in Decision(n) \union {Unconfirmed(n)}
  PROVE  d \in Drafts /\ d.row = n
<1>1. CASE d = Unconfirmed(n) BY <1>1 DEF Unconfirmed, Drafts, Expirable
<1>2. CASE d \in Decision(n)
  <2> DEFINE own(l) == [row |-> n, status |-> "recommended", root |-> n, label |-> l]
             join(k) == [row |-> n, status |-> "active", root |-> k, label |-> FALSE]
  <2>1. \/ \E l \in BOOLEAN : d = own(l)
        \/ \E r \in Rows : d = join(root[r])
    BY <1>2 DEF Decision, Newest, LivePublications
  <2>2. \A l \in BOOLEAN : own(l) \in Drafts /\ own(l).row = n
    BY DEF Drafts, Expirable, Live
  <2>3. \A k \in Rows : join(k) \in Drafts /\ join(k).row = n
    BY DEF Drafts, Expirable, Live
  <2>4. QED BY <2>1, <2>2, <2>3 DEF TypeOK
<1>3. QED BY <1>1, <1>2

\* Every step keeps the state well typed.
LEMMA StepTypes ==
  ASSUME TypeOK, Next
  PROVE  TypeOK'
<1> USE DEF TypeOK, rowVars, llmVars
<1>1. CASE PublishRead BY <1>1, DecisionsAreDrafts DEF PublishRead
<1>2. CASE PublishCommit BY <1>2 DEF PublishCommit, Annotation, Drafts, Rows, NoDraft, Targets, Reviews, Live, Expirable, Closed, Stored, Statuses
<1>3. CASE PublishAbort BY <1>3 DEF PublishAbort, Drafts, OldestAge
<1>4. CASE SweepRead BY <1>4 DEF SweepRead, Doomed
<1>5. CASE SweepWrite BY <1>5 DEF SweepWrite, Live, Expirable, Closed, Stored, Statuses
<1>6. CASE LlmStart BY <1>6 DEF LlmStart, Snapshot, Statuses
<1>7. CASE LlmSelect BY <1>7 DEF LlmSelect, Snapshot, Statuses, Caches, Views
<1>8. CASE LlmAnswer BY <1>8 DEF LlmAnswer, Candidates, Views
<1>9. CASE LlmWriteSelect BY <1>9 DEF LlmWriteSelect, Newest, Reads
<1>10. CASE LlmWriteUpdate BY <1>10 DEF LlmWriteUpdate, Outcome, Verdict, Moved, Allowed, Reads, NotChosen, Reviews, Targets, Live, Expirable, Closed, Stored, Statuses
<1>11. CASE LlmFinish BY <1>11 DEF LlmFinish, EndSweep, Statuses, Caches, Views
<1>12. CASE LlmAbort BY <1>12 DEF LlmAbort, EndSweep, Statuses, Views
<1>13. CASE CacheGrowsStale BY <1>13 DEF CacheGrowsStale, Caches
<1>14. CASE Tick BY <1>14 DEF Tick, OldestAge
<1>15. ASSUME NEW r \in Rows, ExecuteAgain(r) PROVE TypeOK'
  BY <1>15 DEF ExecuteAgain, SetStatus, Moved, Allowed, Live, Expirable, Closed, Stored, Statuses
<1>16. ASSUME NEW r \in Rows, ExecuteTooLate(r) PROVE TypeOK'
  BY <1>16 DEF ExecuteTooLate, SetStatus, Moved, Allowed, Live, Expirable, Closed, Stored, Statuses
<1>17. ASSUME NEW r \in Rows, ExecuteReuse(r) PROVE TypeOK'
  BY <1>17 DEF ExecuteReuse, SetStatus, Moved, Allowed, Live, Expirable, Closed, Stored, Statuses
<1>18. ASSUME NEW r \in Rows, ExecuteCreate(r) PROVE TypeOK'
  BY <1>18 DEF ExecuteCreate, SetStatus, Moved, Allowed, Live, Expirable, Closed, Stored, Statuses
<1>19. ASSUME NEW r \in Rows, Ignore(r) PROVE TypeOK'
  BY <1>19 DEF Ignore, SetStatus, Moved, Allowed, Live, Expirable, Closed, Stored, Statuses
<1>20. ASSUME NEW r \in Rows, StopBot(r) PROVE TypeOK'
  BY <1>20 DEF StopBot
<1>21. QED BY <1>1, <1>2, <1>3, <1>4, <1>5, <1>6, <1>7, <1>8, <1>9, <1>10, 
              <1>11, <1>12, <1>13, <1>14, <1>15, <1>16, <1>17, <1>18, <1>19, <1>20
          DEF Next, Publisher, TtlSweep, LlmSweep, Operator

\* Type correctness of the table, its writers and the operator.
THEOREM LifecycleTypeCorrect == Spec => []TypeOK
<1>1. Init => TypeOK
  BY DEF Init, TypeOK, Rows, Statuses, Targets, Reviews, Views, Caches, Empty, OldestAge
<1>2. TypeOK /\ [Next]_vars => TypeOK'
  <2>1. TypeOK /\ UNCHANGED vars => TypeOK' BY DEF vars, rowVars, llmVars, TypeOK
  <2>2. QED BY <2>1, StepTypes
<1>3. QED BY <1>1, <1>2, PTL DEF Spec

-----------------------------------------------------------------------------

LifecycleInvariant == PublicationInvariant /\ SweepInvariant /\ LaunchableRowsAreReviewed

\* The table of transitions: a row keeps its status or takes the one asked for, and
\* only from a status that may take it.
LEMMA MovesAreAllowed ==
  ASSUME NEW from \in Statuses, NEW to
  PROVE  /\ Moved(from, to) \in {from, to}
         /\ from = "new" => Moved(from, to) = "new"
         /\ from # "new" => Moved(from, to) \in Stored
         /\ from \in Closed => Moved(from, to) = from
         /\ Moved(from, to) = "executed" => from \in Live \union {"executed"}
  BY DEF Moved, Allowed, Statuses, Stored, Expirable, Live, Closed

\* What the reviewer writes: a target status only together with a completed review.
LEMMA OutcomeTypes ==
  ASSUME TypeOK, NEW r \in Rows
  PROVE  /\ Outcome(r).review \in Reviews
         /\ Outcome(r).want \in Live \union {"none", "no_trade"}
         /\ Outcome(r).want \in Live => Outcome(r).review = "ok"
<1>1. CASE Outcome(r) = [review |-> "error", want |-> "no_trade"]
  BY <1>1 DEF Reviews, Live
<1>2. CASE Outcome(r) = [review |-> "error", want |-> "none"]
  BY <1>2 DEF Reviews, Live
<1>3. CASE Outcome(r) = Verdict(r, known)
  BY <1>3 DEF Verdict, Reviews, Targets, TypeOK
<1>4. QED BY <1>1, <1>2, <1>3 DEF Outcome

\* A chain the recommender joins is one that is already stored.
LEMMA DecisionsJoinStoredChains ==
  ASSUME TypeOK, PublicationInvariant, NEW n \in Rows, NEW d \in Decision(n) \union {Unconfirmed(n)}
  PROVE  d.root = n \/ Known(d.root)
<1>1. \A r \in Newest(LivePublications) : Known(root[r])
  BY DEF Newest, LivePublications, Actionable, Live, PublicationInvariant, Known
<1>2. \/ d.root = n \/ \E r \in Newest(LivePublications) : d.root = root[r]
  BY DEF Decision, Unconfirmed
<1>3. QED BY <1>1, <1>2

\* Whoever publishes nothing and stores no bot for an unpublished row leaves it alone.
LEMMA OthersKeepPublication ==
  ASSUME TypeOK, PublicationInvariant, UNCHANGED <<age, root, draft>>,
         \A r \in Rows : (status'[r] = "new") <=> (status[r] = "new"),
         \A r \in Rows : status[r] = "new" => bot'[r] = bot[r],
         doomed' \subseteq doomed
  PROVE  PublicationInvariant'
<1> USE DEF PublicationInvariant, Known
<1>1. root \in [Rows -> Rows] /\ doomed \subseteq Rows BY DEF TypeOK
<1>2. draft # NoDraft => draft.row \in Rows /\ draft.root \in Rows BY DEF TypeOK, Drafts
<1>3. \A r \in doomed' : Known(r)' BY <1>1
<1>4. draft' # NoDraft => /\ ~Known(draft.row)' /\ age[draft.row] <= age[draft.root]
                          /\ draft.root = draft.row \/ Known(draft.root)'
  BY <1>2
<1>5. ASSUME NEW r \in Rows
      PROVE  IF Known(r)' THEN Known(root[r])' /\ age[r] <= age[root[r]]
             ELSE root[r] = r /\ bot'[r] = "none" /\ (r = draft.row \/ age[r] = 0)
  BY <1>1
<1>6. QED BY <1>3, <1>4, <1>5

\* A chain's root is stored before its members and is the oldest of them.
LEMMA StepKeepsPublication ==
  ASSUME TypeOK, LifecycleInvariant, Next
  PROVE  PublicationInvariant'
<1> USE DEF TypeOK, LifecycleInvariant, PublicationInvariant, Known, rowVars, llmVars
<1>1. CASE PublishRead
  <2>1. PICK n \in Rows : IsNext(n) /\ draft' \in Decision(n) \union {Unconfirmed(n)}
    BY <1>1 DEF PublishRead
  <2>2. draft' \in Drafts /\ draft'.row = n BY <2>1, DecisionsAreDrafts
  <2>3. draft'.root = n \/ Known(draft'.root) BY <2>1, DecisionsJoinStoredChains
  <2>4. ~Known(n) /\ age[n] = 0 BY <1>1, <2>1 DEF PublishRead, IsNext, NoDraft, Rows, NoRow
  <2>5. age[n] <= age[draft'.root] BY <2>2, <2>4 DEF Drafts, OldestAge
  <2>6. UNCHANGED <<status, age, root, bot, doomed>> /\ draft = NoDraft
    BY <1>1 DEF PublishRead
  <2>7. draft.row \notin Rows BY <2>6 DEF NoDraft, NoRow, Rows
  <2>8. QED BY <2>2, <2>3, <2>4, <2>5, <2>6, <2>7
<1>2. CASE PublishCommit
  <2>1. draft \in Drafts /\ draft' = NoDraft BY <1>2 DEF PublishCommit
  <2>2. PICK s \in Stored : status' = [status EXCEPT ![draft.row] = s]
    BY <1>2, <2>1 DEF PublishCommit, Annotation, Drafts, Expirable, Stored, Closed
  <2>3. root' = [root EXCEPT ![draft.row] = draft.root] /\ UNCHANGED <<age, bot, doomed>>
    BY <1>2 DEF PublishCommit
  <2>4. \A r \in Rows : Known(r)' <=> Known(r) \/ r = draft.row
    BY <2>2 DEF Stored, Expirable, Live, Closed
  <2>5. QED BY <1>2, <2>1, <2>3, <2>4 DEF Drafts, PublishCommit
<1>3. CASE PublishAbort BY <1>3 DEF PublishAbort, NoDraft, Drafts
<1>4. CASE SweepRead BY <1>4 DEF SweepRead, Doomed, Expirable, Live
<1>5. CASE SweepWrite
  <2>1. \A r \in Rows : Known(r)' <=> Known(r) BY <1>5 DEF SweepWrite
  <2>2. QED BY <1>5, <2>1, OthersKeepPublication DEF SweepWrite
<1>6. CASE LlmStart BY <1>6 DEF LlmStart
<1>7. CASE LlmSelect BY <1>7 DEF LlmSelect
<1>8. CASE LlmAnswer BY <1>8 DEF LlmAnswer
<1>9. CASE LlmWriteSelect BY <1>9 DEF LlmWriteSelect
<1>10. CASE LlmWriteUpdate
  <2>1. current \in Reads /\ current.saw \in Stored /\ status[current.row] # "new"
    BY <1>10 DEF LlmWriteUpdate, SweepInvariant, Unlaunchable, Statuses, Reads
  <2> DEFINE s == Moved(current.saw, Outcome(current.row).want)
  <2>2. status' = [status EXCEPT ![current.row] = s] BY <1>10 DEF LlmWriteUpdate
  <2>3. \A r \in Rows : Known(r)' <=> Known(r)
    <3>1. s \in Stored BY <2>1, MovesAreAllowed DEF Statuses, Stored, Expirable, Live, Closed
    <3>2. QED BY <2>1, <2>2, <3>1 DEF Stored, Expirable, Live, Closed, Reads
  <2>4. QED BY <1>10, <2>3 DEF LlmWriteUpdate
<1>11. CASE LlmFinish BY <1>11 DEF LlmFinish, EndSweep
<1>12. CASE LlmAbort BY <1>12 DEF LlmAbort, EndSweep
<1>13. CASE CacheGrowsStale BY <1>13 DEF CacheGrowsStale
<1>14. CASE Tick
  <2>1. UNCHANGED <<status, root, bot, draft, doomed>> BY <1>14 DEF Tick
  <2>2. \A r \in Rows : age'[r] = IF (Known(r) \/ r = draft.row) /\ age[r] < OldestAge
                                  THEN age[r] + 1 ELSE age[r]
    BY <1>14 DEF Tick
  <2>3. \A r, s \in Rows : age[r] <= age[s] /\ (Known(s) \/ s = draft.row) => age'[r] <= age'[s]
    BY <2>2 DEF OldestAge
  <2>4. QED BY <2>1, <2>2, <2>3 DEF Drafts, NoDraft
<1>15. ASSUME NEW r \in Rows, Operator(r) PROVE PublicationInvariant'
  <2>1. UNCHANGED <<age, root, draft, doomed>>
    BY <1>15 DEF Operator, ExecuteAgain, ExecuteTooLate, ExecuteReuse, ExecuteCreate, Ignore, StopBot
  <2>2. \/ UNCHANGED status
        \/ \E s \in {"executed", "expired", "ignored"} : SetStatus(r, s)
    BY <1>15 DEF Operator, ExecuteAgain, ExecuteTooLate, ExecuteReuse, ExecuteCreate, Ignore, StopBot
  <2>3. \A k \in Rows : Known(k)' <=> Known(k)
    BY <2>2, MovesAreAllowed DEF SetStatus, Stored, Expirable, Live, Closed
  <2>4. bot' = bot \/ (Known(r) /\ \E b \in {"running", "stopped"} : bot' = [bot EXCEPT ![r] = b])
    BY <1>15 DEF Operator, ExecuteAgain, ExecuteTooLate, ExecuteReuse, ExecuteCreate, Ignore,
                 StopBot, Launchable, Live
  <2>5. \A k \in Rows : ~Known(k) => bot'[k] = bot[k] BY <2>4
  <2>6. QED BY <2>1, <2>3, <2>5, OthersKeepPublication
<1>16. QED BY <1>1, <1>2, <1>3, <1>4, <1>5, <1>6, <1>7, <1>8, <1>9, <1>10, <1>11, <1>12,
              <1>13, <1>14, <1>15 DEF Next, Publisher, TtlSweep, LlmSweep

\* Who leaves the reviewer's variables alone and makes nothing launchable, except a
\* row that was unpublished or carries an ok review, does not disturb the reviewer.
LEMMA OthersKeepSweep ==
  ASSUME TypeOK, SweepInvariant, LaunchableRowsAreReviewed, UNCHANGED llmVars,
         \A r \in Rows : status[r] \in Unlaunchable => status'[r] \in Unlaunchable,
         LlmEnabled => \A r \in Rows : status'[r] \in Live =>
                          \/ status[r] \in Live /\ review'[r] = review[r]
                          \/ review'[r] = "ok"
  PROVE  SweepInvariant' /\ LaunchableRowsAreReviewed'
<1>1. todo \subseteq Rows /\ \A r \in Rows : (r \in Candidates)' <=> r \in Candidates
  BY DEF TypeOK, Candidates, llmVars
<1>2. SweepInvariant' BY <1>1 DEF SweepInvariant, llmVars
<1>3. LaunchableRowsAreReviewed' BY DEF LaunchableRowsAreReviewed
<1>4. QED BY <1>2, <1>3

\* The rows the reviewer takes over are unlaunchable when it reads them.
LEMMA EnqueuedAreUnlaunchable ==
  ASSUME LlmEnabled, LaunchableRowsAreReviewed, NEW r \in Rows, Enqueued(r)
  PROVE  status[r] \in Unlaunchable
  BY DEF LaunchableRowsAreReviewed, Enqueued, Unlaunchable, Statuses, Stored, Expirable, Live

\* A row is launchable only after a completed review, and the reviewer never holds
\* one that is launchable.
LEMMA StepKeepsSweep ==
  ASSUME TypeOK, LifecycleInvariant, Next
  PROVE  SweepInvariant' /\ LaunchableRowsAreReviewed'
<1> USE DEF LifecycleInvariant
<1>1. CASE PublishRead \/ PublishAbort \/ SweepRead \/ CacheGrowsStale \/ Tick
  BY <1>1, OthersKeepSweep
  DEF PublishRead, PublishAbort, SweepRead, CacheGrowsStale, Tick, rowVars, llmVars
<1>2. CASE PublishCommit
  <2> DEFINE a == Annotation(draft)
  <2>1. /\ status' = [status EXCEPT ![draft.row] = a.status]
        /\ review' = [review EXCEPT ![draft.row] = a.review]
        /\ UNCHANGED llmVars
    BY <1>2 DEF PublishCommit
  <2>2. draft.row \in Rows /\ status[draft.row] = "new"
    BY <1>2 DEF PublishCommit, TypeOK, Drafts, PublicationInvariant, Known
  <2>3. LlmEnabled /\ a.status \in Live => a.review = "ok"
    BY DEF Annotation, Live
  <2>4. "new" \notin Unlaunchable BY DEF Unlaunchable
  <2>5. \A r \in Rows : status[r] \in Unlaunchable => status'[r] \in Unlaunchable
    BY <2>1, <2>2, <2>4 DEF TypeOK
  <2>6. LlmEnabled => \A r \in Rows : status'[r] \in Live =>
          \/ status[r] \in Live /\ review'[r] = review[r]
          \/ review'[r] = "ok"
    BY <2>1, <2>2, <2>3 DEF TypeOK
  <2>7. QED BY <2>1, <2>5, <2>6, OthersKeepSweep
<1>3. CASE SweepWrite
  BY <1>3, OthersKeepSweep
  DEF SweepWrite, llmVars, Unlaunchable, Statuses, Stored, Closed, Live, TypeOK
<1>4. CASE LlmStart
  <2>1. \A r \in todo' : r \in Rows /\ Enqueued(r) BY <1>4 DEF LlmStart
  <2>2. phase' = "stale" /\ LlmEnabled /\ current' = current /\ current = NotChosen
    BY <1>4 DEF LlmStart, SweepInvariant
  <2>3. UNCHANGED <<status, review>> BY <1>4 DEF LlmStart, rowVars
  <2>4. \A r \in todo' : status'[r] \in Unlaunchable
    BY <2>1, <2>2, <2>3, EnqueuedAreUnlaunchable
  <2>5. QED BY <2>2, <2>3, <2>4 DEF SweepInvariant, LaunchableRowsAreReviewed
<1>5. CASE LlmSelect
  <2>1. /\ UNCHANGED <<status, review, current>> /\ LlmEnabled /\ current = NotChosen
        /\ phase' \in {"off", "cached", "asked"}
        /\ phase' # "cached" => todo' = {}
    BY <1>5 DEF LlmSelect, rowVars, SweepInvariant
  <2>2. \A r \in Rows : r \in todo' \/ copy'[r] # "new" => Enqueued(r)
    BY <1>5 DEF LlmSelect, Snapshot
  <2>3. \A r \in Rows : r \in todo' \/ (r \in Candidates)' => status'[r] \in Unlaunchable
    BY <2>1, <2>2, EnqueuedAreUnlaunchable DEF Candidates
  <2>4. QED BY <2>1, <2>3 DEF SweepInvariant, LaunchableRowsAreReviewed
<1>6. CASE LlmAnswer
  <2>1. /\ UNCHANGED <<status, review, current>> /\ phase = "asked" /\ phase' = "answered"
        /\ todo' = Candidates
    BY <1>6 DEF LlmAnswer, rowVars
  <2>2. QED BY <2>1 DEF SweepInvariant, LaunchableRowsAreReviewed, Candidates
<1>7. CASE LlmWriteSelect
  <2>1. PICK r \in Newest(todo) : current' = [row |-> r, saw |-> status[r]]
    BY <1>7 DEF LlmWriteSelect
  <2>2. r \in todo /\ todo \subseteq Rows BY DEF Newest, TypeOK
  <2>3. UNCHANGED <<status, review, phase, copy, todo>> BY <1>7 DEF LlmWriteSelect, rowVars
  <2>4. QED BY <2>1, <2>2, <2>3 DEF SweepInvariant, LaunchableRowsAreReviewed, Candidates
<1>8. CASE LlmWriteUpdate
  <2> DEFINE r == current.row
             o == Outcome(r)
             s == Moved(current.saw, o.want)
  <2>1. /\ status' = [status EXCEPT ![r] = s] /\ review' = [review EXCEPT ![r] = o.review]
        /\ todo' = todo \ {r} /\ current' = NotChosen /\ UNCHANGED <<phase, copy>>
        /\ current # NotChosen
    BY <1>8 DEF LlmWriteUpdate
  <2>2. r \in Rows /\ r \in todo /\ current.saw \in Unlaunchable
    BY <2>1 DEF SweepInvariant, TypeOK, Reads
  <2>3. s \in Live => o.review = "ok"
    BY <2>2, MovesAreAllowed, OutcomeTypes DEF Unlaunchable
  <2>4. phase # "asked" BY <2>2 DEF SweepInvariant
  <2>5. \A k \in Rows \ {r} : status'[k] = status[k] /\ review'[k] = review[k]
    BY <2>1 DEF TypeOK
  <2>6. SweepInvariant' BY <2>1, <2>2, <2>4, <2>5 DEF SweepInvariant, TypeOK
  <2>7. status'[r] = s /\ review'[r] = o.review BY <2>1, <2>2 DEF TypeOK
  <2>8. LaunchableRowsAreReviewed' BY <2>3, <2>5, <2>7 DEF LaunchableRowsAreReviewed
  <2>9. QED BY <2>6, <2>8
<1>9. CASE LlmFinish \/ LlmAbort
  BY <1>9 DEF LlmFinish, LlmAbort, EndSweep, SweepInvariant, LaunchableRowsAreReviewed, rowVars
<1>10. ASSUME NEW r \in Rows, Operator(r) PROVE SweepInvariant' /\ LaunchableRowsAreReviewed'
  <2>1. UNCHANGED <<review, llmVars>>
    BY <1>10 DEF Operator, ExecuteAgain, ExecuteTooLate, ExecuteReuse, ExecuteCreate, Ignore,
                 StopBot, rowVars
  <2>2. \/ UNCHANGED status
        \/ \E s \in {"executed", "expired", "ignored"} : SetStatus(r, s)
    BY <1>10 DEF Operator, ExecuteAgain, ExecuteTooLate, ExecuteReuse, ExecuteCreate, Ignore,
                 StopBot, rowVars
  <2>3. \A k \in Rows : status'[k] = status[k] \/ status'[k] \in {"executed", "expired", "ignored"}
    BY <2>2, MovesAreAllowed DEF SetStatus, TypeOK
  <2>4. QED BY <2>1, <2>3, OthersKeepSweep DEF Unlaunchable, Statuses, Stored, Closed, Live
<1>11. QED BY <1>1, <1>2, <1>3, <1>4, <1>5, <1>6, <1>7, <1>8, <1>9, <1>10
          DEF Next, Publisher, TtlSweep, LlmSweep

\* The invariant of the table and the reviewer.
THEOREM LifecycleIsInvariant == Spec => []LifecycleInvariant
<1>1. Init => LifecycleInvariant
  BY DEF Init, LifecycleInvariant, PublicationInvariant, SweepInvariant,
         LaunchableRowsAreReviewed, Known, Candidates, Live, NoDraft
<1>2. TypeOK /\ LifecycleInvariant /\ [Next]_vars => LifecycleInvariant'
  <2>1. TypeOK /\ LifecycleInvariant /\ UNCHANGED vars => LifecycleInvariant'
    BY DEF vars, rowVars, llmVars, LifecycleInvariant, PublicationInvariant, SweepInvariant,
           LaunchableRowsAreReviewed, Known, Candidates
  <2>2. QED BY <2>1, StepKeepsPublication, StepKeepsSweep DEF LifecycleInvariant
<1>3. QED BY <1>1, <1>2, LifecycleTypeCorrect, PTL DEF Spec

\* With the reviewer enabled nothing can be launched without a completed review, for
\* every number of rows and however its sweeps, publications, expiries and the
\* operator's requests interleave.
THEOREM NothingUnreviewedIsLaunchable == Spec => []LaunchableRowsAreReviewed
<1>1. LifecycleInvariant => LaunchableRowsAreReviewed BY DEF LifecycleInvariant
<1>2. QED BY <1>1, LifecycleIsInvariant, PTL

-----------------------------------------------------------------------------

\* A bot starts only from a launchable row, so it starts from a fresh chain: the
\* chain's root is its oldest row, and a launchable row has been reviewed.
THEOREM BotsAreStartedFresh == Spec => BotsStartFromFreshIdeas
<1> DEFINE Fresh == \A r \in Rows : bot[r] = "none" /\ bot'[r] = "running" =>
                      /\ \A s \in Rows : root[s] = root[r] => age[s] <= Ttl
                      /\ LlmEnabled => review[r] = "ok"
<1>1. TypeOK /\ LifecycleInvariant /\ [Next]_vars => [Fresh]_vars
  <2> SUFFICES ASSUME TypeOK, LifecycleInvariant, Next,
                      NEW r \in Rows, bot[r] = "none", bot'[r] = "running"
               PROVE  /\ \A s \in Rows : root[s] = root[r] => age[s] <= Ttl
                      /\ LlmEnabled => review[r] = "ok"
    OBVIOUS
  <2>1. PICK k \in Rows : ExecuteCreate(k) \/ StopBot(k)
    BY DEF Next, Publisher, PublishRead, PublishCommit, PublishAbort, TtlSweep, SweepRead, SweepWrite,
           LlmSweep, LlmStart, LlmSelect, LlmAnswer, LlmWriteSelect, LlmWriteUpdate, LlmFinish,
           LlmAbort, CacheGrowsStale, Tick, Operator, ExecuteAgain, ExecuteTooLate, ExecuteReuse,
           Ignore
  <2>2. ExecuteCreate(k) /\ k = r BY <2>1 DEF ExecuteCreate, StopBot, TypeOK
  <2>3. status[r] \in Live /\ age[root[r]] <= Ttl
    BY <2>2 DEF ExecuteCreate, Launchable, ChainAge
  <2>4. ASSUME NEW s \in Rows, root[s] = root[r] PROVE age[s] <= Ttl
    BY <2>3, <2>4 DEF LifecycleInvariant, PublicationInvariant, TypeOK, OldestAge
  <2>5. QED BY <2>3, <2>4 DEF LifecycleInvariant, LaunchableRowsAreReviewed
<1>2. QED BY <1>1, LifecycleTypeCorrect, LifecycleIsInvariant, PTL DEF Spec, BotsStartFromFreshIdeas

-----------------------------------------------------------------------------

HasBot(r) == \E b \in Rows : bot[b] # "none" /\ root[b] = root[r]

\* An executed row has a bot also while the reviewer holds a reading of its status
\* that it will write back.
BotInvariant ==
  /\ ExecutedRowsHaveBots
  /\ OneRunningBotPerChain
  /\ current # NotChosen /\ current.saw = "executed" => HasBot(current.row)

\* Steps that touch neither the bots nor the chains keep the bots' invariant if they
\* make no row executed that has no bot.
LEMMA OthersKeepBots ==
  ASSUME TypeOK, BotInvariant, UNCHANGED <<bot, root>>,
         \A r \in Rows : status'[r] = "executed" => status[r] = "executed" \/ HasBot(r),
         \/ UNCHANGED current
         \/ current' = NotChosen
         \/ \E r \in Rows : current' = [row |-> r, saw |-> status[r]]
  PROVE  BotInvariant'
<1>1. \A r \in Rows : status[r] = "executed" => HasBot(r)
  BY DEF BotInvariant, ExecutedRowsHaveBots, HasBot
<1>2. \A r \in Rows : HasBot(r)' <=> HasBot(r) BY DEF HasBot
<1>3. ExecutedRowsHaveBots' BY <1>1, <1>2 DEF ExecutedRowsHaveBots, HasBot
<1>4. OneRunningBotPerChain' BY DEF BotInvariant, OneRunningBotPerChain
<1>5. current' # NotChosen /\ current'.saw = "executed" => HasBot(current'.row)
  BY <1>1 DEF BotInvariant
<1>6. HasBot(current.row)' <=> HasBot(current'.row) BY DEF HasBot
<1>7. QED BY <1>3, <1>4, <1>5, <1>6 DEF BotInvariant

\* Publishing gives a chain to a row that has no bot and is not executed.
LEMMA PublishCommitKeepsBots ==
  ASSUME TypeOK, LifecycleInvariant, BotInvariant, PublishCommit
  PROVE  BotInvariant'
<1> DEFINE n == draft.row
<1>1. n \in Rows /\ status[n] = "new" /\ bot[n] = "none"
  BY DEF PublishCommit, TypeOK, Drafts, LifecycleInvariant, PublicationInvariant, Known
<1>2. UNCHANGED <<bot, current>> BY DEF PublishCommit, llmVars
<1>3. \A r \in Rows \ {n} : root'[r] = root[r] /\ status'[r] = status[r]
  BY <1>1 DEF PublishCommit, TypeOK
<1>4. status'[n] # "executed"
  BY <1>1 DEF PublishCommit, TypeOK, Annotation, Drafts, Expirable, Live
<1>5. \A r \in Rows \ {n} : HasBot(r) => HasBot(r)' BY <1>1, <1>2, <1>3 DEF HasBot
<1>6. ExecutedRowsHaveBots'
  BY <1>1, <1>3, <1>4, <1>5 DEF BotInvariant, ExecutedRowsHaveBots, HasBot
<1>7. OneRunningBotPerChain' BY <1>1, <1>2, <1>3 DEF BotInvariant, OneRunningBotPerChain
<1>8. current # NotChosen => current.row \in Rows \ {n}
  BY <1>1 DEF LifecycleInvariant, SweepInvariant, Unlaunchable, TypeOK, Reads
<1>9. current' # NotChosen /\ current'.saw = "executed" => HasBot(current.row)'
  BY <1>2, <1>5, <1>8 DEF BotInvariant
<1>10. QED BY <1>2, <1>6, <1>7, <1>9 DEF BotInvariant, HasBot

\* A new bot is the only running one of its chain; a stopped one still counts as had.
LEMMA BotStepsKeepBots ==
  ASSUME TypeOK, LifecycleInvariant, BotInvariant, NEW r \in Rows, ExecuteCreate(r) \/ StopBot(r)
  PROVE  BotInvariant'
<1>1. UNCHANGED <<root, current>> BY DEF ExecuteCreate, StopBot, rowVars, llmVars
<1>2. PICK b \in {"running", "stopped"} : bot' = [bot EXCEPT ![r] = b]
  BY DEF ExecuteCreate, StopBot
<1>3. \A k \in Rows : HasBot(k) => HasBot(k)' BY <1>1, <1>2 DEF HasBot, TypeOK
<1>4. HasBot(r)' BY <1>1, <1>2 DEF HasBot, TypeOK
<1>5. \A k \in Rows \ {r} : status'[k] = status[k]
  BY DEF ExecuteCreate, StopBot, SetStatus, rowVars, TypeOK
<1>6. ExecutedRowsHaveBots'
  BY <1>3, <1>4, <1>5 DEF BotInvariant, ExecutedRowsHaveBots, HasBot
<1>7. OneRunningBotPerChain'
  BY <1>1 DEF BotInvariant, OneRunningBotPerChain, ExecuteCreate, StopBot, RunningOn, TypeOK
<1>8. current # NotChosen => current.row \in Rows BY DEF TypeOK, Reads
<1>9. current' # NotChosen /\ current'.saw = "executed" => HasBot(current.row)'
  BY <1>1, <1>3, <1>8 DEF BotInvariant
<1>10. QED BY <1>1, <1>6, <1>7, <1>9 DEF BotInvariant, HasBot

LEMMA StepKeepsBots ==
  ASSUME TypeOK, LifecycleInvariant, BotInvariant, Next
  PROVE  BotInvariant'
<1>1. CASE PublishRead \/ PublishAbort \/ SweepRead \/ CacheGrowsStale \/ Tick
  BY <1>1, OthersKeepBots
  DEF PublishRead, PublishAbort, SweepRead, CacheGrowsStale, Tick, rowVars, llmVars
<1>2. CASE PublishCommit BY <1>2, PublishCommitKeepsBots
<1>3. CASE SweepWrite BY <1>3, OthersKeepBots DEF SweepWrite, llmVars, TypeOK
<1>4. CASE LlmStart \/ LlmSelect \/ LlmAnswer \/ LlmFinish \/ LlmAbort
  BY <1>4, OthersKeepBots
  DEF LlmStart, LlmSelect, LlmAnswer, LlmFinish, LlmAbort, EndSweep, rowVars
<1>5. CASE LlmWriteSelect
  <2>1. \E r \in Rows : current' = [row |-> r, saw |-> status[r]]
    BY <1>5 DEF LlmWriteSelect, Newest, TypeOK
  <2>2. UNCHANGED <<bot, root, status>> BY <1>5 DEF LlmWriteSelect, rowVars
  <2>3. QED BY <2>1, <2>2, OthersKeepBots
<1>6. CASE LlmWriteUpdate
  <2> DEFINE r == current.row
             s == Moved(current.saw, Outcome(r).want)
  <2>1. status' = [status EXCEPT ![r] = s] /\ current # NotChosen /\ current' = NotChosen
        /\ UNCHANGED <<bot, root>>
    BY <1>6 DEF LlmWriteUpdate
  <2>2. r \in Rows /\ current.saw \in Statuses BY <2>1 DEF TypeOK, Reads
  <2>3. s \in {current.saw, Outcome(r).want} BY <2>2, MovesAreAllowed
  <2>4. Outcome(r).want # "executed" BY <2>2, OutcomeTypes DEF Live
  <2>5. s = "executed" => HasBot(r) BY <2>1, <2>3, <2>4 DEF BotInvariant
  <2>6. QED BY <2>1, <2>2, <2>5, OthersKeepBots DEF TypeOK
<1>7. ASSUME NEW r \in Rows, Operator(r) PROVE BotInvariant'
  <2>1. CASE ExecuteCreate(r) \/ StopBot(r) BY <2>1, BotStepsKeepBots
  <2>2. CASE ExecuteAgain(r) \/ ExecuteReuse(r)
    <3>1. HasBot(r) BY <2>2 DEF HasBot, ExecuteAgain, ExecuteReuse, RunningOn
    <3>2. QED BY <2>2, <3>1, OthersKeepBots
          DEF ExecuteAgain, ExecuteReuse, SetStatus, llmVars, TypeOK
  <2>3. CASE ExecuteTooLate(r) \/ Ignore(r)
    <3>1. PICK s \in {"expired", "ignored"} : status' = [status EXCEPT ![r] = Moved(status[r], s)]
      BY <2>3 DEF ExecuteTooLate, Ignore, SetStatus
    <3>2. Moved(status[r], s) \in {status[r], s} BY MovesAreAllowed DEF TypeOK
    <3>3. UNCHANGED <<bot, root, current>> BY <2>3 DEF ExecuteTooLate, Ignore, llmVars
    <3>4. QED BY <3>1, <3>2, <3>3, OthersKeepBots DEF TypeOK
  <2>4. QED BY <1>7, <2>1, <2>2, <2>3 DEF Operator
<1>8. QED BY <1>1, <1>2, <1>3, <1>4, <1>5, <1>6, <1>7
          DEF Next, Publisher, TtlSweep, LlmSweep

THEOREM BotsAreInvariant == Spec => []BotInvariant
<1>1. Init => BotInvariant
  BY DEF Init, BotInvariant, ExecutedRowsHaveBots, OneRunningBotPerChain
<1>2. TypeOK /\ LifecycleInvariant /\ BotInvariant /\ [Next]_vars => BotInvariant'
  <2>1. TypeOK /\ BotInvariant /\ UNCHANGED vars => BotInvariant'
    BY OthersKeepBots DEF vars, rowVars, llmVars
  <2>2. QED BY <2>1, StepKeepsBots
<1>3. QED BY <1>1, <1>2, LifecycleTypeCorrect, LifecycleIsInvariant, PTL DEF Spec

\* A row that says executed has, or had, a bot of its chain, in spite of the reviewer
\* writing back a status it read earlier.
THEOREM ExecutedMeansABot == Spec => []ExecutedRowsHaveBots
<1>1. BotInvariant => ExecutedRowsHaveBots BY DEF BotInvariant
<1>2. QED BY <1>1, BotsAreInvariant, PTL

\* At most one bot of a chain runs, however many of its rows are executed.
THEOREM ChainsRunOneBot == Spec => []OneRunningBotPerChain
<1>1. BotInvariant => OneRunningBotPerChain BY DEF BotInvariant
<1>2. QED BY <1>1, BotsAreInvariant, PTL

-----------------------------------------------------------------------------
(* Without the reviewer nobody writes back a status read earlier.          *)

LEMMA NoReviewerSteps ==
  ASSUME ~LlmEnabled, TypeOK, LifecycleInvariant, Next
  PROVE  \/ PublishRead \/ PublishCommit \/ PublishAbort \/ SweepRead \/ SweepWrite
         \/ CacheGrowsStale \/ Tick \/ \E r \in Rows : Operator(r)
<1>1. phase = "off" /\ todo = {} /\ current = NotChosen
  BY DEF LifecycleInvariant, SweepInvariant
<1>2. ~LlmSweep
  BY <1>1 DEF LlmSweep, LlmStart, LlmSelect, LlmAnswer, LlmWriteSelect, LlmWriteUpdate,
              LlmFinish, LlmAbort, Newest
<1>3. QED BY <1>2 DEF Next, Publisher, TtlSweep

\* What a request of the operator does to the statuses.
LEMMA OperatorMoves ==
  ASSUME TypeOK, NEW r \in Rows, Operator(r), NEW k \in Rows
  PROVE  /\ status'[k] \in {status[k], "executed", "expired", "ignored"}
         /\ status[k] \in Closed => status'[k] = status[k]
         /\ status'[k] = "executed" => status[k] \in Live \union {"executed"}
         /\ UNCHANGED <<label, target, draft>>
<1>1. UNCHANGED <<label, target, draft>>
  BY DEF Operator, ExecuteAgain, ExecuteTooLate, ExecuteReuse, ExecuteCreate, Ignore, StopBot,
         rowVars
<1>2. \/ UNCHANGED status
      \/ \E s \in {"executed", "expired", "ignored"} : SetStatus(r, s)
  BY DEF Operator, ExecuteAgain, ExecuteTooLate, ExecuteReuse, ExecuteCreate, Ignore, StopBot,
         rowVars
<1>3. CASE UNCHANGED status BY <1>1, <1>3
<1>4. ASSUME NEW s \in {"executed", "expired", "ignored"}, SetStatus(r, s)
      PROVE  /\ status'[k] \in {status[k], "executed", "expired", "ignored"}
             /\ status[k] \in Closed => status'[k] = status[k]
             /\ status'[k] = "executed" => status[k] \in Live \union {"executed"}
  <2>1. status[r] \in Statuses /\ status' = [status EXCEPT ![r] = Moved(status[r], s)]
    BY <1>4 DEF SetStatus, TypeOK
  <2>2. status'[k] = IF k = r THEN Moved(status[r], s) ELSE status[k]
    BY <2>1 DEF TypeOK
  <2>3. QED BY <2>1, <2>2, MovesAreAllowed
<1>5. QED BY <1>1, <1>2, <1>3, <1>4

\* A closed row stays closed: publication, TTL sweep and operator never reopen one.
THEOREM ClosedIsFinal == ASSUME ~LlmEnabled PROVE Spec => ClosedRowsStayClosed
<1> DEFINE Final == \A r \in Rows : status[r] \in Closed => status'[r] \in Closed
<1>1. TypeOK /\ LifecycleInvariant /\ [Next]_vars => [Final]_vars
  <2> SUFFICES ASSUME TypeOK, LifecycleInvariant, Next, NEW r \in Rows, status[r] \in Closed
               PROVE  status'[r] \in Closed
    OBVIOUS
  <2>1. CASE PublishCommit
    BY <2>1 DEF PublishCommit, TypeOK, Drafts, LifecycleInvariant, PublicationInvariant, Known, Closed
  <2>2. CASE SweepWrite BY <2>2 DEF SweepWrite, Closed
  <2>3. ASSUME NEW k \in Rows, Operator(k) PROVE status'[r] \in Closed
    BY <2>3, OperatorMoves
  <2>4. CASE PublishRead \/ PublishAbort \/ SweepRead \/ CacheGrowsStale \/ Tick
    BY <2>4 DEF PublishRead, PublishAbort, SweepRead, CacheGrowsStale, Tick, rowVars
  <2>5. QED BY <2>1, <2>2, <2>3, <2>4, NoReviewerSteps
<1>2. QED BY <1>1, LifecycleTypeCorrect, LifecycleIsInvariant, PTL DEF Spec, ClosedRowsStayClosed

\* Between the dedupe reads and the insertion of a labelled row no labelled row
\* becomes actionable.
LabelInvariant ==
  /\ OneActionableLabelRoot
  /\ \A r \in Rows : target[r] = "none"
  /\ draft # NoDraft /\ draft.label /\ draft.status \in Live =>
       \A r \in Rows : label[r] => ~Actionable(r)

LEMMA OthersKeepLabels ==
  ASSUME TypeOK, LabelInvariant, UNCHANGED <<label, target>>, draft' = draft \/ draft' = NoDraft,
         \A r \in Rows : status'[r] \in Live \union {"executed"}
                           => status[r] \in Live \union {"executed"}
  PROVE  LabelInvariant'
<1>1. \A r \in Rows : Actionable(r)' => Actionable(r)
  BY DEF Actionable, LabelInvariant, Live
<1>2. OneActionableLabelRoot' BY <1>1 DEF LabelInvariant, OneActionableLabelRoot
<1>3. QED BY <1>1, <1>2 DEF LabelInvariant, NoDraft, Actionable

LEMMA StepKeepsLabels ==
  ASSUME ~LlmEnabled, TypeOK, LifecycleInvariant, LabelInvariant, Next
  PROVE  LabelInvariant'
<1>1. CASE PublishAbort \/ SweepRead \/ CacheGrowsStale \/ Tick
  BY <1>1, OthersKeepLabels
  DEF PublishAbort, SweepRead, CacheGrowsStale, Tick, rowVars
<1>2. CASE SweepWrite BY <1>2, OthersKeepLabels DEF SweepWrite, TypeOK, Live
<1>3. ASSUME NEW r \in Rows, Operator(r) PROVE LabelInvariant'
  <2>1. \A k \in Rows : /\ status'[k] \in Live \union {"executed"}
                             => status[k] \in Live \union {"executed"}
                        /\ UNCHANGED <<label, target, draft>>
    BY <1>3, OperatorMoves DEF Live
  <2>2. QED BY <2>1, OthersKeepLabels
<1>4. CASE PublishRead
  <2>1. PICK n \in Rows : draft' \in Decision(n) \union {Unconfirmed(n)}
    BY <1>4 DEF PublishRead
  <2>2. draft'.label /\ draft'.status \in Live => ~\E r \in Rows : OpenLabelRoot(r)
    BY <2>1 DEF Decision, Unconfirmed, Live
  <2>3. UNCHANGED <<status, label, target>> BY <1>4 DEF PublishRead, rowVars
  <2>4. draft'.label /\ draft'.status \in Live => \A r \in Rows : label[r] => ~Actionable(r)
    BY <2>2 DEF OpenLabelRoot
  <2>5. \A r \in Rows : Actionable(r)' <=> Actionable(r) BY <2>3 DEF Actionable
  <2>6. QED BY <2>3, <2>4, <2>5 DEF LabelInvariant, OneActionableLabelRoot
<1>5. CASE PublishCommit
  <2>1. draft \in Drafts /\ draft # NoDraft /\ draft' = NoDraft
    BY <1>5 DEF PublishCommit, TypeOK
  <2> PICK n \in Rows : n = draft.row BY <2>1 DEF Drafts
  <2>2. Annotation(draft) = [status |-> draft.status, review |-> "none", target |-> "none"]
    BY DEF Annotation
  <2>3. /\ status' = [status EXCEPT ![n] = draft.status]
        /\ target' = [target EXCEPT ![n] = "none"]
        /\ label' = [label EXCEPT ![n] = draft.label]
    BY <1>5, <2>2 DEF PublishCommit
  <2>4. \A r \in Rows \ {n} : label'[r] = label[r] /\ (Actionable(r)' <=> Actionable(r))
    BY <2>3 DEF TypeOK, Actionable
  <2>5. target'[n] = "none" /\ status'[n] = draft.status /\ label'[n] = draft.label
    BY <2>1, <2>3 DEF TypeOK
  <2>6. Actionable(n)' => draft.status \in Live
    <3>1. draft.status \in Expirable BY <2>1 DEF Drafts
    <3>2. Actionable(n)' <=> status'[n] \in Live \union {"executed"}
                               \/ (status'[n] = "pending" /\ target'[n] \in Live)
      BY <2>1 DEF Actionable
    <3>3. QED BY <2>5, <3>1, <3>2 DEF Expirable, Live
  <2>7. OneActionableLabelRoot'
    <3>1. SUFFICES ASSUME NEW r \in Rows, NEW s \in Rows, label'[r], label'[s],
                          Actionable(r)', Actionable(s)'
                   PROVE  r = s
      BY DEF OneActionableLabelRoot
    <3>2. CASE r = n \/ s = n
      <4>1. draft.label /\ draft.status \in Live BY <3>1, <3>2, <2>5, <2>6
      <4>2. \A k \in Rows : label[k] => ~Actionable(k) BY <4>1, <2>1 DEF LabelInvariant
      <4>3. QED BY <3>1, <4>2, <2>4
    <3>3. CASE r # n /\ s # n
      BY <3>1, <3>3, <2>4 DEF LabelInvariant, OneActionableLabelRoot
    <3>4. QED BY <3>2, <3>3
  <2>8. \A r \in Rows : target'[r] = "none" BY <2>3, <2>5 DEF LabelInvariant, TypeOK
  <2>9. QED BY <2>1, <2>7, <2>8 DEF LabelInvariant
<1>6. QED BY <1>1, <1>2, <1>3, <1>4, <1>5, NoReviewerSteps

\* Although the dedupe reads and the insertion are separate steps, two labelled rows
\* of an idea are never actionable together.
THEOREM LabelRootsAreExclusive == ASSUME ~LlmEnabled PROVE Spec => []OneActionableLabelRoot
<1>1. Init => LabelInvariant
  BY DEF Init, LabelInvariant, OneActionableLabelRoot, NoDraft
<1>2. TypeOK /\ LifecycleInvariant /\ LabelInvariant /\ [Next]_vars => LabelInvariant'
  <2>1. TypeOK /\ LabelInvariant /\ UNCHANGED vars => LabelInvariant'
    BY OthersKeepLabels DEF vars, rowVars
  <2>2. QED BY <2>1, StepKeepsLabels
<1>3. LabelInvariant => OneActionableLabelRoot BY DEF LabelInvariant
<1>4. QED BY <1>1, <1>2, <1>3, LifecycleTypeCorrect, LifecycleIsInvariant, PTL DEF Spec

-----------------------------------------------------------------------------
(* What a veto means for the rows that wait for it.                        *)

\* A verdict in hand that opposes the idea, or a failure, asks for nothing launchable.
LEMMA OpposedAsksForNothing ==
  ASSUME TypeOK, GateMode, known = "oppose", NEW r \in Rows
  PROVE  Outcome(r).want \notin Live
<1>1. Outcome(r).want \in {"none", "no_trade"}
  BY DEF Outcome, Verdict
<1> QED BY <1>1 DEF Live

\* While the verdict in hand opposes the idea, no row that waits is released, also not by
\* an UPDATE that writes a status read before the operator or the TTL sweep came by: what
\* the reviewer reads to write is never launchable.
THEOREM VetoesHold == Spec => VetoReleasesNothing
<1> DEFINE Held == \A r \in Rows : GateMode /\ known = "oppose" /\ status[r] = "pending"
                                     => status'[r] \notin Live
<1>1. TypeOK /\ LifecycleInvariant /\ [Next]_vars => [Held]_vars
  <2> SUFFICES ASSUME TypeOK, LifecycleInvariant, Next, NEW r \in Rows,
                      GateMode, known = "oppose", status[r] = "pending"
               PROVE  status'[r] \notin Live
    OBVIOUS
  <2>1. CASE PublishCommit
    <3>1. draft.row \in Rows /\ ~Known(draft.row)
      BY <2>1 DEF PublishCommit, TypeOK, Drafts, LifecycleInvariant, PublicationInvariant
    <3>2. status'[r] = status[r]
      BY <2>1, <3>1 DEF PublishCommit, Known, TypeOK
    <3> QED BY <3>2 DEF Live
  <2>2. CASE SweepWrite
    BY <2>2 DEF SweepWrite, Live
  <2>3. ASSUME NEW k \in Rows, Operator(k) PROVE status'[r] \notin Live
    BY <2>3, OperatorMoves DEF Live
  <2>4. CASE LlmWriteUpdate
    <3>1. current.row \in Rows /\ current.saw \in Unlaunchable
      BY <2>4 DEF LlmWriteUpdate, TypeOK, Reads, LifecycleInvariant, SweepInvariant
    <3> DEFINE k == current.row
               new == Moved(current.saw, Outcome(k).want)
    <3>2. status' = [status EXCEPT ![k] = new]
      BY <2>4 DEF LlmWriteUpdate
    <3>3. new \in {current.saw, Outcome(k).want}
      BY <3>1, MovesAreAllowed DEF Unlaunchable
    <3>4. new \notin Live
      BY <3>1, <3>3, OpposedAsksForNothing DEF Unlaunchable
    <3> HIDE DEF new
    <3> QED BY <3>1, <3>2, <3>4 DEF TypeOK, Live
  <2>5. CASE UNCHANGED status
    BY <2>5 DEF Live
  <2> QED BY <2>1, <2>2, <2>3, <2>4, <2>5
          DEF Next, Publisher, PublishRead, PublishAbort, TtlSweep, SweepRead, LlmSweep, LlmStart,
              LlmSelect, LlmAnswer, LlmWriteSelect, LlmFinish, LlmAbort, CacheGrowsStale, Tick, rowVars
<1> QED BY <1>1, LifecycleTypeCorrect, LifecycleIsInvariant, PTL DEF Spec, VetoReleasesNothing

=============================================================================
