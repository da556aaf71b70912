----------------------- MODULE RecommendationLifecycle ----------------------
(***************************************************************************)
(* The rows of the recommendations table that belong to one idea (venue,   *)
(* symbol, bot type, direction), and everybody who changes their status:   *)
(*   - the recommender, which publishes a row in two steps: the dedupe     *)
(*     reads, then the transaction that annotates and inserts;             *)
(*   - the TTL sweep (recommender thread and API reads), which selects the *)
(*     doomed rows and then overwrites their status;                       *)
(*   - the LLM reviewer thread, which holds copies of pending rows during  *)
(*     a model call and then writes a verdict row by row, each with a      *)
(*     SELECT and an UPDATE;                                               *)
(*   - the operator, whose execute, ignore and stop requests are each one  *)
(*     transaction that locks the row.                                     *)
(* Row r is the r-th one published.  The model covers one label horizon    *)
(* (12 hours, against a recommendation ttl of minutes).                    *)
(***************************************************************************)
EXTENDS Naturals

CONSTANTS
  MaxRows,         \* rows published in a behaviour
  Ttl,             \* ttl_sec of every row, in ticks
  PendingTimeout,  \* llm_reviewer_pending_timeout_sec, in ticks
  LlmEnabled,      \* llm_reviewer_enabled
  GateMode         \* llm_reviewer_mode = "gate" (a veto) rather than "advisory"

ASSUME BoundsAssumption == MaxRows \in Nat /\ Ttl \in Nat \ {0} /\ PendingTimeout \in Nat \ {0}
ASSUME SettingsAssumption == LlmEnabled \in BOOLEAN /\ GateMode \in BOOLEAN

Rows == 1..MaxRows
NoRow == 0

VARIABLES
  status,   \* stored status of each row; "new" before it is inserted
  age,      \* seconds since the row's ts, saturating
  root,     \* publication_root_rec_id
  label,    \* is_outcome_label_root
  review,   \* reasons.llm_review.status
  target,   \* reasons.llm_review.publish_target_status
  bot,      \* the bot instance created from the row
  draft,    \* what the recommender has decided to publish next
  doomed,   \* rows a TTL sweep has selected and not yet updated
  cache,    \* the stored LLM verdict for the idea
  phase,    \* where the LLM sweep is
  copy,     \* status of each row as the LLM sweep read it, "new" if not read
  todo,     \* rows the LLM sweep still writes in this phase
  current,  \* the row it has SELECTed for its next UPDATE and the status it saw
  known,    \* the view in the cache as the LLM sweep read it
  answer    \* what the model answered in this sweep

rowVars == <<status, age, root, label, review, target>>
llmVars == <<phase, copy, todo, current, known, answer>>
vars == <<rowVars, bot, draft, doomed, cache, llmVars>>

-----------------------------------------------------------------------------

Live == {"recommended", "active"}                  \* launchable
Expirable == Live \union {"pending"}
Closed == {"ignored", "expired", "no_trade"}       \* blocked and suppressed: no_trade
Stored == Expirable \union Closed \union {"executed"}
Statuses == Stored \union {"new"}
Targets == Live \union {"none"}
Reviews == {"none", "pending", "ok", "error"}

\* Mutant: a status of the table may be revived.
AllowedRevival(from) == Stored

\* _ALLOWED_STATUS_TRANSITIONS
Allowed(from) ==
  CASE from = "recommended" -> Stored
    [] from = "active"      -> Stored \ {"recommended"}
    [] from = "pending"     -> Stored \ {"executed"}
    [] OTHER                -> {from}

\* The status a row takes when an update asks for one.
Moved(from, to) == IF to \in Allowed(from) THEN to ELSE from

Views == {"none", "agree", "oppose"}   \* of a cached verdict; oppose: confident, other direction
Caches == [fresh : BOOLEAN, view : Views]
Empty == [fresh |-> FALSE, view |-> "none"]
NotChosen == [row |-> NoRow, saw |-> "new"]
Reads == [row : Rows, saw : Statuses]
NoDraft == [row |-> NoRow, status |-> "new", root |-> NoRow, label |-> FALSE]
Drafts == [row : Rows, status : Expirable, root : Rows, label : BOOLEAN]

OldestAge == (IF Ttl > PendingTimeout THEN Ttl ELSE PendingTimeout) + 1

\* Every variable has its type.
TypeOK ==
  /\ status \in [Rows -> Statuses]
  /\ age \in [Rows -> 0..OldestAge]
  /\ root \in [Rows -> Rows]
  /\ label \in [Rows -> BOOLEAN]
  /\ review \in [Rows -> Reviews]
  /\ target \in [Rows -> Targets]
  /\ bot \in [Rows -> {"none", "running", "stopped"}]
  /\ draft \in Drafts \union {NoDraft}
  /\ doomed \in SUBSET Rows
  /\ cache \in Caches
  /\ phase \in {"off", "stale", "cached", "asked", "answered"}
  /\ copy \in [Rows -> Statuses]
  /\ todo \in SUBSET Rows
  /\ current \in Reads \union {NotChosen}
  /\ known \in Views
  /\ answer \in Views \union {"error", "raises"}

Init ==
  /\ status = [r \in Rows |-> "new"]
  /\ age = [r \in Rows |-> 0]
  /\ root = [r \in Rows |-> r]
  /\ label = [r \in Rows |-> FALSE]
  /\ review = [r \in Rows |-> "none"]
  /\ target = [r \in Rows |-> "none"]
  /\ bot = [r \in Rows |-> "none"]
  /\ draft = NoDraft
  /\ doomed = {}
  /\ cache = Empty
  /\ phase = "off"
  /\ copy = [r \in Rows |-> "new"]
  /\ todo = {}
  /\ current = NotChosen
  /\ known = "none"
  /\ answer = "none"

-----------------------------------------------------------------------------
(* Reading the table.                                                      *)

Known(r) == status[r] # "new"
IsNext(n) == \A m \in Rows : Known(m) <=> m < n   \* n is published next

ChainAge(r) == age[root[r]]
\* is_publication_chain_expired, and the TTL sweep's own test, use <=
ChainExpired(r) == ChainAge(r) >= Ttl

\* Also rows held for the reviewer continue their chain.
Actionable(r) == status[r] \in Live \union {"executed"}
                 \/ (status[r] = "pending" /\ target[r] \in Live)

\* A row whose pseudo-position is still being labelled, as far as the dedupe knows.
OpenLabelRoot(r) == label[r] /\ (Actionable(r) \/ status[r] = "expired")

Newest(S) == {r \in S : \A s \in S : s <= r}

LivePublications == {r \in Rows : Actionable(r) /\ ~ChainExpired(r)}

-----------------------------------------------------------------------------
(* The recommender.                                                        *)

\* Mutant: every chain of its own is labelled.
DecisionAlwaysLabels(n) ==
  LET own   == [row |-> n, status |-> "recommended", root |-> n, label |-> TRUE]
      joins == {[row |-> n, status |-> "active", root |-> root[r], label |-> FALSE] :
                  r \in Newest(LivePublications)}
  IN  joins \union {own}

\* _apply_recent_publication_dedupe: join the newest live chain, or found one.  While
\* no label is open, a material upgrade, or a predecessor outside the cooldown, also
\* founds a chain next to a live one.
Decision(n) ==
  LET open  == \E r \in Rows : OpenLabelRoot(r)
      own   == [row |-> n, status |-> "recommended", root |-> n, label |-> ~open]
      joins == {[row |-> n, status |-> "active", root |-> root[r], label |-> FALSE] :
                  r \in Newest(LivePublications)}
  IN  joins \union (IF open /\ LivePublications # {} THEN {} ELSE {own})

\* The persistence gate wants a second closed candle first: outside the dedupe.
Unconfirmed(n) == [row |-> n, status |-> "pending", root |-> n, label |-> TRUE]

\* The cycle's clock reading, the persistence gate and the dedupe reads.
PublishRead ==
  /\ draft = NoDraft
  /\ \E n \in Rows : IsNext(n) /\ draft' \in Decision(n) \union {Unconfirmed(n)}
  /\ UNCHANGED <<rowVars, bot, doomed, cache, llmVars>>

\* Mutant: a fresh idea is not held for the reviewer.
AnnotationUnheld(d) ==
  [status |-> d.status, review |-> "pending", target |-> "none"]

\* _mark_llm_reviews_async: a launchable row inherits a fresh verdict or is held.
Annotation(d) ==
  IF ~LlmEnabled \/ d.status \notin Live THEN
    [status |-> d.status, review |-> "none", target |-> "none"]
  ELSE IF cache.fresh THEN
    [status |-> IF GateMode /\ cache.view = "oppose" THEN "no_trade" ELSE d.status,
     review |-> "ok", target |-> "none"]
  ELSE
    [status |-> "pending", review |-> "pending", target |-> d.status]

PublishCommit ==
  /\ draft # NoDraft
  /\ LET n == draft.row
         a == Annotation(draft)
     IN /\ status' = [status EXCEPT ![n] = a.status]
        /\ review' = [review EXCEPT ![n] = a.review]
        /\ target' = [target EXCEPT ![n] = a.target]
        /\ root' = [root EXCEPT ![n] = draft.root]
        /\ label' = [label EXCEPT ![n] = draft.label]
  /\ draft' = NoDraft
  /\ UNCHANGED <<age, bot, doomed, cache, llmVars>>

\* A lost lease or an error rolls the cycle back.
PublishAbort ==
  /\ draft # NoDraft
  /\ draft' = NoDraft
  /\ age' = [age EXCEPT ![draft.row] = 0]
  /\ UNCHANGED <<status, root, label, review, target, bot, doomed, cache, llmVars>>

-----------------------------------------------------------------------------
(* expire_stale_recommendations: one SELECT, then an UPDATE by rec_id.     *)

\* Mutant: rows that wait for the reviewer are not expired.
DoomedUnheld == {r \in Rows : status[r] \in Live /\ ChainExpired(r)}

Doomed == {r \in Rows : status[r] \in Expirable /\ (age[r] >= Ttl \/ ChainExpired(r))}

SweepRead ==
  /\ doomed = {}
  /\ Doomed # {}
  /\ doomed' = Doomed
  /\ UNCHANGED <<rowVars, bot, draft, cache, llmVars>>

SweepWrite ==
  /\ doomed # {}
  /\ status' = [r \in Rows |-> IF r \in doomed THEN "expired" ELSE status[r]]
  /\ doomed' = {}
  /\ UNCHANGED <<age, root, label, review, target, bot, draft, cache, llmVars>>

-----------------------------------------------------------------------------
(* run_llm_review_sweep_once, in one thread.                               *)

\* _should_enqueue_llm_review
Enqueued(r) ==
  /\ review[r] # "ok"
  /\ status[r] \in Live \/ (status[r] = "pending" /\ target[r] \in Live)

Snapshot == [r \in Rows |-> IF Enqueued(r) THEN status[r] ELSE "new"]
Candidates == {r \in Rows : copy[r] # "new"}

\* The pool is read and the rows that waited too long are to be failed closed.
LlmStart ==
  /\ LlmEnabled
  /\ phase = "off"
  /\ \E r \in Rows : Enqueued(r)
  /\ phase' = "stale"
  /\ copy' = Snapshot
  /\ todo' = {r \in Rows : /\ Enqueued(r)
                           /\ status[r] = "pending" \/ ~GateMode
                           /\ age[r] >= PendingTimeout}
  /\ UNCHANGED <<rowVars, bot, draft, doomed, cache, current, known, answer>>

\* The pool is read again, and the cache: a fresh verdict needs no model call.
LlmSelect ==
  /\ phase = "stale"
  /\ todo = {}
  /\ copy' = Snapshot
  /\ LET pool == {r \in Rows : Enqueued(r)}
     IN /\ phase' = IF pool = {} THEN "off" ELSE IF cache.fresh THEN "cached" ELSE "asked"
        /\ known' = IF pool = {} THEN "none" ELSE cache.view
        /\ todo' = IF cache.fresh THEN pool ELSE {}
  /\ UNCHANGED <<rowVars, bot, draft, doomed, cache, current, answer>>

\* The model answers for the newest row, or its future raises; only an OK answer enters
\* the cache.
LlmAnswer ==
  /\ phase = "asked"
  /\ \E a \in {"agree", "oppose", "error", "raises"} :
       /\ answer' = a
       /\ known' = IF a \in Views THEN a ELSE known
  /\ phase' = "answered"
  /\ todo' = Candidates
  /\ UNCHANGED <<rowVars, bot, draft, doomed, cache, copy, current>>

\* Mutant: an opposing verdict vetoes nothing.
VerdictNoVeto(r, view) ==
  [review |-> "ok", want |-> IF copy[r] = "pending" THEN target[r] ELSE "none"]

\* _apply_llm_review_decision and _restore_llm_held_status
Verdict(r, view) ==
  [review |-> "ok",
   want |-> IF GateMode /\ view = "oppose" THEN "no_trade"
            ELSE IF copy[r] = "pending" THEN target[r] ELSE "none"]

\* The review and status the sweep wants to write.  A failed answer is recorded on the
\* newest row only; the older rows of the idea inherit whatever the cache holds.  An
\* exception is recorded on all of them.
Outcome(r) ==
  IF phase = "stale" THEN [review |-> "error", want |-> "no_trade"]
  ELSE IF answer = "raises" \/ (answer = "error" /\ r \in Newest(Candidates)) THEN [review |-> "error", want |-> "none"]
  ELSE Verdict(r, known)

\* update_recommendation_review: SELECT status ...
LlmWriteSelect ==
  /\ current = NotChosen
  /\ \E r \in Newest(todo) : current' = [row |-> r, saw |-> status[r]]
  /\ UNCHANGED <<rowVars, bot, draft, doomed, cache, phase, copy, todo, known, answer>>

\* ... and UPDATE, which writes the review and the status computed from the SELECT.  The
\* review of an exception lacks the status the row was held for.
LlmWriteUpdate ==
  /\ current # NotChosen
  /\ LET r == current.row
     IN /\ review' = [review EXCEPT ![r] = Outcome(r).review]
        /\ status' = [status EXCEPT ![r] = Moved(current.saw, Outcome(r).want)]
        /\ target' = IF answer = "raises" THEN [target EXCEPT ![r] = "none"] ELSE target
        /\ todo' = todo \ {r}
  /\ current' = NotChosen
  /\ UNCHANGED <<age, root, label, bot, draft, doomed, cache, phase, copy, known, answer>>

EndSweep ==
  /\ phase' = "off"
  /\ copy' = [r \in Rows |-> "new"]
  /\ todo' = {}
  /\ current' = NotChosen
  /\ known' = "none"
  /\ answer' = "none"

\* Only an answer makes the cache worth saving.
LlmFinish ==
  /\ phase \in {"cached", "answered"}
  /\ todo = {}
  /\ current = NotChosen
  /\ cache' = IF answer \in {"agree", "oppose"} THEN [fresh |-> TRUE, view |-> answer] ELSE cache
  /\ EndSweep
  /\ UNCHANGED <<rowVars, bot, draft, doomed>>

\* A failed heartbeat or an error ends the sweep anywhere; its cache is lost.
LlmAbort ==
  /\ phase # "off"
  /\ EndSweep
  /\ UNCHANGED <<rowVars, bot, draft, doomed, cache>>

\* The stored verdict outlives its ttl, or the model or its settings change.
CacheGrowsStale ==
  /\ cache.fresh
  /\ cache' = [cache EXCEPT !.fresh = FALSE]
  /\ UNCHANGED <<rowVars, bot, draft, doomed, llmVars>>

-----------------------------------------------------------------------------
(* The operator: each request is one transaction that locks the row.       *)

RunningOn(k) == {b \in Rows : bot[b] = "running" /\ root[b] = k}

SetStatus(r, s) == status' = [status EXCEPT ![r] = Moved(status[r], s)]

\* The row already has a bot: the request is answered with it, whatever its state.
ExecuteAgain(r) ==
  /\ bot[r] # "none"
  /\ SetStatus(r, "executed")
  /\ UNCHANGED <<age, root, label, review, target, bot, draft, doomed, cache, llmVars>>

\* An expired row (or chain) is closed instead.
ExecuteTooLate(r) ==
  /\ bot[r] = "none"
  /\ \/ status[r] \notin {"new", "executed"} /\ age[r] > Ttl
     \/ status[r] \in Live /\ ChainAge(r) > Ttl
  /\ SetStatus(r, "expired")
  /\ UNCHANGED <<age, root, label, review, target, bot, draft, doomed, cache, llmVars>>

\* Mutant: only the row's own age is looked at.
LaunchableByRowAge(r) == bot[r] = "none" /\ status[r] \in Live /\ age[r] <= Ttl
Launchable(r) == bot[r] = "none" /\ status[r] \in Live /\ age[r] <= Ttl /\ ChainAge(r) <= Ttl

\* The chain's running bot is reused.
ExecuteReuse(r) ==
  /\ Launchable(r)
  /\ RunningOn(root[r]) # {}
  /\ SetStatus(r, "executed")
  /\ UNCHANGED <<age, root, label, review, target, bot, draft, doomed, cache, llmVars>>

\* Mutant: the chain's running bot is not looked up.
ExecuteCreateBlind(r) ==
  /\ Launchable(r)
  /\ bot' = [bot EXCEPT ![r] = "running"]
  /\ SetStatus(r, "executed")
  /\ UNCHANGED <<age, root, label, review, target, draft, doomed, cache, llmVars>>

\* Risk limits, direction conflicts, preflight and size checks let it through.
ExecuteCreate(r) ==
  /\ Launchable(r)
  /\ RunningOn(root[r]) = {}
  /\ bot' = [bot EXCEPT ![r] = "running"]
  /\ SetStatus(r, "executed")
  /\ UNCHANGED <<age, root, label, review, target, draft, doomed, cache, llmVars>>

Ignore(r) ==
  /\ Known(r)
  /\ "ignored" \in Allowed(status[r])
  /\ SetStatus(r, "ignored")
  /\ UNCHANGED <<age, root, label, review, target, bot, draft, doomed, cache, llmVars>>

StopBot(r) ==
  /\ bot[r] = "running"
  /\ bot' = [bot EXCEPT ![r] = "stopped"]
  /\ UNCHANGED <<rowVars, draft, doomed, cache, llmVars>>

-----------------------------------------------------------------------------

Tick ==
  /\ age' = [r \in Rows |->
               IF (Known(r) \/ r = draft.row) /\ age[r] < OldestAge
               THEN age[r] + 1 ELSE age[r]]
  /\ UNCHANGED <<status, root, label, review, target, bot, draft, doomed, cache, llmVars>>

Publisher == PublishRead \/ PublishCommit \/ PublishAbort
TtlSweep == SweepRead \/ SweepWrite
LlmSweep == \/ LlmStart \/ LlmSelect \/ LlmAnswer \/ LlmWriteSelect \/ LlmWriteUpdate
            \/ LlmFinish \/ LlmAbort
Operator(r) == \/ ExecuteAgain(r) \/ ExecuteTooLate(r) \/ ExecuteReuse(r) \/ ExecuteCreate(r)
               \/ Ignore(r) \/ StopBot(r)

Next == \/ Publisher \/ TtlSweep \/ LlmSweep \/ CacheGrowsStale \/ Tick
        \/ \E r \in Rows : Operator(r)

Spec == Init /\ [][Next]_vars

(* Time passes and the TTL sweep, which every recommender cycle and every  *)
(* reading of the API runs, is repeated; nobody else is forced to act.     *)
FairSpec == Spec /\ WF_vars(Tick) /\ WF_vars(TtlSweep)

-----------------------------------------------------------------------------
(* Properties.                                                             *)

\* Chains are dated by their root: a row, also one still being published, is never
\* older than the root it joins, which is already stored (or is the row itself).
PublicationInvariant ==
  /\ draft # NoDraft => /\ ~Known(draft.row)
                        /\ draft.root = draft.row \/ Known(draft.root)
                        /\ age[draft.row] <= age[draft.root]
  /\ \A r \in doomed : Known(r)
  /\ \A r \in Rows : IF Known(r) THEN Known(root[r]) /\ age[r] <= age[root[r]]
                    ELSE /\ root[r] = r /\ bot[r] = "none"
                         /\ r = draft.row \/ age[r] = 0

\* The reviewer only ever works on rows that it took over unlaunchable: what it has
\* still to write was, when read, neither launchable nor unpublished.
Unlaunchable == Statuses \ (Live \union {"new"})
SweepInvariant ==
  /\ phase # "off" => LlmEnabled
  /\ phase \in {"off", "asked"} => todo = {}
  /\ \A r \in Rows : r \in todo \/ (phase = "asked" /\ r \in Candidates)
       => status[r] \in Unlaunchable
  /\ current # NotChosen => current.row \in todo /\ current.saw \in Unlaunchable

\* While the reviewer is enabled, a row that can be launched carries a completed
\* review: the publication holds it, and only a verdict that reads "ok" lets it go.
LaunchableRowsAreReviewed ==
  LlmEnabled => \A r \in Rows : status[r] \in Live => review[r] = "ok"

\* An executed row has, or had, a bot of its own chain: no request marks a row
\* executed and then fails to create or find the bot.
ExecutedRowsHaveBots ==
  \A r \in Rows : status[r] = "executed" =>
     \E b \in Rows : bot[b] # "none" /\ root[b] = root[r]

\* However many rows of a chain are executed, stopped and executed again, at most
\* one bot of the chain runs.
OneRunningBotPerChain ==
  \A b, c \in Rows : bot[b] = "running" /\ bot[c] = "running" /\ root[b] = root[c] => b = c

\* A bot starts from an idea none of whose rows is older than the ttl, however
\* fresh the row that was clicked, and after a review when one is required.
BotsStartFromFreshIdeas ==
  [][\A r \in Rows : bot[r] = "none" /\ bot'[r] = "running" =>
       /\ \A s \in Rows : root[s] = root[r] => age[s] <= Ttl
       /\ LlmEnabled => review[r] = "ok"]_vars

\* An opposing verdict of the sweep releases none of the rows it was given for.
VetoReleasesNothing ==
  [][\A r \in Rows : GateMode /\ known = "oppose" /\ status[r] = "pending"
       => status'[r] \notin Live]_vars

\* Every row the operator could act on, or that waits for a review or a second
\* candle, is closed or executed in the end.
EveryPublicationCloses ==
  \A r \in Rows : status[r] \in Expirable ~> status[r] \notin Expirable

\* A row that was closed is never offered again (db.py's table of transitions: the
\* terminal statuses allow nothing but themselves).
ClosedRowsStayClosed ==
  [][\A r \in Rows : status[r] \in Closed => status'[r] \in Closed]_vars

\* Of the rows that are labelled, one at most is launchable, executed or held for
\* launch, although the dedupe reads and the insertion are separate steps.
OneActionableLabelRoot ==
  \A r, s \in Rows : label[r] /\ label[s] /\ Actionable(r) /\ Actionable(s) => r = s

\* What docs/TRADING_LOGIC.md says of the label roots: the idea has one labelled
\* pseudo-position within the horizon, whatever became of its publication.
Labelled(r) == label[r] /\ status[r] \notin {"new", "pending", "no_trade"}
OneLabelledRow == \A r, s \in Rows : Labelled(r) /\ Labelled(s) => r = s

\* What expire_stale_recommendations says of itself: operator-set statuses are preserved.
OperatorStatusesSurviveTheSweep ==
  [][\A r \in Rows : status[r] \in {"executed", "ignored"} /\ SweepWrite
       => status'[r] = status[r]]_vars

\* What the comment on the transitions says: the reviewer may downgrade an idea
\* before the operator acts on it; it does not undo what the operator did.
ReviewerNeverReopens ==
  [][\A r \in Rows : status[r] \in {"executed", "ignored"} /\ LlmWriteUpdate
       => status'[r] = status[r]]_vars

\* What _hold_recommendation_until_llm_verdict says: no row becomes launchable
\* while its review is errored.
NoReleaseOnError ==
  [][\A r \in Rows : answer = "error" /\ status[r] = "pending" => status'[r] \notin Live]_vars
=============================================================================
