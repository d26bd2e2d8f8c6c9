---------------------------- MODULE BatchScoring ----------------------------
(***************************************************************************)
(* Batch scoring of job offers against the active profile                  *)
(* (app/scoring/batch.py, app/llm/matcher.py, and its two callers          *)
(* app/scheduler/service.py:run_scoring_job and POST /score/batch),        *)
(* together with everything that writes the rows it reads: the profile     *)
(* editor (PUT /profile), the retry of a scoring dead letter, the offer    *)
(* cleanup (DELETE /offers) and ingestion.                                 *)
(*                                                                         *)
(* Several callers share one event loop; an action is what runs between    *)
(* two awaits that matter.  A caller reads the profile, scans, hydrates,   *)
(* awaits one LLM call per offer, flushes, leaves the lock and only then   *)
(* commits.  Rows become visible to the others when their transaction      *)
(* commits (READ COMMITTED).                                               *)
(***************************************************************************)
EXTENDS Naturals, FiniteSets, Sequences

CONSTANTS
    Callers,        \* the scoring:backlog job and the POST /score/batch requests
    Retriers,       \* POST /failures/scoring/{id}/retry requests
    RetryStatuses,  \* the statuses of the dead letters users retry
    Offers,         \* offer ids; a greater id is a newer posting
    Eligible,       \* the offers in connector scope and in fetch_range
    Protected,      \* the offers an Application protects from cleanup
    Profiles,       \* profile ids
    Datas,          \* contents of the profile editor
    None,           \* Python's None
    BatchLimit,     \* Settings.batch_scoring_limit
    MaxConcurrency, \* Settings.scoring_max_concurrency
    MaxEdits,       \* bound: number of PUT /profile requests
    MaxCrashes,     \* bound: number of restarts of the process
    MaxRows         \* bound: a retry starts only below this many scores of a pair

ASSUME OffersAssumption == /\ Offers \subseteq Nat
                           /\ IsFiniteSet(Offers)
                           /\ Eligible \subseteq Offers
                           /\ Protected \subseteq Offers
ASSUME ProfilesAssumption == None \notin Profiles /\ None \notin Datas
ASSUME StatusesAssumption == RetryStatuses \subseteq {"open", "resolved"}
ASSUME LimitsAssumption == /\ BatchLimit \in Nat \ {0}
                           /\ MaxConcurrency \in Nat \ {0}
                           /\ MaxEdits \in Nat
                           /\ MaxCrashes \in Nat
                           /\ MaxRows \in Nat

VARIABLES
    \* The database, as committed.
    offers,     \* offers rows
    deleted,    \* ids that cleanup has removed (an id is never used again)
    active,     \* the profile with is_active, or None
    data,       \* profiles.data
    scores,     \* match_scores rows of an offer and profile, oldest first:
                \* the profile data each one was computed from
    failure,    \* scoring_failures row of an offer and profile
    \* The process.
    queue,      \* _scoring_lock: its holder, then its waiters in FIFO order
    progress,   \* _progress
    pc,         \* where each caller is
    profileOf,  \* the profile row a caller's session holds: its id
    dataOf,     \* ... and its data as it was when read
    result,     \* what became of each offer of a caller's batch
    retry,      \* the dead letter a retrier works on, or None
    \* History, which no guard reads.
    contested,  \* the pairs that a batch or a retry took up while another had
                \* them in hand, or that a retry took up with a score
    \* Bounds.
    edits, crashes

dbVars == <<offers, deleted, active, data, scores, failure>>
batchVars == <<queue, progress, pc, profileOf, dataOf, result>>
auxVars == <<contested, edits, crashes>>
vars == <<dbVars, batchVars, retry, auxVars>>

Results == {"none", "todo", "calling", "scored", "failed"}
Stages == {"idle", "queued", "started", "scanned", "scoring", "flushed", "lost", "raised"}

\* The stages in which a caller holds _scoring_lock.
Locked == {"started", "scanned", "scoring"}

RetryJob == [offer : Offers, profile : Profiles, data : Datas, status : RetryStatuses]

Init ==
    /\ offers \in SUBSET Offers
    /\ deleted = {}
    /\ active \in Profiles \cup {None}
    /\ data \in [Profiles -> Datas]
    /\ scores = [op \in Offers \X Profiles |-> << >>]
    /\ failure = [op \in Offers \X Profiles |-> "none"]
    /\ queue = << >>
    /\ progress = [running |-> FALSE, processed |-> 0, total |-> 0]
    /\ pc = [c \in Callers |-> "idle"]
    /\ profileOf = [c \in Callers |-> None]
    /\ dataOf = [c \in Callers |-> None]
    /\ result = [c \in Callers |-> [o \in Offers |-> "none"]]
    /\ retry = [r \in Retriers |-> None]
    /\ contested = {}
    /\ edits = 0
    /\ crashes = 0

-----------------------------------------------------------------------------
(* Helpers *)

In(c, r) == {o \in Offers : result[c][o] = r}
Page(c) == Offers \ In(c, "none")

\* A batch that has not ended has an offer and profile in its page.
BatchHas(c, o, p) == o \in Page(c) /\ profileOf[c] = p

\* A retry in flight works on an offer and profile.
RetryHas(r, o, p) == retry[r] # None /\ retry[r].offer = o /\ retry[r].profile = p

InHand(o, p) == (\E c \in Callers : BatchHas(c, o, p)) \/ (\E r \in Retriers : RetryHas(r, o, p))

\* The n newest offers of S: the ORDER BY of the scan, then [:limit].
Newest(S, n) == {o \in S : Cardinality({x \in S : x > o}) < n}

\* Fault: open dead letters are not excluded.
CandidatesWithFailures(p) == {o \in offers \cap Eligible : scores[<<o, p>>] = << >>}

\* Fault: scored offers are not excluded.
CandidatesWithScores(p) == {o \in offers \cap Eligible : failure[<<o, p>>] # "open"}

\* The candidates of a profile: in scope and range, never scored, and not
\* parked on an open ScoringFailure.
Candidates(p) ==
    {o \in offers \cap Eligible : scores[<<o, p>>] = << >> /\ failure[<<o, p>>] # "open"}

\* The end of `async with _scoring_lock`: the next waiter, if any, runs.
Release == queue' = Tail(queue)

\* The caller's session and locals go out of scope.
Forget(c) ==
    /\ profileOf' = [profileOf EXCEPT ![c] = None]
    /\ dataOf' = [dataOf EXCEPT ![c] = None]
    /\ result' = [result EXCEPT ![c] = [o \in Offers |-> "none"]]

\* MatchScore rows inserted for the offers S.
WithScores(S, p, d) ==
    [op \in Offers \X Profiles |->
        IF op[1] \in S /\ op[2] = p THEN Append(scores[op], d) ELSE scores[op]]

\* ScoringFailure rows of the offers S put in a status.
WithFailures(S, p, status) ==
    [op \in Offers \X Profiles |->
        IF op[1] \in S /\ op[2] = p THEN status ELSE failure[op]]

-----------------------------------------------------------------------------
(* The batch *)

\* A scheduler tick or a request reaches `async with _scoring_lock`.
Request(c) ==
    /\ pc[c] = "idle"
    /\ pc' = [pc EXCEPT ![c] = "queued"]
    /\ queue' = Append(queue, c)
    /\ UNCHANGED <<dbVars, progress, profileOf, dataOf, result, retry, auxVars>>

\* Fault: no mutual exclusion.
HasLockOrWaits(c) == \E i \in 1..Len(queue) : queue[i] = c

HasLock(c) == queue # << >> /\ Head(queue) = c

\* The lock is ours and get_active_profile found no row: an empty summary.
StartWithoutProfile(c) ==
    /\ pc[c] = "queued"
    /\ HasLock(c)
    /\ active = None
    /\ pc' = [pc EXCEPT ![c] = "flushed"]
    /\ Release
    /\ UNCHANGED <<dbVars, progress, profileOf, dataOf, result, retry, auxVars>>

\* get_active_profile loads the row whose data the whole batch will use.
Start(c) ==
    /\ pc[c] = "queued"
    /\ HasLock(c)
    /\ active # None
    /\ pc' = [pc EXCEPT ![c] = "started"]
    /\ profileOf' = [profileOf EXCEPT ![c] = active]
    /\ dataOf' = [dataOf EXCEPT ![c] = data[active]]
    /\ UNCHANGED <<dbVars, queue, progress, result, retry, auxVars>>

\* select_scoring_candidates, first query: the ids of the page.
Scan(c) ==
    /\ pc[c] = "started"
    /\ LET page == Newest(Candidates(profileOf[c]), BatchLimit)
       IN  /\ result' = [result EXCEPT ![c] =
                            [o \in Offers |-> IF o \in page THEN "todo" ELSE "none"]]
           /\ contested' = contested \cup
                {<<o, profileOf[c]>> : o \in {x \in page : InHand(x, profileOf[c])}}
    /\ pc' = [pc EXCEPT ![c] = "scanned"]
    /\ UNCHANGED <<dbVars, queue, progress, profileOf, dataOf, retry, edits, crashes>>

\* Second query: the full rows.  Then the progress is reset and the LLM
\* calls are gathered.
Hydrate(c) ==
    /\ pc[c] = "scanned"
    /\ Page(c) \subseteq offers
    /\ pc' = [pc EXCEPT ![c] = "scoring"]
    /\ progress' = [running |-> TRUE, processed |-> 0, total |-> Cardinality(Page(c))]
    /\ UNCHANGED <<dbVars, queue, profileOf, dataOf, result, retry, auxVars>>

\* Fault: the exception leaves the lock taken.
HydrateRaisesLocked(c) ==
    /\ pc[c] = "scanned"
    /\ ~ (Page(c) \subseteq offers)
    /\ pc' = [pc EXCEPT ![c] = "raised"]
    /\ UNCHANGED <<dbVars, queue, progress, profileOf, dataOf, result, retry, auxVars>>

\* An id of the page has no row any more: by_id[offer_id] raises KeyError.
HydrateRaises(c) ==
    /\ pc[c] = "scanned"
    /\ ~ (Page(c) \subseteq offers)
    /\ pc' = [pc EXCEPT ![c] = "raised"]
    /\ Release
    /\ UNCHANGED <<dbVars, progress, profileOf, dataOf, result, retry, auxVars>>

\* Fault: the semaphore admits one call too many.
CallTooMany(c, o) ==
    /\ pc[c] = "scoring"
    /\ result[c][o] = "todo"
    /\ Cardinality(In(c, "calling")) <= MaxConcurrency
    /\ result' = [result EXCEPT ![c][o] = "calling"]
    /\ UNCHANGED <<dbVars, queue, progress, pc, profileOf, dataOf, retry, auxVars>>

\* `async with semaphore` admits one more _score_offer of the gather.
Call(c, o) ==
    /\ pc[c] = "scoring"
    /\ result[c][o] = "todo"
    /\ Cardinality(In(c, "calling")) < MaxConcurrency
    /\ result' = [result EXCEPT ![c][o] = "calling"]
    /\ UNCHANGED <<dbVars, queue, progress, pc, profileOf, dataOf, retry, auxVars>>

\* Fault: an answer takes one off the count.
AnswerUncounted(c, o, r) ==
    /\ pc[c] = "scoring"
    /\ result[c][o] = "calling"
    /\ result' = [result EXCEPT ![c][o] = r]
    /\ progress' = [progress EXCEPT !.processed = @ - 1]
    /\ UNCHANGED <<dbVars, queue, pc, profileOf, dataOf, retry, auxVars>>

\* The LLM answers with a score, or with anything _score_offer turns into a
\* MatcherError; on_progress counts both.
Answer(c, o, r) ==
    /\ pc[c] = "scoring"
    /\ result[c][o] = "calling"
    /\ result' = [result EXCEPT ![c][o] = r]
    /\ progress' = [progress EXCEPT !.processed = @ + 1]
    /\ UNCHANGED <<dbVars, queue, pc, profileOf, dataOf, retry, auxVars>>

Answered(c) ==
    /\ pc[c] = "scoring"
    /\ In(c, "todo") \cup In(c, "calling") = {}

\* An INSERT of a score whose offer is gone violates the foreign key.
ScoreIsOrphan(c) == ~ (In(c, "scored") \subseteq offers)

\* record_failure swallows the same violation, but PostgreSQL has aborted
\* the transaction.
Aborted(c) == ~ (In(c, "failed") \subseteq offers)

\* Scores still to be inserted after the transaction was aborted: each
\* record_failure autoflushes the scores before it, in page order.
PendingAfterAbort(c) ==
    \E s \in In(c, "scored"), f \in In(c, "failed") \ offers : s < f

\* Every answer is in: record_failure and session.add in page order, the
\* progress is closed, session.flush succeeds, the lock is released.  The
\* transaction is still open.
Flush(c) ==
    /\ Answered(c)
    /\ ~ ScoreIsOrphan(c)
    /\ ~ Aborted(c)
    /\ pc' = [pc EXCEPT ![c] = "flushed"]
    /\ progress' = [progress EXCEPT !.running = FALSE]
    /\ Release
    /\ UNCHANGED <<dbVars, profileOf, dataOf, result, retry, auxVars>>

\* Fault: no `finally`, an exception leaves the progress running.
FlushRaisesRunning(c) ==
    /\ Answered(c)
    /\ ScoreIsOrphan(c) \/ (Aborted(c) /\ PendingAfterAbort(c))
    /\ pc' = [pc EXCEPT ![c] = "raised"]
    /\ Release
    /\ UNCHANGED <<dbVars, progress, profileOf, dataOf, result, retry, auxVars>>

\* The INSERTs cannot be executed; the exception leaves run_batch_scoring.
FlushRaises(c) ==
    /\ Answered(c)
    /\ ScoreIsOrphan(c) \/ (Aborted(c) /\ PendingAfterAbort(c))
    /\ pc' = [pc EXCEPT ![c] = "raised"]
    /\ progress' = [progress EXCEPT !.running = FALSE]
    /\ Release
    /\ UNCHANGED <<dbVars, profileOf, dataOf, result, retry, auxVars>>

\* The transaction is aborted and nothing is left to insert: the flush has
\* nothing to send, and the caller is told that all went well.
FlushLoses(c) ==
    /\ Answered(c)
    /\ ~ ScoreIsOrphan(c)
    /\ Aborted(c)
    /\ ~ PendingAfterAbort(c)
    /\ pc' = [pc EXCEPT ![c] = "lost"]
    /\ progress' = [progress EXCEPT !.running = FALSE]
    /\ Release
    /\ UNCHANGED <<dbVars, profileOf, dataOf, result, retry, auxVars>>

\* `await session.commit()` of the caller, after it left the lock.
Commit(c) ==
    /\ pc[c] = "flushed"
    /\ scores' = WithScores(In(c, "scored"), profileOf[c], dataOf[c])
    /\ failure' = WithFailures(In(c, "failed"), profileOf[c], "open")
    /\ pc' = [pc EXCEPT ![c] = "idle"]
    /\ Forget(c)
    /\ UNCHANGED <<offers, deleted, active, data, queue, progress, retry, auxVars>>

\* COMMIT of an aborted transaction (PostgreSQL rolls back and reports no
\* error), or the caller's own rollback after an exception.
RollBack(c) ==
    /\ pc[c] \in {"lost", "raised"}
    /\ pc' = [pc EXCEPT ![c] = "idle"]
    /\ Forget(c)
    /\ UNCHANGED <<dbVars, queue, progress, retry, auxVars>>

-----------------------------------------------------------------------------
(* Everyone else *)

\* run_with_lifecycle commits a new posting.
Ingest(o) ==
    /\ o \in Offers \ (offers \cup deleted)
    /\ offers' = offers \cup {o}
    /\ UNCHANGED <<deleted, active, data, scores, failure, batchVars, retry, auxVars>>

\* Fault: an edit leaves the scores of the old data.
PutProfileKeepingScores(p, d, activate) ==
    /\ edits < MaxEdits
    /\ edits' = edits + 1
    /\ data' = [data EXCEPT ![p] = d]
    /\ active' = IF activate THEN p ELSE active
    /\ UNCHANGED <<offers, deleted, scores, failure, batchVars, retry, contested, crashes>>

\* PUT /profile: upsert_profile and its commit.
PutProfile(p, d, activate) ==
    /\ edits < MaxEdits
    /\ edits' = edits + 1
    /\ data' = [data EXCEPT ![p] = d]
    /\ active' = IF activate THEN p ELSE active
    /\ scores' = [op \in Offers \X Profiles |->
                    IF op[2] = p /\ active' = p /\ data[p] # d THEN << >> ELSE scores[op]]
    /\ UNCHANGED <<offers, deleted, failure, batchVars, retry, contested, crashes>>

\* An open transaction that inserted children of o holds a key-share lock on
\* it, and the DELETE waits.
Referenced(o) ==
    \E c \in Callers : pc[c] = "flushed" /\ o \in In(c, "scored") \cup In(c, "failed")

\* DELETE /offers with a cut-off: scores, dead letters and offers go together.
DeleteOffers(cutoff) ==
    LET old == {o \in offers \ Protected : o < cutoff}
    IN  /\ old # {}
        /\ \A o \in old : ~ Referenced(o)
        /\ offers' = offers \ old
        /\ deleted' = deleted \cup old
        /\ scores' = [op \in Offers \X Profiles |-> IF op[1] \in old THEN << >> ELSE scores[op]]
        /\ failure' = [op \in Offers \X Profiles |-> IF op[1] \in old THEN "none" ELSE failure[op]]
        /\ UNCHANGED <<active, data, batchVars, retry, auxVars>>

\* _retry_scoring_failed reads the dead letter, the offer and the profile and
\* awaits the LLM.
RetryStart(r, o, p) ==
    /\ retry[r] = None
    /\ o \in offers
    /\ failure[<<o, p>>] \in RetryStatuses
    /\ Len(scores[<<o, p>>]) < MaxRows
    /\ retry' = [retry EXCEPT ![r] =
                    [offer |-> o, profile |-> p, data |-> data[p], status |-> failure[<<o, p>>]]]
    /\ contested' = IF InHand(o, p) \/ scores[<<o, p>>] # << >>
                    THEN contested \cup {<<o, p>>}
                    ELSE contested
    /\ UNCHANGED <<dbVars, batchVars, edits, crashes>>

\* The score is inserted and the row resolved.  The UPDATE names `status`
\* only if the row was not "resolved" when it was read.
RetrySucceeds(r) ==
    /\ retry[r] # None
    /\ LET j == retry[r]
       IN  /\ j.offer \in offers
           /\ scores' = WithScores({j.offer}, j.profile, j.data)
           /\ failure' = IF j.status = "open"
                         THEN WithFailures({j.offer}, j.profile, "resolved")
                         ELSE failure
    /\ retry' = [retry EXCEPT ![r] = None]
    /\ UNCHANGED <<offers, deleted, active, data, batchVars, auxVars>>

\* A MatcherError only stamps the row; a row deleted meanwhile is an error
\* that rolls back.
RetryFails(r) ==
    /\ retry[r] # None
    /\ retry' = [retry EXCEPT ![r] = None]
    /\ UNCHANGED <<dbVars, batchVars, auxVars>>

\* The process dies and starts again: open transactions and memory are gone.
Crash ==
    /\ crashes < MaxCrashes
    /\ crashes' = crashes + 1
    /\ queue' = << >>
    /\ progress' = [running |-> FALSE, processed |-> 0, total |-> 0]
    /\ pc' = [c \in Callers |-> "idle"]
    /\ profileOf' = [c \in Callers |-> None]
    /\ dataOf' = [c \in Callers |-> None]
    /\ result' = [c \in Callers |-> [o \in Offers |-> "none"]]
    /\ retry' = [r \in Retriers |-> None]
    /\ UNCHANGED <<dbVars, contested, edits>>

-----------------------------------------------------------------------------
Run(c) ==
    \/ StartWithoutProfile(c)
    \/ Start(c)
    \/ Scan(c)
    \/ Hydrate(c)
    \/ HydrateRaises(c)
    \/ \E o \in Offers : Call(c, o)
    \/ \E o \in Offers, r \in {"scored", "failed"} : Answer(c, o, r)
    \/ Flush(c)
    \/ FlushRaises(c)
    \/ FlushLoses(c)
    \/ Commit(c)
    \/ RollBack(c)

Environment ==
    \/ \E o \in Offers : Ingest(o)
    \/ \E p \in Profiles, d \in Datas, activate \in BOOLEAN : PutProfile(p, d, activate)
    \/ \E o \in Offers : DeleteOffers(o + 1)
    \/ \E r \in Retriers, o \in Offers, p \in Profiles : RetryStart(r, o, p)
    \/ \E r \in Retriers : RetrySucceeds(r) \/ RetryFails(r)
    \/ Crash

Next == (\E c \in Callers : Request(c) \/ Run(c)) \/ Environment

Spec == Init /\ [][Next]_vars

-----------------------------------------------------------------------------
(* Fairness *)

\* The interval trigger keeps requesting batches for the job, the event loop
\* and PostgreSQL let a started batch go on, and an LLM call ends: with an
\* answer or with an error that _score_offer turns into a MatcherError.
Fairness(job) == WF_vars(Request(job)) /\ \A c \in Callers : WF_vars(Run(c))

-----------------------------------------------------------------------------
(* Properties *)

\* Every variable stays in its range (the columns of app/db/models.py and the
\* fields of ScoringProgress).
TypeOK ==
    /\ offers \in SUBSET Offers
    /\ deleted \in SUBSET Offers
    /\ active \in Profiles \cup {None}
    /\ data \in [Profiles -> Datas]
    /\ scores \in [Offers \X Profiles -> Seq(Datas)]
    /\ failure \in [Offers \X Profiles -> {"none", "open", "resolved"}]
    /\ queue \in Seq(Callers)
    /\ progress \in [running : BOOLEAN, processed : Nat, total : Nat]
    /\ pc \in [Callers -> Stages]
    /\ profileOf \in [Callers -> Profiles \cup {None}]
    /\ dataOf \in [Callers -> Datas \cup {None}]
    /\ result \in [Callers -> [Offers -> Results]]
    /\ retry \in [Retriers -> RetryJob \cup {None}]
    /\ contested \subseteq Offers \X Profiles
    /\ edits \in Nat
    /\ crashes \in Nat

\* A batch between its first read and its flush is at the head of the queue of
\* _scoring_lock (`async with _scoring_lock`).
LockInv == \A c \in Callers : pc[c] \in Locked => HasLock(c)

\* A session holds a profile row exactly from the read to the end of the
\* transaction, and only then a page (_run_batch_scoring_locked).
WorkInv ==
    \A c \in Callers :
        /\ profileOf[c] = None <=> dataOf[c] = None
        /\ profileOf[c] = None => \A o \in Offers : result[c][o] = "none"
        /\ pc[c] \in Locked => profileOf[c] # None
        /\ pc[c] \in {"idle", "queued"} => profileOf[c] = None

\* _scoring_lock serialises the batches of all callers, whatever the order
\* of requests, exceptions and releases.
OneBatchAtATime ==
    \A c, d \in Callers : pc[c] \in Locked /\ pc[d] \in Locked => c = d

\* The banner of GET /scoring/status says "running" exactly while some batch
\* is with the LLM, also after a batch that raised, and counts that batch's
\* answers (the `finally` of _run_batch_scoring_locked and _record_progress).
ProgressIsFaithful ==
    /\ progress.running <=> \E c \in Callers : pc[c] = "scoring"
    /\ \A c \in Callers : pc[c] = "scoring" =>
        /\ progress.total = Cardinality(Page(c))
        /\ progress.processed = Cardinality(In(c, "scored") \cup In(c, "failed"))

\* The batches of all callers together never have more LLM calls in flight than
\* scoring_max_concurrency: the semaphore is made anew by every batch, so this
\* rests on the lock.  It is a bound on batches only: the call of a scoring
\* retry (_retry_scoring_failed) passes no semaphore and comes on top.
BatchCallsBounded ==
    Cardinality({co \in Callers \X Offers : result[co[1]][co[2]] = "calling"}) <= MaxConcurrency

\* An offer and profile have one verdict, at most one score and none beside an
\* open dead letter, unless the pair is contested: a second batch or retry took
\* it up before the first had committed (the lock is left before the commit),
\* or a retry was asked for a pair that had its score (perform_retry reads no
\* scores).  Nothing else gives a second verdict.
OneVerdictPerPair ==
    \A op \in (Offers \X Profiles) \ contested :
        /\ Len(scores[op]) <= 1
        /\ failure[op] = "open" => scores[op] = << >>

\* No batch spends LLM calls on a pair that has its verdict already: what the
\* scan excluded stays excluded until the batch commits, unless the pair is
\* contested (_open_scoring_failures, select_scoring_candidates).
PageStaysUnscored ==
    \A c \in Callers, op \in (Offers \X Profiles) \ contested :
        BatchHas(c, op[1], op[2]) => scores[op] = << >> /\ failure[op] # "open"

Stale(o, p) == \E i \in 1..Len(scores[<<o, p>>]) : scores[<<o, p>>][i] # data[p]

\* A batch or a retry that read profile p before its last edit.
LateWriter(p) ==
    \/ \E c \in Callers : profileOf[c] = p /\ dataOf[c] # data[p]
    \/ \E r \in Retriers : retry[r] # None /\ retry[r].profile = p /\ retry[r].data # data[p]

\* While a profile stays active, its scores go stale only when a batch or a
\* retry that read the profile before an edit commits after it; the edit
\* itself (upsert_profile) leaves no stale score.
OnlyLateWritersLeaveStaleScores ==
    [][\A o \in Offers, p \in Profiles :
        active = p /\ active' = p /\ ~ Stale(o, p) /\ Stale(o, p)' => LateWriter(p)]_vars

\* The limit and the newest-first order starve no offer: it is scored, parked
\* as a dead letter or cleaned up, or the user activates another profile
\* (_open_scoring_failures).
BacklogDrains ==
    \A o \in Eligible, p \in Profiles :
        (o \in offers /\ active = p)
            ~> (scores[<<o, p>>] # << >> \/ failure[<<o, p>>] = "open" \/ o \notin offers \/ active # p)

\* Whoever asks for a batch gets an answer: every way out of a batch, the
\* exceptions included, leaves the lock to the next waiter.
EveryRequestEnds == \A c \in Callers : pc[c] = "queued" ~> pc[c] = "idle"

\* docs/architecture/matching.md: a second caller "never sees an offer the
\* first call is still in the middle of scoring" (_scoring_lock).
NoOfferInTwoBatches ==
    \A c, d \in Callers :
        c # d /\ profileOf[c] = profileOf[d] => Page(c) \cap Page(d) = {}
=============================================================================
