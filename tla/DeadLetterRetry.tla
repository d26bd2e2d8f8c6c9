-------------------------- MODULE DeadLetterRetry --------------------------
(***************************************************************************)
(* The dead letter rows of ingestion (app/dlq/service.py) and the three    *)
(* parties that write them at the same time: ingestion runs, which upsert  *)
(* a row when a fetch fails (app/ingestion, app/connectors); the           *)
(* dlq:retry_403 job, which retries the blocked rows one after another     *)
(* (app/dlq/retry.py:run_detail_retry_batch); and manual retries           *)
(* (POST /failures/ingestion/{id}/retry).                                  *)
(*                                                                         *)
(* A row belongs to a source (page and run failures share it) or to a      *)
(* posting url (a blocked detail fetch).  The retry of a source's row      *)
(* awaits a whole ingestion run, in another thread and another session.    *)
(* A written row stays locked until its transaction ends.  The locks are   *)
(* not state of their own: a run locks the rows of its `pend`, and the     *)
(* job the row it works on, from the UPDATE of retry_count that            *)
(* session.get(Source) flushes.                                            *)
(***************************************************************************)
EXTENDS Naturals

CONSTANTS
    Sources,      \* rows `source:{id}`, one of each source; also the sources
    Sitemaps,     \* the sources whose connector walks a sitemap
    Urls,         \* rows `source:{id}:detail_url:{hash}`
    UrlSource,    \* the source of a url
    Tick,         \* the dlq:retry_403 job (max_instances=1)
    Users,        \* manual retries
    Beats,        \* runs of the scheduler and of POST /ingest/{source}
    Nothing,      \* no row
    MaxAttempts,  \* Settings.detail_retry_max_attempts
    MaxStops,     \* bound: number of connector stops and starts
    MaxTrouble    \* bound: number of restarts and of detail retries that raise

Keys == Sources \cup Urls
Retriers == {Tick} \cup Users
Runners == Retriers \cup Beats

ASSUME KeysAssumption == /\ Sitemaps \subseteq Sources
                         /\ Sources \cap Urls = {}
                         /\ Nothing \notin Keys \cup Nat
                         /\ UrlSource \in [Urls -> Sources]
ASSUME RunnersAssumption == /\ Tick \notin Users \cup Beats
                            /\ Users \cap Beats = {}
ASSUME RetryLimitsAssumption == /\ MaxAttempts \in Nat \ {0}
                                /\ MaxStops \in Nat
                                /\ MaxTrouble \in Nat

VARIABLES
    row,      \* ingestion_failures, as committed; `old`: past the cooldown
    enabled,  \* sources.config_json["connector_enabled"]
    todo,     \* rows left in the tick: their retry_count as scanned
    caller,   \* each retry: where it is, and the row as its session read it
    run,      \* the ingestion run of each runner; `pend`: uncommitted rows
    attempts, \* history: the job's attempts at each row, without those whose
              \* transaction was rolled back
    stops, trouble

vars == <<row, enabled, todo, caller, run, attempts, stops, trouble>>

Statuses == {"none", "open", "resolved", "abandoned"}
Row == [status : Statuses, blocked : BOOLEAN, count : Nat, old : BOOLEAN]
NoRow == [status |-> "none", blocked |-> FALSE, count |-> 0, old |-> FALSE]
NoRows == [k \in Keys |-> Nothing]

ASSUME NothingAssumption == Nothing \notin Row

\* A retry: `missed` is a history variable, a failure of the row was
\* committed since the retry began.
Calling == {"handling", "waiting", "returned"}
Idle == [at |-> "idle", key |-> Nothing, status |-> "none", count |-> 0,
         result |-> "none", missed |-> FALSE]

NoRun == [at |-> "none", src |-> Nothing, key |-> Nothing, blocked |-> FALSE,
          ok |-> TRUE, pend |-> NoRows]

Init ==
    /\ row = [k \in Keys |-> NoRow]
    /\ enabled = [s \in Sources |-> TRUE]
    /\ todo = NoRows
    /\ caller = [c \in Retriers |-> Idle]
    /\ run = [c \in Runners |-> NoRun]
    /\ attempts = [k \in Keys |-> 0]
    /\ stops = 0
    /\ trouble = 0

-----------------------------------------------------------------------------
(* Helpers *)

SourceOf(k) == IF k \in Sources THEN k ELSE UrlSource[k]

\* The rows that a tick selects.
Eligible(k) == row[k].status = "open" /\ row[k].blocked /\ row[k].old

TickHolds(k) == caller[Tick].key = k /\ caller[Tick].at \in Calling
RunHolds(c, k) == run[c].pend[k] # Nothing

\* No transaction holds row k; a run does not wait for itself.
FreeFor(c, k) == ~TickHolds(k) /\ \A d \in Runners \ {c} : ~RunHolds(d, k)
NoRunHolds(k) == \A d \in Runners : ~RunHolds(d, k)

\* record_failure: what the upsert makes of a row.  retry_count is not among
\* its columns; blocked_status is not either when a failed run has none.
Upsert(r, b, keepTag) ==
    [status |-> "open",
     blocked |-> b \/ (keepTag /\ r.blocked),
     count |-> r.count,
     old |-> FALSE]

\* The transaction of a run commits the rows it wrote ...
Apply(pend) == row' = [k \in Keys |-> IF pend[k] # Nothing THEN pend[k] ELSE row[k]]
\* ... behind the back of the retries of those rows.
Miss(pend) ==
    [c \in Retriers |->
        IF caller[c].at \in Calling /\ pend[caller[c].key] # Nothing
        THEN [caller[c] EXCEPT !.missed = TRUE] ELSE caller[c]]

-----------------------------------------------------------------------------
(* The job *)

TickScans ==
    /\ caller[Tick].at = "idle" /\ todo = NoRows
    /\ \E k \in Keys : Eligible(k)
    /\ todo' = [k \in Keys |-> IF Eligible(k) THEN row[k].count ELSE Nothing]
    /\ UNCHANGED <<row, enabled, caller, run, attempts, stops, trouble>>

TickPicks(k) ==
    /\ caller[Tick].at = "idle" /\ todo[k] # Nothing
    /\ caller' = [caller EXCEPT ![Tick] =
           [Idle EXCEPT !.at = "picked", !.key = k, !.status = "open", !.count = todo[k]]]
    /\ todo' = [todo EXCEPT ![k] = Nothing]
    /\ UNCHANGED <<row, enabled, run, attempts, stops, trouble>>

Spent(n) == n >= MaxAttempts

\* Fault: the tick ends without committing the abandoned row.
TickAbandonsUncommitted ==
    /\ caller[Tick].at = "picked" /\ Spent(caller[Tick].count)
    /\ caller' = [caller EXCEPT ![Tick] = Idle]
    /\ UNCHANGED <<row, enabled, todo, run, attempts, stops, trouble>>

TickAbandons ==
    LET k == caller[Tick].key IN
    /\ caller[Tick].at = "picked" /\ Spent(caller[Tick].count)
    /\ NoRunHolds(k)
    /\ row' = [row EXCEPT ![k].status = "abandoned"]
    /\ caller' = [caller EXCEPT ![Tick] = Idle]
    /\ UNCHANGED <<enabled, todo, run, attempts, stops, trouble>>

\* Fault: nothing is flushed, so the row is not locked.
TickSpendsUnlocked ==
    /\ caller[Tick].at = "picked" /\ ~Spent(caller[Tick].count)
    /\ caller' = [caller EXCEPT ![Tick].at = "handling"]
    /\ attempts' = [attempts EXCEPT ![caller[Tick].key] = @ + 1]
    /\ UNCHANGED <<row, enabled, todo, run, stops, trouble>>

\* row.retry_count += 1; the autoflush of session.get(Source) writes it and
\* locks the row until perform_retry commits.
TickSpends ==
    /\ caller[Tick].at = "picked" /\ ~Spent(caller[Tick].count)
    /\ NoRunHolds(caller[Tick].key)
    /\ caller' = [caller EXCEPT ![Tick].at = "handling"]
    /\ attempts' = [attempts EXCEPT ![caller[Tick].key] = @ + 1]
    /\ UNCHANGED <<row, enabled, todo, run, stops, trouble>>

-----------------------------------------------------------------------------
(* Retries: the job's and the users' *)

\* The transaction of a retry is rolled back: of the job's, the attempt with
\* its retry_count.
Undone(c) ==
    [k \in Keys |-> IF c = Tick /\ TickHolds(k) THEN attempts[k] - 1 ELSE attempts[k]]

\* An exception that perform_retry lets through: the session is rolled back and,
\* as run_detail_retry_batch has no `except` either, a whole tick ends.
Aborts(c) ==
    /\ caller' = [caller EXCEPT ![c] = Idle]
    /\ todo' = IF c = Tick THEN NoRows ELSE todo
    /\ attempts' = Undone(c)

\* POST /failures/ingestion/{id}/retry, whatever the status of the row.
UserLoads(u, k) ==
    /\ caller[u].at = "idle" /\ row[k].status # "none"
    /\ caller' = [caller EXCEPT ![u] =
           [Idle EXCEPT !.at = "handling", !.key = k, !.status = row[k].status,
                        !.count = row[k].count]]
    /\ UNCHANGED <<row, enabled, todo, run, attempts, stops, trouble>>

\* _retry_fetch_failed: trigger_ingest in a thread of its own.
StartRun(c) ==
    LET s == caller[c].key IN
    /\ caller[c].at = "handling" /\ s \in Sources /\ enabled[s]
    /\ caller' = [caller EXCEPT ![c].at = "waiting"]
    /\ run' = [run EXCEPT ![c] = [NoRun EXCEPT !.at = "fetching", !.src = s]]
    /\ UNCHANGED <<row, enabled, todo, attempts, stops, trouble>>

\* ConnectorDisabledError out of trigger_ingest.
Refused(c) ==
    /\ caller[c].at = "handling" /\ caller[c].key \in Sources
    /\ ~enabled[caller[c].key]
    /\ Aborts(c)
    /\ UNCHANGED <<row, enabled, run, stops, trouble>>

\* Fault: the thread's session is never closed.
RunReturnsLeaks(c) ==
    /\ caller[c].at = "waiting" /\ run[c].at = "ended"
    /\ caller' = [caller EXCEPT ![c].at = "returned",
                                ![c].result = IF run[c].ok THEN "fixed" ELSE "failed"]
    /\ UNCHANGED <<row, enabled, todo, run, attempts, stops, trouble>>

RunReturns(c) ==
    /\ caller[c].at = "waiting" /\ run[c].at = "ended"
    /\ caller' = [caller EXCEPT ![c].at = "returned",
                                ![c].result = IF run[c].ok THEN "fixed" ELSE "failed"]
    /\ run' = [run EXCEPT ![c] = NoRun]
    /\ UNCHANGED <<row, enabled, todo, attempts, stops, trouble>>

\* _retry_detail_fetch_blocked: the posting is persisted, is still blocked,
\* or cannot be read for another reason.
FetchDetail(c) ==
    /\ caller[c].at = "handling" /\ caller[c].key \in Urls
    /\ \E r \in {"fixed", "blocked", "failed"} :
           caller' = [caller EXCEPT ![c].at = "returned", ![c].result = r]
    /\ UNCHANGED <<row, enabled, todo, run, attempts, stops, trouble>>

\* detail_retry raises something else than a block (a browser or a parser
\* error): only BlockedFetchError is caught.
FetchRaises(c) ==
    /\ caller[c].at = "handling" /\ caller[c].key \in Urls
    /\ trouble < MaxTrouble
    /\ trouble' = trouble + 1
    /\ Aborts(c)
    /\ UNCHANGED <<row, enabled, run, stops>>

\* Fault: the whole row is written back, as the session read it.
CommitWholeRow(c, k) ==
    [row[k] EXCEPT
        !.status = IF caller[c].result = "fixed" THEN "resolved" ELSE caller[c].status,
        !.count = IF c = Tick THEN caller[c].count + 1 ELSE caller[c].count,
        !.old = @ /\ caller[c].result # "blocked"]

\* Fault: the attempt is not counted.
CommitUncounted(c, k) ==
    [row[k] EXCEPT
        !.status = IF caller[c].result = "fixed" THEN "resolved" ELSE @,
        !.old = @ /\ caller[c].result # "blocked"]

\* What the commit of perform_retry makes of the row: the columns that the
\* session changed.  A row read as resolved does not change its status.
CommitRow(c, k) ==
    [row[k] EXCEPT
        !.status = IF caller[c].result = "fixed" /\ caller[c].status # "resolved"
                   THEN "resolved" ELSE @,
        !.count = IF c = Tick THEN caller[c].count + 1 ELSE @,
        !.old = @ /\ caller[c].result # "blocked"]

\* Fault: the job's result is written from a second session.
FinishElsewhere(c) ==
    LET k == caller[c].key IN
    /\ caller[c].at = "returned"
    /\ ~TickHolds(k) /\ NoRunHolds(k)
    /\ row' = [row EXCEPT ![k] = CommitRow(c, k)]
    /\ caller' = [caller EXCEPT ![c] = Idle]
    /\ UNCHANGED <<enabled, todo, run, attempts, stops, trouble>>

\* The end of perform_retry.  A session that has written nothing yet waits
\* for the row here.
Finish(c) ==
    LET k == caller[c].key IN
    /\ caller[c].at = "returned"
    /\ c = Tick \/ caller[c].result = "failed" \/ (~TickHolds(k) /\ NoRunHolds(k))
    /\ row' = [row EXCEPT ![k] = CommitRow(c, k)]
    /\ caller' = [caller EXCEPT ![c] = Idle]
    /\ UNCHANGED <<enabled, todo, run, attempts, stops, trouble>>

-----------------------------------------------------------------------------
(* Ingestion runs *)

BeatStarts(b, s) ==
    /\ run[b].at = "none" /\ enabled[s]
    /\ run' = [run EXCEPT ![b] = [NoRun EXCEPT !.at = "fetching", !.src = s]]
    /\ UNCHANGED <<row, enabled, todo, caller, attempts, stops, trouble>>

Goes(c, stage) ==
    /\ run' = [run EXCEPT ![c].at = stage]
    /\ UNCHANGED <<row, enabled, todo, caller, attempts, stops, trouble>>

\* The run is about to record a failure of row k.
Reports(c, k, b, ok) ==
    /\ run' = [run EXCEPT ![c].at = "recording", ![c].key = k,
                          ![c].blocked = b, ![c].ok = ok]
    /\ UNCHANGED <<row, enabled, todo, caller, attempts, stops, trouble>>

\* The first page, the listing or the sitemap: the run has failed.
FirstPageFails(c, b) == run[c].at = "fetching" /\ Reports(c, run[c].src, b, FALSE)

\* A later page: what was fetched before is kept and the run is a success.
LaterPageFails(c, b) ==
    /\ run[c].at = "fetching" /\ run[c].src \notin Sitemaps
    /\ Reports(c, run[c].src, b, TRUE)

PagesFetched(c) == run[c].at = "fetching" /\ Goes(c, "details")

DetailBlocked(c, u) ==
    /\ run[c].at = "details" /\ UrlSource[u] = run[c].src /\ ~RunHolds(c, u)
    /\ Reports(c, u, TRUE, TRUE)

\* A run filtered by several terms: the listing of a later term fails.  A
\* connector that pages may have recorded a failed page of an earlier term,
\* and drops the blocked status of this failure.
LaterTermFails(c, b) ==
    /\ run[c].at = "details"
    /\ run[c].src \in Sitemaps \/ (RunHolds(c, run[c].src) /\ ~b)
    /\ Reports(c, run[c].src, b, FALSE)

\* The upsert of record_failure, once no other transaction holds the row.
Record(c) ==
    LET k == run[c].key
        seen == IF RunHolds(c, k) THEN run[c].pend[k] ELSE row[k]
        done == Upsert(seen, run[c].blocked, ~run[c].ok)
    IN
    /\ run[c].at = "recording" /\ FreeFor(c, k)
    /\ run' = [run EXCEPT ![c].at = IF run[c].ok THEN "details" ELSE "closing",
                          ![c].key = Nothing,
                          ![c].pend = [@ EXCEPT ![k] = done]]
    /\ UNCHANGED <<row, enabled, todo, caller, attempts, stops, trouble>>

AllRecorded(c) == run[c].at = "details" /\ Goes(c, "closing")

\* The run is over: a retry will see whether it was ok.
After(c, ok) ==
    IF c \in Beats THEN NoRun ELSE [NoRun EXCEPT !.at = "ended", !.ok = ok]

CommitRun(c) ==
    /\ run[c].at = "closing"
    /\ Apply(run[c].pend)
    /\ caller' = Miss(run[c].pend)
    /\ run' = [run EXCEPT ![c] = After(c, run[c].ok)]
    /\ UNCHANGED <<enabled, todo, attempts, stops, trouble>>

\* An exception of the connector.  The run of a retry and of POST /ingest
\* rolls back; a run of the scheduler commits what it had written.
RunRaises(c) ==
    /\ run[c].at \in {"fetching", "details"}
    /\ \/ UNCHANGED <<row, caller>>
       \/ c \in Beats /\ Apply(run[c].pend) /\ caller' = Miss(run[c].pend)
    /\ run' = [run EXCEPT ![c] = After(c, FALSE)]
    /\ UNCHANGED <<enabled, todo, attempts, stops, trouble>>

-----------------------------------------------------------------------------
(* The rest of the system *)

\* detail_retry_min_age_seconds pass.
Age(k) ==
    /\ row[k].status = "open" /\ row[k].blocked /\ ~row[k].old
    /\ row' = [row EXCEPT ![k].old = TRUE]
    /\ UNCHANGED <<enabled, todo, caller, run, attempts, stops, trouble>>

\* PUT /scheduler/{source}/enabled.
SetEnabled(s) ==
    /\ stops < MaxStops
    /\ enabled' = [enabled EXCEPT ![s] = ~@]
    /\ stops' = stops + 1
    /\ UNCHANGED <<row, todo, caller, run, attempts, trouble>>

\* The process restarts: its transactions are rolled back.
Crash ==
    /\ trouble < MaxTrouble
    /\ todo' = NoRows
    /\ caller' = [c \in Retriers |-> Idle]
    /\ run' = [c \in Runners |-> NoRun]
    /\ attempts' = Undone(Tick)
    /\ trouble' = trouble + 1
    /\ UNCHANGED <<row, enabled, stops>>

TickStep ==
    \/ TickScans \/ TickAbandons \/ TickSpends
    \/ \E k \in Keys : TickPicks(k)

RetryStep(c) ==
    \/ StartRun(c) \/ Refused(c) \/ RunReturns(c)
    \/ FetchDetail(c) \/ FetchRaises(c) \/ Finish(c)

RunStep(c) ==
    \/ \E b \in BOOLEAN : FirstPageFails(c, b) \/ LaterPageFails(c, b) \/ LaterTermFails(c, b)
    \/ \E u \in Urls : DetailBlocked(c, u)
    \/ PagesFetched(c) \/ AllRecorded(c)
    \/ CommitRun(c) \/ RunRaises(c)

Next ==
    \/ TickStep
    \/ \E u \in Users, k \in Keys : UserLoads(u, k)
    \/ \E c \in Retriers : RetryStep(c)
    \/ \E b \in Beats, s \in Sources : BeatStarts(b, s)
    \/ \E c \in Runners : RunStep(c) \/ Record(c)
    \/ \E k \in Keys : Age(k)
    \/ \E s \in Sources : SetEnabled(s)
    \/ Crash

Spec == Init /\ [][Next]_vars

\* The interval trigger, the event loop, the HTTP timeouts and max_pages keep
\* jobs, retries and runs going; PostgreSQL grants row locks in turn.
Fairness ==
    /\ WF_vars(TickScans)
    /\ \A k \in Keys : WF_vars(TickPicks(k))
    /\ SF_vars(TickAbandons) /\ SF_vars(TickSpends)
    /\ \A c \in Retriers :
        /\ WF_vars(StartRun(c) \/ Refused(c) \/ RunReturns(c) \/ FetchDetail(c))
        /\ SF_vars(Finish(c))
    /\ \A c \in Runners : WF_vars(RunStep(c)) /\ SF_vars(Record(c))

FairSpec == Spec /\ Fairness

-----------------------------------------------------------------------------
(* Properties *)

CallRecord ==
    [at : {"idle", "picked"} \cup Calling, key : Keys \cup {Nothing}, status : Statuses,
     count : Nat, result : {"none", "fixed", "blocked", "failed"}, missed : BOOLEAN]
RunRecord ==
    [at : {"none", "fetching", "details", "recording", "closing", "ended"},
     src : Sources \cup {Nothing}, key : Keys \cup {Nothing}, blocked : BOOLEAN,
     ok : BOOLEAN, pend : [Keys -> Row \cup {Nothing}]]

\* The state is well formed: a retry has a row unless it is idle, and a run
\* exactly while it waits for one.
TypeOK ==
    /\ row \in [Keys -> Row]
    /\ enabled \in [Sources -> BOOLEAN]
    /\ todo \in [Keys -> Nat \cup {Nothing}]
    /\ caller \in [Retriers -> CallRecord]
    /\ run \in [Runners -> RunRecord]
    /\ \A c \in Retriers : /\ caller[c].at = "idle" <=> caller[c].key = Nothing
                           /\ caller[c].at = "waiting" <=> run[c].at # "none"
    /\ \A c \in Runners : /\ run[c].at \in {"none", "ended"} <=> run[c].src = Nothing
                          /\ run[c].at = "recording" <=> run[c].key # Nothing
    /\ attempts \in [Keys -> Nat]
    /\ stops \in 0..MaxStops /\ trouble \in 0..MaxTrouble

\* While the job retries a row, no failure of that row is committed by anyone:
\* what the job resolves is the failure that it retried, never a newer one
\* (the row lock that the flushed retry_count takes, retry.py:207-209).
TickSeesEveryFailure == caller[Tick].at \in Calling => ~caller[Tick].missed

\* However ticks, upserts, manual retries and restarts interleave, the job makes
\* at most detail_retry_max_attempts attempts at a row that are not rolled back,
\* the one in flight included: the guard compares a count from a scan that is
\* minutes old, and is right only while nobody loses or lowers a count.  An
\* attempt that a restart or an exception rolls back leaves no count, in the
\* code as here, and is made again: such attempts are not bounded.
BudgetRespected == \A k \in Keys : attempts[k] <= MaxAttempts

\* The retry_count that the job writes back from its scan is still current:
\* no attempt is lost, and none is given back by a recurring failure or by a
\* manual retry of the row.
AttemptsNeverForgotten == [][\A k \in Keys : row'[k].count >= row[k].count]_vars

\* The job is never stuck on the row of a posting: it gets the row, fetches,
\* commits, whoever else is writing the row.
TickPassesDetails ==
    \A u \in Urls : caller[Tick].key = u ~> caller[Tick].key # u

\* A blocked posting does not stay in the job's selection for ever: as long as
\* ticks return and the connectors are on, it is resolved or abandoned, or a
\* newer failure restarts its cooldown.
DetailRowsSettle ==
    \A u \in Urls :
        []<>(caller[Tick].at = "idle" /\ todo = NoRows) /\ <>[](\A s \in Sources : enabled[s])
            => []<>~Eligible(u)

\* scheduler/lifecycle.py:83-84, "a slow tick chains into the next instead of
\* overlapping": a tick ends.
TicksChain == caller[Tick].at # "idle" ~> caller[Tick].at = "idle"
=============================================================================
