--------------------------- MODULE SourceControl ---------------------------
(***************************************************************************)
(* The settings of the sources and what follows them: the flags and the    *)
(* sitemap cursor in sources.config_json, one JSON column that requests    *)
(* (app/api/routes/scheduler.py, app/scheduler/service.py) and ingestion   *)
(* runs (app/connectors/sitemap_detail.py) each read, and later write as a *)
(* whole; the live APScheduler jobs (app/scheduler/lifecycle.py); the      *)
(* scheduler_runs rows (app/scheduler/runs.py) and their reconciliation    *)
(* when the process starts (app/main.py).                                  *)
(*                                                                         *)
(* A request and a run hold the column as their session read it: sessions  *)
(* do not expire at a commit (app/db/session.py).                          *)
(***************************************************************************)
EXTENDS Integers

CONSTANTS
    Sources,     \* the connectors
    Sitemaps,    \* those that walk a sitemap and keep a cursor
    Requests,    \* places for the PUT requests in flight
    Manual,      \* the POST /scheduler/run requests
    Pages,       \* the number of pages of a sitemap
    MaxPages,    \* config_json.max_pages
    MaxPuts,     \* bound: the number of PUT requests
    MaxTrouble   \* bound: the number of failures and restarts

\* A scheduled job is one run: max_instances = 1.
Runners == Sources \cup Manual

ASSUME SourcesAssumption ==
    Sources # {} /\ Sitemaps \subseteq Sources /\ Sources \cap Manual = {}
ASSUME SizesAssumption == /\ Pages \in Nat \ {0} /\ MaxPages \in Nat \ {0}
                          /\ MaxPuts \in Nat /\ MaxTrouble \in Nat

VARIABLES
    config,  \* sources.config_json, as committed
    job,     \* the live job of each source
    put,     \* each request
    run,     \* the run of each runner
    rows,    \* the scheduler_runs rows with status "running"
    lost,    \* history: the runs that the database has failed
    excuse,  \* history: why a job may have drifted from the flags
    puts, trouble

vars == <<config, job, put, run, rows, lost, excuse, puts, trouble>>

\* No cursor is stored (-1) before the first walk has ended.
Cursors == -1..(Pages - 1)
Config == [enabled : BOOLEAN, auto : BOOLEAN, cursor : Cursors]
Fields == {"enabled", "auto", "interval", "fetch"}
Excuses == {"overlap", "overwritten", "rescheduled"}

\* Rows are told apart by their runner and the runs lost before them.
RowIds == Runners \X Nat

\* connector_should_auto_run
ShouldRun(c) == c.enabled /\ c.auto

Seeded == [enabled |-> TRUE, auto |-> TRUE, cursor |-> -1]
NoPut == [at |-> "idle", does |-> "fetch", targets |-> {}, dirty |-> {},
          want |-> [s \in Sources |-> Seeded], on |-> {}]
NoRun(r) == [at |-> "idle", src |-> IF r \in Sources THEN r ELSE CHOOSE s \in Sources : TRUE,
             row |-> <<r, 0>>, seen |-> Seeded,
             from |-> 0, walked |-> 0, next |-> -1]

\* ensure_sources_exist, and register_jobs
Init ==
    /\ config = [s \in Sources |-> Seeded]
    /\ job = [s \in Sources |-> "active"]
    /\ put = [q \in Requests |-> NoPut]
    /\ run = [r \in Runners |-> NoRun(r)]
    /\ rows = {} /\ lost = 0
    /\ excuse = [s \in Sources |-> {}]
    /\ puts = 0 /\ trouble = 0

-----------------------------------------------------------------------------
(* Requests: PUT /scheduler/sources[/{source}]/enabled, auto-fetch,        *)
(* interval, fetch-range and fetch-scope                                   *)

\* The sources whose settings some request has read and not finished with.
InHand(s) == \E q \in Requests : s \in put[q].targets

\* The column with the flag the request sets. (Schedules, fetch ranges and
\* fetch scopes are left out: those are requests that write the rest back.)
Wanted(c, field, value) == CASE field = "enabled" -> [c EXCEPT !.enabled = value]
                             [] field = "auto" -> [c EXCEPT !.auto = value]
                             [] OTHER -> c

\* The sources are read, and the new columns set on the session's objects. A
\* column that equals the one read is not in the UPDATE; a schedule or a fetch
\* range is a new one.
ReadSources(q, targets, field, value) ==
    LET want == [s \in Sources |-> Wanted(config[s], field, value)]
        toggle == field \in {"enabled", "auto"}
    IN
    /\ put[q].at = "idle"
    /\ puts < MaxPuts
    /\ puts' = puts + 1
    /\ put' = [put EXCEPT ![q] =
           [at |-> "read", does |-> IF toggle THEN "toggle" ELSE field, targets |-> targets,
            dirty |-> {s \in targets : toggle => want[s] # config[s]}, want |-> want,
            on |-> {}]]
    /\ excuse' = [s \in Sources |-> IF s \in targets /\ InHand(s)
                                     THEN excuse[s] \cup {"overlap"} ELSE excuse[s]]
    /\ UNCHANGED <<config, job, run, rows, lost, trouble>>

\* Fault: only the switch that stops a connector pauses its job.
VerdictOfOneFlag(q, s) == put[q].does = "interval" \/ put[q].want[s].enabled

\* apply_auto_run_toggle resumes or pauses the job, by both flags as this
\* session has them; reschedule_job gives the job a next run time.
Verdict(q, s) == put[q].does = "interval" \/ ShouldRun(put[q].want[s])

\* From here the request knows which jobs are to be on. A fetch range or scope
\* leaves the jobs alone: that request is over.
CommitSettings(q) ==
    /\ put[q].at = "read"
    /\ put' = [put EXCEPT ![q] =
           IF put[q].does = "fetch" THEN NoPut
           ELSE [NoPut EXCEPT !.at = "committed", !.does = put[q].does, !.targets = put[q].targets,
                              !.on = {s \in put[q].targets : Verdict(q, s)}]]
    /\ config' = [s \in Sources |-> IF s \in put[q].dirty THEN put[q].want[s] ELSE config[s]]
    /\ UNCHANGED <<job, run, rows, lost, excuse, puts, trouble>>

\* A bulk request awaits a query after each source.
ApplyToJob(q, s) ==
    /\ put[q].at = "committed"
    /\ s \in put[q].targets
    /\ job' = [job EXCEPT ![s] = IF s \in put[q].on THEN "active" ELSE "paused"]
    /\ put' = [put EXCEPT ![q] = IF put[q].targets = {s} THEN NoPut
                                 ELSE [put[q] EXCEPT !.targets = @ \ {s}]]
    /\ excuse' = [excuse EXCEPT ![s] = @ \cup
           (IF put[q].does = "interval" /\ job[s] = "paused" THEN {"rescheduled"} ELSE {})]
    /\ UNCHANGED <<config, run, rows, lost, puts, trouble>>

-----------------------------------------------------------------------------
(* Runs *)

\* run_with_lifecycle: a stopped connector is refused, else the row of the
\* run is committed before the walk.
StartRun(r, s) ==
    /\ run[r].at = "idle"
    /\ config[s].enabled
    /\ run' = [run EXCEPT ![r] = [at |-> "walking", src |-> s,
                                  row |-> <<r, lost>>, seen |-> config[s], from |-> 0,
                                  walked |-> 0, next |-> config[s].cursor]]
    /\ rows' = rows \cup {<<r, lost>>}
    /\ UNCHANGED <<config, job, put, lost, excuse, puts, trouble>>

\* The interval trigger fires.
Fire(s) == job[s] = "active" /\ StartRun(s, s)

\* POST /scheduler/run. (POST /ingest is the same run without a row.)
Post(m, s) == StartRun(m, s)

\* resolve_sitemap_cursor, in a sitemap of n pages
ResolvedCursor(c, n) == IF 0 <= c /\ c < n THEN c ELSE 0

\* Fault: the next run starts at the top again.
RestartedCursor(from, k, n) == 0

\* Fault: the end of the sitemap does not wrap.
PastTheEnd(from, k, n) == from + k

\* next_sitemap_cursor, after k pages from the page "from"
NextCursor(from, k, n) == IF from + k < n THEN from + k ELSE 0

\* The run walks k pages of the sitemap, until max_pages, the end or a streak
\* of already-seen offers. The sitemap may have shrunk, to nothing even.
Walk(r, k, n) ==
    LET from == ResolvedCursor(run[r].seen.cursor, n) IN
    /\ run[r].at = "walking"
    /\ from + k <= n
    /\ k = 0 => n = 0
    /\ n # Pages => trouble < MaxTrouble
    /\ trouble' = IF n # Pages THEN trouble + 1 ELSE trouble
    /\ run' = [run EXCEPT ![r].at = "walked", ![r].from = from, ![r].walked = k,
                          ![r].next = NextCursor(from, k, n)]
    /\ UNCHANGED <<config, job, put, rows, lost, excuse, puts>>

\* The sitemap cannot be fetched: a failed result, but no exception, and the
\* cursor stays.
Unlisted(r) ==
    /\ trouble < MaxTrouble
    /\ trouble' = trouble + 1
    /\ run[r].at = "walking"
    /\ run' = [run EXCEPT ![r].at = "walked"]
    /\ UNCHANGED <<config, job, put, rows, lost, excuse, puts>>

\* The column goes back as the run read it, with the new cursor.
Moves(r) == run[r].src \in Sitemaps /\ run[r].next # run[r].seen.cursor

SameFlags(c, d) == c.enabled = d.enabled /\ c.auto = d.auto

\* finish_run_ok, the cursor and the offers are one commit.
FinishRun(r) ==
    LET s == run[r].src IN
    /\ run[r].at = "walked"
    /\ config' = IF Moves(r) THEN [config EXCEPT ![s] = [run[r].seen EXCEPT !.cursor = run[r].next]]
                 ELSE config
    /\ excuse' = [excuse EXCEPT ![s] = @ \cup
           (IF Moves(r) /\ ~SameFlags(run[r].seen, config[s]) THEN {"overwritten"} ELSE {})]
    /\ rows' = rows \ {run[r].row}
    /\ run' = [run EXCEPT ![r] = NoRun(r)]
    /\ UNCHANGED <<job, put, lost, puts, trouble>>

\* Fault: an exception leaves the row as it is.
RaiseUnrecorded(r) ==
    /\ run[r].at = "walking"
    /\ trouble < MaxTrouble
    /\ trouble' = trouble + 1
    /\ run' = [run EXCEPT ![r] = NoRun(r)]
    /\ UNCHANGED <<config, job, put, rows, lost, excuse, puts>>

\* The connector raises: on_error records it, and the cursor stays.
Raise(r) ==
    /\ run[r].at = "walking"
    /\ trouble < MaxTrouble
    /\ trouble' = trouble + 1
    /\ rows' = rows \ {run[r].row}
    /\ run' = [run EXCEPT ![r] = NoRun(r)]
    /\ UNCHANGED <<config, job, put, lost, excuse, puts>>

\* The database fails the run: on_error, which does not roll back, fails too.
Lose(r) ==
    /\ run[r].at # "idle"
    /\ trouble < MaxTrouble
    /\ trouble' = trouble + 1
    /\ lost' = lost + 1
    /\ run' = [run EXCEPT ![r] = NoRun(r)]
    /\ UNCHANGED <<config, job, put, rows, excuse, puts>>

\* The process dies and starts again: reconcile_stale_running_runs, then
\* register_jobs, before any request or job.
Restart ==
    /\ trouble < MaxTrouble
    /\ trouble' = trouble + 1
    /\ put' = [q \in Requests |-> NoPut]
    /\ run' = [r \in Runners |-> NoRun(r)]
    /\ rows' = {} /\ lost' = 0
    /\ job' = [s \in Sources |-> IF ShouldRun(config[s]) THEN "active" ELSE "paused"]
    /\ excuse' = [s \in Sources |-> {}]
    /\ UNCHANGED <<config, puts>>

-----------------------------------------------------------------------------
(* Specification *)

\* One source, or all of them.
Targets == {{s} : s \in Sources} \cup {Sources}

\* Requests are alike: a new one takes any free place.
Free == CHOOSE q \in Requests : put[q].at = "idle" \/ \A x \in Requests : put[x].at # "idle"

PutStep(q) == CommitSettings(q) \/ \E s \in Sources : ApplyToJob(q, s)
Walks(r) == \E k \in 0..MaxPages : \E n \in 0..Pages : Walk(r, k, n)
RunFails(r) == Unlisted(r) \/ Raise(r) \/ Lose(r)

Next ==
    \/ \E T \in Targets : \E f \in Fields : \E v \in BOOLEAN :
           ReadSources(Free, T, f, v)
    \/ \E q \in Requests : PutStep(q)
    \/ \E s \in Sources : Fire(s)
    \/ \E m \in Manual : \E s \in Sources : Post(m, s)
    \/ \E r \in Runners : Walks(r) \/ FinishRun(r) \/ RunFails(r)
    \/ Restart

Spec == Init /\ [][Next]_vars

\* The interval trigger fires, walks and requests go on.
Fairness ==
    /\ \A s \in Sources : WF_vars(Fire(s))
    /\ \A r \in Runners : WF_vars(Walks(r) \/ FinishRun(r))
    /\ \A q \in Requests : WF_vars(PutStep(q))

FairSpec == Spec /\ Fairness

-----------------------------------------------------------------------------
(* Properties *)

PutRecord == [at : {"idle", "read", "committed"}, does : {"toggle", "interval", "fetch"},
              targets : SUBSET Sources, dirty : SUBSET Sources, want : [Sources -> Config],
              on : SUBSET Sources]
RunRecord == [at : {"idle", "walking", "walked"}, src : Sources,
              row : RowIds, seen : Config, from : 0..(Pages - 1),
              walked : 0..MaxPages, next : Cursors]

\* Every variable stays in its range; in particular a stored cursor points
\* into the sitemap (next_sitemap_cursor).
TypeOK ==
    /\ config \in [Sources -> Config]
    /\ job \in [Sources -> {"active", "paused"}]
    /\ put \in [Requests -> PutRecord]
    /\ run \in [Runners -> RunRecord]
    /\ rows \subseteq RowIds /\ lost \in Nat
    /\ excuse \in [Sources -> SUBSET Excuses]
    /\ puts \in Nat /\ trouble \in 0..MaxTrouble

Drifted(s) == ~InHand(s) /\ ~(job[s] = "active" <=> ShouldRun(config[s]))

\* When no request is at work on a source, its job is paused exactly as its
\* two flags say, unless two requests overlapped, a run wrote back older
\* flags, or an interval was set while the job was paused.
OnlyKnownDrift == \A s \in Sources : Drifted(s) => excuse[s] # {}

\* The rows of the runs in flight.
LiveRows == {run[r].row : r \in {x \in Runners : run[x].at # "idle"}}

\* A row says "running" while its run is in flight, and later only if the
\* database failed that run (finish_run_error, reconcile_stale_running_runs).
RowsAreFaithful ==
    /\ LiveRows \subseteq rows
    /\ \A row \in rows \ LiveRows : row[2] < lost

Visits(r, s, u) == /\ run[r].at = "walked" /\ run[r].src = s
                   /\ run[r].from <= u /\ u < run[r].from + run[r].walked

\* sitemap.py, "so a run always makes forward progress": while the job of a
\* sitemap runs, each page is walked again and again, whatever manual runs
\* read and write the same cursor.
EveryPageIsWalked ==
    \A s \in Sitemaps : \A u \in 0..(Pages - 1) :
        <>[](job[s] = "active" /\ config[s].enabled)
            => []<>(\E r \in Runners : Visits(r, s, u))
=============================================================================
