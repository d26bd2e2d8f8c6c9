# recruFlow in TLA+

recruFlow is a single-user job-offer tracker: a FastAPI backend (`app/`) fetches postings from
several job boards on a schedule, stores them in PostgreSQL, scores each one against the user's
profile with a local LLM, and shows them in a React frontend (`frontend/`). This directory holds
TLA+ models of the concurrent and failure-prone parts of the backend, the TLC runs that check
them, and TLAPS proofs about them.

1. Inventory · 2. Modules · 3. Runs · 4. Fairness · 5. Proofs · 6. Observed divergences ·
7. What is not modelled · 8. Plan

## 1. Inventory

| Component | State it keeps | Operations |
|---|---|---|
| Batch scoring (`app/scoring/batch.py`, `app/llm/matcher.py`) | `_scoring_lock`, `_progress`; rows of `match_scores`, `scoring_failures` | `scoring:backlog` job and `POST /score/batch`: select, call the LLM, record, commit |
| Score events (`app/scoring/events.py`) | subscriber queues | publish, subscribe, unsubscribe (SSE) |
| Profiles (`app/db/profile_repo.py`, `app/api/routes/profile.py`) | `profiles` | `PUT /profile` (save, and activation by two UPDATEs), CV upload; an edit deletes scores |
| Dead letters (`app/dlq/`) | `ingestion_failures`, `scoring_failures` | `record_failure` (upsert), manual retry and abandon, `dlq:retry_403` job |
| Ingestion (`app/ingestion/`) | `offers` | a run: page loop, content check, insert, commit or roll-back |
| Scheduler (`app/scheduler/`, `app/main.py`) | APScheduler jobs, `scheduler_runs`, `sources.config_json` | start-up, settings (single and bulk), pause and resume, run now, reconciliation |
| Connectors (`app/connectors/`) | sitemap and listing cursors (in `config_json`), the shared proxy pool | fetch a page, fetch a posting through proxies, retry one posting |
| Offers API (`app/api/routes/offers.py`) | `offers`, `applications` | list, patch, bulk clean-up |
| CV (`app/cv/`, `app/llm/cv_extraction.py`) | none | one request: text extraction, one LLM call |
| Frontend (`frontend/src/hooks`) | React state | fetch, edit, poll, subscribe |

**Interaction.** Four kinds of APScheduler jobs run in one process: a job per source
(`run_source_sync`, in a worker thread with its own event loop and engine), `scoring:backlog` and
`dlq:retry_403` (coroutines of the API's event loop), and `proxy_pool:topup` (a worker thread). All
have `max_instances=1`. HTTP requests run on the API's loop or, for `POST /scheduler/run` and
`POST /ingest`, in worker threads. They meet in PostgreSQL (READ COMMITTED, unique keys, row locks
held to the end of a transaction), in `_scoring_lock` and in the shared `ProxyPool`. Ingestion
feeds scoring only through the `offers` table. Fetch failures become dead letters, whose retries
are ingestion runs or fetches of one posting.

**What is hard, and what must hold.**

| Component | Hard behaviour | Must hold |
|---|---|---|
| Batch scoring | several callers on one loop, minutes of awaits, exceptions on every path, the commit after the lock, edits and clean-ups meanwhile | one batch at a time; one verdict per offer and profile; no starving offer; no stale score except by a late writer; faithful progress |
| Dead letters | upserts and retries of one row from different sessions, a retry that awaits a run that writes the same row, restarts in mid-retry | no newer failure resolved, attempts counted once and bounded, no row and no tick stuck |
| Proxy pool | check, slow scrape, append; eviction races admission; a source that is down | bounded, no duplicates, no failed proxy reused, everything ends, the pool refills |
| Ingestion | overlapping runs of one source, a feed that shifts under an offset, a transaction as long as a run, a failing page in the middle | postings are lost only for the reasons the code accepts; no duplicates without a race; deadlocks only under a long shift; every posting arrives |
| Pracuj walk (`app/connectors/pracuj.py`) | a cursor read minutes before it is written back, several terms merged into one result, a cap in the middle of a page, an unsorted listing that moves | no page is skipped, nothing that was read is dropped, failures are reported, every posting arrives |
| Scheduler | read-modify-write of a JSON column by requests and by runs, live jobs and stored flags that can drift apart, crash recovery | the job follows the flags; no orphan run row; the flags are independent; the sitemap cursor reaches every URL |
| Profiles | overlapping activations that cannot see each other's rows, waits in different orders, a save of a row read earlier, scores made meanwhile | each request takes effect at once; one active profile; no stale score of it; every request ends |
| Frontend | answers out of order | the screen shows the answer to the last question |

The `hazards` of `PROJECT.json` list each of these at its line, with the properties that cover it.

## 2. Modules

Names follow the source. An action is the code between two points at which another process can
interfere. `\* Fault:` operators are deliberately wrong variants of the definition that follows
them; no specification uses them. They show that each property can fail.

### BatchScoring

State: the committed tables (`offers`, `active`, `data`, `scores`, `failure`), the process's
`queue` (`_scoring_lock`: holder, then FIFO waiters) and `progress`, and per caller its stage, the
profile its session read, and the result of every offer of its page.

| Stage of a caller | Code |
|---|---|
| idle → queued | a tick or a request reaches `async with _scoring_lock` (`Request`) |
| → started | lock held, `get_active_profile` (`Start`, `StartWithoutProfile`) |
| → scanned | the id scan (`Scan`) |
| → scoring | full rows loaded, progress started (`Hydrate`; `HydrateRaises` if a row of the page is gone) |
| calls | `Call`, `Answer` for one offer, under the semaphore |
| → flushed / lost / raised | rows flushed and lock released (`Flush`), transaction aborted in silence (`FlushLoses`), or an exception (`FlushRaises`) |
| → idle | the caller commits or rolls back (`Commit`, `RollBack`) |

The effect of a transaction is applied at its commit. Autoflush inside an aborted transaction is
`PendingAfterAbort`. `PutProfile` (one transaction without an await that matters), `Ingest`,
`DeleteOffers` (blocked by the key-share locks of flushed scores; a clean-up that fails on a foreign
key changes nothing, so it is a stutter), the retry of a scoring dead letter (`RetryStart`,
`RetrySucceeds`, `RetryFails`) and `Crash` are the environment. Offer ids stand for the creation
order. A retry takes neither the lock nor the semaphore (`dlq/retry.py:95`): the bound on LLM calls
(`BatchCallsBounded`) is about batches. `contested` is a history variable: the pairs that a batch or a
retry took up while somebody else still had them in hand, or that a retry took up when they had their
score already.

### DeadLetterRetry

State: the rows (`row`, by source or by posting URL), the scan of the job (`todo`), the retry of
each retrier (`caller`) and the ingestion run of each runner (`run`, with its uncommitted
upserts in `pend`). Row locks are derived: a run locks the rows of `pend`; the job locks the row it
works on from the moment `session.get(Source)` flushes its `retry_count` (`TickHolds`).

A retry of a source's row starts a whole run (`StartRun`) in another session and waits for it
(`RunReturns`). A retry of a posting fetches just that posting (`FetchDetail`); an exception other than a
block (`FetchRaises`), or a connector that is off (`Refused`), rolls the retry back and ends the tick.
`Finish` is the commit of `perform_retry`. `attempts` is a history variable that counts the job's
attempts, without those that were rolled back.
A run goes through fetching → (recording) → details → closing → ended;
`Record` is the upsert, which waits while another transaction holds the row. Time is one bit of
a row, `old`: past the cooldown.

Left out: rows of validation failures (nothing retries them automatically), `resolved_at`, and
PostgreSQL's deadlock detection between two runs.

### ProxyPool

State: the list `good`, and the position and local variables of each thread. A `with self._lock`
block is one step; scraping and requesting happen between steps. Position names: asking (before
`get_proxy`), checking / scraping / found (inside `top_up`), asking again (after a cold start),
using, reporting, ended. `FreeProxy` is external: `ScrapeFinds` may return any proxy, `ScrapeFails`
none. `Budget` is `target_size * 4` in the code. Fetches of `http.py`, `sitemap_detail.py` and
`pracuj.py` share the rotation loop and are one `FetchStep`. The retry of a Pracuj posting runs it on
the event loop instead of a thread, which the model does not tell apart.

### OfferIngestion

State: what each board lists (`feed`, external), the committed `offers`, and one record per run:
phase, page, the postings of the page still to handle, the already-seen streak, and the rows
written but not committed. The scheduled job of a board is the run named like the board
(`max_instances=1`); `Users` are requests of `POST /scheduler/run` and `POST /ingest`, of which only
the latter can be forced.

| Action | Code |
|---|---|
| `Publish`, `Expire` | the board; offsets of the other postings shift |
| `Begin` | `run_with_lifecycle` up to `dispatch_ingestion` |
| `FetchPage`, `PageFails` | `fetch_page` in the worker thread, and its `None` |
| `Skip` | out of `fetch_range`, or invalid |
| `CheckContent` | `_find_content_duplicate`: a SELECT that sees committed and own rows |
| `Insert` | `INSERT ... ON CONFLICT DO NOTHING`, which waits while another run holds the hash uncommitted |
| `EndPage` | the stop conditions in the order of the code: range, end of feed, caught up, page limit |
| `Commit`, `Raise`, `Lose` | the three ends of a transaction: kept, kept or rolled back depending on the caller (`Kept`), lost |
| `BreakDeadlock` | PostgreSQL's deadlock detector, external: it aborts one of a circle of waiting runs |

`excuse`, `apart`, and the fields `cross` and `shift` are history variables: no guard reads them,
only properties do. Left out: the `until` bound, offers without a date, clean-up of offers, and the retry of
a single posting, which writes offers too. The slices of an unsorted walk and the per-term loops of a
filtered fetch scope are in PracujListing.

### SourceControl

State: `sources.config_json` as committed (the two flags and the sitemap cursor), the live `job` of
each source, each `PUT` request in flight, each run, and the `scheduler_runs` rows with status
"running". Requests and runs hold the column as their session read it (`expire_on_commit=False`), and
write it back as a whole.

| Action | Code |
|---|---|
| `ReadSources` | a request selects its source, or all of them, and assigns the new column |
| `CommitSettings` | its commit: one UPDATE of each column that differs from the one read |
| `ApplyToJob` | `resume_job` / `pause_job` by both flags, or `reschedule_job`, one source at a time: a bulk request awaits a query in between |
| `Fire`, `Post` | the trigger of an active job, `POST /scheduler/run`; a stopped connector is refused |
| `Walk`, `Unlisted` | the walk from the resolved cursor, in a sitemap that may have shrunk; a sitemap that cannot be fetched |
| `FinishRun` | result, row and cursor in one commit, the column as the run read it at its start |
| `Raise`, `Lose` | an exception that `on_error` records, and a database error, after which it cannot |
| `Restart` | crash, then the start-up of `main.py`: reconciliation, registration of the jobs |

`reschedule_job` is external: in APScheduler 3.11 a paused job is one without a next run time, and
rescheduling computes a new one. `lost` and `excuse` are history variables. A page stands for the
unit of the cursor. Left out: the values of schedules, fetch ranges and fetch scopes (requests that
set them write the rest of the column back, which is what the model keeps), cron triggers, the
filtered fetch scope (it stores no cursor), and `POST /ingest`, which is a run without a row.
`pracuj.py:668` writes its own cursor back in the same way; PracujListing models it.

### PracujListing

State: the `listing` of each keyword (a sequence of groups, each the postings of one job in several
places), the source's `config` (cursor, fetch scope and fetch range), the `stored` postings, the open dead
letters (`letters` of postings, `alarm` of the source), and the scheduled and the requested run. A run keeps the
config as it read it, and everything it fetched, until `Close`. A fetch range is the set of the postings it
lets in: it names two dates, and a posting's date stays as it is (one without a date is taken as new).
`Content` is what `_find_content_duplicate` compares; the places of one job share it.

| Action | Code |
|---|---|
| `Begin` | `run`: reads `config_json`, resolves the fetch scope; a filtered run without a skill is refused |
| `ReadListing`, `ListingFails` | `_fetch_listing_page`: a page, the empty page at the end, or no answer |
| `FetchDetail` | `_fetch_offer_details`, one posting: its record, a block, or nothing |
| `EndPage` | the end of the loop of `_collect_offers`: short page, page limit, cap, or the next page |
| `Close` | the page loop over the slices of what was fetched, the dead letters and the cursor, in one commit |
| `Raise` | an exception or a crash; the job commits a prefix of the rows, the others nothing |
| `RetryDetailFetch`, `ResolveAlarm` | the retries of the dead letters |
| `Appears`, `Expires` | the board |
| `SetFetchScope`, `SetFetchRange` | a PATCH of the source |

`KeywordDone` is the return of `_collect_offers` for one keyword, with the merge of
`_enumerate_pracuj_offers`. `Seen`, `CaughtUp`, `Slices` and `Handled` say which of the fetched offers the
page loop of `runner.py` reaches before its already-seen streak stops it. An offer that is out of range or not
valid (not `Ingestible`) is skipped and leaves the streak alone; of the others, the first of a content that is
not in the table yet gets a row (`Created`, `Covered`), and each of the rest counts as already seen. `cut`, `read`,
`ended`, `failed`, `met` and `lost` are history variables. Left out: the browser and the rotation of
proxies (ProxyPool), parsing, the mapping of fields (a posting is valid or not), the dead letters of invalid
postings, what other boards bring while the model runs (`Elsewhere` is what they have brought before), and a date
without which a posting is judged by the clock, when the range ends in the future or lies in the past.

### ProfileTable and ProfileActivation

`ProfileTable` is the abstract specification: the profiles a client can see, and two requests that each take
effect at once, `Save` (which changes nobody's flag) and `Activate` (which takes the flag from all the others).
Its one reservation is `unseen`, described below.

`ProfileActivation` is the implementation: the committed `table`, the data that each profile's scores were
made from, and one transaction per request. A transaction keeps the row its session loaded and what it has
written, which is what it has locked. A statement sees what is committed when it starts and waits for
locks (`Free`); that is PostgreSQL's READ COMMITTED, and external, as is `BreakDeadlock`.

| Phase | Code |
|---|---|
| idle → insert or flush | `upsert_profile` finds its row, or none (`Begin`) |
| insert | the INSERT of the default row, whose name is unique (`Insert`) |
| flush | an UPDATE of the columns that differ from what was loaded (`Flush`) |
| activate → clear → set | the first UPDATE of `activate_profile` takes its snapshot (`StartClear`), changes one row after the other (`Clear`); the second one (`SetActive`) |
| refresh | `refresh`, and the DELETE of the scores (`Refresh`) |
| commit | the commit, and the answer (`Commit`) |

`Upload` (one INSERT), `Score` (the batch, one step for each profile) and `CutOff` (the client goes away, a
statement fails) are the other actions. `phantom`, `kept` and `raced` are history variables that name
the known exceptions: a row was added that an activation could not see, a profile was edited
while inactive, a batch committed between the DELETE and the COMMIT of an edit. The refinement maps the
table without its `status` to `rows`, and `phantom` to `unseen`.

## 3. Runs

| Run | Question | Bounds, and why they suffice |
|---|---|---|
| `scoring_two_callers` | mutual exclusion, progress, semaphore, one verdict per pair, every request answered | job + one request, 2 offers, two retriers that may also retry resolved rows, 1 crash: two callers are needed to queue and to take up an offer before a commit, two retriers to retry one row twice, two offers to exceed a semaphore of 1 |
| `scoring_one_caller` | what the selection returned stays unscored, no stale scores, the backlog drains | 2 profiles, 2 contents, limit 1 < 2 offers so that starving is possible, 1 edit, 1 crash |
| `scoring_commit_window` (violation) | "a second caller never sees an offer the first is still scoring" | two callers, no other trouble |
| `dlq_safe` | the job against a run and a manual retry of the same rows | one sitemap source and one posting, one user, one scheduled run, one restart or retry that raises |
| `dlq_live` | rows settle, ticks pass postings, with a stop, and a restart or a retry that raises | one source that pages, with one posting |
| `dlq_chain` (violation) | "a slow tick chains into the next" | one source row: TLC finds the job waiting for its own run for ever |
| `pool_shared` | bound, duplicates, reuse; everything ends, the pool refills | 2 fetchers + job, 3 proxies for a pool of 2, so that it overflows if the second check is missing; 2 attempts, budget 1 |
| `ingestion_gaps` | which events make a posting unreachable; when two runs can deadlock | 3 to 6 postings in pages of 2, one reposted pair, one invalid posting, one out of range, threshold 2, at most 3 pages, one failure or expiry, a job and a manual run of the same board: three postings published under a run are more than a page, so that circles of waits do occur |
| `ingestion_boards` | duplicates across boards; every posting arrives | 2 boards with one job in common, pages of 1, threshold 1, one failure or expiry |
| `source_control` | the job follows the flags, rows are closed, the walk goes round | one source, 2 `PUT`s at once, the job and a manual run, a sitemap of 2 pages walked one at a time, one failure or restart: two writers of the column are needed to lose a flag, two pages for the cursor to wrap |
| `pracuj_walk` | the cursor, the dead letters and the offers after any walk; every posting arrives | the job and one forced run, 5 postings (one job in two places, one that another board has brought, one invalid), pages of 1, at most 2 pages of a category with 2, two skills, one of which overlaps with the category, one failure, one change of the listing, the scope or the fetch range: the cursor wraps, the cap cuts the group, terms fail one by one |
| `profile_two_requests` | requests take effect at once, one active profile, no stale scores, every request ends | 2 overlapping requests, 4 in all, the default row and a draft, 2 contents, 1 cut-off: two requests and two rows are needed for a deadlock and for an activation to miss a row; four requests to load, activate elsewhere and save |

`CHECK_DEADLOCK FALSE` is set for the dead-letter, source and profile runs only: after the job has waited for
its own run, or once every connector is stopped or every request has been answered and no more
come (their number is bounded), there may really be no further step. The two violations are the findings
of `PROJECT.json`:

* **`scoring_commit_window`** — the lock ends before the commit, so a second batch scores the offers
  of the first again.
* **`dlq_chain`** — the job flushes `retry_count` (row lock), awaits a run, and the run's failure
  upsert waits for that lock. The job never ticks again until a restart.

`OnlyKnownDrift` gives the full list of what makes a job differ from its flags: two requests that
overlap (each writes the whole column and applies what it believes), a sitemap run that writes older
flags back, and an interval set while the job was paused. `EveryPageIsWalked` says that manual runs and
the job may read and write one cursor in any order without ever hiding a page.

`OnlyKnownGaps` gives the full list of what makes a posting unreachable: a later page failed, a run
raised after it stored rows, the page limit, a shift of the feed by the threshold or more (or an
expiry) during a run, and the cross-posted streak. Every other interleaving of two walks is
harmless. `EveryPostingArrives` is the liveness side of the same list.

Two runs of one board can wait for each other's rows: a run whose next page has been pushed above its
last one inserts newer postings after older ones. `DeadlockNeedsLongShift` says how much it takes: more than
`page_size` postings published under one of the runs. PostgreSQL then aborts one of them (`BreakDeadlock`), and
its rows are left for the next run.

`pracuj_walk` shows that the whole-column write-back and the overlap of two runs cost pages being read
twice, never a page skipped: a run's cursor follows from the pages it read itself
(`PagesAreNeverSkipped`). What is read and then left out is left out by the fetch range, by a limit (`cut`), by
being invalid, or by a page that failed without a block (`NothingReadIsDropped`, of filtered runs as
well); what gets no row of its own has one with its content. `OnlyOtherTermsFailQuietly`
names the one failure that nobody hears of.

`profile_two_requests` shows that saves and activations that overlap in any way, wait in circles and are
aborted are still as good as one after the other (`RequestsAreAtomic`), since an UPDATE writes only the
columns that differ and `activate_profile` locks every row that it sees. The proviso is a row that it does
not see: then two profiles can be active (`OneActiveProfile`).

## 4. Fairness

* **BatchScoring**: weak fairness of the job's request (interval trigger) and of every caller's next
  step. An LLM call ends, because `_score_offer` turns a timeout into a `MatcherError`.
* **DeadLetterRetry**: weak fairness of ticks and run steps (interval trigger, HTTP timeouts,
  `max_pages`); strong fairness of the steps that wait for a row lock, since PostgreSQL grants
  row locks in turn. `DetailRowsSettle` has premises (ticks return, connectors stay on) that are
  false after `dlq_chain` or after a user stops a connector. Restarts and retries that raise are bounded:
  a posting whose retry raises every time is never abandoned (section 6).
* **ProxyPool**: weak fairness of the job's tick and of every thread. `PoolRefills` assumes a source
  that is up: each proxy is found at last by a job that keeps scraping. The code shuffles the
  source's list, and this is its premise, not a part of the specification.
* **OfferIngestion**: weak fairness of a run's next step and of the next start of a scheduled job.
  Nothing is assumed of manual requests, failures, or boards. `Insert` waits for a run that itself goes on,
  or in a circle that the deadlock detector breaks (weak fairness of it), so weak fairness is enough.
* **SourceControl**: weak fairness of an active job's trigger, of a run's next step and of a request's
  next step. Failures, requests and restarts may or may not come; their number is bounded, so that
  `EveryPageIsWalked` speaks of sources whose runs raise finitely often. A page that raises every time
  does stop the walk, since the cursor of a run that raises stays.

* **PracujListing**: weak fairness of the scheduled job's next start (interval trigger) and of a run's next step:
  a fetch returns, with a page or without. Failures are bounded, and nothing is assumed of
  the retries, which are not needed for a posting to arrive or to have a dead letter.
* **ProfileActivation**: weak fairness of a request's next statement and of the deadlock detector.
  A lock is granted when its holder ends; a circle of waits stays until a member is aborted
  (`deadlock_timeout`). Nothing is assumed of new requests, batches or cut-offs.

## 5. Proofs

All theorems hold for every value of the constants that satisfies the named assumptions.

**`BatchScoringProofs`.** `IInv == TypeOK /\ LockInv /\ WorkInv`: releasing the lock is `Tail(queue)`,
which is typed and hands the lock on correctly only if the caller is at its head. From it follow
`MutualExclusion` and `StaleScoresComeLate`. `OneVerdict` and `NoCallIsWasted` need `VerdictInv` on top: a pair
that is not `contested` is in the hands of one batch or one retry at most, and has no score as long as it is.
The commit of whoever has it is then its only score. They hold for any number of callers and retriers; that a
pair can be contested is what `scoring_commit_window` shows. `CallInv` (calls are in flight only while
their caller scores, none when it begins, and never more than the semaphore lets in) gives
`BatchCallsBounded`, and together with `LockInv` `ProgressIsFaithful`.

**`DeadLetterRetryProofs`.** `TickSeesEveryFailure` and `BudgetRespected` are not inductive. `LockInv`
(no run has an uncommitted write of the row the job holds) keeps newer failures away. `CountInv`
(every copy of a `retry_count`, in the scan, in the job and in an upsert, is the committed one)
keeps the attempts right and rests on `LockInv`. `AttemptInv` ties the history of attempts to it: the
attempts at a row are its committed `retry_count`, and one more while the job is at work on it. So the guard
on a count from an old scan bounds the attempts themselves (`BudgetRespected`).

**`ProxyPoolProofs`.** Bound, uniqueness, and no-reuse are inductive together: an eviction removes
one occurrence, so only the absence of duplicates makes it complete.

**`OfferIngestionProofs`.** `IInv == TypeOK /\ LoneRuns /\ Unlike`: what a run has written, and the
posting it is about to insert, are unlike every row it sees, as long as it has met no other run; a
second run, whether on the same board or another, ends that. `LoneRunsNeverDuplicate` follows at the
commit. `WalksRarelyDeadlock` has an invariant of its own, `DInv`. `Above`: what a run would still insert
(`Fresh`) and is newer than one of its rows, or than a posting still on its page, lies before the offset it has
reached, moved by what was published since it began (`Reach`). `Descends`: as long as that is at most a
page, the next page begins below all of its rows, so it inserts older and older postings. Along a
circle of waits the numbers would then fall for ever; that they cannot is the library's theorem that strict
inclusion of finite sets is well-founded, since an induction of its own is out of the prover's reach.

**`SourceControlProofs`.** `DriftIsKnown` needs `DriftInv`: without an excuse, a request at work on a
source is alone on it, the column it writes for another purpose has the committed flags, what a
committed toggle is about to do follows them, and in every other stage the job already does. Bulk requests and
any number of sources are included, where the run has one source. `RowsFaithful` rests on
`OwnRow`: closing a row closes nobody else's.

**`OfferIngestionGapProofs`.** `OnlyKnownGaps` is inductive only with what each run knows of the walk it is on
(`Sound`, for the runs of a board without an excuse), on top of `DInv`. `Ahead`: a fresh posting below
something the run has met, and not on its page, lies beyond the next offset and below all of its
page, so it will still come. `Exhausted`: at the end of the feed there is none. `Counted`: the run
meets its own rows a second time at most as often as the feed has shifted under it. All it has met
lies before some offset f; the rows left to meet twice (`Again`) and f are together no more than the next
offset plus `shift`; and so are the streak, `Again` and f, as long as the streak holds only own rows. That
is a count of offsets: two listed postings never have the same one (`RankStrict`, `Window`). A streak of
`Threshold` offers therefore needs a shift of `Threshold` (which is an excuse), a content duplicate of another
board (an excuse, too), or a row that another run has committed, and below such a row nothing is missing
(`OnlyKnownGaps` itself). `Closing` is what is left at the commit.

**`PracujListingProofs`.** `IInv == TypeOK` with three facts of each run. `Ready`: what it holds in
each phase. `Walk`, of an unfiltered run: while it walks, it has one keyword, no failure, and has read every
page from its start to the one before `page`; on a page, that one too, and a short page is the end. `Kept`:
each posting in range that the run has met is invalid, failed without a block (`lost`), blocked, still to fetch,
fetched, in the table by its content (`Covered`), or dropped by a limit (`cut`). `PagesAreNeverSkipped` and
`OnlyOtherTermsFailQuietly` are what
`Walk` leaves at the close, and `NothingReadIsDropped` is what `Kept` leaves: the close stores or cuts what was
fetched (`RowsCover`: of the offers of one content the first gets the row) and opens a dead letter for what was
blocked. Two recursive functions of the library are reached
without an induction theorem: what `FlattenSeq` returns follows from a least counterexample, as `Nat`
is well-founded. Of
`ListedAssumption` the proof uses the type; that a listing shows a posting in one place is what makes
`Without` take all of it down.

**`ProfileActivationProofs`.** `IInv` is `TypeOK` with four parts. `Locks`: a row has one writer. `Own` and
`Shape`: what a request has written, in each phase, against the committed rows. `Sight`: an activation at
work has locked or still to change every row there is, and nobody is about to add one, unless
`phantom`. `Latest`: a complete activation holds every other active row, and there is only one such
activation. Hence its commit leaves one active row, which `OneActiveProfile` needs, and every commit is a
`Save` or an `Activate` of `ProfileTable` (`RequestsTakeEffectAtOnce`: all other steps stutter).
`ScoreInv` adds `Edit`: a request that has written new data for its row knows that they changed, and from its
refresh on there are no scores of that row, or it deletes them, or they are excused; with the scores of
the committed rows it is inductive and gives `StaleScoresAreKnown`.

Only model-checked: all liveness (out of the prover's reach). Every invariant and every action property of
the passing runs is stated by a theorem.

## 6. Observed divergences

Beyond the two findings, reading and modelling the code turned up places where a document says
something else. No run claims them.

* `dlq/service.py:36-38` calls a failed recording harmless; the exception it swallows (`:66`) leaves
  the PostgreSQL transaction aborted, so later statements fail or the commit rolls back in silence.
* `docs/architecture/matching.md:226-227` says that a batch never raises; `batch.py:172` raises a
  `KeyError` when an offer of the page is cleaned up between the two queries.
* `docs/architecture/profile.md:41`: exactly one profile is active. Nothing in the schema says so; an activation
  that begins while another request inserts the default row does not see that row, and both end up
  active (`profile_repo.py:29`; `phantom`).
* `profile_repo.py:82-84` says why scores are deleted. Editing an inactive profile keeps its
  scores, and activating it later with the same data does not delete them (`kept`); a batch
  that commits between the DELETE and the COMMIT of an edit leaves scores of the older data (`raced`).
* `docs/architecture/connectors/pracuj.md:90`: failures surface loudly. In a filtered run the first page of
  a skill can fail without a trace when another skill answers: `pracuj.py:441` merges
  `enumeration_ok` with `or`, and a failed first page is no mid-run failure.
* `pracuj.py:668` writes the whole `config_json` back as the run read it at its start: a fetch scope or range that
  a user sets during an unfiltered run is undone, and two runs set the cursor in the order they end.
* `docs/adr/0009-*.md:9`: a streak of already-seen offers means caught up. `persist.py:71-83` answers
  "not created" for an offer that another board has brought, and `runner.py:163` counts it, so a streak of
  cross-posted offers stops the walk above postings that were never stored (`excuse` of OfferIngestion).
* `CONTEXT.md:16`: Auto-Fetch governs whether the automatic trigger ever fires. `api/routes/scheduler.py:72` and `:91`
  reschedule a paused job, which resumes it against both flags until the next toggle or boot (`excuse` of
  SourceControl).
* `dlq/retry.py:173-175`: one row whose handler raises (for instance its connector is stopped,
  `ingestion/lifecycle.py:87`, or the fetch of its posting raises, `dlq/retry.py:79`) ends the tick for the rows
  behind it. Its attempt is rolled back with the rest, so a row that raises every time is never abandoned, and
  the rows behind it may never have their turn.
* ADR 0016 says a failed retry reopens its row; a retry whose run fails on a later page is `ok`
  (`runner.py:115-125`, `:188`) and is resolved over that failure (`retry.py:155`) unless the job holds
  the row.
* `docs/architecture/ingestion.md:606-608` and `:703-706`: the block tag describes the latest failure;
  the upsert keeps an older tag when a newer failure has none (`lifecycle.py:47`), and
  `last_status_code` may be that of an earlier attempt (`http.py:47`).
* `docs/architecture/ingestion.md:669-671`: nobody races the job on the row of a posting; a scheduled
  run can record the same posting, and waits on the row lock.
* `docs/architecture/ingestion.md:830-831`: a failed proxy is out of the pool; a top-up that verified
  it before the failure may admit it afterwards (`proxy_pool.py:129`).
* `docs/architecture/ingestion.md:357-359`: a run is never left "running"; `scheduler/service.py:106-109`
  does not roll back, so after a database error its UPDATE fails as well and the row stays until
  the next boot.
* `CONTEXT.md:28`: the two flags never override each other; a sitemap run writes back the whole
  `config_json` it read at its start (`sitemap_detail.py:215`, `pracuj.py:668`), flags included.
* ADR 0028 speaks of two rows of one job "until the next ingestion run's check"; no code collapses
  duplicates that are stored.

## 7. What is not modelled

Pure conversions (normalisation, deal-breakers, prompts, CV text, salary), the response schemas and
static registries, migrations and deployment: no state, and unit tests reach them. The SSE event
queues and the frontend hooks have state and are planned. The other boards' connectors map fields and
build URLs; their control is the template of OfferIngestion or the sitemap walk of SourceControl.
Parsing of the boards' answers is external: a page is read or it is not.
`PROJECT.json` gives every component's status.

## 8. Plan

Done, in this order, because scoring and dead letters hold the most concurrency: BatchScoring,
DeadLetterRetry, ProxyPool, OfferIngestion, SourceControl, PracujListing, and ProfileActivation with
its abstract specification ProfileTable, each with its runs and its first theorems.

Next:

1. **An abstract specification of scoring** (each pair has at most one verdict, given in one step)
   that BatchScoring with one caller implements; the same for the pool (a bounded set of proxies).
2. **Frontend**: a list hook whose answers arrive out of order (`useOffers`), polling of the status.
3. **Events**: the publication of scores after the commit, subscriber queues.
4. OfferIngestion: offers without a date, the `until` bound.
