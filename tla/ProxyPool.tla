----------------------------- MODULE ProxyPool -----------------------------
(***************************************************************************)
(* The pool of verified proxies that all connectors share                  *)
(* (app/connectors/proxy_pool.py), the proxy-rotating fetches that use it  *)
(* (_get in http.py, _fetch_detail_html in sitemap_detail.py,              *)
(* _fetch_html_with_proxy_rotation in pracuj.py), and the proxy_pool:topup *)
(* job.                                                                    *)
(*                                                                         *)
(* Each fetch and the job run in a thread of their own.  A `with           *)
(* self._lock` block is one step; scraping a proxy and requesting a page   *)
(* happen between steps, without the lock.                                 *)
(***************************************************************************)
EXTENDS Naturals, Sequences

CONSTANTS
    Proxies,      \* the addresses that the free proxy source lists
    Fetchers,     \* threads that fetch pages
    Job,          \* the thread of the proxy_pool:topup job (max_instances=1)
    Nothing,      \* no proxy
    TargetSize,   \* ProxyPool.target_size
    Budget,       \* max_attempts of a top-up; target_size * 4 in the code
    MaxAttempts   \* _MAX_PROXY_ATTEMPTS

ASSUME ThreadsAssumption == Job \notin Fetchers /\ Nothing \notin Proxies
ASSUME SizesAssumption == /\ TargetSize \in Nat \ {0}
                          /\ Budget \in Nat \ {0}
                          /\ MaxAttempts \in Nat \ {0}

Threads == Fetchers \cup {Job}

VARIABLES
    good,     \* ProxyPool._good, a list
    thread    \* where each thread is, and its local variables

vars == <<good, thread>>

\* `proxy` is the candidate of a top-up or the proxy of a request; `failed`
\* (the proxies that failed this fetch and were not admitted since) is history.
Idle == [at |-> "idle", tries |-> 0, scrapes |-> 0, proxy |-> Nothing, failed |-> {}]

Init ==
    /\ good = <<>>
    /\ thread = [t \in Threads |-> Idle]

InPool(p) == \E i \in 1..Len(good) : good[i] = p

\* list.remove: the first occurrence goes.
Without(s, p) ==
    LET first == CHOOSE i \in 1..Len(s) : s[i] = p /\ \A j \in 1..(i - 1) : s[j] # p
    IN  [j \in 1..(Len(s) - 1) |-> IF j < first THEN s[j] ELSE s[j + 1]]

-----------------------------------------------------------------------------
(* top_up: called by the job, and by get_proxy when the pool is empty *)

JobTicks ==
    /\ thread[Job].at = "idle"
    /\ thread' = [thread EXCEPT ![Job].at = "checking"]
    /\ UNCHANGED good

\* Fault: one good proxy is enough.
FullIfNotEmpty == good # <<>>

Full == Len(good) >= TargetSize

TopUpGoesOn(t) ==
    /\ thread[t].at = "checking" /\ thread[t].scrapes < Budget /\ ~Full
    /\ thread' = [thread EXCEPT ![t].at = "scraping", ![t].scrapes = @ + 1]
    /\ UNCHANGED good

TopUpEnds(t) ==
    /\ thread[t].at = "checking" /\ (thread[t].scrapes = Budget \/ Full)
    /\ thread' = [thread EXCEPT
           ![t] = IF t = Job THEN Idle ELSE [@ EXCEPT !.at = "asking again", !.scrapes = 0]]
    /\ UNCHANGED good

\* Fault: an attempt that finds nothing is not counted.
ScrapeFailsUncounted(t) ==
    /\ thread[t].at = "scraping"
    /\ thread' = [thread EXCEPT ![t].at = "checking", ![t].scrapes = @ - 1]
    /\ UNCHANGED good

\* FreeProxyException: nothing usable right now.
ScrapeFails(t) ==
    /\ thread[t].at = "scraping"
    /\ thread' = [thread EXCEPT ![t].at = "checking"]
    /\ UNCHANGED good

ScrapeFinds(t, p) ==
    /\ thread[t].at = "scraping"
    /\ thread' = [thread EXCEPT ![t].at = "found", ![t].proxy = p]
    /\ UNCHANGED good

\* Fault: the size is not checked again after the scrape.
FitsIfNew(p) == ~InPool(p)
\* Fault: the candidate may be in the pool already.
FitsTwice(p) == ~Full

Fits(p) == ~InPool(p) /\ Len(good) < TargetSize

Admit(t) ==
    LET p == thread[t].proxy IN
    /\ thread[t].at = "found"
    /\ good' = IF Fits(p) THEN Append(good, p) ELSE good
    /\ thread' = [u \in Threads |->
           [thread[u] EXCEPT !.at = IF u = t THEN "checking" ELSE @,
                             !.proxy = IF u = t THEN Nothing ELSE @,
                             !.failed = IF Fits(p) THEN @ \ {p} ELSE @]]

-----------------------------------------------------------------------------
(* A fetch: up to MaxAttempts attempts, each with a proxy of get_proxy *)

Begin(t) ==
    /\ thread[t].at = "idle"
    /\ thread' = [thread EXCEPT ![t].at = "asking", ![t].tries = 1]
    /\ UNCHANGED good

\* get_proxy: a random member of the pool ...
Draw(t) ==
    /\ thread[t].at \in {"asking", "asking again"}
    /\ \E p \in Proxies :
        /\ InPool(p)
        /\ thread' = [thread EXCEPT ![t].at = "using", ![t].proxy = p]
    /\ UNCHANGED good

\* ... or of the pool that its own top_up has left.
ColdStart(t) ==
    /\ thread[t].at = "asking" /\ good = <<>>
    /\ thread' = [thread EXCEPT ![t].at = "checking"]
    /\ UNCHANGED good

\* Fault: one attempt too many.
FailedLate(r) ==
    [r EXCEPT !.at = IF r.tries <= MaxAttempts THEN "asking" ELSE "ended",
              !.tries = IF r.tries <= MaxAttempts THEN r.tries + 1 ELSE r.tries,
              !.proxy = Nothing]

\* The thread after an attempt that failed.
Failed(r) ==
    [r EXCEPT !.at = IF r.tries < MaxAttempts THEN "asking" ELSE "ended",
              !.tries = IF r.tries < MaxAttempts THEN r.tries + 1 ELSE r.tries,
              !.proxy = Nothing]

NoProxy(t) ==
    /\ thread[t].at = "asking again" /\ good = <<>>
    /\ thread' = [thread EXCEPT ![t] = Failed(thread[t])]
    /\ UNCHANGED good

RequestSucceeds(t) ==
    /\ thread[t].at = "using"
    /\ thread' = [thread EXCEPT ![t] = Idle]
    /\ UNCHANGED good

\* An error, a timeout, or a status that counts as one.
RequestFails(t) ==
    /\ thread[t].at = "using"
    /\ thread' = [thread EXCEPT ![t].at = "reporting"]
    /\ UNCHANGED good

\* Fault: the last proxy of the pool is kept.
EvictButOne(p) == IF InPool(p) /\ Len(good) > 1 THEN Without(good, p) ELSE good

Evict(p) == IF InPool(p) THEN Without(good, p) ELSE good

\* report_failure, and the loop goes on.
Report(t) ==
    LET p == thread[t].proxy IN
    /\ thread[t].at = "reporting"
    /\ good' = Evict(p)
    /\ thread' = [thread EXCEPT ![t] = [Failed(thread[t]) EXCEPT !.failed = thread[t].failed \cup {p}]]

\* BlockedFetchError or None, as the last status was.
GivesUp(t) ==
    /\ thread[t].at = "ended"
    /\ thread' = [thread EXCEPT ![t] = Idle]
    /\ UNCHANGED good

-----------------------------------------------------------------------------

TopUpStep(t) ==
    \/ TopUpGoesOn(t) \/ TopUpEnds(t) \/ ScrapeFails(t) \/ Admit(t)
    \/ \E p \in Proxies : ScrapeFinds(t, p)

FetchStep(t) ==
    \/ Draw(t) \/ ColdStart(t) \/ NoProxy(t)
    \/ RequestSucceeds(t) \/ RequestFails(t) \/ Report(t) \/ GivesUp(t)

Next ==
    \/ JobTicks
    \/ \E t \in Fetchers : Begin(t) \/ FetchStep(t)
    \/ \E t \in Threads : TopUpStep(t)

Spec == Init /\ [][Next]_vars

\* The interval trigger fires; scrapes and requests have timeouts and the
\* lock is held for no longer than a list operation.
Fairness ==
    /\ WF_vars(JobTicks)
    /\ \A t \in Fetchers : WF_vars(FetchStep(t))
    /\ \A t \in Threads : WF_vars(TopUpStep(t))

FairSpec == Spec /\ Fairness

\* The source is up: a job that goes on scraping finds every proxy at last
\* (FreeProxy shuffles its list, rand=True).
SourceUp == \A p \in Proxies : SF_vars(ScrapeFinds(Job, p))

-----------------------------------------------------------------------------
(* Properties *)

ThreadRecord ==
    [at : {"idle", "checking", "scraping", "found", "asking", "asking again", "using",
           "reporting", "ended"},
     tries : 0..MaxAttempts, scrapes : 0..Budget, proxy : Proxies \cup {Nothing},
     failed : SUBSET Proxies]

\* The state is well formed: a thread has a proxy exactly while it admits,
\* uses or reports it.
TypeOK ==
    /\ good \in Seq(Proxies)
    /\ thread \in [Threads -> ThreadRecord]
    /\ \A t \in Threads :
        thread[t].at \in {"found", "using", "reporting"} <=> thread[t].proxy # Nothing

\* However many top-ups run at once, each with a check before and one after
\* its scrape, the pool never holds more than target_size proxies ...
PoolBounded == Len(good) <= TargetSize

\* ... and none twice, so that one eviction is enough (list.remove takes the
\* first occurrence only).
NoDuplicates == \A i, j \in 1..Len(good) : good[i] = good[j] => i = j

\* A proxy that failed an attempt of a fetch is not in the pool, hence not
\* handed to a later attempt, unless a top-up has admitted it again.
FailedProxyNotReused ==
    \A t \in Fetchers, p \in Proxies : p \in thread[t].failed => ~InPool(p)

\* Every fetch and every top-up ends, even if the source never has a proxy
\* (max_attempts, proxy_pool.py:120-121).
EverythingEnds == \A t \in Threads : thread[t].at # "idle" ~> thread[t].at = "idle"

\* docs/architecture/ingestion.md:865-866, the job "lets the pool self-heal
\* from failure eviction over time": with a source that is up, once no more
\* failures are reported the pool becomes full and stays full.
PoolRefills ==
    SourceUp /\ <>[](\A t \in Fetchers : thread[t].at # "reporting")
        => <>[](Len(good) = TargetSize)
=============================================================================
