--------------------------- MODULE PracujListing ---------------------------
(***************************************************************************)
(* The walk of the Pracuj.pl connector (app/connectors/pracuj.py) over the *)
(* search listings of the board.                                           *)
(*                                                                         *)
(* An unfiltered run reads the listing of the category from the page that  *)
(* the source's config_json remembers, and writes the next page back; a    *)
(* filtered run reads one listing per starred skill, each from page 1.     *)
(* Every posting found is fetched from its own page at once, up to a cap   *)
(* per listing; what was fetched then goes through the page loop           *)
(* (app/ingestion/runner.py) in slices, in one transaction: it skips what  *)
(* is outside the source's fetch range, and an offer whose content is in   *)
(* the offers table gets no row of its own (app/ingestion/persist.py).     *)
(*                                                                         *)
(* The listing is a sequence of groups, each the sequence of the postings  *)
(* of one job in several places.  Its order is not that of publication,    *)
(* and it changes while it is read.                                        *)
(***************************************************************************)
EXTENDS Naturals, FiniteSets, SequencesExt

CONSTANTS
    Postings,     \* the postings of the board
    Category,     \* config_json.category_filter
    Terms,        \* the names of skills that somebody may star
    Starred,      \* the lists of starred skills a run may meet; <<>>: none, or no profile
    Listed,       \* the listing of each keyword, at first
    Content,      \* the company, title and salary of each posting
    Elsewhere,    \* the contents that other boards have brought
    FirstRange,   \* the postings that the fetch_range of a new source lets in
    Ranges,       \* those that each fetch_range users set lets in
    Growing,      \* bound: the keywords under which new jobs are published
    Unreadable,   \* postings that fail validation
    PageSize,     \* config_json.page_size
    MaxPages,     \* config_json.max_pages
    Threshold,    \* config_json.already_seen_stop_threshold
    ForceRefresh, \* the values of force_refresh that users send
    MaxTrouble,   \* bound: the number of fetches that fail and runs that raise
    MaxChanges,   \* bound: what the board's employers and the settings page change
    MaxRequests   \* bound: the number of runs that users request

Keywords == Terms \cup {Category}

\* The scheduled job (max_instances = 1), and a request of a user.
Runs == {"job", "user"}

ASSUME KeywordsAssumption == Category \notin Terms /\ Starred \subseteq Seq(Terms)
                              /\ Growing \subseteq Keywords
                              /\ ForceRefresh \subseteq BOOLEAN
\* A listing shows a posting in one place, as the board's links are unique.
ASSUME ListedAssumption == /\ Listed \in [Keywords -> Seq(Seq(Postings))]
                           /\ \A k \in Keywords : IsInjective(FlattenSeq(Listed[k]))
\* A fetch_range names two dates: it lets in the same postings at any time.
ASSUME RangesAssumption == FirstRange \subseteq Postings /\ Ranges \subseteq SUBSET Postings
ASSUME LimitsAssumption == /\ {PageSize, MaxPages, Threshold} \subseteq Nat \ {0}
                           /\ {MaxTrouble, MaxChanges, MaxRequests} \subseteq Nat

VARIABLES
    listing,  \* the groups that each keyword's search shows
    config,   \* the source's config_json: its cursor, fetch_scope and fetch_range
    stored,   \* the postings in the offers table
    letters,  \* the open dead letters of blocked posting pages
    alarm,    \* whether the source's own dead letter is open
    run,      \* the state of each run
    cut,      \* history: postings that a limit has left out when a run met them
    trouble, changes, requests

vars == <<listing, config, stored, letters, alarm, run, cut, trouble, changes, requests>>

\* A config_json without a cursor has cursor 0.
Configs == [cursor : Nat, filtered : BOOLEAN, range : SUBSET Postings]

Idle == [phase |-> "idle", forced |-> FALSE,
         config |-> [cursor |-> 0, filtered |-> FALSE, range |-> {}],
         terms |-> <<>>, start |-> 1, page |-> 1, todo |-> <<>>, short |-> FALSE, got |-> 0,
         offers |-> <<>>, blocked |-> {}, ok |-> FALSE, mid |-> FALSE, next |-> 1,
         read |-> {}, ended |-> FALSE, failed |-> FALSE, met |-> {}, lost |-> {}]

RunStates ==
    [phase : {"idle", "listing", "details", "closing"},
     forced : BOOLEAN,           \* force_refresh
     config : Configs,           \* config, as the run read it
     terms : Seq(Keywords),      \* the keywords still to be read
     start : Nat, page : Nat,    \* start_page and listing_page_num
     todo : Seq(Postings),       \* what is left of candidate_urls
     short : BOOLEAN,            \* the page has less than page_size groups
     got : Nat,                  \* len(collected)
     offers : Seq(Postings),     \* what was fetched, of all the keywords
     blocked : SUBSET Postings,
     ok : BOOLEAN, mid : BOOLEAN, \* enumeration_ok, mid_run_failure
     next : Nat,                 \* next_start_page
     read : SUBSET Nat,          \* history: the pages read
     ended : BOOLEAN,            \* history: an empty or short page was read
     failed : BOOLEAN,           \* history: a page could not be fetched
     met : SUBSET Postings,      \* history: the postings on the pages read
     lost : SUBSET Postings]     \* history: of those, the fetches that failed

Init ==
    /\ listing = Listed
    /\ config = [cursor |-> 0, filtered |-> FALSE, range |-> FirstRange]
    /\ stored = {} /\ letters = {} /\ cut = {}
    /\ alarm = FALSE
    /\ run = [r \in Runs |-> Idle]
    /\ trouble = 0 /\ changes = 0 /\ requests = 0

-----------------------------------------------------------------------------
(* Helpers *)

Unfiltered(r) == ~run[r].config.filtered

TotalCap == PageSize * MaxPages

\* The postings whose content is in the offers table: persist_offer finds a row
\* for them, their own or that of the same job in another place or board.
Covered == {p \in Postings : Content[p] \in Elsewhere
                              \/ \E q \in stored : Content[q] = Content[p]}

\* Fault: the pages are numbered from 0.
PageOfZero(k, n) ==
    SubSeq(listing[k], n * PageSize + 1, Min({(n + 1) * PageSize, Len(listing[k])}))

\* The groups on a page of a keyword's listing: ?pn={page}&rop={page_size}.
PageOf(k, n) ==
    SubSeq(listing[k], (n - 1) * PageSize + 1, Min({n * PageSize, Len(listing[k])}))

Goto(r, s) == run' = [run EXCEPT ![r] = s]

\* Fault: each keyword starts with an empty list of blocked postings.
KeywordDoneForgets(s, ok, mid, next) ==
    [s EXCEPT !.terms = Tail(@), !.phase = IF Len(s.terms) = 1 THEN "closing" ELSE "listing",
              !.ok = @ \/ ok, !.mid = @ \/ mid, !.next = next, !.blocked = {},
              !.start = 1, !.page = 1, !.todo = <<>>, !.got = 0]

\* _collect_offers returns for the keyword that s is at: the run goes on with
\* the first page of the next one.
KeywordDone(s, ok, mid, next) ==
    [s EXCEPT !.terms = Tail(@), !.phase = IF Len(s.terms) = 1 THEN "closing" ELSE "listing",
              !.ok = @ \/ ok, !.mid = @ \/ mid, !.next = next,
              !.start = 1, !.page = 1, !.todo = <<>>, !.got = 0]

Trouble == trouble < MaxTrouble /\ trouble' = trouble + 1
Change == changes < MaxChanges /\ changes' = changes + 1

-----------------------------------------------------------------------------
(* The board, the user and the retry job *)

\* A job is published: its group takes a place in the listing of a keyword.
Appears(k, i, p) ==
    /\ Change
    /\ \A other \in Keywords : p \notin Range(FlattenSeq(listing[other]))
    /\ listing' = [listing EXCEPT ![k] = InsertAt(@, i, <<p>>)]
    /\ UNCHANGED <<config, stored, letters, alarm, run, cut, trouble, requests>>

\* Posting p leaves its group, and a group that is left empty the listing.
Without(groups, p) ==
    LET shows == {i \in DOMAIN groups : p \in Range(groups[i])}
        at == Min(shows)
    IN  IF shows = {} THEN groups
        ELSE IF groups[at] = <<p>> THEN RemoveAt(groups, at)
        ELSE [groups EXCEPT ![at] = RemoveFirst(@, p)]

\* A posting is taken down, and no listing shows it again.
Expires(p) ==
    /\ Change
    /\ \E k \in Keywords : p \in Range(FlattenSeq(listing[k]))
    /\ listing' = [k \in Keywords |-> Without(listing[k], p)]
    /\ UNCHANGED <<config, stored, letters, alarm, run, cut, trouble, requests>>

\* PATCH of the source: fetch_scope is switched.
SetFetchScope ==
    /\ Change
    /\ config' = [config EXCEPT !.filtered = ~@]
    /\ UNCHANGED <<listing, stored, letters, alarm, run, cut, trouble, requests>>

\* PATCH of the source: fetch_range is set.
SetFetchRange ==
    /\ Change
    /\ \E range \in Ranges \ {config.range} : config' = [config EXCEPT !.range = range]
    /\ UNCHANGED <<listing, stored, letters, alarm, run, cut, trouble, requests>>

\* Fault: the retried posting is not validated.
RetryUnchecked(p) ==
    /\ p \in letters
    /\ letters' = letters \ {p}
    /\ stored' = stored \cup ({p} \ Covered)
    /\ UNCHANGED <<listing, config, alarm, run, cut, trouble, changes, requests>>

\* retry_detail_fetch, for the retry job or a user: a blocked posting is fetched,
\* and stored if it is valid, whatever the fetch range; otherwise its dead letter
\* stays open.
RetryDetailFetch(p) ==
    /\ p \in letters \ Unreadable
    /\ letters' = letters \ {p}
    /\ stored' = stored \cup ({p} \ Covered)
    /\ UNCHANGED <<listing, config, alarm, run, cut, trouble, changes, requests>>

\* perform_retry of the source's own dead letter, after a run that succeeded.
ResolveAlarm ==
    /\ Change
    /\ alarm
    /\ alarm' = FALSE
    /\ UNCHANGED <<listing, config, stored, letters, run, cut, trouble, requests>>

-----------------------------------------------------------------------------
(* A run *)

\* The listing_page_cursor of config_json.
StartPage == IF config.filtered THEN 1 ELSE Max({config.cursor, 1})

\* resolve_fetch_scope_terms: the starred skills of the active profile.
ResolvedTerms(skills) == IF config.filtered THEN skills ELSE <<Category>>

\* run reads config_json and resolves the fetch scope: a filtered run without
\* a starred skill is refused at once, and record_run_fetch_failure says so.
Begin(r, forced, skills) ==
    LET terms == ResolvedTerms(skills)
    IN  /\ run[r].phase = "idle"
        /\ IF terms = <<>>
           THEN alarm' = TRUE /\ UNCHANGED run
           ELSE /\ Goto(r, [Idle EXCEPT !.phase = "listing", !.forced = forced,
                                        !.config = config, !.terms = terms,
                                        !.start = StartPage, !.page = StartPage])
                /\ UNCHANGED alarm
        /\ UNCHANGED <<listing, config, stored, letters, cut, trouble, changes>>

\* _fetch_listing_page answers: an empty page is the end of the listing.
ReadListing(r) ==
    LET s == run[r]
        groups == PageOf(Head(s.terms), s.page)
        urls == FlattenSeq(groups)
        read == [s EXCEPT !.read = @ \cup {s.page}, !.met = @ \cup Range(urls),
                          !.ended = @ \/ Len(groups) < PageSize]
    IN  /\ s.phase = "listing"
        /\ Goto(r, IF groups = <<>> THEN KeywordDone(read, TRUE, FALSE, 1)
                   ELSE [read EXCEPT !.phase = "details", !.todo = urls,
                                     !.short = Len(groups) < PageSize])
        /\ UNCHANGED <<listing, config, stored, letters, alarm, cut, trouble, changes, requests>>

\* Fault: a page that fails is skipped.
ListingFailsOn(r) ==
    LET s == [run[r] EXCEPT !.failed = TRUE]
        first == s.page = s.start
    IN  /\ s.phase = "listing"
        /\ Trouble
        /\ Goto(r, KeywordDone(s, ~first, ~first, s.page + 1))
        /\ UNCHANGED <<listing, config, stored, letters, alarm, cut, changes, requests>>

\* Fault: a later page that fails counts as the end of the listing.
ListingEnds(r) ==
    LET s == [run[r] EXCEPT !.failed = TRUE]
        first == s.page = s.start
    IN  /\ s.phase = "listing"
        /\ Trouble
        /\ Goto(r, KeywordDone(s, ~first, FALSE, s.page))
        /\ UNCHANGED <<listing, config, stored, letters, alarm, cut, changes, requests>>

\* _fetch_listing_page has no answer, after three proxies: the first page of a
\* keyword fails its enumeration; a later one leaves what it has, to be read
\* again next time.
ListingFails(r) ==
    LET s == [run[r] EXCEPT !.failed = TRUE]
        first == s.page = s.start
    IN  /\ s.phase = "listing"
        /\ Trouble
        /\ Goto(r, KeywordDone(s, ~first, ~first, s.page))
        /\ UNCHANGED <<listing, config, stored, letters, alarm, cut, changes, requests>>

\* What the fetch of a posting's page comes to: its record; a 403 or 429 from
\* the last proxy that was tried; or no page, a challenge or no record in it.
FetchOutcomes == {"record", "blocked", "nothing"}

\* _fetch_offer_details, the next URL: its record is collected, or it is
\* skipped, and kept for a dead letter if it was blocked.
FetchDetail(r, outcome) ==
    LET s == run[r]
        p == Head(s.todo)
        rest == [s EXCEPT !.todo = Tail(@)]
    IN  /\ s.phase = "details" /\ s.todo # <<>> /\ s.got < TotalCap
        /\ Goto(r, CASE outcome = "record" -> [rest EXCEPT !.got = @ + 1, !.offers = Append(@, p)]
                     [] outcome = "blocked" -> [rest EXCEPT !.blocked = @ \cup {p}]
                     [] outcome = "nothing" -> [rest EXCEPT !.lost = @ \cup {p}])
        /\ IF outcome = "record" THEN UNCHANGED trouble ELSE Trouble
        /\ UNCHANGED <<listing, config, stored, letters, alarm, cut, changes, requests>>

\* The page is done, or the cap is reached and what is left of it is dropped:
\* the loop of _collect_offers goes on, or returns the page to resume from.
EndPage(r) ==
    LET s == run[r]
        last == s.page - s.start + 1 = MaxPages \/ s.got >= TotalCap
    IN  /\ s.phase = "details" /\ (s.todo = <<>> \/ s.got >= TotalCap)
        /\ Goto(r, CASE s.short -> KeywordDone(s, TRUE, FALSE, 1)
                     [] ~s.short /\ last -> KeywordDone(s, TRUE, FALSE, s.page + 1)
                     [] OTHER -> [s EXCEPT !.phase = "listing", !.page = @ + 1])
        /\ cut' = cut \cup ((Range(s.todo) \cap s.config.range) \ Covered)
        /\ UNCHANGED <<listing, config, stored, letters, alarm, trouble, changes, requests>>

\* The page loop skips an offer outside the fetch range, and ingest_offer an
\* invalid one.
Ingestible(r) == run[r].config.range \ Unreadable

\* The i-th offer of a run gets a row: no earlier one has its content.
Created(r, i) ==
    LET offers == run[r].offers
    IN  /\ offers[i] \in Ingestible(r) \ Covered
        /\ \A j \in 1..(i - 1) :
              offers[j] \in Ingestible(r) => Content[offers[j]] # Content[offers[i]]

\* The rows created for the first n offers of a run.
Rows(r, n) == {run[r].offers[i] : i \in {j \in 1..n : Created(r, j)}}

\* consecutive_already_seen after the first n offers of a run: an offer that
\* is not ingested neither counts nor ends the streak.
Seen(r, n) ==
    Cardinality({i \in 1..n : /\ run[r].offers[i] \in Ingestible(r)
                              /\ \A j \in i..n : ~Created(r, j)})

\* Whether the page loop, not forced, stops for a streak at the end of a slice.
CaughtUp(r, c) == /\ ~run[r].forced
                  /\ c * PageSize < Len(run[r].offers)
                  /\ Seen(r, c * PageSize) >= Threshold

\* The slices that run_paginated_ingestion handles.
Slices(r) == Min({c \in 1..MaxPages : c = MaxPages \/ c * PageSize >= Len(run[r].offers)
                                                   \/ CaughtUp(r, c)})

\* The number of offers that the page loop goes through.
Handled(r) == Min({Slices(r) * PageSize, Len(run[r].offers)})

\* run returns and run_with_lifecycle commits: the rows, the dead letters of
\* the blocked postings, the source's own one after a failure, and, unfiltered,
\* the config_json the run began with, with its new cursor.
Close(r) ==
    LET s == run[r]
        left == {s.offers[i] : i \in (Handled(r) + 1)..Len(s.offers)} \cap s.config.range
    IN  /\ s.phase = "closing"
        /\ Goto(r, Idle)
        /\ alarm' = (alarm \/ ~s.ok \/ s.mid)
        /\ IF s.ok
           THEN /\ stored' = stored \cup Rows(r, Handled(r))
                /\ letters' = letters \cup s.blocked
                /\ cut' = cut \cup (left \ Covered)
                /\ config' = IF Unfiltered(r) /\ s.next # s.config.cursor
                             THEN [s.config EXCEPT !.cursor = s.next] ELSE config
           ELSE UNCHANGED <<stored, letters, cut, config>>
        /\ UNCHANGED <<listing, trouble, changes, requests>>

\* Playwright or a statement raises, or the process dies.  The job commits the
\* rows and the failure that were written before, the others roll back.
Raise(r) ==
    /\ run[r].phase # "idle"
    /\ Trouble
    /\ Goto(r, Idle)
    /\ \/ UNCHANGED <<stored, alarm>>
       \/ /\ run[r].phase = "closing" /\ run[r].ok /\ ~run[r].forced
          /\ \E n \in 0..Handled(r) : stored' = stored \cup Rows(r, n)
          /\ alarm' = (alarm \/ run[r].mid)
    /\ UNCHANGED <<listing, config, letters, cut, changes, requests>>

-----------------------------------------------------------------------------
(* Specification *)

Step(r) ==
    \/ ReadListing(r) \/ EndPage(r) \/ Close(r)
    \/ \E outcome \in FetchOutcomes : FetchDetail(r, outcome)

\* The interval trigger; a user's request, through one of the two POST routes.
BeginJob == \E skills \in Starred : Begin("job", FALSE, skills) /\ UNCHANGED requests
BeginUser ==
    /\ requests < MaxRequests
    /\ requests' = requests + 1
    /\ \E skills \in Starred : \E forced \in ForceRefresh : Begin("user", forced, skills)

Next ==
    \/ BeginJob \/ BeginUser
    \/ \E r \in Runs : Step(r) \/ ListingFails(r) \/ Raise(r)
    \/ \E k \in Growing : \E i \in 1..(Len(listing[k]) + 1) : \E p \in Postings : Appears(k, i, p)
    \/ \E p \in Postings : Expires(p) \/ RetryDetailFetch(p)
    \/ SetFetchScope \/ SetFetchRange \/ ResolveAlarm

Spec == Init /\ [][Next]_vars

\* Pages answer in the end, or the fetch times out, and the interval trigger
\* starts the next scheduled run.
Fairness == WF_vars(BeginJob) /\ \A r \in Runs : WF_vars(Step(r))

FairSpec == Spec /\ Fairness

-----------------------------------------------------------------------------
(* Properties *)

TypeOK ==
    /\ listing \in [Keywords -> Seq(Seq(Postings))]
    /\ config \in Configs
    /\ stored \subseteq Postings \ Unreadable
    /\ letters \subseteq Postings
    /\ alarm \in BOOLEAN
    /\ run \in [Runs -> RunStates]
    /\ cut \subseteq Postings
    /\ trouble \in 0..MaxTrouble /\ changes \in 0..MaxChanges /\ requests \in 0..MaxRequests

\* _collect_offers: the page to resume from follows the pages the run has
\* read, one that failed is not skipped, and only the end of the listing sends
\* the next run back to page 1.
PagesAreNeverSkipped ==
    \A r \in Runs : run[r].phase = "closing" /\ run[r].ok /\ Unfiltered(r) =>
        \/ run[r].next = 1 /\ run[r].ended
        \/ /\ run[r].next > Max({run[r].config.cursor, 1})
           /\ Max({run[r].config.cursor, 1})..(run[r].next - 1) \subseteq run[r].read

\* A run that closes, over one listing or several, has seen to each posting on
\* the pages it has read that is in its fetch range: its content is in the
\* offers table or it has a dead letter, unless it is not valid, its own page
\* failed without being blocked, or a limit (the cap of a listing, the streak
\* of the page loop, its number of slices) left it out.
NothingReadIsDropped ==
    [][\A r \in Runs : Close(r) =>
           (run[r].met \cap run[r].config.range) \ (Unreadable \cup run[r].lost)
               \subseteq Covered' \cup letters' \cup cut']_vars

\* docs/architecture/connectors/pracuj.md: failures surface loudly.  A listing
\* page that failed leaves the source's dead letter open when its run ends, but
\* for the first page of a skill in a filtered run in which another one
\* answered, whose failure is dropped.
OnlyOtherTermsFailQuietly ==
    [][\A r \in Runs : Close(r) /\ run[r].failed /\ ~alarm' =>
           ~Unfiltered(r) /\ run[r].ok /\ ~run[r].mid]_vars

\* The content of a posting of the category is in the offers table, or it has a
\* dead letter, sooner or later, unless it is taken down, the scope is filtered,
\* the fetch range keeps it out, or a limit leaves it out.
EveryPostingArrives ==
    \A p \in Postings \ Unreadable :
        p \in Range(FlattenSeq(listing[Category]))
            ~> \/ p \in Covered \cup letters
               \/ p \notin Range(FlattenSeq(listing[Category]))
               \/ config.filtered \/ p \notin config.range
               \/ p \in cut
=============================================================================
