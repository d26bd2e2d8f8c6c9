--------------------------- MODULE OfferIngestion ---------------------------
(***************************************************************************)
(* Ingestion of the postings of several job boards into the offers table:  *)
(* the page loop (app/ingestion/runner.py), the two duplicate checks       *)
(* (app/ingestion/persist.py), and the transaction around them             *)
(* (app/ingestion/lifecycle.py), as run by each source's scheduled job, by *)
(* POST /scheduler/run and by POST /ingest.                                *)
(*                                                                         *)
(* A board lists its postings newest first and is read by offset, so a     *)
(* posting that appears or expires between two pages shifts the later      *)
(* ones.  A run is one transaction: its rows become visible to the other   *)
(* runs when it commits, but an INSERT of a dedup_hash that another run    *)
(* has inserted and not yet committed waits for that run to end.           *)
(***************************************************************************)
EXTENDS Naturals, FiniteSets

CONSTANTS
    Boards,       \* the sources, each with its scheduled job
    Users,        \* the requests of the two POST routes that may be in flight
    Initially,    \* the number of postings a board starts with
    MaxPosting,   \* bound: the number of postings a board ever has
    MaxTrouble,   \* bound: the number of failures and of postings taken down
    Unreadable,   \* postings that fail validation
    Content,      \* company, title and salary of a posting
    Since,        \* fetch_range.since: older postings are out of range
    PageSize,     \* config_json.page_size
    MaxPages,     \* config_json.max_pages
    Threshold     \* config_json.already_seen_stop_threshold

\* A posting is a board and a number; a greater number is a newer posting.
Numbers == 1..MaxPosting
Postings == Boards \X Numbers

\* The scheduled job of a board is one run: max_instances = 1.
Runs == Boards \cup Users

ASSUME BoardsAssumption == Boards # {} /\ IsFiniteSet(Boards) /\ Boards \cap Users = {}
ASSUME PostingsAssumption == /\ MaxPosting \in Nat
                             /\ Initially \in 0..MaxPosting
                             /\ Unreadable \subseteq Postings
ASSUME LimitsAssumption == /\ {PageSize, MaxPages, Threshold} \subseteq Nat \ {0}
                           /\ {MaxTrouble, Since} \subseteq Nat

VARIABLES
    feed,      \* what each board lists
    published, \* the number of postings each board has ever had
    offers,    \* offers rows, by posting: dedup_hash is that of its URL
    run,       \* the state of each run
    excuse,    \* history: why a board may have a posting that no run reaches
    apart,     \* history: the runs in flight that have met no other run
    trouble

vars == <<feed, published, offers, run, excuse, apart, trouble>>

Phases == {"idle", "fetching", "persisting", "closing"}
Excuses == {"page failed", "raised", "page limit", "shifted", "cross-posted"}

\* A run that has not begun; the board of a user's is chosen when it begins.
Idle(r) == [phase |-> "idle", board |-> IF r \in Boards THEN r ELSE CHOOSE b \in Boards : TRUE,
            forced |-> FALSE, page |-> 0, more |-> TRUE, old |-> FALSE, todo |-> {}, probe |-> 0,
            seen |-> 0, cross |-> FALSE, wrote |-> {}, shift |-> 0]

RunStates ==
    [phase : Phases, board : Boards, forced : BOOLEAN,
     page : Nat,               \* pages fetched
     more : BOOLEAN,           \* next_cursor is not None
     old : BOOLEAN,            \* the whole page is older than since
     todo : SUBSET Numbers,    \* the postings of the page still to be handled
     probe : 0..MaxPosting,    \* the one that has passed the content check, or 0
     seen : Nat,               \* consecutive_already_seen
     cross : BOOLEAN,          \* history: one of those was only a content duplicate
     wrote : SUBSET Numbers,   \* rows inserted and not yet committed
     shift : Nat]              \* history: postings published since the run began

Init ==
    /\ feed = [b \in Boards |-> 1..Initially]
    /\ published = [b \in Boards |-> Initially]
    /\ offers = {}
    /\ run = [r \in Runs |-> Idle(r)]
    /\ excuse = [b \in Boards |-> {}]
    /\ apart = {}
    /\ trouble = 0

-----------------------------------------------------------------------------
(* Helpers *)

Active == {r \in Runs : run[r].phase # "idle"}
RunsOf(b) == {r \in Active : run[r].board = b}

Wanted(b, n) == n >= Since /\ <<b, n>> \notin Unreadable

\* What a run's own session sees of the offers table.
Visible(r) == offers \cup {<<run[r].board, n>> : n \in run[r].wrote}

Twins(p, S) == {q \in S : Content[q] = Content[p]}

\* Fault: the check is scoped to the board.
KnownOnBoard(r, n) == \E q \in Visible(r) :
    q[1] = run[r].board /\ Content[q] = Content[<<run[r].board, n>>]

\* _find_content_duplicate
Known(r, n) == Twins(<<run[r].board, n>>, Visible(r)) # {}

\* The offset of a posting.
Rank(b, n) == Cardinality({m \in feed[b] : m > n})

\* Fault: the next cursor is one too far.
PageOfSkipping(b, k) == {n \in feed[b] : k * (PageSize + 1) <= Rank(b, n)
                                         /\ Rank(b, n) < k * (PageSize + 1) + PageSize}

\* The page at offset k * PageSize.
PageOf(b, k) == {n \in feed[b] : k * PageSize <= Rank(b, n)
                                 /\ Rank(b, n) < (k + 1) * PageSize}

\* Fault: a page is handled oldest first.
Oldest(r, n) == n \in run[r].todo /\ \A m \in run[r].todo : m >= n

\* The next raw item of the page.
IsNext(r, n) == n \in run[r].todo /\ \A m \in run[r].todo : m <= n

Excused(b, S) == excuse' = [excuse EXCEPT ![b] = @ \cup S]

\* The other runs that hold the dedup_hash of n, uncommitted.
Holders(r, n) == {h \in RunsOf(run[r].board) \ {r} : n \in run[h].wrote}

WaitsFor(r, h) == run[r].probe # 0 /\ h \in Holders(r, run[r].probe)

\* Runs that wait for each other in a circle.
Circle(C) == /\ C # {}
             /\ \A r \in C : (\E h \in C : WaitsFor(r, h)) /\ (\E h \in C : WaitsFor(h, r))

-----------------------------------------------------------------------------
(* The boards *)

\* A board publishes a posting: the offsets of all the others grow by one.
Publish(b) ==
    /\ published[b] < MaxPosting
    /\ published' = [published EXCEPT ![b] = @ + 1]
    /\ feed' = [feed EXCEPT ![b] = @ \cup {published[b] + 1}]
    /\ run' = [r \in Runs |-> IF r \in RunsOf(b)
                               THEN [run[r] EXCEPT !.shift = @ + 1] ELSE run[r]]
    /\ Excused(b, IF \E r \in RunsOf(b) : run[r].shift + 1 >= Threshold
                  THEN {"shifted"} ELSE {})
    /\ UNCHANGED <<offers, apart, trouble>>

\* A posting is taken down: the offsets of the older ones shrink by one.
Expire(b, n) ==
    /\ trouble < MaxTrouble
    /\ n \in feed[b]
    /\ trouble' = trouble + 1
    /\ feed' = [feed EXCEPT ![b] = @ \ {n}]
    /\ Excused(b, IF RunsOf(b) # {} THEN {"shifted"} ELSE {})
    /\ UNCHANGED <<published, offers, run, apart>>

-----------------------------------------------------------------------------
(* A run *)

\* run_with_lifecycle opens a session of its own, and the page loop begins.
Begin(r, b, forced) ==
    /\ run[r].phase = "idle"
    /\ run' = [run EXCEPT ![r] = [Idle(r) EXCEPT !.phase = "fetching",
                                                !.board = b, !.forced = forced]]
    /\ apart' = IF Active = {} THEN {r} ELSE {}
    /\ UNCHANGED <<feed, published, offers, excuse, trouble>>

FetchPage(r) ==
    LET b == run[r].board
        k == run[r].page
    IN
    /\ run[r].phase = "fetching"
    /\ run' = [run EXCEPT ![r].phase = "persisting",
                          ![r].todo = PageOf(b, k),
                          ![r].more = \E n \in feed[b] : Rank(b, n) >= (k + 1) * PageSize,
                          ![r].old = PageOf(b, k) # {} /\ \A n \in PageOf(b, k) : n < Since,
                          ![r].page = k + 1]
    /\ UNCHANGED <<feed, published, offers, excuse, apart, trouble>>

\* Fault: a failed page leaves the loop in a state of its own.
PageFailsOpen(r) ==
    /\ run[r].phase = "fetching"
    /\ trouble < MaxTrouble
    /\ trouble' = trouble + 1
    /\ run' = [run EXCEPT ![r].phase = "failed"]
    /\ Excused(run[r].board, IF run[r].page > 0 THEN {"page failed"} ELSE {})
    /\ UNCHANGED <<feed, published, offers, apart>>

\* fetch_page answers None: the run keeps the pages before, and if there are
\* none it has failed; either way it commits.
PageFails(r) ==
    /\ run[r].phase = "fetching"
    /\ trouble < MaxTrouble
    /\ trouble' = trouble + 1
    /\ run' = [run EXCEPT ![r].phase = "closing"]
    /\ Excused(run[r].board, IF run[r].page > 0 THEN {"page failed"} ELSE {})
    /\ UNCHANGED <<feed, published, offers, apart>>

\* An offer out of fetch_range, or one that fails validation: the streak of
\* already-seen offers neither grows nor ends.
Skip(r, n) ==
    /\ run[r].phase = "persisting" /\ run[r].probe = 0
    /\ IsNext(r, n)
    /\ ~Wanted(run[r].board, n)
    /\ run' = [run EXCEPT ![r].todo = @ \ {n}]
    /\ UNCHANGED <<feed, published, offers, excuse, apart, trouble>>

\* The first half of persist_offer: the SELECT for a content duplicate.
CheckContent(r, n) ==
    /\ run[r].phase = "persisting" /\ run[r].probe = 0
    /\ IsNext(r, n)
    /\ Wanted(run[r].board, n)
    /\ run' = [run EXCEPT ![r] =
           IF Known(r, n)
           THEN [run[r] EXCEPT !.todo = @ \ {n}, !.seen = @ + 1,
                               !.cross = @ \/ <<run[r].board, n>> \notin Visible(r)]
           ELSE [run[r] EXCEPT !.probe = n]]
    /\ UNCHANGED <<feed, published, offers, excuse, apart, trouble>>

\* The second half: INSERT ... ON CONFLICT (dedup_hash) DO NOTHING, which
\* waits while another run holds the hash uncommitted.
Insert(r, n) ==
    /\ run[r].phase = "persisting" /\ run[r].probe = n
    /\ Holders(r, n) = {}
    /\ run' = [run EXCEPT ![r] =
           IF <<run[r].board, n>> \in offers
           THEN [run[r] EXCEPT !.probe = 0, !.todo = @ \ {n}, !.seen = @ + 1]
           ELSE [run[r] EXCEPT !.probe = 0, !.todo = @ \ {n}, !.wrote = @ \cup {n},
                               !.seen = 0, !.cross = FALSE]]
    /\ UNCHANGED <<feed, published, offers, excuse, apart, trouble>>

\* The walk ends at the end of the feed or of fetch_range, or has caught up.
AtEnd(r) == run[r].old \/ ~run[r].more

\* Fault: the streak is compared one too early.
CaughtUpEarly(r) == ~run[r].forced /\ run[r].seen + 1 >= Threshold

CaughtUp(r) == ~run[r].forced /\ run[r].seen >= Threshold

\* The page has been handled: stop, or go on to the next one.
EndPage(r) ==
    /\ run[r].phase = "persisting" /\ run[r].todo = {}
    /\ run' = [run EXCEPT ![r].phase =
           IF AtEnd(r) \/ CaughtUp(r) \/ run[r].page = MaxPages THEN "closing" ELSE "fetching"]
    /\ Excused(run[r].board,
               IF AtEnd(r) THEN {}
               ELSE IF CaughtUp(r) THEN (IF run[r].cross THEN {"cross-posted"} ELSE {})
               ELSE IF run[r].page = MaxPages THEN {"page limit"} ELSE {})
    /\ UNCHANGED <<feed, published, offers, apart, trouble>>

\* The end of a run, with its rows or without them.
End(r, rows) ==
    /\ offers' = offers \cup {<<run[r].board, n>> : n \in rows}
    /\ run' = [run EXCEPT ![r] = Idle(r)]
    /\ apart' = apart \ {r}
    /\ UNCHANGED <<feed, published>>

Commit(r) ==
    /\ run[r].phase = "closing"
    /\ End(r, run[r].wrote)
    /\ UNCHANGED <<excuse, trouble>>

\* A run that records itself, that is the scheduled job and POST
\* /scheduler/run, keeps its rows when it raises; POST /ingest, which alone can
\* be forced, rolls back.
Kept(r) == IF r \in Boards THEN {run[r].wrote}
           ELSE IF run[r].forced THEN {{}} ELSE {run[r].wrote, {}}

\* The connector raises, or a statement is refused before it is sent.
Raise(r) ==
    /\ \/ run[r].phase = "fetching"
       \/ run[r].phase = "persisting" /\ run[r].todo # {}
    /\ trouble < MaxTrouble
    /\ trouble' = trouble + 1
    /\ \E rows \in Kept(r) :
        /\ End(r, rows)
        /\ Excused(run[r].board, IF rows # {} THEN {"raised"} ELSE {})

\* The database fails or the process dies: the transaction is rolled back.
Lose(r) ==
    /\ run[r].phase # "idle"
    /\ trouble < MaxTrouble
    /\ trouble' = trouble + 1
    /\ End(r, {})
    /\ UNCHANGED excuse

\* PostgreSQL finds a circle of waiting transactions and aborts one of them.
BreakDeadlock(r) ==
    /\ \E C \in SUBSET Runs : Circle(C) /\ r \in C
    /\ End(r, {})
    /\ UNCHANGED <<excuse, trouble>>

-----------------------------------------------------------------------------
(* Specification *)

Step(r) ==
    \/ FetchPage(r) \/ EndPage(r) \/ Commit(r)
    \/ \E n \in Numbers : Skip(r, n) \/ CheckContent(r, n) \/ Insert(r, n)

Fails(r) == PageFails(r) \/ Raise(r) \/ Lose(r)

Next ==
    \/ \E b \in Boards : Publish(b) \/ Begin(b, b, FALSE)
    \/ \E b \in Boards : \E n \in Numbers : Expire(b, n)
    \/ \E r \in Users : \E b \in Boards : \E forced \in BOOLEAN : Begin(r, b, forced)
    \/ \E r \in Runs : Step(r) \/ Fails(r) \/ BreakDeadlock(r)

Spec == Init /\ [][Next]_vars

\* Boards answer, PostgreSQL grants a row lock when its holder ends and looks
\* for deadlocks, and the interval trigger starts the next scheduled run.
Fairness ==
    /\ \A r \in Runs : WF_vars(Step(r))
    /\ WF_vars(\E r \in Runs : BreakDeadlock(r))
    /\ \A b \in Boards : WF_vars(Begin(b, b, FALSE))

FairSpec == Spec /\ Fairness

-----------------------------------------------------------------------------
(* Properties *)

TypeOK ==
    /\ feed \in [Boards -> SUBSET Numbers]
    /\ published \in [Boards -> 0..MaxPosting]
    /\ offers \subseteq Postings
    /\ run \in [Runs -> RunStates]
    /\ excuse \in [Boards -> SUBSET Excuses]
    /\ apart \subseteq Runs
    /\ trouble \in Nat

Covered(b, n) == Twins(<<b, n>>, offers) # {}

\* A listed posting in range that is not stored lies below a stored one: the
\* next runs meet the stored ones first and stop.
NoGap(b) == \A n \in feed[b] : Wanted(b, n) /\ ~Covered(b, n) =>
    \A m \in Numbers : <<b, m>> \in offers => m < n

\* The walk of runner.py loses a posting only when a later page failed, the
\* connector raised, the page limit was reached, the feed shifted by
\* Threshold postings under a run (or one expired), or the streak that
\* stopped it held offers that only another board had brought.
OnlyKnownGaps == \A b \in Boards : excuse[b] = {} => NoGap(b)

\* persist.py: without a second run in flight, the content check lets no
\* duplicate through, within a board or across boards.
LoneRunsAddNoDuplicate ==
    [][\A p \in offers' \ offers :
         Twins(p, offers') # {p} =>
             \E r \in Runs \ apart : run[r].board = p[1] /\ p[2] \in run[r].wrote]_vars

\* Runs of one board that insert uncommitted rows in a different order would
\* wait for each other.  Every walk goes from newer to older postings, so they
\* do so only if more than a page of postings (config_json.page_size) was
\* published while one of them ran: its next page then begins above the last.
DeadlockNeedsLongShift ==
    \A C \in SUBSET Runs : Circle(C) => \E r \in C : run[r].shift > PageSize

\* A posting in range is stored sooner or later, unless it is taken down
\* first or an event that OnlyKnownGaps names has hit its board.
EveryPostingArrives ==
    \A b \in Boards : \A n \in Numbers :
        (n \in feed[b] /\ Wanted(b, n))
            ~> (Covered(b, n) \/ n \notin feed[b] \/ excuse[b] # {})
=============================================================================
