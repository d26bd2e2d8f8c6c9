------------------------- MODULE ProfileActivation -------------------------
(***************************************************************************)
(* The profiles table under concurrent requests: PUT /profile saves one    *)
(* profile and may make it the active one, POST /profile/upload adds a     *)
(* draft (app/db/profile_repo.py, app/api/routes/profile.py).              *)
(*                                                                         *)
(* A request is one PostgreSQL transaction at READ COMMITTED.  Each of its *)
(* statements sees the rows committed when it starts, and an UPDATE waits  *)
(* for the other transactions that hold one of its rows, then changes the  *)
(* row that they left.  A circle of waits is broken by aborting a member.  *)
(*                                                                         *)
(* The scores of a profile are one value: the data that they were made     *)
(* from.  Scoring itself is the subject of BatchScoring.                   *)
(***************************************************************************)
EXTENDS Naturals, FiniteSets

CONSTANTS
    Clients,      \* the requests that may be in flight together
    Default,      \* the row whose name is DEFAULT_PROFILE_NAME
    Drafts,       \* the rows that uploads may add
    Datas,        \* what the editor may send
    None,         \* no row, no score, no profile_id
    MaxRequests,  \* bound: the number of requests
    MaxTrouble    \* bound: the number of requests that are cut off

Ids == Drafts \cup {Default}

Row == [data : Datas, status : {"draft", "active"}, active : BOOLEAN]
Rows == Row \cup {None}

\* What a client is told of a row.
Profile == [data : Datas, active : BOOLEAN]

ASSUME NoneAssumption == None \notin Ids \cup Datas \cup Row \cup Profile /\ Default \notin Drafts
ASSUME LimitsAssumption == MaxRequests \in Nat /\ MaxTrouble \in Nat

VARIABLES
    table,    \* the committed rows
    scored,   \* the data that each profile's scores were made from
    req,      \* the state of each request
    phantom,  \* history: a row was added behind the back of an activation
    kept,     \* history: profiles whose scores an edit has left, as they were inactive
    raced,    \* history: profiles scored between the DELETE and the COMMIT of an edit
    requests, trouble

vars == <<table, scored, req, phantom, kept, raced, requests, trouble>>

Idle == [phase |-> "idle", id |-> None, data |-> None, activate |-> FALSE, loaded |-> None,
         todo |-> {}, wrote |-> [i \in Ids |-> None], gone |-> FALSE]

Requests ==
    [phase : {"idle", "insert", "flush", "activate", "clear", "set", "refresh", "commit"},
     id : Ids \cup {None},
     data : Datas \cup {None}, activate : BOOLEAN, \* the payload and the parameter
     loaded : Rows,                 \* row, as the session read it
     todo : SUBSET Ids,             \* rows the first UPDATE of activate_profile has still to change
     wrote : [Ids -> Rows],         \* rows written, and so locked, until the end
     gone : BOOLEAN]                \* the DELETE has found scores

\* A new installation, or one whose user has saved a profile.
Init ==
    /\ \E row \in {None} \cup [data : Datas, status : {"active"}, active : {TRUE}] :
           table = [i \in Ids |-> IF i = Default THEN row ELSE None]
    /\ scored = [i \in Ids |-> None]
    /\ req = [c \in Clients |-> Idle]
    /\ phantom = FALSE
    /\ kept = {} /\ raced = {}
    /\ requests = 0 /\ trouble = 0

-----------------------------------------------------------------------------
(* Transactions *)

\* The row as c sees it: its own writes and what is committed.
View(c, i) == IF req[c].wrote[i] # None THEN req[c].wrote[i] ELSE table[i]

Holds(h, i) == req[h].wrote[i] # None
Free(c, i) == \A h \in Clients \ {c} : ~Holds(h, i)

\* The data differs from what the session had loaded.
Changed(c) == req[c].loaded = None \/ req[c].data # req[c].loaded.data

\* What the flush would write: the columns that differ from what was loaded.
Dirty(c) == \/ req[c].data # req[c].loaded.data
            \/ req[c].activate /\ req[c].loaded.status = "draft"

\* The rows that the next statement of c needs.
Needs(c) ==
    CASE req[c].phase = "insert" -> {Default}
      [] req[c].phase = "flush" /\ Dirty(c) -> {req[c].id}
      [] req[c].phase = "clear" -> req[c].todo
      [] req[c].phase = "set" -> {req[c].id}
      [] OTHER -> {}

WaitsFor(c, h) == h # c /\ \E i \in Needs(c) : Holds(h, i)

Goto(c, s) == req' = [req EXCEPT ![c] = s]

\* The activations that have begun to change the rows they saw.
Blind == {c \in Clients : req[c].phase \in {"clear", "set"}}

-----------------------------------------------------------------------------
(* The statements of PUT /profile *)

\* upsert_profile looks its row up: by profile_id, or the active one, or the
\* default one; without any it goes on to insert one.
Begin(c, i, d, activate) ==
    LET active == {j \in Ids : table[j] # None /\ table[j].active}
        found == IF i # None THEN {i}
                 ELSE IF active # {} THEN active
                 ELSE IF table[Default] # None THEN {Default} ELSE {}
        begun == [Idle EXCEPT !.data = d, !.activate = activate]
    IN  /\ req[c].phase = "idle" /\ requests < MaxRequests
        /\ requests' = requests + 1
        /\ IF found = {} THEN Goto(c, [begun EXCEPT !.phase = "insert", !.id = Default])
           ELSE \E j \in found : Goto(c, [begun EXCEPT !.phase = "flush", !.id = j,
                                                       !.loaded = table[j]])
        /\ UNCHANGED <<table, scored, phantom, kept, raced, trouble>>

\* Fault: a row that is saved without being activated gets a status of its own.
NewStatusInactive(s) == IF s.activate THEN "active" ELSE "inactive"

NewStatus(s) == IF s.activate THEN "active" ELSE "draft"

\* Fault: the loser of the INSERT retries it for ever.
MayInsertOnce(c) == Free(c, Default) /\ table[Default] = None

MayInsert(c) == Free(c, Default)

\* The INSERT of the default row waits for another one that is not committed,
\* and fails once that is: name is unique.
Insert(c) ==
    LET s == req[c]
    IN  /\ s.phase = "insert" /\ MayInsert(c)
        /\ IF table[Default] # None THEN Goto(c, Idle) /\ UNCHANGED phantom
           ELSE /\ Goto(c, [s EXCEPT !.phase = IF s.activate THEN "activate" ELSE "refresh",
                                     !.wrote[Default] = [data |-> s.data, active |-> FALSE,
                                                       status |-> NewStatus(s)]])
                /\ phantom' = (phantom \/ Blind \ {c} # {})
        /\ UNCHANGED <<table, scored, kept, raced, requests, trouble>>

\* Fault: every column is written back as it was loaded.
FlushWholeRow(c) ==
    LET s == req[c]
    IN  /\ s.phase = "flush" /\ Free(c, s.id)
        /\ Goto(c, [s EXCEPT !.phase = IF s.activate THEN "activate" ELSE "refresh",
                             !.wrote[s.id] = [s.loaded EXCEPT !.data = s.data]])
        /\ UNCHANGED <<table, scored, phantom, kept, raced, requests, trouble>>

\* The flush: an UPDATE of the columns that differ from what was loaded.
Flush(c) ==
    LET s == req[c]
        row == View(c, s.id)
        written == [row EXCEPT !.data = IF Changed(c) THEN s.data ELSE @,
                               !.status = IF s.activate THEN "active" ELSE @]
    IN  /\ s.phase = "flush" /\ (Dirty(c) => Free(c, s.id))
        /\ Goto(c, [s EXCEPT !.phase = IF s.activate THEN "activate" ELSE "refresh",
                             !.wrote[s.id] = IF Dirty(c) THEN written ELSE @])
        /\ UNCHANGED <<table, scored, phantom, kept, raced, requests, trouble>>

\* Fault: only the rows that are active are cleared.
OthersActive(c) == {j \in Ids \ {req[c].id} : View(c, j) # None /\ View(c, j).active}

\* The rows that the first UPDATE of activate_profile finds.
Others(c) == {j \in Ids \ {req[c].id} : View(c, j) # None}

\* activate_profile: its first UPDATE starts, and sees no row that another
\* request has inserted and not committed.
StartClear(c) ==
    /\ req[c].phase = "activate"
    /\ Goto(c, [req[c] EXCEPT !.phase = IF Others(c) = {} THEN "set" ELSE "clear",
                              !.todo = Others(c)])
    /\ phantom' = (phantom \/ \E h \in Clients \ {c} : \E j \in Ids :
                                  table[j] = None /\ Holds(h, j))
    /\ UNCHANGED <<table, scored, kept, raced, requests, trouble>>

\* It changes the next row, in the order in which its scan meets them.
Clear(c, i) ==
    LET left == req[c].todo \ {i}
    IN  /\ req[c].phase = "clear" /\ i \in req[c].todo /\ Free(c, i)
        /\ Goto(c, [req[c] EXCEPT !.phase = IF left = {} THEN "set" ELSE @, !.todo = left,
                                  !.wrote[i] = [View(c, i) EXCEPT !.active = FALSE]])
        /\ UNCHANGED <<table, scored, phantom, kept, raced, requests, trouble>>

\* Its second UPDATE.
SetActive(c) ==
    LET i == req[c].id
    IN  /\ req[c].phase = "set" /\ Free(c, i)
        /\ Goto(c, [req[c] EXCEPT !.phase = "refresh",
                                  !.wrote[i] = [View(c, i) EXCEPT !.active = TRUE]])
        /\ UNCHANGED <<table, scored, phantom, kept, raced, requests, trouble>>

\* Fault: is_active is that of the row before the activation.
InvalidatesEarly(c) ==
    Changed(c) /\ req[c].loaded # None /\ req[c].loaded.active

\* invalidate_scores_for_profile is called.
Invalidates(c) == Changed(c) /\ View(c, req[c].id).active

\* refresh reads the row again, and the scores of an active profile whose data
\* changed are deleted.
Refresh(c) ==
    LET i == req[c].id
    IN  /\ req[c].phase = "refresh"
        /\ Goto(c, [req[c] EXCEPT !.phase = "commit",
                                  !.gone = Invalidates(c) /\ scored[i] # None])
        /\ kept' = IF Changed(c) /\ ~View(c, i).active THEN kept \cup {i} ELSE kept
        /\ UNCHANGED <<table, scored, phantom, raced, requests, trouble>>

\* The request commits and answers.
Commit(c) ==
    LET i == req[c].id
    IN  /\ req[c].phase = "commit"
        /\ table' = [j \in Ids |-> View(c, j)]
        /\ scored' = [scored EXCEPT ![i] = IF req[c].gone THEN None ELSE @]
        /\ Goto(c, Idle)
        /\ UNCHANGED <<phantom, kept, raced, requests, trouble>>

-----------------------------------------------------------------------------
(* The other requests, and the environment *)

\* POST /profile/upload: create_draft_profile, and its commit.
Upload(i, d) ==
    /\ requests < MaxRequests
    /\ requests' = requests + 1
    /\ i \in Drafts /\ table[i] = None
    /\ table' = [table EXCEPT ![i] = [data |-> d, status |-> "draft", active |-> FALSE]]
    /\ phantom' = (phantom \/ Blind # {})
    /\ UNCHANGED <<scored, req, kept, raced, trouble>>

\* The batch scores the active profile, which has no scores.
Score(i) ==
    /\ table[i] # None /\ table[i].active /\ scored[i] = None
    /\ scored' = [scored EXCEPT ![i] = table[i].data]
    /\ raced' = IF \E c \in Clients : req[c].phase = "commit" /\ req[c].id = i
                THEN raced \cup {i} ELSE raced
    /\ UNCHANGED <<table, req, phantom, kept, requests, trouble>>

\* c is in a circle of n requests, each of which waits for the next one.
InCircle(c) ==
    \E n \in 2..Cardinality(Clients) : \E circle \in [0..(n - 1) -> Clients] :
        /\ circle[0] = c
        /\ \A k \in 0..(n - 1) : WaitsFor(circle[k], circle[(k + 1) % n])

\* PostgreSQL finds a circle of waits and aborts a member: the answer is 500.
BreakDeadlock(c) ==
    /\ InCircle(c)
    /\ Goto(c, Idle)
    /\ UNCHANGED <<table, scored, phantom, kept, raced, requests, trouble>>

\* The client disconnects or a statement fails: the transaction is rolled back.
CutOff(c) ==
    /\ req[c].phase # "idle"
    /\ trouble < MaxTrouble
    /\ trouble' = trouble + 1
    /\ Goto(c, Idle)
    /\ UNCHANGED <<table, scored, phantom, kept, raced, requests>>

-----------------------------------------------------------------------------
(* Specification *)

Step(c) ==
    \/ Insert(c) \/ Flush(c) \/ StartClear(c) \/ SetActive(c) \/ Refresh(c) \/ Commit(c)
    \/ \E i \in Ids : Clear(c, i)

\* The profiles a client may name are those it has been told of.
Known == {i \in Ids : table[i] # None} \cup {None}

Next ==
    \/ \E c \in Clients : Step(c) \/ BreakDeadlock(c) \/ CutOff(c)
    \/ \E c \in Clients : \E i \in Known : \E d \in Datas : \E activate \in BOOLEAN :
           Begin(c, i, d, activate)
    \/ \E i \in Ids : Score(i) \/ \E d \in Datas : Upload(i, d)

Spec == Init /\ [][Next]_vars

\* Statements end when their locks are free; PostgreSQL grants a lock when its
\* holder ends, and looks for deadlocks after deadlock_timeout.
FairSpec == Spec /\ \A c \in Clients : WF_vars(Step(c)) /\ WF_vars(BreakDeadlock(c))

-----------------------------------------------------------------------------
(* Properties *)

TypeOK ==
    /\ table \in [Ids -> Rows]
    /\ scored \in [Ids -> Datas \cup {None}]
    /\ req \in [Clients -> Requests]
    /\ phantom \in BOOLEAN
    /\ kept \subseteq Ids /\ raced \subseteq Ids
    /\ requests \in 0..MaxRequests /\ trouble \in 0..MaxTrouble

\* docs/architecture/profile.md: one profiles row may be active at a time.
\* Whatever activations overlap, abort or are cut off, it holds unless a row
\* was added that one of them could not see when it cleared the others.
ActiveRows == {i \in Ids : table[i] # None /\ table[i].active}
OneActiveProfile == phantom \/ \A i, j \in ActiveRows : i = j

\* Each request takes effect at once when it commits, as ProfileTable says: a
\* save leaves the active profile alone, also one activated since it read its
\* row, and edits that overlap do not mix.
Shown(row) == IF row = None THEN None ELSE [data |-> row.data, active |-> row.active]
Visible == [i \in Ids |-> Shown(table[i])]
Table == INSTANCE ProfileTable WITH rows <- Visible, unseen <- phantom
RequestsAreAtomic == Table!Spec

\* upsert_profile: the scores of the active profile were made from its data,
\* unless it was edited while inactive, or scored while an edit committed.
OnlyKnownStaleScores ==
    \A i \in ActiveRows \ (kept \cup raced) : scored[i] \in {None, table[i].data}

\* Activations that lock rows in different orders can block each other, but
\* every request ends.
RequestsEnd == \A c \in Clients : req[c].phase # "idle" ~> req[c].phase = "idle"
=============================================================================
