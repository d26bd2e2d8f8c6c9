------------------------ MODULE OfferIngestionProofs ------------------------
(***************************************************************************)
(* Theorems of OfferIngestion, for any number of boards, requests and      *)
(* postings, any content of the postings and any limits: every variable    *)
(* stays in its range, a run that no other run has met commits no row      *)
(* whose content another row has, and runs wait for each other in a circle *)
(* only if more than a page of postings came in under one of them.         *)
(*                                                                         *)
(* The second needs what holds in mid-run: the rows a lone run has written *)
(* are unlike each other and unlike the committed ones, and so is the one  *)
(* between its SELECT and its INSERT, because nobody else commits.  The    *)
(* third needs the offsets: whatever a run would still insert and is newer *)
(* than its rows lies before the offset its walk has reached.              *)
(***************************************************************************)
EXTENDS OfferIngestion, FiniteSetTheorems, WellFoundedInduction, TLAPS

USE BoardsAssumption, PostingsAssumption, LimitsAssumption DEF Runs

-----------------------------------------------------------------------------
(* Types *)

\* A run that has not begun is well typed.
LEMMA IdleTyped == \A r \in Runs : Idle(r) \in RunStates
<1>1. (CHOOSE b \in Boards : TRUE) \in Boards
  OBVIOUS
<1> QED BY <1>1 DEF Idle, RunStates, Phases, Numbers

\* The database is empty and no run has begun.
LEMMA InitTyped == Init => TypeOK
<1> SUFFICES ASSUME Init PROVE TypeOK
  OBVIOUS
<1>1. run \in [Runs -> RunStates]
  BY IdleTyped DEF Init
<1>2. 1..Initially \subseteq Numbers /\ Initially \in 0..MaxPosting
  BY DEF Numbers
<1> QED BY <1>1, <1>2 DEF Init, TypeOK

\* A step that changes one run and no other typed variable but excuse.
LEMMA RunStep ==
  ASSUME TypeOK, NEW r \in Runs, NEW new \in RunStates,
         run' = [run EXCEPT ![r] = new]
  PROVE  run' \in [Runs -> RunStates]
BY DEF TypeOK

\* The changes to one run that several actions share.
LEMMA Retyped ==
  ASSUME NEW s \in RunStates, NEW ph \in Phases, NEW b \in Boards, NEW f \in BOOLEAN,
         NEW x \in Nat
  PROVE  /\ [s EXCEPT !.phase = ph] \in RunStates
         /\ [s EXCEPT !.phase = ph, !.board = b, !.forced = f] \in RunStates
         /\ [s EXCEPT !.shift = x] \in RunStates
BY DEF RunStates

LEMMA ExcusedTyped ==
  ASSUME TypeOK, NEW b \in Boards, NEW S \in SUBSET Excuses, Excused(b, S)
  PROVE  excuse' \in [Boards -> SUBSET Excuses]
BY DEF TypeOK, Excused

LEMMA PublishTyped == ASSUME TypeOK, NEW b \in Boards, Publish(b) PROVE TypeOK'
<1>1. published' \in [Boards -> 0..MaxPosting] /\ published[b] + 1 \in Numbers
  BY DEF TypeOK, Publish, Numbers
<1>2. feed' \in [Boards -> SUBSET Numbers]
  BY <1>1 DEF TypeOK, Publish
<1>3. ASSUME NEW r \in Runs PROVE [run[r] EXCEPT !.shift = @ + 1] \in RunStates
  <2>1. run[r] \in RunStates /\ run[r].shift + 1 \in Nat
    BY DEF TypeOK, RunStates
  <2> QED BY <2>1, Retyped DEF Phases
<1>4. run' \in [Runs -> RunStates]
  BY <1>3 DEF TypeOK, Publish
<1>5. excuse' \in [Boards -> SUBSET Excuses]
  <2>1. (IF \E r \in RunsOf(b) : run[r].shift + 1 >= Threshold THEN {"shifted"} ELSE {})
          \in SUBSET Excuses
    BY DEF Excuses
  <2> QED BY <2>1, ExcusedTyped DEF Publish
<1> QED BY <1>1, <1>2, <1>4, <1>5 DEF TypeOK, Publish

LEMMA ExpireTyped ==
  ASSUME TypeOK, NEW b \in Boards, NEW n \in Numbers, Expire(b, n) PROVE TypeOK'
<1>1. excuse' \in [Boards -> SUBSET Excuses]
  <2>1. (IF RunsOf(b) # {} THEN {"shifted"} ELSE {}) \in SUBSET Excuses
    BY DEF Excuses
  <2> QED BY <2>1, ExcusedTyped DEF Expire
<1>2. feed' \in [Boards -> SUBSET Numbers]
  BY DEF TypeOK, Expire
<1> QED BY <1>1, <1>2 DEF TypeOK, Expire

LEMMA BeginTyped ==
  ASSUME TypeOK, NEW r \in Runs, NEW b \in Boards, NEW f \in BOOLEAN, Begin(r, b, f)
  PROVE  TypeOK'
<1>1. [Idle(r) EXCEPT !.phase = "fetching", !.board = b, !.forced = f] \in RunStates
  BY IdleTyped, Retyped DEF Phases
<1>2. run' \in [Runs -> RunStates]
  BY <1>1, RunStep DEF Begin
<1> QED BY <1>2 DEF TypeOK, Begin

LEMMA FetchPageTyped == ASSUME TypeOK, NEW r \in Runs, FetchPage(r) PROVE TypeOK'
<1> DEFINE b == run[r].board
           k == run[r].page
           new == [run[r] EXCEPT
                     !.phase = "persisting", !.todo = PageOf(b, k),
                     !.more = \E n \in feed[b] : Rank(b, n) >= (k + 1) * PageSize,
                     !.old = PageOf(b, k) # {} /\ \A n \in PageOf(b, k) : n < Since,
                     !.page = k + 1]
<1>1. run[r] \in RunStates /\ b \in Boards /\ k \in Nat
  BY DEF TypeOK, RunStates
<1>2. PageOf(b, k) \in SUBSET Numbers
  BY <1>1 DEF TypeOK, PageOf
<1>3. new \in RunStates
  <2> DEFINE todo == PageOf(b, k)
             more == \E n \in feed[b] : Rank(b, n) >= (k + 1) * PageSize
             old == PageOf(b, k) # {} /\ \A n \in PageOf(b, k) : n < Since
  <2>1. todo \in SUBSET Numbers /\ more \in BOOLEAN /\ old \in BOOLEAN /\ k + 1 \in Nat
    BY <1>1, <1>2
  <2>2. new = [run[r] EXCEPT !.phase = "persisting", !.todo = todo, !.more = more,
                             !.old = old, !.page = k + 1]
    OBVIOUS
  <2> HIDE DEF todo, more, old, new, k, b
  <2> QED BY <1>1, <2>1, <2>2 DEF RunStates, Phases
<1>4. run' = [run EXCEPT ![r] = new]
  BY <1>1 DEF FetchPage, TypeOK
<1>5. run' \in [Runs -> RunStates]
  <2> HIDE DEF new
  <2> QED BY <1>3, <1>4, RunStep
<1> QED BY <1>5 DEF TypeOK, FetchPage

LEMMA PageFailsTyped == ASSUME TypeOK, NEW r \in Runs, PageFails(r) PROVE TypeOK'
<1>1. run[r] \in RunStates /\ run[r].board \in Boards
  BY DEF TypeOK, RunStates
<1>2. run' \in [Runs -> RunStates]
  <2>1. [run[r] EXCEPT !.phase = "closing"] \in RunStates
    BY <1>1, Retyped, BoardsAssumption DEF Phases
  <2> QED BY <2>1, RunStep DEF PageFails, TypeOK
<1>3. excuse' \in [Boards -> SUBSET Excuses]
  <2>1. (IF run[r].page > 0 THEN {"page failed"} ELSE {}) \in SUBSET Excuses
    BY DEF Excuses
  <2> QED BY <1>1, <2>1, ExcusedTyped DEF PageFails
<1>4. trouble \in Nat /\ trouble' = trouble + 1 /\ apart' = apart
      /\ feed' = feed /\ published' = published /\ offers' = offers
  BY DEF TypeOK, PageFails
<1>5. trouble' \in Nat
  BY <1>4
<1> QED BY <1>2, <1>3, <1>4, <1>5 DEF TypeOK

\* What Skip, CheckContent and Insert make of the record of the run.
LEMMA HandledTyped ==
  ASSUME NEW s \in RunStates, NEW n \in Numbers, NEW c \in BOOLEAN
  PROVE  /\ [s EXCEPT !.todo = @ \ {n}] \in RunStates
         /\ [s EXCEPT !.todo = @ \ {n}, !.seen = @ + 1, !.cross = c] \in RunStates
         /\ [s EXCEPT !.probe = n] \in RunStates
         /\ [s EXCEPT !.probe = 0, !.todo = @ \ {n}, !.seen = @ + 1] \in RunStates
         /\ [s EXCEPT !.probe = 0, !.todo = @ \ {n}, !.wrote = @ \cup {n},
                      !.seen = 0, !.cross = FALSE] \in RunStates
<1> DEFINE k == s.seen + 1
           todo == s.todo \ {n}
           wrote == s.wrote \cup {n}
<1>1. k \in Nat /\ todo \in SUBSET Numbers /\ wrote \in SUBSET Numbers
  BY DEF RunStates
<1>2. n \in 0..MaxPosting /\ 0 \in 0..MaxPosting /\ 0 \in Nat
  BY DEF Numbers
<1> HIDE DEF k, todo, wrote
<1>3. /\ [s EXCEPT !.todo = todo] \in RunStates
      /\ [s EXCEPT !.todo = todo, !.seen = k, !.cross = c] \in RunStates
      /\ [s EXCEPT !.probe = n] \in RunStates
      /\ [s EXCEPT !.probe = 0, !.todo = todo, !.seen = k] \in RunStates
      /\ [s EXCEPT !.probe = 0, !.todo = todo, !.wrote = wrote,
                   !.seen = 0, !.cross = FALSE] \in RunStates
  BY <1>1, <1>2 DEF RunStates
<1> QED BY <1>3 DEF k, todo, wrote

LEMMA SkipTyped ==
  ASSUME TypeOK, NEW r \in Runs, NEW n \in Numbers, Skip(r, n) PROVE TypeOK'
<1>1. [run[r] EXCEPT !.todo = @ \ {n}] \in RunStates
  BY HandledTyped DEF TypeOK
<1>2. run' \in [Runs -> RunStates]
  BY <1>1, RunStep DEF Skip, TypeOK
<1> QED BY <1>2 DEF TypeOK, Skip

LEMMA CheckContentTyped ==
  ASSUME TypeOK, NEW r \in Runs, NEW n \in Numbers, CheckContent(r, n) PROVE TypeOK'
<1> DEFINE c == run[r].cross \/ <<run[r].board, n>> \notin Visible(r)
<1>1. run[r] \in RunStates /\ c \in BOOLEAN
  BY DEF TypeOK, RunStates
<1>2. run' = [run EXCEPT ![r] =
                 IF Known(r, n)
                 THEN [run[r] EXCEPT !.todo = @ \ {n}, !.seen = @ + 1, !.cross = c]
                 ELSE [run[r] EXCEPT !.probe = n]]
  BY DEF CheckContent
<1> HIDE DEF c
<1>3. run' \in [Runs -> RunStates]
  BY <1>1, <1>2, HandledTyped, RunStep
<1> QED BY <1>3 DEF TypeOK, CheckContent

LEMMA InsertTyped ==
  ASSUME TypeOK, NEW r \in Runs, NEW n \in Numbers, Insert(r, n) PROVE TypeOK'
<1>1. run[r] \in RunStates
  BY DEF TypeOK
<1>2. run' = [run EXCEPT ![r] =
                 IF <<run[r].board, n>> \in offers
                 THEN [run[r] EXCEPT !.probe = 0, !.todo = @ \ {n}, !.seen = @ + 1]
                 ELSE [run[r] EXCEPT !.probe = 0, !.todo = @ \ {n}, !.wrote = @ \cup {n},
                                     !.seen = 0, !.cross = FALSE]]
  BY DEF Insert
<1>3. run' \in [Runs -> RunStates]
  BY <1>1, <1>2, HandledTyped, RunStep
<1> QED BY <1>3 DEF TypeOK, Insert

LEMMA EndPageTyped == ASSUME TypeOK, NEW r \in Runs, EndPage(r) PROVE TypeOK'
<1> DEFINE ph == IF AtEnd(r) \/ CaughtUp(r) \/ run[r].page = MaxPages
                 THEN "closing" ELSE "fetching"
           why == IF AtEnd(r) THEN {}
                  ELSE IF CaughtUp(r) THEN (IF run[r].cross THEN {"cross-posted"} ELSE {})
                  ELSE IF run[r].page = MaxPages THEN {"page limit"} ELSE {}
<1>1. run[r] \in RunStates /\ run[r].board \in Boards
  BY DEF TypeOK, RunStates
<1>2. ph \in Phases /\ why \in SUBSET Excuses
  BY DEF Phases, Excuses
<1>3. run' = [run EXCEPT ![r] = [run[r] EXCEPT !.phase = ph]] /\ Excused(run[r].board, why)
  BY DEF EndPage, TypeOK
<1> HIDE DEF ph, why
<1>4. [run[r] EXCEPT !.phase = ph] \in RunStates
  BY <1>1, <1>2, Retyped
<1>5. run' \in [Runs -> RunStates]
  BY <1>3, <1>4, RunStep
<1>6. excuse' \in [Boards -> SUBSET Excuses]
  BY <1>1, <1>2, <1>3, ExcusedTyped
<1> QED BY <1>5, <1>6 DEF TypeOK, EndPage

\* A run that ends, whatever it commits of its own rows.
LEMMA EndTyped ==
  ASSUME TypeOK, NEW r \in Runs, NEW rows \in SUBSET Numbers, End(r, rows),
         excuse' \in [Boards -> SUBSET Excuses], trouble' \in Nat
  PROVE  TypeOK'
<1>1. run[r].board \in Boards
  BY DEF TypeOK, RunStates
<1>2. offers' \subseteq Postings
  BY <1>1 DEF End, TypeOK, Postings
<1>3. run' \in [Runs -> RunStates]
  BY IdleTyped, RunStep DEF End
<1> QED BY <1>2, <1>3 DEF TypeOK, End

\* A run that raises keeps at most its own rows.
LEMMA KeptIsOwn == \A r \in Runs : \A rows \in Kept(r) : rows \in SUBSET run[r].wrote
BY DEF Kept

LEMMA EndingsTyped ==
  ASSUME TypeOK, NEW r \in Runs, Commit(r) \/ Raise(r) \/ Lose(r) \/ BreakDeadlock(r)
  PROVE  TypeOK'
<1>1. run[r].wrote \in SUBSET Numbers /\ run[r].board \in Boards
  BY DEF TypeOK, RunStates
<1>2. trouble \in Nat /\ excuse \in [Boards -> SUBSET Excuses]
  BY DEF TypeOK
<1>3. CASE Commit(r)
  BY <1>1, <1>2, <1>3, EndTyped DEF Commit
<1>4. CASE Lose(r)
  BY <1>2, <1>4, EndTyped DEF Lose
<1>6. CASE BreakDeadlock(r)
  BY <1>2, <1>6, EndTyped DEF BreakDeadlock
<1>5. CASE Raise(r)
  <2>1. PICK rows \in Kept(r) :
           End(r, rows) /\ Excused(run[r].board, IF rows # {} THEN {"raised"} ELSE {})
    BY <1>5 DEF Raise
  <2>2. rows \in SUBSET Numbers
    BY <1>1, KeptIsOwn
  <2>3. (IF rows # {} THEN {"raised"} ELSE {}) \in SUBSET Excuses
    BY DEF Excuses
  <2>4. excuse' \in [Boards -> SUBSET Excuses]
    BY <1>1, <2>1, <2>3, ExcusedTyped
  <2>5. trouble' \in Nat
    BY <1>2, <1>5 DEF Raise
  <2> QED BY <2>1, <2>2, <2>4, <2>5, EndTyped
<1> QED BY <1>3, <1>4, <1>5, <1>6

\* Every step keeps the types, one lemma for each action.
LEMMA NextTyped == TypeOK /\ [Next]_vars => TypeOK'
<1> SUFFICES ASSUME TypeOK, [Next]_vars PROVE TypeOK'
  OBVIOUS
<1>1. CASE UNCHANGED vars
  BY <1>1 DEF TypeOK, vars
<1>2. ASSUME NEW b \in Boards, Publish(b) \/ Begin(b, b, FALSE) PROVE TypeOK'
  BY <1>2, PublishTyped, BeginTyped
<1>3. ASSUME NEW b \in Boards, NEW n \in Numbers, Expire(b, n) PROVE TypeOK'
  BY <1>3, ExpireTyped
<1>4. ASSUME NEW r \in Users, NEW b \in Boards, NEW f \in BOOLEAN, Begin(r, b, f)
      PROVE  TypeOK'
  BY <1>4, BeginTyped
<1>5. ASSUME NEW r \in Runs, Step(r) PROVE TypeOK'
  BY <1>5, FetchPageTyped, EndPageTyped, EndingsTyped, SkipTyped, CheckContentTyped,
     InsertTyped DEF Step
<1>6. ASSUME NEW r \in Runs, Fails(r) \/ BreakDeadlock(r) PROVE TypeOK'
  BY <1>6, PageFailsTyped, EndingsTyped DEF Fails
<1> QED BY <1>1, <1>2, <1>3, <1>4, <1>5, <1>6 DEF Next

\* Every variable stays in its range (the rows and the runs of the loop).
THEOREM IngestionTypeCorrect == Spec => []TypeOK
<1> QED BY InitTyped, NextTyped, PTL DEF Spec

-----------------------------------------------------------------------------
(* Duplicates *)

Own(r) == {<<run[r].board, n>> : n \in run[r].wrote}

\* A run that has met no other is the only one in flight.
LoneRuns == \A r \in apart : Active = {r}

\* What a lone run has written, or is about to write, is unlike every other
\* row it sees.
Unlike == \A r \in apart :
    /\ \A p \in Own(r) : \A q \in Visible(r) : Content[q] = Content[p] => q = p
    /\ run[r].probe # 0 =>
          \A q \in Visible(r) : Content[q] # Content[<<run[r].board, run[r].probe>>]

IInv == TypeOK /\ LoneRuns /\ Unlike

\* The content check is repeated for nothing while a run is alone: nothing it
\* sees has changed since.
LEMMA InitIInv == Init => IInv
  BY InitTyped DEF Init, IInv, LoneRuns, Unlike

\* A step that leaves each lone run's rows, and the committed ones, alone.
LEMMA QuietStep ==
  ASSUME IInv, TypeOK', offers' = offers, apart' \subseteq apart,
         \A r \in Runs : /\ (run'[r].phase = "idle") = (run[r].phase = "idle")
                          /\ run'[r].board = run[r].board
                          /\ run'[r].wrote = run[r].wrote
                          /\ run'[r].probe \in {run[r].probe, 0}
  PROVE  IInv'
<1>1. Active' = Active
  BY DEF Active
<1>2. \A r \in apart' : r \in Runs /\ Own(r)' = Own(r) /\ Visible(r)' = Visible(r)
  BY DEF IInv, TypeOK, Own, Visible
<1>3. LoneRuns'
  BY <1>1 DEF IInv, LoneRuns
<1>4. Unlike'
  <2> SUFFICES ASSUME NEW r \in apart'
               PROVE  /\ \A p \in Own(r)' : \A q \in Visible(r)' : Content[q] = Content[p] => q = p
                      /\ run'[r].probe # 0 =>
                            \A q \in Visible(r)' :
                               Content[q] # Content[<<run'[r].board, run'[r].probe>>]
    BY DEF Unlike
  <2>1. r \in apart /\ r \in Runs /\ Own(r)' = Own(r) /\ Visible(r)' = Visible(r)
    BY <1>2
  <2>2. run'[r].probe # 0 => run'[r].probe = run[r].probe /\ run'[r].board = run[r].board
    BY <2>1
  <2>3. /\ \A p \in Own(r) : \A q \in Visible(r) : Content[q] = Content[p] => q = p
        /\ run[r].probe # 0 =>
              \A q \in Visible(r) : Content[q] # Content[<<run[r].board, run[r].probe>>]
    BY <2>1 DEF IInv, Unlike
  <2> QED BY <2>1, <2>2, <2>3
<1> QED BY <1>3, <1>4 DEF IInv

\* Fetching and turning a page touch neither the rows nor the probe.
LEMMA Walked ==
  ASSUME NEW s \in RunStates, NEW ph, NEW todo, NEW more, NEW old, NEW page
  PROVE  /\ LET t == [s EXCEPT !.phase = ph]
            IN  t.phase = ph /\ t.board = s.board /\ t.wrote = s.wrote /\ t.probe = s.probe
         /\ LET t == [s EXCEPT !.phase = ph, !.todo = todo, !.more = more,
                               !.old = old, !.page = page]
            IN  t.phase = ph /\ t.board = s.board /\ t.wrote = s.wrote /\ t.probe = s.probe
BY DEF RunStates

\* A run that goes from one phase to another within its walk.
LEMMA PhaseStep ==
  ASSUME IInv, TypeOK', NEW r \in Runs, run[r].phase # "idle", run'[r].phase # "idle",
         run'[r].board = run[r].board, run'[r].wrote = run[r].wrote,
         run'[r].probe = run[r].probe, \A s \in Runs \ {r} : run'[s] = run[s],
         offers' = offers, apart' = apart
  PROVE  IInv'
<1>1. \A s \in Runs : /\ (run'[s].phase = "idle") = (run[s].phase = "idle")
                      /\ run'[s].board = run[s].board
                      /\ run'[s].wrote = run[s].wrote
                      /\ run'[s].probe \in {run[s].probe, 0}
  BY Zenon
<1> QED BY <1>1, QuietStep

\* A run that begins is alone, with nothing written, or ends all solitude.
LEMMA BeginIInv ==
  ASSUME IInv, NEW r \in Runs, NEW b \in Boards, NEW f \in BOOLEAN, Begin(r, b, f)
  PROVE  IInv'
<1>1. TypeOK'
  BY BeginTyped DEF IInv
<1>2. apart' = {} \/ (apart' = {r} /\ Active = {})
  BY DEF Begin
<1>3. /\ \A s \in Runs \ {r} : run'[s] = run[s]
      /\ run'[r].phase = "fetching" /\ run'[r].wrote = {} /\ run'[r].probe = 0
  BY DEF Begin, Idle, IInv, TypeOK
<1>4. LoneRuns'
  BY <1>2, <1>3 DEF LoneRuns, Active
<1>5. Unlike'
  BY <1>2, <1>3 DEF Unlike, Own
<1> QED BY <1>1, <1>4, <1>5 DEF IInv

\* Only the run itself acts while it is alone.
LEMMA Alone ==
  ASSUME IInv, NEW r \in Runs, run[r].phase # "idle" PROVE apart \subseteq {r}
BY DEF IInv, LoneRuns, Active, TypeOK

LEMMA CheckContentIInv ==
  ASSUME IInv, NEW r \in Runs, NEW n \in Numbers, CheckContent(r, n) PROVE IInv'
<1>1. TypeOK'
  BY CheckContentTyped DEF IInv
<1>2. CASE Known(r, n)
  BY <1>1, <1>2, QuietStep DEF CheckContent, IInv, TypeOK
<1>3. CASE ~Known(r, n)
  <2>1. /\ \A s \in Runs : /\ run'[s].wrote = run[s].wrote /\ run'[s].board = run[s].board
                            /\ run'[s].phase = run[s].phase
        /\ run'[r].probe = n /\ offers' = offers /\ apart' = apart
    BY <1>3 DEF CheckContent, IInv, TypeOK
  <2>2. apart \subseteq {r}
    BY Alone DEF CheckContent
  <2>3. LoneRuns'
    BY <2>1 DEF IInv, LoneRuns, Active
  <2>4. Own(r)' = Own(r) /\ Visible(r)' = Visible(r)
    BY <2>1 DEF Own, Visible
  <2>5. \A q \in Visible(r) : Content[q] # Content[<<run[r].board, n>>]
    BY <1>3 DEF Known, Twins
  <2>6. \A o \in Own(r) : \A q \in Visible(r) : r \in apart /\ Content[q] = Content[o] => q = o
    BY DEF IInv, Unlike
  <2>7. Unlike'
    BY <2>1, <2>2, <2>4, <2>5, <2>6 DEF Unlike
  <2> QED BY <1>1, <2>3, <2>7 DEF IInv
<1> QED BY <1>2, <1>3

LEMMA InsertIInv ==
  ASSUME IInv, NEW r \in Runs, NEW n \in Numbers, Insert(r, n) PROVE IInv'
<1>1. TypeOK' /\ run[r].probe = n /\ n # 0 /\ run[r].phase = "persisting"
  <2>1. TypeOK'
    BY InsertTyped DEF IInv
  <2>2. n # 0
    BY DEF Numbers
  <2> QED BY <2>1, <2>2 DEF Insert
<1>2. CASE <<run[r].board, n>> \in offers
  BY <1>1, <1>2, QuietStep DEF Insert, IInv, TypeOK
<1>3. CASE <<run[r].board, n>> \notin offers
  <2> DEFINE p == <<run[r].board, n>>
  <2>1. /\ \A s \in Runs : run'[s].phase = run[s].phase /\ run'[s].board = run[s].board
        /\ run'[r].probe = 0 /\ run'[r].wrote = run[r].wrote \cup {n}
        /\ offers' = offers /\ apart' = apart
    BY <1>3 DEF Insert, IInv, TypeOK
  <2>2. LoneRuns'
    BY <2>1 DEF IInv, LoneRuns, Active
  <2>3. Own(r)' = Own(r) \cup {p} /\ Visible(r)' = Visible(r) \cup {p}
    BY <2>1 DEF Own, Visible
  <2>4. ASSUME r \in apart
        PROVE  /\ \A q \in Visible(r) : Content[q] # Content[p]
               /\ \A o \in Own(r) : \A q \in Visible(r) : Content[q] = Content[o] => q = o
               /\ Own(r) \subseteq Visible(r)
    BY <1>1, <2>4 DEF IInv, Unlike, Own, Visible
  <2>5. apart \subseteq {r}
    BY <1>1, Alone
  <2>6. Unlike'
    BY <2>1, <2>3, <2>4, <2>5 DEF Unlike
  <2> QED BY <1>1, <2>2, <2>6 DEF IInv
<1> QED BY <1>2, <1>3

\* A run that ends leaves the others as they were, and nobody was alone with it.
LEMMA EndIInv ==
  ASSUME IInv, TypeOK', NEW r \in Runs, NEW rows \in SUBSET Numbers, End(r, rows),
         run[r].phase # "idle"
  PROVE  IInv'
<1>1. apart' = {}
  BY Alone DEF End
<1> QED BY <1>1 DEF IInv, LoneRuns, Unlike

LEMMA EndingsIInv ==
  ASSUME IInv, NEW r \in Runs, Commit(r) \/ Raise(r) \/ Lose(r) \/ BreakDeadlock(r)
  PROVE  IInv'
<1>1. TypeOK'
  BY EndingsTyped DEF IInv
<1>2. run[r].wrote \in SUBSET Numbers
  BY DEF IInv, TypeOK, RunStates
<1>3. CASE Commit(r)
  BY <1>1, <1>2, <1>3, EndIInv DEF Commit
<1>4. CASE Lose(r)
  BY <1>1, <1>4, EndIInv DEF Lose
<1>6. CASE BreakDeadlock(r)
  <2>1. run[r].phase # "idle"
    BY <1>6 DEF BreakDeadlock, Circle, WaitsFor, Holders, RunsOf, Active
  <2> QED BY <1>1, <1>6, <2>1, EndIInv DEF BreakDeadlock
<1>5. CASE Raise(r)
  <2>1. run[r].phase # "idle"
    BY <1>5 DEF Raise
  <2>2. PICK rows \in Kept(r) : End(r, rows)
    BY <1>5 DEF Raise
  <2>3. rows \in SUBSET Numbers
    BY <1>2, <2>2, KeptIsOwn
  <2> QED BY <1>1, <2>1, <2>2, <2>3, EndIInv
<1> QED BY <1>3, <1>4, <1>5, <1>6

\* Every step keeps the invariant of lone runs.
LEMMA NextIInv == IInv /\ [Next]_vars => IInv'
<1> SUFFICES ASSUME IInv, [Next]_vars PROVE IInv'
  OBVIOUS
<1>1. TypeOK'
  BY NextTyped DEF IInv
<1>2. CASE UNCHANGED vars
  BY <1>1, <1>2, QuietStep DEF vars
<1>3. ASSUME NEW b \in Boards, Publish(b) PROVE IInv'
  <2>1. \A r \in Runs : /\ run'[r].phase = run[r].phase /\ run'[r].board = run[r].board
                        /\ run'[r].wrote = run[r].wrote /\ run'[r].probe = run[r].probe
    BY <1>3 DEF Publish, IInv, TypeOK, RunStates
  <2> QED BY <1>1, <1>3, <2>1, QuietStep DEF Publish
<1>4. ASSUME NEW b \in Boards, NEW n \in Numbers, Expire(b, n) PROVE IInv'
  BY <1>1, <1>4, QuietStep DEF Expire
<1>5. ASSUME NEW r \in Runs, NEW b \in Boards, NEW f \in BOOLEAN, Begin(r, b, f) PROVE IInv'
  BY <1>5, BeginIInv
<1>6. ASSUME NEW r \in Runs, Step(r) PROVE IInv'
  <2>1. CASE FetchPage(r)
    <3>1. run[r].phase # "idle" /\ offers' = offers /\ apart' = apart
      BY <2>1 DEF FetchPage
    <3>2. \A s \in Runs \ {r} : run'[s] = run[s]
      BY <2>1 DEF FetchPage, IInv, TypeOK
    <3>3. /\ run'[r].phase # "idle" /\ run'[r].board = run[r].board
          /\ run'[r].wrote = run[r].wrote /\ run'[r].probe = run[r].probe
      <4>1. run[r] \in RunStates
        BY DEF IInv, TypeOK
      <4>2. \E todo, more, old, page :
               run'[r] = [run[r] EXCEPT !.phase = "persisting", !.todo = todo, !.more = more,
                                        !.old = old, !.page = page]
        BY <2>1 DEF FetchPage, IInv, TypeOK
      <4> QED BY <4>1, <4>2, Walked
    <3> QED BY <1>1, <3>1, <3>2, <3>3, PhaseStep
  <2>2. CASE EndPage(r)
    <3>1. run[r].phase # "idle" /\ offers' = offers /\ apart' = apart
      BY <2>2 DEF EndPage
    <3>2. \A s \in Runs \ {r} : run'[s] = run[s]
      BY <2>2 DEF EndPage, IInv, TypeOK
    <3>3. /\ run'[r].phase # "idle" /\ run'[r].board = run[r].board
          /\ run'[r].wrote = run[r].wrote /\ run'[r].probe = run[r].probe
      <4>1. run[r] \in RunStates
        BY DEF IInv, TypeOK
      <4>2. \E ph \in {"closing", "fetching"} : run'[r] = [run[r] EXCEPT !.phase = ph]
        <5> DEFINE ph == IF AtEnd(r) \/ CaughtUp(r) \/ run[r].page = MaxPages
                         THEN "closing" ELSE "fetching"
        <5>1. run'[r] = [run[r] EXCEPT !.phase = ph] /\ ph \in {"closing", "fetching"}
          BY <2>2 DEF EndPage, IInv, TypeOK
        <5> HIDE DEF ph
        <5> QED BY <5>1
      <4> QED BY <4>1, <4>2, Walked
    <3> QED BY <1>1, <3>1, <3>2, <3>3, PhaseStep
  <2>3. ASSUME NEW n \in Numbers, Skip(r, n) PROVE IInv'
    BY <1>1, <2>3, QuietStep DEF Skip, IInv, TypeOK
  <2> QED BY <1>6, <2>1, <2>2, <2>3, EndingsIInv, CheckContentIInv, InsertIInv DEF Step
<1>7. ASSUME NEW r \in Runs, Fails(r) \/ BreakDeadlock(r) PROVE IInv'
  <2>1. CASE PageFails(r)
    <3>1. run[r].phase # "idle" /\ offers' = offers /\ apart' = apart
      BY <2>1 DEF PageFails
    <3>2. \A s \in Runs \ {r} : run'[s] = run[s]
      BY <2>1 DEF PageFails, IInv, TypeOK
    <3>3. /\ run'[r].phase # "idle" /\ run'[r].board = run[r].board
          /\ run'[r].wrote = run[r].wrote /\ run'[r].probe = run[r].probe
      <4>1. run[r] \in RunStates
        BY DEF IInv, TypeOK
      <4>2. run'[r] = [run[r] EXCEPT !.phase = "closing"]
        BY <2>1 DEF PageFails, IInv, TypeOK
      <4> QED BY <4>1, <4>2, Walked
    <3> QED BY <1>1, <3>1, <3>2, <3>3, PhaseStep
  <2> QED BY <1>7, <2>1, EndingsIInv DEF Fails
<1> QED BY <1>2, <1>3, <1>4, <1>5, <1>6, <1>7 DEF Next

\* The rows that a run adds are its own, and when it is alone they are unlike
\* all the rows that are then committed.
LEMMA EndAddsOwn ==
  ASSUME IInv, NEW r \in Runs, NEW rows \in SUBSET run[r].wrote, End(r, rows),
         NEW p \in offers' \ offers, Twins(p, offers') # {p}
  PROVE  r \notin apart /\ run[r].board = p[1] /\ p[2] \in run[r].wrote
<1>1. PICK n \in rows : p = <<run[r].board, n>>
  BY DEF End
<1>2. offers' \subseteq Visible(r) /\ p \in Own(r)
  BY <1>1 DEF End, Visible, Own
<1>3. p \in Twins(p, offers')
  BY DEF Twins
<1>4. PICK q \in Twins(p, offers') : q # p
  BY <1>3
<1>5. q \in Visible(r) /\ Content[q] = Content[p]
  BY <1>2, <1>4 DEF Twins
<1> QED BY <1>1, <1>2, <1>4, <1>5 DEF IInv, Unlike

\* A step that adds a duplicate is the end of a run that was not alone.
LEMMA NextAddsNoDuplicate ==
  ASSUME IInv, [Next]_vars, NEW p \in offers' \ offers, Twins(p, offers') # {p}
  PROVE  \E r \in Runs \ apart : run[r].board = p[1] /\ p[2] \in run[r].wrote
<1>1. PICK r \in Runs : \E rows \in SUBSET run[r].wrote : End(r, rows)
  <2>1. PICK r \in Runs : Step(r) \/ Fails(r) \/ BreakDeadlock(r)
    BY DEF Next, vars, Publish, Begin, Expire
  <2>2. Commit(r) \/ Raise(r) \/ Lose(r) \/ BreakDeadlock(r)
    BY <2>1 DEF Step, Fails, FetchPage, EndPage, Skip, CheckContent, Insert, PageFails
  <2> QED BY <2>2, KeptIsOwn DEF Commit, Raise, Lose, BreakDeadlock
<1> QED BY <1>1, EndAddsOwn

\* A run that has met no other run commits no row whose content another row
\* has, on its own board or on any other.
THEOREM LoneRunsNeverDuplicate == Spec => LoneRunsAddNoDuplicate
<1>1. IInv /\ [Next]_vars =>
        [\A p \in offers' \ offers : Twins(p, offers') # {p} =>
            \E r \in Runs \ apart : run[r].board = p[1] /\ p[2] \in run[r].wrote]_vars
  BY NextAddsNoDuplicate
<1> QED BY InitIInv, NextIInv, <1>1, PTL DEF Spec, LoneRunsAddNoDuplicate

-----------------------------------------------------------------------------
(* Deadlocks *)

\* A posting that a run would insert if its walk came to it.
Fresh(r, x) == Wanted(run[r].board, x) /\ ~Known(r, x)

\* The offset of the k-th page.
Offset(k) == (k - 1) * PageSize

\* The offset where the page in hand begins, moved by what came in since the
\* run began: the run has seen every posting before it.
Reach(r) == Offset(run[r].page) + run[r].shift

Settled(r) ==
    /\ run[r].phase = "idle" => run[r].todo = {} /\ run[r].wrote = {} /\ run[r].probe = 0
    /\ run[r].phase = "fetching" => run[r].todo = {}
    /\ run[r].todo \cup run[r].wrote # {} => run[r].page >= 1
    /\ run[r].probe # 0 => IsNext(r, run[r].probe)

\* What is fresh and newer than a row of the run, or than one to come on this
\* page, is still on this page or lies before the reach.
Above(r) ==
    run[r].shift <= PageSize =>
        \A t \in run[r].todo \cup run[r].wrote : \A x \in feed[run[r].board] :
            x > t /\ x \notin run[r].todo /\ Fresh(r, x) => Rank(run[r].board, x) < Reach(r)

\* The walk inserts older and older postings.
Descends(r) ==
    run[r].shift <= PageSize =>
        \A w \in run[r].wrote :
            /\ \A x \in run[r].todo : x > w => ~Fresh(r, x)
            /\ run[r].probe # 0 => run[r].probe < w

WalkInv(r) == Settled(r) /\ Above(r) /\ Descends(r)

DInv == /\ TypeOK
        /\ \A b \in Boards : feed[b] \subseteq 1..published[b]
        /\ \A r \in Runs : WalkInv(r)

\* The offset of a posting is a number, and grows with its age.
LEMMA RankType ==
  ASSUME TypeOK, NEW b \in Boards
  PROVE  /\ \A x : Rank(b, x) \in Nat
         /\ \A x, y \in Numbers : x > y => Rank(b, x) <= Rank(b, y)
<1>1. IsFiniteSet(feed[b]) /\ feed[b] \subseteq Numbers
  <2>1. IsFiniteSet(Numbers)
    BY FS_Interval DEF Numbers
  <2> QED BY <2>1, FS_Subset DEF TypeOK
<1>2. \A x : {m \in feed[b] : m > x} \in SUBSET feed[b]
  OBVIOUS
<1>3. \A x : IsFiniteSet({m \in feed[b] : m > x}) /\ Rank(b, x) \in Nat
  BY <1>1, <1>2, FS_Subset, FS_CardinalityType DEF Rank
<1>4. ASSUME NEW x \in Numbers, NEW y \in Numbers, x > y PROVE Rank(b, x) <= Rank(b, y)
  <2> DEFINE A == {m \in feed[b] : m > x}
             B == {m \in feed[b] : m > y}
  <2>1. A \in SUBSET B
    BY <1>1, <1>4 DEF Numbers
  <2>2. IsFiniteSet(B)
    BY <1>3
  <2>3. Cardinality(A) <= Cardinality(B)
    <3> HIDE DEF A, B
    <3> QED BY <2>1, <2>2, FS_Subset
  <2> QED BY <2>3 DEF Rank
<1> QED BY <1>3, <1>4

\* A posting that stops being fresh does so for the rest of the run.
LEMMA FreshShrinks ==
  ASSUME NEW r, run'[r].board = run[r].board, run[r].wrote \subseteq run'[r].wrote,
         offers \subseteq offers'
  PROVE  \A x : Fresh(r, x)' => Fresh(r, x)
BY DEF Fresh, Known, Twins, Visible

\* One page begins where the one before ends.
LEMMA OffsetStep ==
  ASSUME NEW k \in Nat \ {0}
  PROVE  /\ Offset(k) \in Nat
         /\ Offset(k + 1) = Offset(k) + PageSize
         /\ Offset(k + 1) = k * PageSize
         /\ (k + 1) * PageSize = k * PageSize + PageSize
<1>1. PageSize \in Nat /\ k - 1 \in Nat
  BY LimitsAssumption
<1>2. PICK j \in Nat : j = k - 1 /\ k = j + 1
  BY <1>1
<1>3. j * PageSize \in Nat /\ (j + 1) * PageSize = j * PageSize + PageSize
  BY <1>1
<1> QED BY <1>1, <1>2, <1>3 DEF Offset

\* The walk of a run is not disturbed by what others commit.
LEMMA WalkKept ==
  ASSUME NEW r \in Runs, WalkInv(r), run'[r] = run[r], offers \subseteq offers',
         feed'[run[r].board] = feed[run[r].board]
  PROVE  WalkInv(r)'
<1>1. \A x : Fresh(r, x)' => Fresh(r, x)
  BY FreshShrinks
<1>2. \A x : Rank(run[r].board, x)' = Rank(run[r].board, x)
  BY DEF Rank
<1>3. Settled(r)' /\ Reach(r)' = Reach(r)
  BY DEF WalkInv, Settled, IsNext, Reach
<1>4. Above(r)'
  BY <1>1, <1>2, <1>3 DEF WalkInv, Above
<1>5. Descends(r)'
  BY <1>1 DEF WalkInv, Descends
<1> QED BY <1>3, <1>4, <1>5 DEF WalkInv

\* A step of one run.
LEMMA OneWalk ==
  ASSUME DInv, TypeOK', NEW r \in Runs, WalkInv(r)', \A s \in Runs \ {r} : run'[s] = run[s],
         feed' = feed, published' = published, offers \subseteq offers'
  PROVE  DInv'
<1>1. \A s \in Runs \ {r} : WalkInv(s)'
  BY WalkKept DEF DInv
<1> QED BY <1>1 DEF DInv

\* A run that is idle, or begins.
LEMMA EmptyWalk ==
  ASSUME NEW r \in Runs, run'[r].todo = {}, run'[r].wrote = {}, run'[r].probe = 0
  PROVE  WalkInv(r)'
BY DEF WalkInv, Settled, Above, Descends

\* A run that changes its phase only.
LEMMA PhaseWalk ==
  ASSUME DInv, TypeOK', NEW r \in Runs, NEW ph \in {"fetching", "closing"},
         run[r].todo = {}, run' = [run EXCEPT ![r].phase = ph],
         feed' = feed, published' = published, offers' = offers
  PROVE  DInv'
<1>1. /\ run'[r].board = run[r].board /\ run'[r].page = run[r].page
      /\ run'[r].todo = run[r].todo /\ run'[r].wrote = run[r].wrote
      /\ run'[r].probe = run[r].probe /\ run'[r].shift = run[r].shift
      /\ run'[r].phase = ph
      /\ \A s \in Runs \ {r} : run'[s] = run[s]
  BY DEF DInv, TypeOK, RunStates
<1>2. \A x : Fresh(r, x)' => Fresh(r, x)
  BY <1>1, FreshShrinks
<1>3. \A x : Rank(run[r].board, x)' = Rank(run[r].board, x)
  BY DEF Rank
<1>4. Settled(r)' /\ Reach(r)' = Reach(r)
  BY <1>1 DEF DInv, WalkInv, Settled, IsNext, Reach
<1>5. Above(r)' /\ Descends(r)'
  BY <1>1, <1>2, <1>3, <1>4 DEF DInv, WalkInv, Above, Descends
<1> QED BY <1>1, <1>4, <1>5, OneWalk DEF WalkInv

\* A posting more or less: it comes before the reach of every run.
LEMMA PublishWalk == ASSUME DInv, NEW b \in Boards, Publish(b) PROVE DInv'
<1>1. TypeOK' /\ TypeOK
  BY PublishTyped DEF DInv
<1>2. PICK p \in Numbers : p = published[b] + 1 /\ feed[b] \subseteq 1..(p - 1)
                             /\ published[b] \in Nat
  <2>1. published[b] + 1 \in Numbers /\ published[b] \in Nat
    BY <1>1 DEF TypeOK, Publish, Numbers
  <2>2. feed[b] \subseteq 1..published[b]
    BY DEF DInv
  <2> QED BY <2>1, <2>2
<1>3. feed'[b] = feed[b] \cup {p} /\ offers' = offers /\ \A c \in Boards \ {b} : feed'[c] = feed[c]
  BY <1>2 DEF Publish, DInv, TypeOK
<1>4. \A c \in Boards : feed'[c] \subseteq 1..published'[c]
  <2>1. published'[b] = p /\ \A c \in Boards \ {b} : published'[c] = published[c]
    BY <1>1, <1>2 DEF Publish, TypeOK
  <2>2. feed'[b] \subseteq 1..p
    BY <1>2, <1>3 DEF Numbers
  <2> QED BY <1>3, <2>1, <2>2 DEF DInv
<1>5. \A x \in feed[b] : Rank(b, x)' = Rank(b, x) + 1
  <2> TAKE x \in feed[b]
  <2> DEFINE A == {m \in feed[b] : m > x}
  <2>1. {m \in feed'[b] : m > x} = A \cup {p} /\ p \notin A
    BY <1>2, <1>3 DEF Numbers
  <2>2. IsFiniteSet(A)
    <3>1. IsFiniteSet(Numbers)
      BY FS_Interval DEF Numbers
    <3>2. A \in SUBSET Numbers
      BY <1>1 DEF TypeOK
    <3> HIDE DEF A
    <3> QED BY <3>1, <3>2, FS_Subset
  <2>3. Cardinality(A \cup {p}) = Cardinality(A) + 1
    <3> HIDE DEF A
    <3> QED BY <2>1, <2>2, FS_AddElement
  <2> QED BY <2>1, <2>3 DEF Rank
<1>6. Rank(b, p)' = 0
  <2>1. {m \in feed'[b] : m > p} = {}
    BY <1>2, <1>3 DEF Numbers
  <2> QED BY <2>1, FS_EmptySet DEF Rank
<1>7. ASSUME NEW r \in Runs PROVE WalkInv(r)'
  <2>1. run[r] \in RunStates /\ run[r].board \in Boards /\ WalkInv(r)
    BY <1>1 DEF DInv, TypeOK, RunStates
  <2>2. CASE r \notin RunsOf(b)
    <3>1. run'[r] = run[r]
      BY <2>2 DEF Publish
    <3>2. CASE run[r].phase = "idle"
      BY <2>1, <3>1, <3>2, EmptyWalk DEF WalkInv, Settled
    <3>3. CASE run[r].phase # "idle"
      <4>1. run[r].board # b
        BY <2>2, <3>3 DEF RunsOf, Active
      <4> QED BY <1>3, <2>1, <3>1, <4>1, WalkKept
    <3> QED BY <3>2, <3>3
  <2>3. CASE r \in RunsOf(b)
    <3>1. run'[r] = [run[r] EXCEPT !.shift = @ + 1]
      BY <2>3 DEF Publish
    <3>2. /\ run'[r].board = run[r].board /\ run'[r].page = run[r].page
          /\ run'[r].todo = run[r].todo /\ run'[r].wrote = run[r].wrote
          /\ run'[r].probe = run[r].probe /\ run'[r].shift = run[r].shift + 1
          /\ run'[r].phase = run[r].phase /\ run[r].board = b
          /\ run[r].shift \in Nat /\ run[r].page \in Nat
      BY <2>1, <2>3, <3>1 DEF RunStates, RunsOf
    <3>3. \A x : Fresh(r, x)' => Fresh(r, x)
      BY <1>3, <3>2, FreshShrinks
    <3>4. Settled(r)'
      BY <2>1, <3>2 DEF WalkInv, Settled, IsNext
    <3>5. Above(r)'
      <4> SUFFICES ASSUME run[r].shift + 1 <= PageSize,
                          NEW t \in run[r].todo \cup run[r].wrote, NEW x \in feed'[b],
                          x > t, x \notin run[r].todo, Fresh(r, x)
                   PROVE  Rank(b, x)' < Reach(r)'
        BY <3>2, <3>3 DEF Above
      <4>1. run[r].page \in Nat \ {0}
        BY <2>1, <3>2 DEF WalkInv, Settled
      <4>2. Offset(run[r].page) \in Nat
        BY <4>1, OffsetStep
      <4>3. Reach(r)' = Reach(r) + 1 /\ Reach(r) \in Nat
        <5>1. Offset(run[r].page)' = Offset(run[r].page)
          BY <3>2 DEF Offset
        <5> QED BY <3>2, <4>2, <5>1 DEF Reach
      <4>4. CASE x \in feed[b]
        <5>1. run[r].shift <= PageSize
          BY <3>2, LimitsAssumption
        <5>2. Rank(b, x) < Reach(r)
          BY <2>1, <3>2, <4>4, <5>1 DEF WalkInv, Above
        <5>3. Rank(b, x) \in Nat
          BY <1>1, RankType
        <5> QED BY <1>5, <4>3, <4>4, <5>2, <5>3
      <4>5. CASE x = p
        BY <1>6, <3>2, <4>3, <4>5
      <4> QED BY <1>3, <4>4, <4>5
    <3>6. Descends(r)'
      <4>1. run'[r].shift <= PageSize => run[r].shift <= PageSize
        BY <3>2, LimitsAssumption
      <4> QED BY <2>1, <3>2, <3>3, <4>1 DEF WalkInv, Descends
    <3> QED BY <3>4, <3>5, <3>6 DEF WalkInv
  <2> QED BY <2>2, <2>3
<1> QED BY <1>1, <1>4, <1>7 DEF DInv

LEMMA ExpireWalk ==
  ASSUME DInv, NEW b \in Boards, NEW n \in Numbers, Expire(b, n) PROVE DInv'
<1>1. TypeOK' /\ TypeOK
  BY ExpireTyped DEF DInv
<1>2. /\ run' = run /\ offers' = offers /\ published' = published
      /\ \A c \in Boards : feed'[c] \subseteq feed[c]
  BY <1>1 DEF Expire, TypeOK
<1>3. ASSUME NEW c \in Boards PROVE \A x : Rank(c, x)' <= Rank(c, x)
  <2> TAKE x
  <2> DEFINE A == {m \in feed'[c] : m > x}
             B == {m \in feed[c] : m > x}
  <2>1. A \in SUBSET B
    BY <1>2
  <2>2. IsFiniteSet(B)
    <3>1. IsFiniteSet(Numbers) /\ B \in SUBSET Numbers
      BY <1>1, FS_Interval DEF Numbers, TypeOK
    <3> HIDE DEF B
    <3> QED BY <3>1, FS_Subset
  <2>3. Cardinality(A) <= Cardinality(B)
    <3> HIDE DEF A, B
    <3> QED BY <2>1, <2>2, FS_Subset
  <2> QED BY <2>3 DEF Rank
<1>5. ASSUME NEW c \in Boards PROVE \A x : Rank(c, x)' \in Nat
  <2> TAKE x
  <2> DEFINE A == {m \in feed'[c] : m > x}
  <2>1. IsFiniteSet(Numbers) /\ A \in SUBSET Numbers
    <3>1. IsFiniteSet(Numbers)
      BY FS_Interval DEF Numbers
    <3>2. feed'[c] \subseteq Numbers
      BY <1>1 DEF TypeOK
    <3> QED BY <3>1, <3>2
  <2>2. Cardinality(A) \in Nat
    <3> HIDE DEF A
    <3> QED BY <2>1, FS_Subset, FS_CardinalityType
  <2> QED BY <2>2 DEF Rank
<1>4. ASSUME NEW r \in Runs PROVE WalkInv(r)'
  <2>1. /\ run[r].board \in Boards /\ WalkInv(r) /\ run[r].shift \in Nat /\ run[r].page \in Nat
        /\ run[r].todo \subseteq Numbers /\ run[r].wrote \subseteq Numbers
    BY <1>1 DEF DInv, TypeOK, RunStates
  <2>2. \A x : Fresh(r, x)' => Fresh(r, x)
    BY <1>2, FreshShrinks
  <2>3. Settled(r)' /\ Descends(r)' /\ Reach(r)' = Reach(r)
    BY <1>2, <2>1, <2>2 DEF WalkInv, Settled, Descends, IsNext, Reach
  <2>4. Above(r)'
    <3> SUFFICES ASSUME run[r].shift <= PageSize,
                        NEW t \in run[r].todo \cup run[r].wrote,
                        NEW x \in feed'[run[r].board],
                        x > t, x \notin run[r].todo, Fresh(r, x)
                 PROVE  Rank(run[r].board, x)' < Reach(r)'
      BY <1>2, <2>2 DEF Above
    <3>1. Rank(run[r].board, x) < Reach(r)
      BY <1>2, <2>1 DEF WalkInv, Above
    <3>2. Rank(run[r].board, x)' <= Rank(run[r].board, x)
      BY <1>2, <1>3, <2>1
    <3>3. Rank(run[r].board, x) \in Nat /\ Rank(run[r].board, x)' \in Nat
      BY <1>1, <1>2, <1>5, <2>1, RankType
    <3>4. run[r].page \in Nat \ {0}
      BY <2>1 DEF WalkInv, Settled
    <3>5. Reach(r) \in Nat
      <4>1. Offset(run[r].page) \in Nat
        BY <3>4, OffsetStep
      <4>2. run[r].shift \in Nat
        BY <2>1
      <4> QED BY <4>1, <4>2 DEF Reach
    <3> QED BY <2>3, <3>1, <3>2, <3>3, <3>5
  <2> QED BY <2>3, <2>4 DEF WalkInv
<1> QED BY <1>1, <1>2, <1>4 DEF DInv
\* A new page: what is fresh and newer than the rows of the run came before it.
LEMMA FetchPageWalk == ASSUME DInv, NEW r \in Runs, FetchPage(r) PROVE DInv'
<1> DEFINE b == run[r].board
           k == run[r].page
<1>1. TypeOK' /\ TypeOK
  BY FetchPageTyped DEF DInv
<1>2. /\ run[r] \in RunStates /\ b \in Boards /\ k \in Nat /\ run[r].shift \in Nat
      /\ feed[b] \subseteq Numbers /\ run[r].wrote \subseteq Numbers
      /\ WalkInv(r) /\ run[r].todo = {} /\ run[r].probe = 0
  BY <1>1 DEF DInv, TypeOK, RunStates, FetchPage, WalkInv, Settled, IsNext
<1>3. /\ run'[r].board = b /\ run'[r].page = k + 1 /\ run'[r].todo = PageOf(b, k)
      /\ run'[r].wrote = run[r].wrote /\ run'[r].probe = 0 /\ run'[r].shift = run[r].shift
      /\ run'[r].phase = "persisting"
      /\ \A s \in Runs \ {r} : run'[s] = run[s]
      /\ feed' = feed /\ published' = published /\ offers' = offers
  <2> DEFINE todo == PageOf(b, k)
             more == \E n \in feed[b] : Rank(b, n) >= (k + 1) * PageSize
             old == PageOf(b, k) # {} /\ \A n \in PageOf(b, k) : n < Since
  <2>1. run' = [run EXCEPT ![r] = [run[r] EXCEPT !.phase = "persisting", !.todo = todo,
                                       !.more = more, !.old = old, !.page = k + 1]]
    BY <1>1 DEF FetchPage, TypeOK
  <2> HIDE DEF todo, more, old, k, b
  <2>2. /\ run'[r] = [run[r] EXCEPT !.phase = "persisting", !.todo = todo,
                                       !.more = more, !.old = old, !.page = k + 1]
        /\ \A s \in Runs \ {r} : run'[s] = run[s]
    BY <1>1, <2>1 DEF TypeOK
  <2>3. /\ run'[r].board = run[r].board /\ run'[r].page = k + 1 /\ run'[r].todo = todo
        /\ run'[r].wrote = run[r].wrote /\ run'[r].probe = run[r].probe
        /\ run'[r].shift = run[r].shift /\ run'[r].phase = "persisting"
    BY <1>2, <2>2 DEF RunStates
  <2>4. feed' = feed /\ published' = published /\ offers' = offers
    BY DEF FetchPage
  <2> QED BY <1>2, <2>2, <2>3, <2>4 DEF b, k, todo
<1>4. /\ \A x : Fresh(r, x)' => Fresh(r, x)
      /\ \A x : Rank(b, x)' = Rank(b, x) /\ Rank(b, x) \in Nat
      /\ \A x, y \in Numbers : x > y => Rank(b, x) <= Rank(b, y)
      /\ PageSize \in Nat
  <2>1. \A x : Fresh(r, x)' => Fresh(r, x)
    BY <1>3, FreshShrinks
  <2>2. \A x : Rank(b, x)' = Rank(b, x)
    BY <1>3 DEF Rank
  <2>3. PageSize \in Nat
    BY LimitsAssumption
  <2> QED BY <1>1, <1>2, <2>1, <2>2, <2>3, RankType
<1>5. Offset(k + 1) = k * PageSize /\ Offset(k + 1) \in Nat
      /\ (k + 1) * PageSize = Offset(k + 1) + PageSize
  <2>1. k + 1 \in Nat \ {0}
    BY <1>2
  <2>2. Offset(k + 1) = k * PageSize
    <3> HIDE DEF k
    <3>1. (k + 1) - 1 = k
      BY <1>2
    <3> QED BY <3>1 DEF Offset
  <2>3. (k + 1) * PageSize = k * PageSize + PageSize /\ k * PageSize \in Nat
    <3> HIDE DEF k
    <3> QED BY <1>2, LimitsAssumption
  <2> QED BY <2>2, <2>3
<1>6. \A x \in PageOf(b, k) : /\ x \in feed[b] /\ Offset(k + 1) <= Rank(b, x)
                              /\ Rank(b, x) < Offset(k + 1) + PageSize
  BY <1>5 DEF PageOf
<1>7. \A x \in feed[b] : x \notin PageOf(b, k) /\ Rank(b, x) < Offset(k + 1) + PageSize
                            => Rank(b, x) < Offset(k + 1)
  BY <1>4, <1>5 DEF PageOf
<1>8. ASSUME run[r].shift <= PageSize, NEW w \in run[r].wrote, NEW x \in feed[b],
             x > w, Fresh(r, x)
      PROVE  Rank(b, x) < Offset(k + 1)
  <2>1. k \in Nat \ {0}
    BY <1>2 DEF WalkInv, Settled
  <2>2. Offset(k) \in Nat /\ Offset(k + 1) = Offset(k) + PageSize
    BY <2>1, OffsetStep
  <2>3. Rank(b, x) < Offset(k) + run[r].shift
    BY <1>2, <1>8 DEF WalkInv, Above, Reach
  <2> QED BY <1>2, <1>4, <1>8, <2>2, <2>3
<1>9. Reach(r)' = Offset(k + 1) + run[r].shift
  BY <1>3 DEF Reach, Offset
<1>10. Settled(r)'
  BY <1>2, <1>3 DEF Settled
<1>11. Above(r)'
  <2> SUFFICES ASSUME run[r].shift <= PageSize, NEW t \in PageOf(b, k) \cup run[r].wrote,
                      NEW x \in feed[b], x > t, x \notin PageOf(b, k), Fresh(r, x)
               PROVE  Rank(b, x) < Offset(k + 1) + run[r].shift
    BY <1>3, <1>4, <1>9 DEF Above
  <2>1. Rank(b, x) \in Nat /\ x \in Numbers
    BY <1>2, <1>4
  <2>2. CASE t \in run[r].wrote
    BY <1>2, <1>5, <1>8, <2>1, <2>2
  <2>3. CASE t \in PageOf(b, k)
    <3>1. t \in Numbers /\ Rank(b, t) < Offset(k + 1) + PageSize
      BY <1>2, <1>6, <2>3
    <3>2. Rank(b, x) <= Rank(b, t) /\ Rank(b, t) \in Nat
      BY <1>4, <2>1, <3>1
    <3>3. Rank(b, x) < Offset(k + 1)
      BY <1>4, <1>5, <1>7, <2>1, <3>1, <3>2
    <3> QED BY <1>2, <1>5, <2>1, <3>3
  <2> QED BY <2>2, <2>3
<1>12. Descends(r)'
  <2> SUFFICES ASSUME run[r].shift <= PageSize, NEW w \in run[r].wrote, NEW x \in PageOf(b, k),
                      x > w, Fresh(r, x)
               PROVE  FALSE
    BY <1>3, <1>4 DEF Descends
  <2>1. x \in feed[b] /\ Offset(k + 1) <= Rank(b, x)
    BY <1>6
  <2>2. Rank(b, x) < Offset(k + 1)
    BY <1>8, <2>1
  <2> QED BY <1>4, <1>5, <2>1, <2>2
<1>13. WalkInv(r)'
  BY <1>10, <1>11, <1>12 DEF WalkInv
<1> QED BY <1>1, <1>3, <1>13, OneWalk

\* A posting that is handled leaves the page, and is not fresh any more.
LEMMA HandledWalk ==
  ASSUME DInv, TypeOK', NEW r \in Runs, NEW n \in Numbers, IsNext(r, n),
         run'[r].board = run[r].board, run'[r].page = run[r].page,
         run'[r].phase = run[r].phase, run[r].phase = "persisting",
         run'[r].shift = run[r].shift, run'[r].probe = 0,
         run'[r].todo = run[r].todo \ {n},
         run'[r].wrote \in {run[r].wrote, run[r].wrote \cup {n}},
         \A s \in Runs \ {r} : run'[s] = run[s],
         feed' = feed, published' = published, offers' = offers,
         ~Fresh(r, n)'
  PROVE  DInv'
<1>1. /\ n \in run[r].todo /\ \A m \in run[r].todo : m <= n
      /\ run[r].todo \subseteq Numbers /\ WalkInv(r)
  BY DEF IsNext, DInv, TypeOK, RunStates
<1>2. \A x : Fresh(r, x)' => Fresh(r, x)
  BY FreshShrinks
<1>3. \A x : Rank(run[r].board, x)' = Rank(run[r].board, x)
  BY DEF Rank
<1>4. Reach(r)' = Reach(r)
  BY DEF Reach, Offset
<1>5. run'[r].todo \cup run'[r].wrote \subseteq run[r].todo \cup run[r].wrote
  BY <1>1
<1>6. Settled(r)'
  BY <1>1, <1>5 DEF WalkInv, Settled
<1>7. Above(r)'
  <2> SUFFICES ASSUME run[r].shift <= PageSize, NEW t \in run[r].todo \cup run[r].wrote,
                      NEW x \in feed[run[r].board], x > t, x \notin run[r].todo \ {n},
                      Fresh(r, x)'
               PROVE  Rank(run[r].board, x) < Reach(r)
    BY <1>3, <1>4, <1>5 DEF Above
  <2>1. x # n /\ Fresh(r, x)
    BY <1>2
  <2> QED BY <1>1, <2>1 DEF WalkInv, Above
<1>8. Descends(r)'
  <2> SUFFICES ASSUME run[r].shift <= PageSize, NEW w \in run'[r].wrote,
                      NEW x \in run[r].todo \ {n}, x > w, Fresh(r, x)
               PROVE  FALSE
    BY <1>2 DEF Descends
  <2>1. w # n
    BY <1>1 DEF Numbers
  <2> QED BY <1>1, <2>1 DEF WalkInv, Descends
<1>9. WalkInv(r)'
  BY <1>6, <1>7, <1>8 DEF WalkInv
<1> QED BY <1>9, OneWalk

LEMMA SkipWalk == ASSUME DInv, NEW r \in Runs, NEW n \in Numbers, Skip(r, n) PROVE DInv'
<1>1. TypeOK' /\ TypeOK
  BY SkipTyped DEF DInv
<1>2. run'[r] = [run[r] EXCEPT !.todo = @ \ {n}] /\ run[r] \in RunStates
      /\ \A s \in Runs \ {r} : run'[s] = run[s]
  BY <1>1 DEF Skip, TypeOK
<1>3. /\ run'[r].board = run[r].board /\ run'[r].page = run[r].page
      /\ run'[r].phase = run[r].phase /\ run'[r].shift = run[r].shift
      /\ run'[r].probe = run[r].probe /\ run'[r].todo = run[r].todo \ {n}
      /\ run'[r].wrote = run[r].wrote
  BY <1>2 DEF RunStates
<1>4. ~Fresh(r, n)'
  BY <1>3 DEF Skip, Fresh, Wanted
<1> QED BY <1>1, <1>2, <1>3, <1>4, HandledWalk DEF Skip

\* A posting that passes the check is older than every row of the run.
LEMMA CheckContentWalk ==
  ASSUME DInv, NEW r \in Runs, NEW n \in Numbers, CheckContent(r, n) PROVE DInv'
<1> DEFINE c == run[r].cross \/ <<run[r].board, n>> \notin Visible(r)
<1>1. TypeOK' /\ TypeOK
  BY CheckContentTyped DEF DInv
<1>2. run[r] \in RunStates /\ \A s \in Runs \ {r} : run'[s] = run[s]
  BY <1>1 DEF CheckContent, TypeOK
<1>3. CASE Known(r, n)
  <2>1. run'[r] = [run[r] EXCEPT !.todo = @ \ {n}, !.seen = @ + 1, !.cross = c]
    BY <1>1, <1>3 DEF CheckContent, TypeOK
  <2> HIDE DEF c
  <2>2. /\ run'[r].board = run[r].board /\ run'[r].page = run[r].page
        /\ run'[r].phase = run[r].phase /\ run'[r].shift = run[r].shift
        /\ run'[r].probe = run[r].probe /\ run'[r].todo = run[r].todo \ {n}
        /\ run'[r].wrote = run[r].wrote
    BY <1>2, <2>1 DEF RunStates
  <2>3. ~Fresh(r, n)'
    <3>1. Fresh(r, n)' => Fresh(r, n)
      BY <2>2, FreshShrinks DEF CheckContent
    <3> QED BY <1>3, <3>1 DEF Fresh
  <2> QED BY <1>1, <1>2, <2>2, <2>3, HandledWalk DEF CheckContent
<1>4. CASE ~Known(r, n)
  <2>1. run'[r] = [run[r] EXCEPT !.probe = n]
    BY <1>1, <1>4 DEF CheckContent, TypeOK
  <2>2. /\ run'[r].board = run[r].board /\ run'[r].page = run[r].page
        /\ run'[r].phase = run[r].phase /\ run'[r].shift = run[r].shift
        /\ run'[r].probe = n /\ run'[r].todo = run[r].todo
        /\ run'[r].wrote = run[r].wrote
    BY <1>2, <2>1 DEF RunStates
  <2>3. \A x : Fresh(r, x)' => Fresh(r, x)
    BY <2>2, FreshShrinks DEF CheckContent
  <2>4. \A x : Rank(run[r].board, x)' = Rank(run[r].board, x)
    BY DEF Rank, CheckContent
  <2>5. Settled(r)'
    BY <2>2 DEF DInv, WalkInv, Settled, IsNext, CheckContent
  <2>6. Reach(r)' = Reach(r)
    BY <2>2 DEF Reach, Offset
  <2>7. Above(r)'
    BY <2>2, <2>3, <2>4, <2>6 DEF DInv, WalkInv, Above, CheckContent
  <2>8. Fresh(r, n) /\ n \in run[r].todo
    BY <1>4 DEF Fresh, CheckContent, IsNext
  <2>9. \A w \in run[r].wrote : w # n /\ w \in Nat /\ n \in Nat
    <3> TAKE w \in run[r].wrote
    <3>1. <<run[r].board, w>> \in Visible(r)
      BY DEF Visible
    <3>2. <<run[r].board, n>> \notin Visible(r)
      BY <1>4 DEF Known, Twins
    <3>3. w \in Numbers
      BY <1>2 DEF RunStates
    <3> QED BY <3>1, <3>2, <3>3 DEF Numbers
  <2>10. Descends(r)'
    <3> SUFFICES ASSUME run[r].shift <= PageSize, NEW w \in run[r].wrote
                 PROVE  (\A x \in run[r].todo : x > w => ~Fresh(r, x)) /\ n < w
      BY <2>2, <2>3 DEF Descends
    <3>1. \A x \in run[r].todo : x > w => ~Fresh(r, x)
      BY DEF DInv, WalkInv, Descends
    <3>2. ~(n > w)
      BY <2>8, <3>1
    <3> QED BY <2>9, <3>1, <3>2
  <2>11. WalkInv(r)'
    BY <2>5, <2>7, <2>10 DEF WalkInv
  <2> QED BY <1>1, <1>2, <2>11, OneWalk DEF CheckContent
<1> QED BY <1>3, <1>4

LEMMA InsertWalk == ASSUME DInv, NEW r \in Runs, NEW n \in Numbers, Insert(r, n) PROVE DInv'
<1>1. TypeOK' /\ TypeOK
  BY InsertTyped DEF DInv
<1>2. run[r] \in RunStates /\ \A s \in Runs \ {r} : run'[s] = run[s]
  BY <1>1 DEF Insert, TypeOK
<1>3. IsNext(r, n)
  <2>1. run[r].probe = n /\ n # 0
    BY DEF Insert, Numbers
  <2> QED BY <2>1 DEF DInv, WalkInv, Settled
<1>4. /\ run'[r].board = run[r].board /\ run'[r].page = run[r].page
      /\ run'[r].phase = run[r].phase /\ run'[r].shift = run[r].shift
      /\ run'[r].probe = 0 /\ run'[r].todo = run[r].todo \ {n}
      /\ run'[r].wrote \in {run[r].wrote, run[r].wrote \cup {n}}
      /\ <<run[r].board, n>> \notin offers => n \in run'[r].wrote
  <2>1. CASE <<run[r].board, n>> \in offers
    <3>1. run'[r] = [run[r] EXCEPT !.probe = 0, !.todo = @ \ {n}, !.seen = @ + 1]
      BY <1>1, <2>1 DEF Insert, TypeOK
    <3> QED BY <1>2, <2>1, <3>1 DEF RunStates
  <2>2. CASE <<run[r].board, n>> \notin offers
    <3>1. run'[r] = [run[r] EXCEPT !.probe = 0, !.todo = @ \ {n}, !.wrote = @ \cup {n},
                                   !.seen = 0, !.cross = FALSE]
      BY <1>1, <2>2 DEF Insert, TypeOK
    <3> QED BY <1>2, <2>2, <3>1 DEF RunStates
  <2> QED BY <2>1, <2>2
<1>5. ~Fresh(r, n)'
  <2>1. <<run[r].board, n>> \in Visible(r)'
    BY <1>4 DEF Visible, Insert
  <2> QED BY <1>4, <2>1 DEF Fresh, Known, Twins
<1> QED BY <1>1, <1>2, <1>3, <1>4, <1>5, HandledWalk DEF Insert

\* A run that ends is idle, and what it commits makes fewer postings fresh.
LEMMA EndWalk ==
  ASSUME DInv, TypeOK', NEW r \in Runs, NEW rows, End(r, rows) PROVE DInv'
<1>1. /\ run'[r] = Idle(r) /\ \A s \in Runs \ {r} : run'[s] = run[s]
      /\ feed' = feed /\ published' = published /\ offers \subseteq offers'
  BY DEF End, DInv, TypeOK
<1>2. WalkInv(r)'
  BY <1>1, EmptyWalk DEF Idle
<1> QED BY <1>1, <1>2, OneWalk

LEMMA BeginWalk ==
  ASSUME DInv, NEW r \in Runs, NEW b \in Boards, NEW f \in BOOLEAN, Begin(r, b, f)
  PROVE  DInv'
<1>1. TypeOK'
  BY BeginTyped DEF DInv
<1>2. /\ \A s \in Runs \ {r} : run'[s] = run[s]
      /\ run'[r].todo = {} /\ run'[r].wrote = {} /\ run'[r].probe = 0
  BY DEF Begin, Idle, DInv, TypeOK
<1>3. WalkInv(r)'
  BY <1>2, EmptyWalk
<1> QED BY <1>1, <1>2, <1>3, OneWalk DEF Begin

\* Before the first run there are no rows to wait for.
LEMMA InitWalk == Init => DInv
<1> SUFFICES ASSUME Init PROVE DInv
  OBVIOUS
<1>1. TypeOK
  BY InitTyped
<1>2. \A b \in Boards : feed[b] \subseteq 1..published[b]
  BY DEF Init
<1>3. \A r \in Runs : run[r].todo = {} /\ run[r].wrote = {} /\ run[r].probe = 0
  BY DEF Init, Idle
<1> QED BY <1>1, <1>2, <1>3 DEF DInv, WalkInv, Settled, Above, Descends

\* Every step keeps the invariant of walks.
LEMMA NextWalk == DInv /\ [Next]_vars => DInv'
<1> SUFFICES ASSUME DInv, [Next]_vars PROVE DInv'
  OBVIOUS
<1>1. TypeOK'
  BY NextTyped DEF DInv
<1>2. CASE UNCHANGED vars
  <2>1. \A r \in Runs : WalkInv(r)'
    BY <1>2, WalkKept DEF DInv, vars
  <2> QED BY <1>1, <1>2, <2>1 DEF DInv, vars
<1>3. ASSUME NEW b \in Boards, Publish(b) \/ Begin(b, b, FALSE) PROVE DInv'
  BY <1>3, PublishWalk, BeginWalk
<1>4. ASSUME NEW b \in Boards, NEW n \in Numbers, Expire(b, n) PROVE DInv'
  BY <1>4, ExpireWalk
<1>5. ASSUME NEW r \in Users, NEW b \in Boards, NEW f \in BOOLEAN, Begin(r, b, f) PROVE DInv'
  BY <1>5, BeginWalk
<1>6. ASSUME NEW r \in Runs, Step(r) \/ Fails(r) \/ BreakDeadlock(r) PROVE DInv'
  <2>1. CASE EndPage(r)
    <3> DEFINE ph == IF AtEnd(r) \/ CaughtUp(r) \/ run[r].page = MaxPages
                     THEN "closing" ELSE "fetching"
    <3>1. run' = [run EXCEPT ![r].phase = ph] /\ ph \in {"fetching", "closing"}
      BY <2>1 DEF EndPage
    <3> HIDE DEF ph
    <3> QED BY <1>1, <2>1, <3>1, PhaseWalk DEF EndPage
  <2>2. CASE PageFails(r)
    <3>1. run[r].todo = {}
      BY <2>2 DEF PageFails, DInv, WalkInv, Settled
    <3> QED BY <1>1, <2>2, <3>1, PhaseWalk DEF PageFails
  <2>3. CASE Commit(r) \/ Raise(r) \/ Lose(r) \/ BreakDeadlock(r)
    <3>1. PICK rows : End(r, rows)
      BY <2>3 DEF Commit, Raise, Lose, BreakDeadlock
    <3> QED BY <1>1, <3>1, EndWalk
  <2>4. ASSUME NEW n \in Numbers, Skip(r, n) \/ CheckContent(r, n) \/ Insert(r, n)
        PROVE  DInv'
    BY <2>4, SkipWalk, CheckContentWalk, InsertWalk
  <2> QED BY <1>6, <2>1, <2>2, <2>3, <2>4, FetchPageWalk DEF Step, Fails
<1> QED BY <1>1, <1>2, <1>3, <1>4, <1>5, <1>6 DEF Next

\* Along a circle the awaited numbers would fall for ever.
LEMMA WalkHasNoCircle == DInv => DeadlockNeedsLongShift
<1> SUFFICES ASSUME DInv, NEW C \in SUBSET Runs, Circle(C),
                    \A r \in C : ~(run[r].shift > PageSize)
             PROVE  FALSE
  BY DEF DeadlockNeedsLongShift
<1>1. \A r \in C : /\ run[r].shift <= PageSize /\ run[r].probe \in Nat
                   /\ run[r].wrote \subseteq Numbers
  <2>1. \A r \in C : run[r] \in RunStates
    BY DEF DInv, TypeOK
  <2>2. PageSize \in Nat
    BY LimitsAssumption
  <2>3. \A r \in C : run[r].shift \in Nat /\ run[r].probe \in 0..MaxPosting
                     /\ run[r].wrote \subseteq Numbers
    BY <2>1 DEF RunStates
  <2> QED BY <2>2, <2>3
<1>2. \A r \in C : \E h \in C : run[h].probe < run[r].probe /\ run[r].probe \in Numbers
  <2> TAKE r \in C
  <2>1. PICK h \in C : WaitsFor(r, h)
    BY DEF Circle
  <2>2. run[r].probe \in run[h].wrote
    BY <2>1 DEF WaitsFor, Holders
  <2>3. run[h].probe # 0
    BY DEF Circle, WaitsFor
  <2>4. run[h].probe < run[r].probe
    BY <1>1, <2>2, <2>3 DEF DInv, WalkInv, Descends
  <2> QED BY <1>1, <2>2, <2>4
<1> DEFINE Downto == {1..run[r].probe : r \in C}
<1>3. Downto \subseteq SUBSET Numbers /\ Downto # {}
  <2>1. C # {}
    BY DEF Circle
  <2>2. \A r \in C : 1..run[r].probe \subseteq Numbers
    BY <1>2 DEF Numbers
  <2> QED BY <2>1, <2>2
<1>4. IsFiniteSet(Numbers)
  BY FS_Interval DEF Numbers
<1>5. PICK A \in Downto : \A B \in Downto : ~(<<B, A>> \in StrictSubsetOrdering(Numbers))
  <2> HIDE DEF Downto
  <2>1. IsWellFoundedOn(StrictSubsetOrdering(Numbers), FiniteSubsetsOf(Numbers))
    BY FS_StrictSubsetOrderingWellFounded
  <2>2. FiniteSubsetsOf(Numbers) = SUBSET Numbers
    BY <1>4, FS_FiniteSubsetsOfFinite
  <2> QED BY <1>3, <2>1, <2>2, WFMin
<1>6. PICK r \in C : A = 1..run[r].probe
  OBVIOUS
<1>7. PICK h \in C : run[h].probe < run[r].probe /\ run[r].probe \in Numbers
  BY <1>2
<1>8. 1..run[h].probe \in Downto /\ 1..run[h].probe \subseteq A /\ 1..run[h].probe # A
  <2>1. 1..run[h].probe \subseteq A
    BY <1>1, <1>6, <1>7
  <2>2. run[r].probe \in A /\ run[r].probe \notin 1..run[h].probe
    BY <1>1, <1>6, <1>7 DEF Numbers
  <2> QED BY <2>1, <2>2
<1> QED BY <1>3, <1>5, <1>8 DEF StrictSubsetOrdering

\* Runs of one board wait for each other in a circle only if more than a page
\* of postings came in while one of them ran.
THEOREM WalksRarelyDeadlock == Spec => []DeadlockNeedsLongShift
<1> QED BY InitWalk, NextWalk, WalkHasNoCircle, PTL DEF Spec
=============================================================================
