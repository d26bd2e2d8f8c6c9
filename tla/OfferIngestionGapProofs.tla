---------------------- MODULE OfferIngestionGapProofs -----------------------
(***************************************************************************)
(* Theorem of OfferIngestion that the page loop loses a posting only for   *)
(* the reasons that OnlyKnownGaps names, for any number of boards,         *)
(* requests and postings, any content of the postings and any limits.      *)
(*                                                                         *)
(* A run that stops at Threshold already-seen offers must not leave a      *)
(* fresh posting below the rows it commits.  Two facts of its walk carry   *)
(* that.  What it has left behind lies beyond the offset it has reached,   *)
(* and below every posting still to be handled: so the first offer of the  *)
(* streak that another run has committed ends the matter, because nothing  *)
(* below a committed row is missing.  And it re-reads its own rows at most *)
(* as often as the feed has shifted under it: so a streak of Threshold     *)
(* offers that are all its own needs a shift of Threshold postings.        *)
(***************************************************************************)
EXTENDS OfferIngestionProofs

USE BoardsAssumption, PostingsAssumption, LimitsAssumption DEF Runs

-----------------------------------------------------------------------------
(* The invariant *)

\* What the run has taken: the rest of its page, and the rows it has inserted.
Taken(r) == run[r].todo \cup run[r].wrote

\* What the run has left behind: fresh, below something it has met, and not on
\* its page.
Left(r) == {x \in feed[run[r].board] :
               Fresh(r, x) /\ x \notin run[r].todo /\ \E w \in Taken(r) : x < w}

\* The offset of the page to come.
NextOffset(r) == run[r].page * PageSize

\* What is left behind comes on a later page, and below all of this one.
Ahead(r) == \A x \in Left(r) : /\ Rank(run[r].board, x) >= NextOffset(r)
                               /\ \A t \in run[r].todo : x < t

\* On the last page of the feed, or of fetch_range, nothing is left behind.
Exhausted(r) == AtEnd(r) => Left(r) = {}

\* Nothing fresh lies below a row of the run.
Complete(r) == \A x \in feed[run[r].board] : \A w \in run[r].wrote : x < w => ~Fresh(r, x)

\* Own rows that are on the page once more.
Again(r) == Cardinality(run[r].todo \cap run[r].wrote)

\* All that the run has met lies before the offset f ...
Before(r, f) == /\ \A x \in Taken(r) : Rank(run[r].board, x) < f
                /\ NextOffset(r) <= f

\* ... and what it has read twice is made up for by what came in meanwhile,
\* so that a streak of its own rows only is no longer than the shift.
Repeats(r, f) ==
    /\ Again(r) + f <= NextOffset(r) + run[r].shift
    /\ run[r].cross \/ Complete(r) \/ run[r].seen + Again(r) + f <= NextOffset(r) + run[r].shift

Counted(r) == \E f \in Nat : Before(r, f) /\ Repeats(r, f)

Short(r) == run[r].shift < Threshold

\* A run that is about to commit leaves no gap.
Closing(r) == run[r].phase = "closing" => Complete(r)

Sound(r) == Short(r) /\ Ahead(r) /\ Exhausted(r) /\ Counted(r) /\ Closing(r)

\* Postings that were never published are neither stored nor met.
Stored == \A b \in Boards : \A m \in Numbers : <<b, m>> \in offers => m <= published[b]
Met == \A r \in Runs : \A m \in Taken(r) : m <= published[run[r].board]

SoundRuns == \A r \in Active : excuse[run[r].board] = {} => Sound(r)

GInv == Stored /\ Met /\ OnlyKnownGaps /\ SoundRuns

-----------------------------------------------------------------------------
(* Offsets *)

\* Two listed postings have different offsets.
LEMMA RankStrict ==
  ASSUME TypeOK, NEW b \in Boards, NEW x \in feed[b], NEW y \in feed[b], x < y
  PROVE  Rank(b, y) < Rank(b, x)
<1> DEFINE A == {m \in feed[b] : m > y}
           B == {m \in feed[b] : m > x}
<1>1. feed[b] \in SUBSET Numbers
  BY DEF TypeOK
<1>2. A \cup {y} \in SUBSET B /\ y \notin A
  BY <1>1 DEF Numbers
<1>3. IsFiniteSet(A) /\ IsFiniteSet(B)
  <2>1. IsFiniteSet(Numbers)
    BY FS_Interval DEF Numbers
  <2>2. A \in SUBSET Numbers /\ B \in SUBSET Numbers
    BY <1>1
  <2> HIDE DEF A, B
  <2> QED BY <2>1, <2>2, FS_Subset
<1>4. Cardinality(A) + 1 <= Cardinality(B) /\ Cardinality(A) \in Nat /\ Cardinality(B) \in Nat
  <2> HIDE DEF A, B
  <2>1. Cardinality(A \cup {y}) = Cardinality(A) + 1
    BY <1>2, <1>3, FS_AddElement
  <2>2. Cardinality(A \cup {y}) <= Cardinality(B)
    BY <1>2, <1>3, FS_Subset
  <2> QED BY <1>3, <2>1, <2>2, FS_CardinalityType
<1> QED BY <1>4 DEF Rank

\* So a window of the feed holds no more postings than it has offsets.
LEMMA Window ==
  ASSUME TypeOK, NEW b \in Boards, NEW i \in Nat, NEW j \in Nat, i <= j,
         NEW S \in SUBSET feed[b],
         \A x \in S : i <= Rank(b, x) /\ Rank(b, x) < j
  PROVE  IsFiniteSet(S) /\ Cardinality(S) \in Nat /\ Cardinality(S) + i <= j
<1> DEFINE f == [x \in S |-> Rank(b, x)]
           T == i..(j - 1)
<1>1. IsFiniteSet(T) /\ Cardinality(T) + i = j
  <2>1. i \in Int /\ j - 1 \in Int
    OBVIOUS
  <2>2. IsFiniteSet(T) /\ Cardinality(T) = IF i > j - 1 THEN 0 ELSE (j - 1) - i + 1
    BY <2>1, FS_Interval
  <2> HIDE DEF T
  <2> QED BY <2>2
<1>2. \A x \in S : Rank(b, x) \in Nat
  BY RankType
<1>3. \A x, y \in S : Rank(b, x) = Rank(b, y) => x = y
  <2> SUFFICES ASSUME NEW x \in S, NEW y \in S, Rank(b, x) = Rank(b, y), x # y
               PROVE  FALSE
    OBVIOUS
  <2>1. x \in Nat /\ y \in Nat
    BY DEF TypeOK, Numbers
  <2>2. CASE x < y
    BY <1>2, <2>2, RankStrict
  <2>3. CASE y < x
    BY <1>2, <2>3, RankStrict
  <2> QED BY <2>1, <2>2, <2>3
<1>4. f \in Injection(S, T)
  <2>1. f \in [S -> T]
    BY <1>2
  <2>2. \A x, y \in S : f[x] = f[y] => x = y
    BY <1>3
  <2> HIDE DEF f, T
  <2> QED BY <2>1, <2>2 DEF Injection, IsInjective
<1>5. IsFiniteSet(S) /\ Cardinality(S) <= Cardinality(T)
  <2> HIDE DEF f, T
  <2> QED BY <1>1, <1>4, FS_Injection
<1>6. Cardinality(S) \in Nat /\ Cardinality(T) \in Nat
  <2> HIDE DEF T
  <2> QED BY <1>1, <1>5, FS_CardinalityType
<1> HIDE DEF T
<1> QED BY <1>1, <1>5, <1>6

\* The offset of the page to come, and the own rows on this page.
LEMMA AgainType ==
  ASSUME TypeOK, NEW r \in Runs
  PROVE  /\ IsFiniteSet(run[r].todo \cap run[r].wrote) /\ Again(r) \in Nat
         /\ NextOffset(r) \in Nat
<1>1. run[r].todo \in SUBSET Numbers /\ run[r].page \in Nat
  BY DEF TypeOK, RunStates
<1>2. run[r].todo \cap run[r].wrote \in SUBSET Numbers
  BY <1>1
<1>3. IsFiniteSet(Numbers)
  BY FS_Interval DEF Numbers
<1>4. IsFiniteSet(run[r].todo \cap run[r].wrote)
  BY <1>2, <1>3, FS_Subset
<1>5. NextOffset(r) \in Nat
  BY <1>1 DEF NextOffset
<1> QED BY <1>4, <1>5, FS_CardinalityType DEF Again

-----------------------------------------------------------------------------
(* What keeps a walk sound *)

\* Less is left behind, and it has not come nearer.
LEMMA WalkStays ==
  ASSUME TypeOK, TypeOK', NEW r \in Runs, Ahead(r), Exhausted(r),
         run'[r].board = run[r].board, run'[r].page = run[r].page,
         run'[r].more = run[r].more, run'[r].old = run[r].old,
         run'[r].todo \subseteq run[r].todo, Left(r)' \subseteq Left(r),
         \A x \in Left(r)' : Rank(run[r].board, x)' >= Rank(run[r].board, x)
  PROVE  Ahead(r)' /\ Exhausted(r)'
<1>1. run[r].board \in Boards
  BY DEF TypeOK, RunStates
<1>2. NextOffset(r)' = NextOffset(r) /\ NextOffset(r) \in Nat
  BY AgainType DEF NextOffset
<1>3. \A x : Rank(run[r].board, x) \in Nat /\ Rank(run[r].board, x)' \in Nat
  <2>1. \A x : Rank(run[r].board, x) \in Nat
    BY <1>1, RankType
  <2>2. \A b \in Boards : \A x : Rank(b, x)' \in Nat
    <3> TAKE b \in Boards
    <3> TAKE x
    <3>1. {m \in feed'[b] : m > x} \in SUBSET Numbers
      BY DEF TypeOK
    <3>2. IsFiniteSet(Numbers)
      BY FS_Interval DEF Numbers
    <3> QED BY <3>1, <3>2, FS_Subset, FS_CardinalityType DEF Rank
  <2> QED BY <1>1, <2>1, <2>2
<1>4. Ahead(r)'
  <2> SUFFICES ASSUME NEW x \in Left(r)'
               PROVE  /\ Rank(run[r].board, x)' >= NextOffset(r)
                      /\ \A t \in run[r].todo : x < t
    BY <1>2 DEF Ahead
  <2>1. Rank(run[r].board, x) >= NextOffset(r) /\ \A t \in run[r].todo : x < t
    BY DEF Ahead
  <2>2. Rank(run[r].board, x)' >= Rank(run[r].board, x)
    OBVIOUS
  <2> QED BY <1>2, <1>3, <2>1, <2>2
<1>5. Exhausted(r)'
  <2>1. AtEnd(r)' = AtEnd(r)
    BY DEF AtEnd
  <2> QED BY <2>1 DEF Exhausted
<1> QED BY <1>4, <1>5

\* Nothing below a committed row is missing, so a run that meets one has
\* nothing to do any more for the rows it has inserted.
LEMMA MeetsStored ==
  ASSUME TypeOK, NEW r \in Runs, NEW n \in Numbers, IsNext(r, n), Ahead(r),
         <<run[r].board, n>> \in offers, NoGap(run[r].board)
  PROVE  Complete(r)
<1> SUFFICES ASSUME NEW x \in feed[run[r].board], NEW w \in run[r].wrote, x < w, Fresh(r, x)
             PROVE  FALSE
  BY DEF Complete
<1>1. x \in Nat /\ n \in Nat /\ run[r].todo \subseteq Numbers
  <2>1. run[r].board \in Boards /\ run[r].todo \subseteq Numbers
    BY DEF TypeOK, RunStates
  <2> QED BY <2>1 DEF TypeOK, Numbers
<1>2. \A m : Covered(run[r].board, m) => Known(r, m)
  BY DEF Covered, Known, Twins, Visible
<1>3. Covered(run[r].board, n)
  BY DEF Covered, Twins
<1>4. x # n
  BY <1>2, <1>3 DEF Fresh
<1>5. x <= n
  <2>1. CASE x \in run[r].todo
    BY <2>1 DEF IsNext
  <2>2. CASE x \notin run[r].todo
    <3>1. x \in Left(r)
      BY <2>2 DEF Left, Taken
    <3>2. x < n
      BY <3>1 DEF Ahead, IsNext
    <3> QED BY <1>1, <3>2
  <2> QED BY <2>1, <2>2
<1>6. Wanted(run[r].board, x) /\ ~Covered(run[r].board, x)
  BY <1>2 DEF Fresh
<1>7. n < x
  BY <1>6 DEF NoGap
<1> QED BY <1>1, <1>4, <1>5, <1>7

-----------------------------------------------------------------------------
(* The steps of a walk *)

\* A posting of the page is handled.  The streak goes on with one that is only
\* a content duplicate, with a committed one or with an own row; or it ends.
LEMMA HandledSound ==
  ASSUME TypeOK, TypeOK', NEW r \in Runs, NEW n \in Numbers, IsNext(r, n), Sound(r),
         run'[r].board = run[r].board, run'[r].page = run[r].page,
         run'[r].more = run[r].more, run'[r].old = run[r].old,
         run'[r].shift = run[r].shift, run'[r].phase = "persisting",
         run'[r].todo = run[r].todo \ {n},
         run'[r].wrote \in {run[r].wrote, run[r].wrote \cup {n}},
         feed' = feed, offers' = offers, ~Fresh(r, n)',
         \/ run'[r].wrote = run[r].wrote /\ run'[r].cross
         \/ run'[r].wrote = run[r].wrote /\ Complete(r)
         \/ /\ run'[r].wrote = run[r].wrote /\ n \in run[r].wrote
            /\ run'[r].cross = run[r].cross /\ run'[r].seen = run[r].seen + 1
         \/ run'[r].wrote = run[r].wrote /\ run'[r].cross = run[r].cross
            /\ run'[r].seen = run[r].seen
         \/ run'[r].seen = 0
  PROVE  Sound(r)'
<1>1. \A x : Fresh(r, x)' => Fresh(r, x)
  BY FreshShrinks
<1>2. \A x : Rank(run[r].board, x)' = Rank(run[r].board, x) /\ Rank(run[r].board, x) \in Nat
  <2>1. run[r].board \in Boards
    BY DEF TypeOK, RunStates
  <2> QED BY <2>1, RankType DEF Rank
<1>3. n \in run[r].todo /\ Taken(r)' \subseteq Taken(r)
  BY DEF IsNext, Taken
<1>4. Left(r)' \subseteq Left(r)
  <2> SUFFICES ASSUME NEW x \in Left(r)' PROVE x \in Left(r)
    OBVIOUS
  <2>1. x \in feed[run[r].board] /\ Fresh(r, x)' /\ x \notin run[r].todo \ {n}
        /\ \E w \in Taken(r)' : x < w
    BY DEF Left
  <2>2. x # n
    BY <2>1
  <2> QED BY <1>1, <1>3, <2>1, <2>2 DEF Left
<1>5. Ahead(r)' /\ Exhausted(r)'
  <2>1. \A x \in Left(r)' : Rank(run[r].board, x)' >= Rank(run[r].board, x)
    BY <1>2
  <2> QED BY <1>4, <2>1, WalkStays DEF Sound
<1>6. run'[r].wrote = run[r].wrote /\ Complete(r) => Complete(r)'
  BY <1>1 DEF Complete
<1>7. /\ Again(r) \in Nat /\ Again(r)' \in Nat /\ Again(r)' <= Again(r)
      /\ run'[r].wrote = run[r].wrote /\ n \in run[r].wrote => Again(r)' + 1 = Again(r)
  <2> DEFINE A == run[r].todo \cap run[r].wrote
             B == run'[r].todo \cap run'[r].wrote
  <2>1. B \in SUBSET A /\ (run'[r].wrote = run[r].wrote => B = A \ {n})
    OBVIOUS
  <2>2. n \in run[r].wrote => n \in A
    BY <1>3
  <2>3. IsFiniteSet(A) /\ Again(r) = Cardinality(A) /\ Again(r)' = Cardinality(B)
    BY AgainType DEF Again
  <2> HIDE DEF A, B
  <2>4. Cardinality(A) \in Nat /\ Cardinality(B) \in Nat /\ Cardinality(B) <= Cardinality(A)
    BY <2>1, <2>3, FS_Subset, FS_CardinalityType
  <2>5. n \in A => Cardinality(A \ {n}) = Cardinality(A) - 1
    BY <2>3, FS_RemoveElement
  <2>6. Again(r) \in Nat /\ Again(r)' \in Nat /\ Again(r)' <= Again(r)
    BY <2>3, <2>4
  <2>7. ASSUME run'[r].wrote = run[r].wrote, n \in run[r].wrote
        PROVE  Again(r)' + 1 = Again(r)
    <3>1. Cardinality(B) = Cardinality(A) - 1
      BY <2>1, <2>2, <2>5, <2>7
    <3> QED BY <2>3, <2>4, <3>1
  <2> QED BY <2>6, <2>7
<1>8. /\ NextOffset(r)' = NextOffset(r) /\ NextOffset(r) \in Nat
      /\ run[r].shift \in Nat /\ run[r].seen \in Nat
      /\ run[r].cross \in BOOLEAN /\ run'[r].cross \in BOOLEAN
  <2>1. run[r] \in RunStates /\ run'[r] \in RunStates
    BY DEF TypeOK
  <2>2. run[r].shift \in Nat /\ run[r].seen \in Nat
        /\ run[r].cross \in BOOLEAN /\ run'[r].cross \in BOOLEAN
    BY <2>1 DEF RunStates
  <2> QED BY <2>2, AgainType DEF NextOffset
<1>9. Counted(r)'
  <2>1. PICK f \in Nat : Before(r, f) /\ Repeats(r, f)
    BY DEF Sound, Counted
  <2>2. Before(r, f)'
    BY <1>2, <1>3, <1>8, <2>1 DEF Before
  <2>3. Again(r)' + f <= NextOffset(r) + run[r].shift
    BY <1>7, <1>8, <2>1 DEF Repeats
  <2>4. \/ run'[r].cross
        \/ Complete(r)'
        \/ run'[r].seen + Again(r)' + f <= NextOffset(r) + run[r].shift
    <3>1. CASE run'[r].wrote = run[r].wrote /\ run'[r].cross
      BY <3>1
    <3>2. CASE run'[r].wrote = run[r].wrote /\ Complete(r)
      BY <1>6, <3>2
    <3>3. CASE /\ run'[r].wrote = run[r].wrote /\ n \in run[r].wrote
               /\ run'[r].cross = run[r].cross /\ run'[r].seen = run[r].seen + 1
      <4>1. run[r].seen + Again(r) + f <= NextOffset(r) + run[r].shift =>
               run'[r].seen + Again(r)' + f <= NextOffset(r) + run[r].shift
        BY <1>7, <1>8, <3>3
      <4>2. run[r].cross \/ Complete(r)
              \/ run[r].seen + Again(r) + f <= NextOffset(r) + run[r].shift
        BY <2>1 DEF Repeats
      <4> QED BY <1>6, <3>3, <4>1, <4>2
    <3>4. CASE run'[r].wrote = run[r].wrote /\ run'[r].cross = run[r].cross
               /\ run'[r].seen = run[r].seen
      <4>1. run[r].seen + Again(r) + f <= NextOffset(r) + run[r].shift =>
               run'[r].seen + Again(r)' + f <= NextOffset(r) + run[r].shift
        BY <1>7, <1>8, <3>4
      <4> QED BY <1>6, <2>1, <3>4, <4>1 DEF Repeats
    <3>5. CASE run'[r].seen = 0
      BY <1>7, <2>3, <3>5
    <3> QED BY <3>1, <3>2, <3>3, <3>4, <3>5
  <2>5. Repeats(r, f)'
    BY <1>8, <2>3, <2>4 DEF Repeats
  <2> QED BY <2>2, <2>5 DEF Counted
<1>10. Short(r)' /\ Closing(r)'
  BY DEF Sound, Short, Closing
<1> QED BY <1>5, <1>9, <1>10 DEF Sound

\* Only the phase and the probe of the run change, whatever others commit.
LEMMA StandsSound ==
  ASSUME TypeOK, TypeOK', NEW r \in Runs, Sound(r),
         run'[r].board = run[r].board, run'[r].page = run[r].page,
         run'[r].more = run[r].more, run'[r].old = run[r].old,
         run'[r].shift = run[r].shift, run'[r].todo = run[r].todo,
         run'[r].wrote = run[r].wrote, run'[r].cross = run[r].cross,
         run'[r].seen = run[r].seen, offers \subseteq offers',
         feed'[run[r].board] = feed[run[r].board],
         run'[r].phase = "closing" => Complete(r)
  PROVE  Sound(r)'
<1>1. \A x : Fresh(r, x)' => Fresh(r, x)
  BY FreshShrinks
<1>2. \A x : Rank(run[r].board, x)' = Rank(run[r].board, x) /\ Rank(run[r].board, x) \in Nat
  <2>1. run[r].board \in Boards
    BY DEF TypeOK, RunStates
  <2> QED BY <2>1, RankType DEF Rank
<1>3. Left(r)' \subseteq Left(r)
  BY <1>1 DEF Left, Taken
<1>4. Ahead(r)' /\ Exhausted(r)'
  <2>1. \A x \in Left(r)' : Rank(run[r].board, x)' >= Rank(run[r].board, x)
    BY <1>2
  <2> QED BY <1>3, <2>1, WalkStays DEF Sound
<1>5. Complete(r) => Complete(r)'
  BY <1>1 DEF Complete
<1>6. Counted(r)'
  <2>1. NextOffset(r)' = NextOffset(r) /\ Again(r)' = Again(r) /\ Taken(r)' = Taken(r)
    BY DEF NextOffset, Again, Taken
  <2>2. PICK f \in Nat : Before(r, f) /\ Repeats(r, f)
    BY DEF Sound, Counted
  <2>3. Before(r, f)'
    BY <1>2, <2>1, <2>2 DEF Before
  <2>4. Repeats(r, f)'
    BY <1>5, <2>1, <2>2 DEF Repeats
  <2> QED BY <2>3, <2>4 DEF Counted
<1>7. Short(r)' /\ Closing(r)'
  BY <1>5 DEF Sound, Short, Closing
<1> QED BY <1>4, <1>6, <1>7 DEF Sound

\* A run whose record does not change.
LEMMA SoundKept ==
  ASSUME TypeOK, TypeOK', NEW r \in Runs, Sound(r), run'[r] = run[r], offers \subseteq offers',
         feed'[run[r].board] = feed[run[r].board]
  PROVE  Sound(r)'
BY StandsSound DEF Sound, Closing

\* A new page: what was left behind and is on it comes to be handled.
LEMMA FetchPageSound ==
  ASSUME DInv, NEW r \in Runs, FetchPage(r), Sound(r)
  PROVE  Sound(r)'
<1> DEFINE b == run[r].board
           k == run[r].page
           todo == PageOf(b, k)
           more == \E n \in feed[b] : Rank(b, n) >= (k + 1) * PageSize
           old == PageOf(b, k) # {} /\ \A n \in PageOf(b, k) : n < Since
<1>0. TypeOK /\ TypeOK'
  BY FetchPageTyped DEF DInv
<1>1. /\ TypeOK' /\ TypeOK /\ run[r] \in RunStates /\ b \in Boards /\ k \in Nat
      /\ run[r].todo = {} /\ run[r].shift \in Nat /\ run[r].seen \in Nat
      /\ feed[b] \subseteq Numbers /\ run[r].wrote \subseteq Numbers
  <2>1. run[r] \in RunStates
    BY <1>0 DEF TypeOK
  <2>2. run[r].todo = {}
    BY DEF FetchPage, DInv, WalkInv, Settled
  <2> QED BY <1>0, <2>1, <2>2 DEF TypeOK, RunStates
<1>2. /\ run'[r] = [run[r] EXCEPT !.phase = "persisting", !.todo = todo, !.more = more,
                                  !.old = old, !.page = k + 1]
      /\ feed' = feed /\ offers' = offers
  <2>1. run' = [run EXCEPT ![r] = [run[r] EXCEPT !.phase = "persisting", !.todo = todo,
                                       !.more = more, !.old = old, !.page = k + 1]]
    BY DEF FetchPage
  <2> HIDE DEF todo, more, old, k, b
  <2>2. feed' = feed /\ offers' = offers
    BY DEF FetchPage
  <2> QED BY <1>1, <2>1, <2>2 DEF TypeOK
<1>3. /\ run'[r].board = b /\ run'[r].page = k + 1 /\ run'[r].todo = todo
      /\ run'[r].wrote = run[r].wrote /\ run'[r].shift = run[r].shift
      /\ run'[r].seen = run[r].seen /\ run'[r].cross = run[r].cross
      /\ run'[r].phase = "persisting" /\ run'[r].more = more /\ run'[r].old = old
  <2> HIDE DEF todo, more, old, k
  <2>1. /\ run'[r].board = b /\ run'[r].page = k + 1 /\ run'[r].todo = todo
        /\ run'[r].wrote = run[r].wrote /\ run'[r].shift = run[r].shift
    BY <1>1, <1>2 DEF RunStates
  <2>2. /\ run'[r].seen = run[r].seen /\ run'[r].cross = run[r].cross
        /\ run'[r].phase = "persisting" /\ run'[r].more = more /\ run'[r].old = old
    BY <1>1, <1>2 DEF RunStates
  <2> QED BY <2>1, <2>2
<1>4. /\ \A x : Fresh(r, x)' => Fresh(r, x)
      /\ \A x : Rank(b, x)' = Rank(b, x) /\ Rank(b, x) \in Nat
      /\ \A x, y \in Numbers : x > y => Rank(b, x) <= Rank(b, y)
  <2>1. \A x : Fresh(r, x)' => Fresh(r, x)
    BY <1>2, <1>3, FreshShrinks
  <2>2. \A x : Rank(b, x)' = Rank(b, x)
    BY <1>2, <1>3 DEF Rank
  <2> QED BY <1>1, <2>1, <2>2, RankType
<1> DEFINE i == NextOffset(r)
           j == i + PageSize
<1>5. /\ i \in Nat /\ PageSize \in Nat /\ j \in Nat /\ i <= j /\ i = k * PageSize
      /\ (k + 1) * PageSize = j /\ NextOffset(r)' = j
  <2>1. i \in Nat /\ PageSize \in Nat /\ i = k * PageSize
    BY <1>1, AgainType, LimitsAssumption DEF NextOffset
  <2>2. (k + 1) * PageSize = k * PageSize + PageSize
    <3> HIDE DEF k
    <3> QED BY <1>1, LimitsAssumption
  <2>3. NextOffset(r)' = (k + 1) * PageSize
    BY <1>3 DEF NextOffset
  <2> HIDE DEF i, k
  <2> QED BY <2>1, <2>2, <2>3
<1>6. \A x : x \in todo <=> x \in feed[b] /\ i <= Rank(b, x) /\ Rank(b, x) < j
  <2> HIDE DEF i, k
  <2> QED BY <1>5 DEF PageOf
<1>7. more <=> \E n \in feed[b] : Rank(b, n) >= j
  BY <1>5
<1>8. old => todo # {} /\ \A n \in todo : n < Since
  OBVIOUS
<1> HIDE DEF todo, more, old, i, j, k
<1>9. \A x \in Left(r)' : x \in Numbers /\ x \in feed[b] /\ Fresh(r, x) /\ Rank(b, x) >= j
  <2> SUFFICES ASSUME NEW x \in Left(r)'
               PROVE  x \in Numbers /\ x \in feed[b] /\ Fresh(r, x) /\ Rank(b, x) >= j
    OBVIOUS
  <2>1. /\ x \in feed[b] /\ Fresh(r, x)' /\ x \notin todo
        /\ \E w \in todo \cup run[r].wrote : x < w
    BY <1>2, <1>3 DEF Left, Taken
  <2>2. x \in Numbers /\ Fresh(r, x)
    BY <1>1, <1>4, <2>1
  <2>3. PICK w \in todo \cup run[r].wrote : x < w
    BY <2>1
  <2>4. Rank(b, x) >= i
    <3>1. CASE w \in run[r].wrote
      <4>1. x \in Left(r)
        BY <1>1, <2>1, <2>2, <2>3, <3>1 DEF Left, Taken
      <4> QED BY <4>1 DEF Sound, Ahead, i
    <3>2. CASE w \in todo
      <4>1. w \in Numbers /\ i <= Rank(b, w)
        BY <1>1, <1>6, <3>2
      <4>2. w > x
        BY <2>2, <2>3, <4>1 DEF Numbers
      <4>3. Rank(b, w) <= Rank(b, x)
        BY <1>4, <2>2, <4>1, <4>2
      <4> QED BY <1>4, <1>5, <4>1, <4>3
    <3> QED BY <2>3, <3>1, <3>2
  <2>5. Rank(b, x) >= j
    BY <1>4, <1>5, <1>6, <2>1, <2>4
  <2> QED BY <2>1, <2>2, <2>5
<1>10. \A x \in Left(r)' : \A t \in todo : x < t
  <2> SUFFICES ASSUME NEW x \in Left(r)', NEW t \in todo PROVE x < t
    OBVIOUS
  <2>1. x \in Numbers /\ Rank(b, x) >= j /\ t \in Numbers /\ Rank(b, t) < j
    BY <1>1, <1>6, <1>9
  <2>2. x # t
    BY <1>4, <1>5, <2>1
  <2>3. ~(x > t)
    <3>1. x > t => Rank(b, x) <= Rank(b, t)
      BY <1>4, <2>1
    <3> QED BY <1>4, <1>5, <2>1, <3>1
  <2> QED BY <2>1, <2>2, <2>3 DEF Numbers
<1>11. Ahead(r)'
  <2>1. \A x \in Left(r)' : Rank(b, x)' >= NextOffset(r)'
    BY <1>4, <1>5, <1>9
  <2> QED BY <1>3, <1>10, <2>1 DEF Ahead
<1>12. Exhausted(r)'
  <2> SUFFICES ASSUME old \/ ~more, NEW x \in Left(r)' PROVE FALSE
    BY <1>3 DEF Exhausted, AtEnd
  <2>1. CASE ~more
    BY <1>7, <1>9, <2>1
  <2>2. CASE old
    <3>1. PICK t \in todo : t < Since
      BY <1>8, <2>2
    <3>2. x < t /\ x \in Numbers /\ t \in Numbers
      BY <1>1, <1>6, <1>9, <1>10
    <3>3. ~(x >= Since)
      BY <3>1, <3>2, LimitsAssumption DEF Numbers
    <3> QED BY <1>9, <3>3 DEF Fresh, Wanted
  <2> QED BY <2>1, <2>2
<1>13. Complete(r) => Complete(r)'
  BY <1>2, <1>3, <1>4 DEF Complete
<1>14. Counted(r)'
  <2>1. PICK f \in Nat : Before(r, f) /\ Repeats(r, f)
    BY DEF Sound, Counted
  <2>2. /\ \A x \in run[r].wrote : Rank(b, x) < f
        /\ i <= f /\ f <= i + run[r].shift
        /\ run[r].cross \/ Complete(r) \/ run[r].seen + f <= i + run[r].shift
    <3>1. Again(r) = 0
      BY <1>1, FS_EmptySet DEF Again
    <3>2. i <= f /\ \A x \in run[r].wrote : Rank(b, x) < f
      BY <2>1 DEF Before, Taken, i
    <3>3. 0 + f <= i + run[r].shift
      BY <2>1, <3>1 DEF Repeats, i
    <3>4. run[r].cross \/ Complete(r) \/ run[r].seen + 0 + f <= i + run[r].shift
      BY <2>1, <3>1 DEF Repeats, i
    <3> QED BY <1>1, <1>5, <3>2, <3>3, <3>4
  <2>3. PICK g \in Nat : g = IF f <= j THEN j ELSE f
    BY <1>5
  <2>4. f <= g /\ j <= g
    BY <1>5, <2>3
  <2> DEFINE A == todo \cap run[r].wrote
  <2>5. Again(r)' = Cardinality(A)
    BY <1>3 DEF Again
  <2>6. A \in SUBSET feed[b] /\ \A x \in A : i <= Rank(b, x) /\ Rank(b, x) < j /\ Rank(b, x) < f
    BY <1>6, <2>2
  <2> HIDE DEF A
  <2>7. Cardinality(A) \in Nat /\ Cardinality(A) + g <= j + f - i
    <3>1. CASE f <= j
      <4>1. Cardinality(A) \in Nat /\ Cardinality(A) + i <= f
        BY <1>1, <1>5, <2>2, <2>6, Window
      <4> QED BY <1>5, <2>3, <3>1, <4>1
    <3>2. CASE ~(f <= j)
      <4>1. Cardinality(A) \in Nat /\ Cardinality(A) + i <= j
        BY <1>1, <1>5, <2>6, Window
      <4> QED BY <1>5, <2>3, <3>2, <4>1
    <3> QED BY <3>1, <3>2
  <2>8. Before(r, g)'
    <3>1. \A x \in todo \cup run[r].wrote : Rank(b, x)' < g
      BY <1>4, <1>5, <1>6, <2>2, <2>4
    <3> QED BY <1>3, <1>5, <2>4, <3>1 DEF Before, Taken
  <2>9. Cardinality(A) + g <= j + run[r].shift
    BY <1>1, <1>5, <2>2, <2>7
  <2>10. run[r].seen + f <= i + run[r].shift =>
            run[r].seen + Cardinality(A) + g <= j + run[r].shift
    BY <1>1, <1>5, <2>7
  <2>11. Repeats(r, g)'
    BY <1>3, <1>5, <1>13, <2>2, <2>5, <2>9, <2>10 DEF Repeats
  <2> QED BY <2>8, <2>11 DEF Counted
<1>15. Short(r)' /\ Closing(r)'
  BY <1>3 DEF Sound, Short, Closing
<1> QED BY <1>11, <1>12, <1>14, <1>15 DEF Sound

\* A page has been handled: the run goes on, or it closes because nothing is
\* left behind, or because of a streak that is not its own rows only.
LEMMA EndPageSound ==
  ASSUME DInv, NEW r \in Runs, EndPage(r), Sound(r), excuse[run[r].board] = {},
         excuse'[run[r].board] = {}
  PROVE  Sound(r)'
<1> DEFINE ph == IF AtEnd(r) \/ CaughtUp(r) \/ run[r].page = MaxPages
                 THEN "closing" ELSE "fetching"
<1>1. TypeOK /\ TypeOK' /\ run[r].board \in Boards /\ run[r] \in RunStates /\ run[r].todo = {}
  BY EndPageTyped DEF DInv, TypeOK, RunStates, EndPage
<1>2. run'[r] = [run[r] EXCEPT !.phase = ph] /\ feed' = feed /\ offers' = offers
  BY <1>1 DEF EndPage, TypeOK
<1>3. AtEnd(r) \/ (CaughtUp(r) /\ ~run[r].cross) \/ ph = "fetching"
  <2> SUFFICES ASSUME ~AtEnd(r), CaughtUp(r) => run[r].cross, ph = "closing" PROVE FALSE
    OBVIOUS
  <2>1. CASE CaughtUp(r)
    <3>1. excuse'[run[r].board] = excuse[run[r].board] \cup {"cross-posted"}
      BY <1>1, <2>1 DEF EndPage, Excused, TypeOK
    <3> QED BY <3>1
  <2>2. CASE ~CaughtUp(r)
    <3>1. run[r].page = MaxPages
      BY <2>2
    <3>2. excuse'[run[r].board] = excuse[run[r].board] \cup {"page limit"}
      BY <1>1, <2>2, <3>1 DEF EndPage, Excused, TypeOK
    <3> QED BY <3>2
  <2> QED BY <2>1, <2>2
<1> HIDE DEF ph
<1>4. /\ run'[r].board = run[r].board /\ run'[r].page = run[r].page
      /\ run'[r].more = run[r].more /\ run'[r].old = run[r].old
      /\ run'[r].shift = run[r].shift /\ run'[r].todo = run[r].todo
      /\ run'[r].wrote = run[r].wrote /\ run'[r].cross = run[r].cross
      /\ run'[r].seen = run[r].seen /\ run'[r].phase = ph
  BY <1>1, <1>2 DEF RunStates
<1>5. AtEnd(r) => Complete(r)
  BY <1>1 DEF Sound, Exhausted, Left, Taken, Complete
<1>6. CaughtUp(r) /\ ~run[r].cross => Complete(r)
  <2> SUFFICES ASSUME run[r].seen >= Threshold, ~run[r].cross, ~Complete(r) PROVE FALSE
    BY DEF CaughtUp
  <2>1. PICK f \in Nat : Before(r, f) /\ Repeats(r, f)
    BY DEF Sound, Counted
  <2>2. /\ NextOffset(r) <= f
        /\ run[r].seen + Again(r) + f <= NextOffset(r) + run[r].shift
    BY <2>1 DEF Before, Repeats
  <2>3. run[r].seen \in Nat /\ run[r].shift \in Nat /\ Again(r) \in Nat /\ NextOffset(r) \in Nat
    BY <1>1, AgainType DEF RunStates
  <2>4. run[r].shift < Threshold /\ Threshold \in Nat
    BY LimitsAssumption DEF Sound, Short
  <2> QED BY <2>2, <2>3, <2>4
<1>7. run'[r].phase = "closing" => Complete(r)
  <2>1. CASE ph = "fetching"
    BY <1>4, <2>1
  <2> QED BY <1>3, <1>5, <1>6, <2>1
<1> QED BY <1>1, <1>2, <1>4, <1>7, StandsSound

\* A run whose first page fails closes with nothing; a later page is excused.
LEMMA PageFailsSound ==
  ASSUME DInv, NEW r \in Runs, PageFails(r), Sound(r), excuse'[run[r].board] = {}
  PROVE  Sound(r)'
<1>1. TypeOK /\ TypeOK' /\ run[r].board \in Boards /\ run[r] \in RunStates
  BY PageFailsTyped DEF DInv, TypeOK, RunStates
<1>2. run'[r] = [run[r] EXCEPT !.phase = "closing"] /\ feed' = feed /\ offers' = offers
  BY <1>1 DEF PageFails, TypeOK
<1>3. /\ run'[r].board = run[r].board /\ run'[r].page = run[r].page
      /\ run'[r].more = run[r].more /\ run'[r].old = run[r].old
      /\ run'[r].shift = run[r].shift /\ run'[r].todo = run[r].todo
      /\ run'[r].wrote = run[r].wrote /\ run'[r].cross = run[r].cross
      /\ run'[r].seen = run[r].seen
  BY <1>1, <1>2 DEF RunStates
<1>4. ~(run[r].page > 0)
  <2> SUFFICES ASSUME run[r].page > 0 PROVE FALSE
    OBVIOUS
  <2>1. excuse'[run[r].board] = excuse[run[r].board] \cup {"page failed"}
    BY <1>1 DEF PageFails, Excused, TypeOK
  <2> QED BY <2>1
<1>5. run[r].wrote = {}
  <2>1. run[r].page \in Nat
    BY <1>1 DEF RunStates
  <2> QED BY <1>4, <2>1 DEF DInv, WalkInv, Settled
<1> QED BY <1>1, <1>2, <1>3, <1>5, StandsSound DEF Complete

\* An offer that is out of range or invalid does not touch the streak.
LEMMA SkipSound ==
  ASSUME DInv, NEW r \in Runs, NEW n \in Numbers, Skip(r, n), Sound(r)
  PROVE  Sound(r)'
<1>1. TypeOK /\ TypeOK' /\ run[r] \in RunStates
  BY SkipTyped DEF DInv, TypeOK
<1>2. run'[r] = [run[r] EXCEPT !.todo = @ \ {n}]
  BY <1>1 DEF Skip, TypeOK
<1>3. /\ run'[r].board = run[r].board /\ run'[r].page = run[r].page
      /\ run'[r].more = run[r].more /\ run'[r].old = run[r].old
      /\ run'[r].shift = run[r].shift /\ run'[r].phase = run[r].phase
      /\ run'[r].todo = run[r].todo \ {n} /\ run'[r].wrote = run[r].wrote
      /\ run'[r].cross = run[r].cross /\ run'[r].seen = run[r].seen
  BY <1>1, <1>2 DEF RunStates
<1>4. ~Fresh(r, n)' /\ IsNext(r, n) /\ run[r].phase = "persisting"
      /\ feed' = feed /\ offers' = offers
  BY <1>3 DEF Skip, Fresh, Wanted
<1> QED BY <1>1, <1>3, <1>4, HandledSound

\* The content check goes on with the streak, or leaves the posting for the
\* INSERT.
LEMMA CheckContentSound ==
  ASSUME DInv, NEW r \in Runs, NEW n \in Numbers, CheckContent(r, n), Sound(r),
         NoGap(run[r].board)
  PROVE  Sound(r)'
<1> DEFINE p == <<run[r].board, n>>
           c == run[r].cross \/ p \notin Visible(r)
<1>1. TypeOK /\ TypeOK' /\ run[r] \in RunStates
  BY CheckContentTyped DEF DInv, TypeOK
<1>2. feed' = feed /\ offers' = offers /\ IsNext(r, n) /\ run[r].phase = "persisting"
  BY DEF CheckContent
<1>3. CASE Known(r, n)
  <2>1. run'[r] = [run[r] EXCEPT !.todo = @ \ {n}, !.seen = @ + 1, !.cross = c]
    BY <1>1, <1>3 DEF CheckContent, TypeOK
  <2> HIDE DEF c
  <2>2. /\ run'[r].board = run[r].board /\ run'[r].page = run[r].page
        /\ run'[r].more = run[r].more /\ run'[r].old = run[r].old
        /\ run'[r].shift = run[r].shift /\ run'[r].phase = run[r].phase
        /\ run'[r].todo = run[r].todo \ {n} /\ run'[r].wrote = run[r].wrote
        /\ run'[r].cross = c /\ run'[r].seen = run[r].seen + 1
    BY <1>1, <2>1 DEF RunStates
  <2>3. ~Fresh(r, n)'
    <3>1. Fresh(r, n)' => Fresh(r, n)
      BY <1>2, <2>2, FreshShrinks
    <3> QED BY <1>3, <3>1 DEF Fresh
  <2>4. \/ run'[r].cross
        \/ Complete(r)
        \/ n \in run[r].wrote /\ run'[r].cross = run[r].cross
    <3>1. CASE p \notin Visible(r)
      BY <2>2, <3>1 DEF c
    <3>2. CASE p \in offers
      BY <1>1, <1>2, <3>2, MeetsStored DEF Sound
    <3>3. CASE p \in Visible(r) /\ p \notin offers
      <4>1. n \in run[r].wrote
        BY <3>3 DEF Visible
      <4>2. run'[r].cross = run[r].cross
        <5>1. run[r].cross \in BOOLEAN
          BY <1>1 DEF RunStates
        <5> QED BY <2>2, <3>3, <5>1 DEF c
      <4> QED BY <4>1, <4>2
    <3> QED BY <3>1, <3>2, <3>3
  <2> QED BY <1>1, <1>2, <2>2, <2>3, <2>4, HandledSound
<1>4. CASE ~Known(r, n)
  <2>1. run'[r] = [run[r] EXCEPT !.probe = n]
    BY <1>1, <1>4 DEF CheckContent, TypeOK
  <2>2. /\ run'[r].board = run[r].board /\ run'[r].page = run[r].page
        /\ run'[r].more = run[r].more /\ run'[r].old = run[r].old
        /\ run'[r].shift = run[r].shift /\ run'[r].phase = run[r].phase
        /\ run'[r].todo = run[r].todo /\ run'[r].wrote = run[r].wrote
        /\ run'[r].cross = run[r].cross /\ run'[r].seen = run[r].seen
    BY <1>1, <2>1 DEF RunStates
  <2> QED BY <1>1, <1>2, <2>2, StandsSound
<1> QED BY <1>3, <1>4

\* The INSERT meets a committed row, or ends the streak.
LEMMA InsertSound ==
  ASSUME DInv, NEW r \in Runs, NEW n \in Numbers, Insert(r, n), Sound(r),
         NoGap(run[r].board)
  PROVE  Sound(r)'
<1>1. TypeOK /\ TypeOK' /\ run[r] \in RunStates
  BY InsertTyped DEF DInv, TypeOK
<1>2. IsNext(r, n)
  <2>1. run[r].probe = n /\ n # 0
    BY DEF Insert, Numbers
  <2> QED BY <2>1 DEF DInv, WalkInv, Settled
<1>3. feed' = feed /\ offers' = offers /\ run[r].phase = "persisting"
  BY DEF Insert
<1>4. CASE <<run[r].board, n>> \in offers
  <2>1. run'[r] = [run[r] EXCEPT !.probe = 0, !.todo = @ \ {n}, !.seen = @ + 1]
    BY <1>1, <1>4 DEF Insert, TypeOK
  <2>2. /\ run'[r].board = run[r].board /\ run'[r].page = run[r].page
        /\ run'[r].more = run[r].more /\ run'[r].old = run[r].old
        /\ run'[r].shift = run[r].shift /\ run'[r].phase = run[r].phase
        /\ run'[r].todo = run[r].todo \ {n} /\ run'[r].wrote = run[r].wrote
    BY <1>1, <2>1 DEF RunStates
  <2>3. ~Fresh(r, n)'
    <3>1. <<run[r].board, n>> \in Visible(r)'
      BY <1>3, <1>4, <2>2 DEF Visible
    <3> QED BY <2>2, <3>1 DEF Fresh, Known, Twins
  <2>4. Complete(r)
    BY <1>1, <1>2, <1>4, MeetsStored DEF Sound
  <2> QED BY <1>1, <1>2, <1>3, <2>2, <2>3, <2>4, HandledSound
<1>5. CASE <<run[r].board, n>> \notin offers
  <2>1. run'[r] = [run[r] EXCEPT !.probe = 0, !.todo = @ \ {n}, !.wrote = @ \cup {n},
                                 !.seen = 0, !.cross = FALSE]
    BY <1>1, <1>5 DEF Insert, TypeOK
  <2>2. /\ run'[r].board = run[r].board /\ run'[r].page = run[r].page
        /\ run'[r].more = run[r].more /\ run'[r].old = run[r].old
        /\ run'[r].shift = run[r].shift /\ run'[r].phase = run[r].phase
        /\ run'[r].todo = run[r].todo \ {n} /\ run'[r].wrote = run[r].wrote \cup {n}
        /\ run'[r].seen = 0
    BY <1>1, <2>1 DEF RunStates
  <2>3. ~Fresh(r, n)'
    <3>1. <<run[r].board, n>> \in Visible(r)'
      BY <1>3, <2>2 DEF Visible
    <3> QED BY <2>2, <3>1 DEF Fresh, Known, Twins
  <2> QED BY <1>1, <1>2, <1>3, <2>2, <2>3, HandledSound
<1> QED BY <1>4, <1>5

\* A posting that comes in moves every older one by one offset.
LEMMA PublishMoves ==
  ASSUME DInv, NEW b \in Boards, Publish(b)
  PROVE  /\ feed'[b] = feed[b] \cup {published[b] + 1} /\ published[b] \in Nat
         /\ \A c \in Boards \ {b} : feed'[c] = feed[c]
         /\ published' = [published EXCEPT ![b] = published[b] + 1]
         /\ \A x \in Numbers : x <= published[b] => Rank(b, x)' = Rank(b, x) + 1
<1>1. /\ feed'[b] = feed[b] \cup {published[b] + 1} /\ published[b] \in Nat
      /\ feed[b] \subseteq 1..published[b] /\ feed[b] \in SUBSET Numbers
      /\ published' = [published EXCEPT ![b] = published[b] + 1]
      /\ \A c \in Boards \ {b} : feed'[c] = feed[c]
  <2>1. /\ feed \in [Boards -> SUBSET Numbers] /\ published \in [Boards -> 0..MaxPosting]
        /\ feed[b] \subseteq 1..published[b]
    BY DEF DInv, TypeOK
  <2>2. /\ feed' = [feed EXCEPT ![b] = @ \cup {published[b] + 1}]
        /\ published' = [published EXCEPT ![b] = @ + 1]
    BY DEF Publish
  <2> QED BY <2>1, <2>2
<1>2. ASSUME NEW x \in Numbers, x <= published[b]
      PROVE  Rank(b, x)' = Rank(b, x) + 1
  <2> DEFINE A == {m \in feed[b] : m > x}
             p == published[b] + 1
  <2>1. p \notin A
    BY <1>1
  <2>2. {m \in feed'[b] : m > x} = A \cup {p}
    BY <1>1, <1>2 DEF Numbers
  <2>3. IsFiniteSet(A)
    <3>1. A \in SUBSET Numbers
      BY <1>1
    <3>2. IsFiniteSet(Numbers)
      BY FS_Interval DEF Numbers
    <3> HIDE DEF A
    <3> QED BY <3>1, <3>2, FS_Subset
  <2>4. Cardinality(A \cup {p}) = Cardinality(A) + 1
    <3> HIDE DEF A, p
    <3> QED BY <2>1, <2>3, FS_AddElement
  <2> QED BY <2>2, <2>4 DEF Rank
<1> QED BY <1>1, <1>2

\* It lies above all that a run has met, and lengthens the streak of own rows
\* that the run may read by one.
LEMMA PublishSound ==
  ASSUME DInv, Met, NEW b \in Boards, Publish(b), NEW r \in Active, Sound(r),
         excuse'[run[r].board] = {}
  PROVE  Sound(r)'
<1>1. /\ TypeOK /\ TypeOK' /\ r \in Runs /\ run[r] \in RunStates /\ run[r].board \in Boards
      /\ offers' = offers /\ run[r].shift \in Nat /\ run[r].seen \in Nat
      /\ Taken(r) \subseteq Numbers
  <2>1. TypeOK /\ TypeOK' /\ r \in Runs /\ offers' = offers
    BY PublishTyped DEF DInv, Active, Publish
  <2>2. run[r] \in RunStates
    BY <2>1 DEF TypeOK
  <2> QED BY <2>1, <2>2 DEF RunStates, Taken
<1>2. CASE run[r].board # b
  <2>1. run'[r] = run[r]
    BY <1>1, <1>2 DEF Publish, RunsOf
  <2>2. feed'[run[r].board] = feed[run[r].board]
    BY <1>1, <1>2, PublishMoves
  <2> QED BY <1>1, <2>1, <2>2, SoundKept
<1>3. CASE run[r].board = b
  <2>1. run'[r] = [run[r] EXCEPT !.shift = @ + 1] /\ r \in RunsOf(b)
    BY <1>1, <1>3 DEF Publish, RunsOf
  <2>2. /\ run'[r].board = run[r].board /\ run'[r].page = run[r].page
        /\ run'[r].more = run[r].more /\ run'[r].old = run[r].old
        /\ run'[r].shift = run[r].shift + 1 /\ run'[r].phase = run[r].phase
        /\ run'[r].todo = run[r].todo /\ run'[r].wrote = run[r].wrote
        /\ run'[r].cross = run[r].cross /\ run'[r].seen = run[r].seen
    BY <1>1, <2>1 DEF RunStates
  <2>3. \A x : Fresh(r, x)' => Fresh(r, x)
    BY <1>1, <2>2, FreshShrinks
  <2>4. \A w \in Taken(r) : w <= published[b] /\ w \in Nat
    BY <1>1, <1>3 DEF Met, Numbers
  <2>5. \A x \in feed'[b] : \A w \in Taken(r) : x < w => x \in feed[b]
    BY <2>4, PublishMoves
  <2>6. Left(r)' \subseteq Left(r)
    BY <1>3, <2>2, <2>3, <2>5 DEF Left, Taken
  <2>7. /\ \A x \in feed[b] : Rank(b, x)' = Rank(b, x) + 1 /\ Rank(b, x) \in Nat
        /\ \A x \in Taken(r) : Rank(b, x)' = Rank(b, x) + 1 /\ Rank(b, x) \in Nat
    <3>1. \A x \in feed[b] : x \in Numbers /\ x <= published[b]
      <4>1. feed[b] \subseteq Numbers /\ feed[b] \subseteq 1..published[b]
        BY <1>1 DEF TypeOK, DInv
      <4>2. \A x \in 1..published[b] : x <= published[b]
        OBVIOUS
      <4> QED BY <4>1, <4>2
    <3>2. \A x : Rank(b, x) \in Nat
      BY <1>1, RankType
    <3> QED BY <1>1, <2>4, <3>1, <3>2, PublishMoves
  <2>8. Ahead(r)' /\ Exhausted(r)'
    <3>1. \A x \in Left(r)' : Rank(run[r].board, x)' >= Rank(run[r].board, x)
      <4>1. \A x \in Left(r)' : x \in feed[b]
        BY <1>3, <2>6 DEF Left
      <4>2. \A x \in feed[b] : Rank(b, x)' >= Rank(b, x)
        <5> TAKE x \in feed[b]
        <5>1. Rank(b, x)' = Rank(b, x) + 1 /\ Rank(b, x) \in Nat
          BY <2>7
        <5> QED BY <5>1
      <4> QED BY <1>3, <2>2, <4>1, <4>2
    <3> QED BY <1>1, <2>2, <2>6, <3>1, WalkStays DEF Sound
  <2>9. Complete(r) => Complete(r)'
    <3> SUFFICES ASSUME Complete(r), NEW x \in feed'[b], NEW w \in run[r].wrote, x < w
                 PROVE  ~Fresh(r, x)'
      BY <1>3, <2>2 DEF Complete
    <3>1. x \in feed[b]
      BY <2>5 DEF Taken
    <3> QED BY <1>3, <2>3, <3>1 DEF Complete
  <2>10. Counted(r)'
    <3>1. /\ NextOffset(r)' = NextOffset(r) /\ Again(r)' = Again(r) /\ Taken(r)' = Taken(r)
          /\ NextOffset(r) \in Nat /\ Again(r) \in Nat
      BY <1>1, <2>2, AgainType DEF NextOffset, Again, Taken
    <3>2. PICK f \in Nat : Before(r, f) /\ Repeats(r, f)
      BY DEF Sound, Counted
    <3>3. PICK g \in Nat : g = f + 1
      OBVIOUS
    <3>4. Before(r, g)'
      <4>1. \A x \in Taken(r) : Rank(b, x)' < g
        BY <1>3, <2>7, <3>2, <3>3 DEF Before
      <4>2. NextOffset(r) <= g
        BY <3>1, <3>2, <3>3 DEF Before
      <4> QED BY <1>3, <2>2, <3>1, <4>1, <4>2 DEF Before
    <3>5. /\ Again(r) + f <= NextOffset(r) + run[r].shift =>
                Again(r) + g <= NextOffset(r) + run'[r].shift
          /\ run[r].seen + Again(r) + f <= NextOffset(r) + run[r].shift =>
                run[r].seen + Again(r) + g <= NextOffset(r) + run'[r].shift
      BY <1>1, <2>2, <3>1, <3>3
    <3>6. Repeats(r, g)'
      BY <2>2, <2>9, <3>1, <3>2, <3>5 DEF Repeats
    <3> QED BY <3>4, <3>6 DEF Counted
  <2>11. Short(r)'
    <3> SUFFICES ASSUME run[r].shift + 1 >= Threshold PROVE FALSE
      BY <1>1, <2>2, LimitsAssumption DEF Short
    <3>1. excuse'[b] = excuse[b] \cup {"shifted"}
      BY <1>1, <2>1 DEF Publish, Excused, TypeOK
    <3> QED BY <1>3, <3>1
  <2>12. Closing(r)'
    BY <2>2, <2>9 DEF Sound, Closing
  <2> QED BY <2>8, <2>10, <2>11, <2>12 DEF Sound
<1> QED BY <1>2, <1>3

-----------------------------------------------------------------------------
(* Every step keeps the invariant *)

\* No event is forgotten.
Remembers == \A b \in Boards : excuse'[b] = {} => excuse[b] = {}

\* An event on a board is added to what excuses its gaps.
LEMMA ExcusedRemembers ==
  ASSUME TypeOK, NEW c \in Boards, NEW S, Excused(c, S) PROVE Remembers
<1> SUFFICES ASSUME NEW b \in Boards, excuse'[b] = {} PROVE excuse[b] = {}
  BY DEF Remembers
<1>1. CASE b = c
  <2>1. excuse'[b] = excuse[b] \cup S
    BY <1>1 DEF Excused, TypeOK
  <2> QED BY <2>1
<1>2. CASE b # c
  <2>1. excuse'[b] = excuse[b]
    BY <1>2 DEF Excused, TypeOK
  <2> QED BY <2>1
<1> QED BY <1>1, <1>2

\* A board that gets no row and no posting gets no gap.
LEMMA GapKept ==
  ASSUME NEW b \in Boards, NoGap(b), offers \subseteq offers',
         \A m \in Numbers : <<b, m>> \in offers' => <<b, m>> \in offers,
         feed'[b] \subseteq feed[b]
  PROVE  NoGap(b)'
<1>1. \A n : Covered(b, n) => Covered(b, n)'
  BY DEF Covered, Twins
<1> QED BY <1>1 DEF NoGap, Wanted

\* A step of one run that does not end it.
LEMMA OneRunGap ==
  ASSUME DInv, GInv, TypeOK', NEW r \in Runs, run'[r].board = run[r].board,
         \A s \in Runs \ {r} : run'[s] = run[s],
         Taken(r)' \subseteq Taken(r) \cup feed[run[r].board],
         feed' = feed, published' = published, offers' = offers, Remembers,
         excuse'[run[r].board] = {} => Sound(r)'
  PROVE  GInv'
<1>1. TypeOK /\ \A s \in Runs : run[s].board \in Boards
  BY DEF DInv, TypeOK, RunStates
<1>2. Stored'
  BY DEF GInv, Stored
<1>3. Met'
  <2> SUFFICES ASSUME NEW s \in Runs, NEW m \in Taken(s)' PROVE m <= published[run'[s].board]
    BY DEF Met
  <2>1. CASE s = r
    <3>1. run[r].board \in Boards /\ \A n \in feed[run[r].board] : n <= published[run[r].board]
      <4>1. run[r].board \in Boards
        BY <1>1
      <4>2. feed[run[r].board] \subseteq 1..published[run[r].board]
        BY <4>1 DEF DInv
      <4>3. \A n \in 1..published[run[r].board] : n <= published[run[r].board]
        OBVIOUS
      <4> QED BY <4>1, <4>2, <4>3
    <3> QED BY <2>1, <3>1 DEF GInv, Met
  <2>2. CASE s # r
    <3>1. run'[s] = run[s]
      BY <2>2
    <3>2. m \in Taken(s)
      BY <3>1 DEF Taken
    <3> QED BY <3>1, <3>2 DEF GInv, Met
  <2> QED BY <2>1, <2>2
<1>4. OnlyKnownGaps'
  <2> SUFFICES ASSUME NEW b \in Boards, excuse'[b] = {} PROVE NoGap(b)'
    BY DEF OnlyKnownGaps
  <2>1. NoGap(b)
    BY DEF Remembers, GInv, OnlyKnownGaps
  <2> QED BY <2>1, GapKept
<1>5. SoundRuns'
  <2> SUFFICES ASSUME NEW s \in Active', excuse'[run'[s].board] = {} PROVE Sound(s)'
    BY DEF SoundRuns
  <2>1. s \in Runs
    BY DEF Active
  <2>2. CASE s = r
    BY <2>2
  <2>3. CASE s # r
    <3>1. run'[s] = run[s] /\ s \in Active
      BY <2>1, <2>3 DEF Active
    <3>2. excuse[run[s].board] = {}
      BY <1>1, <2>1, <3>1 DEF Remembers
    <3>3. Sound(s)
      BY <3>1, <3>2 DEF GInv, SoundRuns
    <3> QED BY <1>1, <2>1, <3>1, <3>3, SoundKept
  <2> QED BY <2>2, <2>3
<1> QED BY <1>2, <1>3, <1>4, <1>5 DEF GInv

\* A run that ends commits nothing, or rows with nothing fresh below them.
LEMMA EndGap ==
  ASSUME DInv, GInv, TypeOK', NEW r \in Runs, NEW rows \in SUBSET run[r].wrote, End(r, rows),
         Remembers,
         excuse'[run[r].board] = {} => rows = {} \/ (rows = run[r].wrote /\ Complete(r))
  PROVE  GInv'
<1>1. /\ TypeOK /\ run[r].wrote \subseteq Numbers
      /\ \A s \in Runs : run[s].board \in Boards
  BY DEF DInv, TypeOK, RunStates
<1>b. PICK b \in Boards : b = run[r].board
  BY <1>1
<1>2. /\ offers' = offers \cup {<<b, n>> : n \in rows} /\ feed' = feed /\ published' = published
      /\ run'[r] = Idle(r) /\ \A s \in Runs \ {r} : run'[s] = run[s]
  BY <1>1, <1>b DEF End, TypeOK
<1>3. Idle(r).phase = "idle" /\ Idle(r).todo = {} /\ Idle(r).wrote = {}
  BY DEF Idle
<1>4. \A c \in Boards : \A m \in Numbers :
         <<c, m>> \in offers' => <<c, m>> \in offers \/ (c = b /\ m \in rows)
  BY <1>2
<1>5. Stored'
  <2>1. \A m \in rows : m <= published[b]
    BY <1>b DEF GInv, Met, Taken
  <2> QED BY <1>2, <1>4, <2>1 DEF GInv, Stored
<1>6. Met'
  <2> SUFFICES ASSUME NEW s \in Runs, NEW m \in Taken(s)' PROVE m <= published[run'[s].board]
    BY <1>2 DEF Met
  <2>1. s # r
    BY <1>2, <1>3 DEF Taken
  <2>2. run'[s] = run[s] /\ m \in Taken(s)
    BY <1>2, <2>1 DEF Taken
  <2> QED BY <2>2 DEF GInv, Met
<1>7. OnlyKnownGaps'
  <2> SUFFICES ASSUME NEW c \in Boards, excuse'[c] = {} PROVE NoGap(c)'
    BY DEF OnlyKnownGaps
  <2>1. NoGap(c)
    BY DEF Remembers, GInv, OnlyKnownGaps
  <2>2. CASE c # b \/ rows = {}
    <3>1. \A m \in Numbers : <<c, m>> \in offers' => <<c, m>> \in offers
      BY <1>4, <2>2
    <3> QED BY <1>2, <2>1, <3>1, GapKept
  <2>3. CASE c = b /\ rows # {}
    <3>1. rows = run[r].wrote /\ Complete(r)
      BY <1>b, <2>3
    <3>2. offers' = Visible(r) /\ offers \subseteq offers'
      BY <1>b, <1>2, <3>1 DEF Visible
    <3>3. \A n : Known(r, n) => Covered(b, n)'
      BY <1>b, <3>2 DEF Known, Covered, Twins
    <3> SUFFICES ASSUME NEW n \in feed[b], Wanted(b, n), ~Covered(b, n)', NEW m \in Numbers,
                        <<b, m>> \in offers'
                 PROVE  m < n
      BY <1>2, <2>3 DEF NoGap, Wanted
    <3>4. n \in Nat /\ m \in Nat
      BY <1>1 DEF TypeOK, Numbers
    <3>5. CASE <<b, m>> \in offers
      <4>1. ~Covered(b, n)
        BY <1>2 DEF Covered, Twins
      <4> QED BY <2>1, <2>3, <3>5, <4>1 DEF NoGap
    <3>6. CASE m \in run[r].wrote
      <4>1. m # n
        BY DEF Covered, Twins
      <4>2. ~(n < m)
        <5>1. Fresh(r, n)
          BY <1>b, <3>3 DEF Fresh
        <5> QED BY <1>b, <3>1, <3>6, <5>1 DEF Complete
      <4> QED BY <3>4, <4>1, <4>2
    <3> QED BY <1>1, <1>4, <3>1, <3>5, <3>6
  <2> QED BY <2>2, <2>3
<1>8. SoundRuns'
  <2> SUFFICES ASSUME NEW s \in Active', excuse'[run'[s].board] = {} PROVE Sound(s)'
    BY DEF SoundRuns
  <2>1. s \in Runs /\ s # r
    BY <1>2, <1>3 DEF Active
  <2>2. run'[s] = run[s] /\ s \in Active
    BY <1>2, <2>1 DEF Active
  <2>3. Sound(s)
    BY <1>1, <2>1, <2>2 DEF Remembers, GInv, SoundRuns
  <2> QED BY <1>1, <1>2, <2>1, <2>2, <2>3, SoundKept
<1> QED BY <1>5, <1>6, <1>7, <1>8 DEF GInv

\* A run starts with nothing met, at offset 0.
LEMMA BeginGap ==
  ASSUME DInv, GInv, NEW r \in Runs, NEW c \in Boards, NEW f \in BOOLEAN, Begin(r, c, f)
  PROVE  GInv'
<1>1. /\ TypeOK /\ TypeOK' /\ \A s \in Runs : run[s].board \in Boards
      /\ feed' = feed /\ published' = published /\ offers' = offers /\ excuse' = excuse
  BY BeginTyped DEF DInv, TypeOK, RunStates, Begin
<1>2. run'[r] = [Idle(r) EXCEPT !.phase = "fetching", !.board = c, !.forced = f]
      /\ \A s \in Runs \ {r} : run'[s] = run[s]
  BY <1>1 DEF Begin, TypeOK
<1>3. /\ run'[r].phase = "fetching" /\ run'[r].page = 0 /\ run'[r].more = TRUE
      /\ run'[r].old = FALSE /\ run'[r].todo = {} /\ run'[r].wrote = {}
      /\ run'[r].seen = 0 /\ run'[r].shift = 0
  BY <1>2 DEF Idle
<1>4. Sound(r)'
  <2>1. Taken(r)' = {} /\ Left(r)' = {}
    BY <1>3 DEF Taken, Left
  <2>2. NextOffset(r)' = 0 /\ Again(r)' = 0
    <3>1. NextOffset(r)' = 0
      <4>1. PageSize \in Nat
        BY LimitsAssumption
      <4>2. 0 * PageSize = 0
        BY <4>1
      <4> QED BY <1>3, <4>2 DEF NextOffset
    <3>2. run'[r].todo \cap run'[r].wrote = {}
      BY <1>3
    <3> QED BY <3>1, <3>2, FS_EmptySet DEF Again
  <2>3. Before(r, 0)' /\ Repeats(r, 0)'
    BY <1>3, <2>1, <2>2 DEF Before, Repeats
  <2>4. Counted(r)'
    BY <2>3 DEF Counted
  <2>5. Threshold > 0
    BY LimitsAssumption
  <2> QED BY <1>3, <2>1, <2>4, <2>5 DEF Sound, Short, Ahead, Exhausted, Closing
<1>5. Stored'
  BY <1>1 DEF GInv, Stored
<1>6. Met'
  <2> SUFFICES ASSUME NEW s \in Runs, NEW m \in Taken(s)' PROVE m <= published[run'[s].board]
    BY <1>1 DEF Met
  <2>1. s # r
    BY <1>3 DEF Taken
  <2>2. run'[s] = run[s] /\ m \in Taken(s)
    BY <1>2, <2>1 DEF Taken
  <2> QED BY <2>2 DEF GInv, Met
<1>7. OnlyKnownGaps'
  <2> SUFFICES ASSUME NEW b \in Boards, excuse'[b] = {} PROVE NoGap(b)'
    BY DEF OnlyKnownGaps
  <2>1. NoGap(b)
    BY <1>1 DEF GInv, OnlyKnownGaps
  <2> QED BY <1>1, <2>1, GapKept
<1>8. SoundRuns'
  <2> SUFFICES ASSUME NEW s \in Active', excuse'[run'[s].board] = {} PROVE Sound(s)'
    BY DEF SoundRuns
  <2>1. s \in Runs
    BY DEF Active
  <2>2. CASE s = r
    BY <1>4, <2>2
  <2>3. CASE s # r
    <3>1. run'[s] = run[s] /\ s \in Active
      BY <1>2, <2>1, <2>3 DEF Active
    <3>2. Sound(s)
      BY <1>1, <3>1 DEF GInv, SoundRuns
    <3> QED BY <1>1, <2>1, <3>1, <3>2, SoundKept
  <2> QED BY <2>2, <2>3
<1> QED BY <1>5, <1>6, <1>7, <1>8 DEF GInv

\* A posting that comes in is newer than every row of its board.
LEMMA PublishGap == ASSUME DInv, GInv, NEW b \in Boards, Publish(b) PROVE GInv'
<1>1. /\ TypeOK /\ TypeOK' /\ \A s \in Runs : run[s].board \in Boards
      /\ offers' = offers /\ Remembers /\ published[b] \in Nat
      /\ \A c \in Boards : published[c] \in Nat /\ published'[c] \in Nat
  <2>1. Remembers
    BY ExcusedRemembers DEF Publish, DInv
  <2>2. TypeOK /\ TypeOK' /\ offers' = offers
    BY PublishTyped DEF DInv, Publish
  <2>3. \A c \in Boards : published[c] \in Nat /\ published'[c] \in Nat
    BY <2>2 DEF TypeOK
  <2> QED BY <2>1, <2>2, <2>3 DEF TypeOK, RunStates
<1>2. /\ feed'[b] = feed[b] \cup {published[b] + 1}
      /\ \A c \in Boards \ {b} : feed'[c] = feed[c]
      /\ published' = [published EXCEPT ![b] = published[b] + 1]
  BY PublishMoves
<1>3. \A c \in Boards : published[c] <= published'[c]
  BY <1>1, <1>2 DEF TypeOK
<1>4. \A s \in Runs : /\ run'[s].board = run[s].board /\ run'[s].phase = run[s].phase
                      /\ run'[s].todo = run[s].todo /\ run'[s].wrote = run[s].wrote
  <2> TAKE s \in Runs
  <2>1. run'[s] = run[s] \/ run'[s] = [run[s] EXCEPT !.shift = @ + 1]
    BY DEF Publish
  <2>2. run[s] \in RunStates
    BY <1>1 DEF TypeOK
  <2> QED BY <2>1, <2>2 DEF RunStates
<1>5. Stored'
  <2> SUFFICES ASSUME NEW c \in Boards, NEW m \in Numbers, <<c, m>> \in offers
               PROVE  m <= published'[c]
    BY <1>1 DEF Stored
  <2>1. m <= published[c] /\ m \in Nat
    BY DEF GInv, Stored, Numbers
  <2> QED BY <1>1, <1>3, <2>1
<1>6. Met'
  <2> SUFFICES ASSUME NEW s \in Runs, NEW m \in Taken(s)' PROVE m <= published'[run[s].board]
    BY <1>4 DEF Met
  <2>1. m \in Taken(s)
    BY <1>4 DEF Taken
  <2>2. m <= published[run[s].board] /\ m \in Nat
    <3>1. Taken(s) \subseteq Numbers
      BY <1>1 DEF TypeOK, RunStates, Taken
    <3> QED BY <2>1, <3>1 DEF GInv, Met, Numbers
  <2>3. run[s].board \in Boards
    BY <1>1
  <2>4. PICK c \in Boards : c = run[s].board
    BY <2>3
  <2> QED BY <1>1, <1>3, <2>2, <2>4
<1>7. OnlyKnownGaps'
  <2> SUFFICES ASSUME NEW c \in Boards, excuse'[c] = {} PROVE NoGap(c)'
    BY DEF OnlyKnownGaps
  <2>1. NoGap(c)
    BY <1>1 DEF Remembers, GInv, OnlyKnownGaps
  <2>2. CASE c # b
    BY <1>1, <1>2, <2>1, <2>2, GapKept
  <2>3. CASE c = b
    <3> SUFFICES ASSUME NEW n \in feed'[b], Wanted(b, n), ~Covered(b, n)', NEW m \in Numbers,
                        <<b, m>> \in offers'
                 PROVE  m < n
      BY <2>3 DEF NoGap, Wanted
    <3>1. <<b, m>> \in offers /\ ~Covered(b, n)
      BY <1>1 DEF Covered, Twins
    <3>2. CASE n \in feed[b]
      BY <2>1, <2>3, <3>1, <3>2 DEF NoGap
    <3>3. CASE n = published[b] + 1
      <4>1. m <= published[b] /\ m \in Nat
        BY <3>1 DEF GInv, Stored, Numbers
      <4> QED BY <1>1, <3>3, <4>1
    <3> QED BY <1>2, <3>2, <3>3
  <2> QED BY <2>2, <2>3
<1>8. SoundRuns'
  <2> SUFFICES ASSUME NEW s \in Active', excuse'[run'[s].board] = {} PROVE Sound(s)'
    BY DEF SoundRuns
  <2>1. s \in Runs /\ s \in Active /\ run'[s].board = run[s].board
    BY <1>4 DEF Active
  <2>2. excuse[run[s].board] = {} /\ excuse'[run[s].board] = {}
    BY <1>1, <2>1 DEF Remembers
  <2>3. Sound(s)
    BY <2>1, <2>2 DEF GInv, SoundRuns
  <2> QED BY <2>1, <2>2, <2>3, PublishSound DEF GInv
<1> QED BY <1>5, <1>6, <1>7, <1>8 DEF GInv

\* A posting that is taken down under a run is an excuse.
LEMMA ExpireGap ==
  ASSUME DInv, GInv, NEW b \in Boards, NEW n \in Numbers, Expire(b, n) PROVE GInv'
<1>1. /\ TypeOK /\ TypeOK' /\ \A s \in Runs : run[s].board \in Boards
      /\ run' = run /\ offers' = offers /\ published' = published /\ Remembers
  <2>1. Remembers
    BY ExcusedRemembers DEF Expire, DInv
  <2> QED BY <2>1, ExpireTyped DEF DInv, Expire, TypeOK, RunStates
<1>2. /\ feed'[b] \subseteq feed[b]
      /\ \A c \in Boards \ {b} : feed'[c] = feed[c]
  BY <1>1 DEF Expire, TypeOK
<1>3. Stored' /\ Met'
  BY <1>1 DEF GInv, Stored, Met, Taken
<1>4. OnlyKnownGaps'
  <2> SUFFICES ASSUME NEW c \in Boards, excuse'[c] = {} PROVE NoGap(c)'
    BY DEF OnlyKnownGaps
  <2>1. NoGap(c)
    BY <1>1 DEF Remembers, GInv, OnlyKnownGaps
  <2>2. feed'[c] \subseteq feed[c]
    BY <1>2
  <2> QED BY <1>1, <2>1, <2>2, GapKept
<1>5. SoundRuns'
  <2> SUFFICES ASSUME NEW s \in Active', excuse'[run'[s].board] = {} PROVE Sound(s)'
    BY DEF SoundRuns
  <2>1. s \in Active /\ s \in Runs /\ run'[s] = run[s]
    BY <1>1 DEF Active
  <2>2. run[s].board # b
    <3> SUFFICES ASSUME run[s].board = b PROVE FALSE
      OBVIOUS
    <3>1. RunsOf(b) # {}
      BY <2>1 DEF RunsOf
    <3>2. excuse'[b] = excuse[b] \cup {"shifted"}
      BY <1>1, <3>1 DEF Expire, Excused, TypeOK
    <3> QED BY <2>1, <3>2
  <2>3. Sound(s)
    BY <1>1, <2>1 DEF Remembers, GInv, SoundRuns
  <2> QED BY <1>1, <1>2, <2>1, <2>2, <2>3, SoundKept
<1> QED BY <1>3, <1>4, <1>5 DEF GInv

\* What the steps of a walk have in common: they add to what a run has met only
\* from its feed.
LEMMA WalkStep ==
  ASSUME DInv, NEW r \in Runs,
         \/ FetchPage(r) \/ EndPage(r) \/ PageFails(r)
         \/ \E n \in Numbers : Skip(r, n) \/ CheckContent(r, n) \/ Insert(r, n)
  PROVE  /\ r \in Active /\ run'[r].board = run[r].board
         /\ \A s \in Runs \ {r} : run'[s] = run[s]
         /\ Taken(r)' \subseteq Taken(r) \cup feed[run[r].board]
         /\ feed' = feed /\ published' = published /\ offers' = offers
<1>0. TypeOK
  BY DEF DInv
<1>1. run[r] \in RunStates
  BY <1>0 DEF TypeOK
<1>2. /\ r \in Active /\ \A s \in Runs \ {r} : run'[s] = run[s]
      /\ feed' = feed /\ published' = published /\ offers' = offers
  <2>1. CASE FetchPage(r)
    BY <1>0, <2>1 DEF FetchPage, Active, TypeOK
  <2>2. CASE EndPage(r)
    BY <1>0, <2>2 DEF EndPage, Active, TypeOK
  <2>3. CASE PageFails(r)
    BY <1>0, <2>3 DEF PageFails, Active, TypeOK
  <2>4. ASSUME NEW n \in Numbers, Skip(r, n) \/ CheckContent(r, n) \/ Insert(r, n)
        PROVE  /\ r \in Active /\ \A s \in Runs \ {r} : run'[s] = run[s]
               /\ feed' = feed /\ published' = published /\ offers' = offers
    BY <1>0, <2>4 DEF Skip, CheckContent, Insert, Active, TypeOK
  <2> QED BY <2>1, <2>2, <2>3, <2>4
<1>3. /\ run'[r].board = run[r].board
      /\ run'[r].todo \subseteq run[r].todo \cup feed[run[r].board]
      /\ run'[r].wrote \subseteq run[r].wrote \cup run[r].todo
  <2>1. CASE FetchPage(r)
    <3> DEFINE todo == PageOf(run[r].board, run[r].page)
    <3>1. todo \subseteq feed[run[r].board]
      BY DEF PageOf
    <3>2. PICK more, old, page :
             run'[r] = [run[r] EXCEPT !.phase = "persisting", !.todo = todo, !.more = more,
                                      !.old = old, !.page = page]
      BY <1>0, <2>1 DEF FetchPage, TypeOK
    <3> HIDE DEF todo
    <3> QED BY <1>1, <3>1, <3>2 DEF RunStates
  <2>2. CASE EndPage(r) \/ PageFails(r)
    <3>1. PICK ph : run'[r] = [run[r] EXCEPT !.phase = ph]
      BY <1>0, <2>2 DEF EndPage, PageFails, TypeOK
    <3> QED BY <1>1, <3>1 DEF RunStates
  <2>3. ASSUME NEW n \in Numbers, Skip(r, n)
        PROVE  /\ run'[r].board = run[r].board /\ run'[r].todo \subseteq run[r].todo
               /\ run'[r].wrote = run[r].wrote
    <3>1. run'[r] = [run[r] EXCEPT !.todo = @ \ {n}]
      BY <1>0, <2>3 DEF Skip, TypeOK
    <3> QED BY <1>1, <3>1 DEF RunStates
  <2>4. ASSUME NEW n \in Numbers, CheckContent(r, n)
        PROVE  /\ run'[r].board = run[r].board /\ run'[r].todo \subseteq run[r].todo
               /\ run'[r].wrote = run[r].wrote
    <3>1. \/ \E c : run'[r] = [run[r] EXCEPT !.todo = @ \ {n}, !.seen = @ + 1, !.cross = c]
          \/ run'[r] = [run[r] EXCEPT !.probe = n]
      BY <1>0, <2>4 DEF CheckContent, TypeOK
    <3> QED BY <1>1, <3>1 DEF RunStates
  <2>5. ASSUME NEW n \in Numbers, Insert(r, n)
        PROVE  /\ run'[r].board = run[r].board /\ run'[r].todo \subseteq run[r].todo
               /\ run'[r].wrote \subseteq run[r].wrote \cup run[r].todo
    <3>1. \/ run'[r] = [run[r] EXCEPT !.probe = 0, !.todo = @ \ {n}, !.seen = @ + 1]
          \/ run'[r] = [run[r] EXCEPT !.probe = 0, !.todo = @ \ {n}, !.wrote = @ \cup {n},
                                      !.seen = 0, !.cross = FALSE]
      BY <1>0, <2>5 DEF Insert, TypeOK
    <3>2. n \in run[r].todo
      <4>1. run[r].probe = n
        BY <2>5 DEF Insert
      <4>2. n # 0
        BY PostingsAssumption DEF Numbers
      <4>3. Settled(r)
        BY DEF DInv, WalkInv
      <4>4. IsNext(r, n)
        BY <4>1, <4>2, <4>3 DEF Settled
      <4> QED BY <4>4 DEF IsNext
    <3>3. CASE run'[r] = [run[r] EXCEPT !.probe = 0, !.todo = @ \ {n}, !.seen = @ + 1]
      <4>1. /\ run'[r].board = run[r].board /\ run'[r].todo = run[r].todo \ {n}
            /\ run'[r].wrote = run[r].wrote
        BY <1>1, <3>3 DEF RunStates
      <4> QED BY <4>1
    <3>4. CASE run'[r] = [run[r] EXCEPT !.probe = 0, !.todo = @ \ {n}, !.wrote = @ \cup {n},
                                        !.seen = 0, !.cross = FALSE]
      <4>1. /\ run'[r].board = run[r].board /\ run'[r].todo = run[r].todo \ {n}
            /\ run'[r].wrote = run[r].wrote \cup {n}
        BY <1>1, <3>4 DEF RunStates
      <4> QED BY <3>2, <4>1
    <3> QED BY <3>1, <3>3, <3>4
  <2> QED BY <2>1, <2>2, <2>3, <2>4, <2>5
<1> QED BY <1>2, <1>3 DEF Taken

\* Before the first run there is nothing to leave a gap in.
LEMMA InitGap == Init => GInv
<1> SUFFICES ASSUME Init PROVE GInv
  OBVIOUS
<1>1. Active = {} /\ offers = {} /\ \A r \in Runs : Taken(r) = {}
  BY DEF Init, Active, Idle, Taken
<1> QED BY <1>1 DEF GInv, Stored, Met, OnlyKnownGaps, NoGap, SoundRuns

\* Every step keeps the invariant, given that of the walks (DInv).
LEMMA NextGap == DInv /\ GInv /\ [Next]_vars => GInv'
<1> SUFFICES ASSUME DInv, GInv, [Next]_vars PROVE GInv'
  OBVIOUS
<1>1. TypeOK /\ TypeOK' /\ \A r \in Runs : run[r].board \in Boards
  BY NextTyped DEF DInv, TypeOK, RunStates
<1>2. CASE UNCHANGED vars
  <2>1. GInv' = GInv
    <3>1. \A r : Sound(r)' = Sound(r)
      BY <1>2 DEF vars, Sound, Short, Ahead, Exhausted, Counted, Closing, Left, Taken, Fresh,
                  Known, Twins, Visible, Wanted, Rank, NextOffset, AtEnd, Before, Repeats,
                  Again, Complete
    <3>2. OnlyKnownGaps' = OnlyKnownGaps
      BY <1>2 DEF vars, OnlyKnownGaps, NoGap, Covered, Twins, Wanted
    <3>3. SoundRuns' = SoundRuns /\ Stored' = Stored /\ Met' = Met
      BY <1>2, <3>1 DEF vars, SoundRuns, Stored, Met, Active, Taken
    <3> QED BY <3>2, <3>3 DEF GInv
  <2> QED BY <2>1
<1>3. ASSUME NEW b \in Boards, Publish(b) \/ Begin(b, b, FALSE) PROVE GInv'
  BY <1>3, PublishGap, BeginGap
<1>4. ASSUME NEW b \in Boards, NEW n \in Numbers, Expire(b, n) PROVE GInv'
  BY <1>4, ExpireGap
<1>5. ASSUME NEW r \in Users, NEW b \in Boards, NEW f \in BOOLEAN, Begin(r, b, f) PROVE GInv'
  BY <1>5, BeginGap
<1>6. ASSUME NEW r \in Runs, Step(r) \/ Fails(r) \/ BreakDeadlock(r) PROVE GInv'
  <2>1. ASSUME excuse[run[r].board] = {}, r \in Active
        PROVE  Sound(r) /\ NoGap(run[r].board)
    BY <1>1, <2>1 DEF GInv, SoundRuns, OnlyKnownGaps
  <2>2. ASSUME \/ FetchPage(r) \/ EndPage(r) \/ PageFails(r)
               \/ \E n \in Numbers : Skip(r, n) \/ CheckContent(r, n) \/ Insert(r, n)
        PROVE  GInv'
    <3>1. /\ r \in Active /\ run'[r].board = run[r].board
          /\ \A s \in Runs \ {r} : run'[s] = run[s]
          /\ Taken(r)' \subseteq Taken(r) \cup feed[run[r].board]
          /\ feed' = feed /\ published' = published /\ offers' = offers
      BY <2>2, WalkStep
    <3>2. Remembers
      <4>1. CASE EndPage(r) \/ PageFails(r)
        BY <1>1, <4>1, ExcusedRemembers DEF EndPage, PageFails
      <4>2. CASE ~(EndPage(r) \/ PageFails(r))
        <5>1. excuse' = excuse
          BY <2>2, <4>2 DEF FetchPage, Skip, CheckContent, Insert
        <5> QED BY <5>1 DEF Remembers
      <4> QED BY <4>1, <4>2
    <3>3. ASSUME excuse'[run[r].board] = {} PROVE Sound(r)'
      <4>1. excuse[run[r].board] = {}
        BY <1>1, <3>2, <3>3 DEF Remembers
      <4>2. Sound(r) /\ NoGap(run[r].board)
        BY <2>1, <3>1, <4>1
      <4> QED BY <2>2, <3>3, <4>1, <4>2, FetchPageSound, EndPageSound, PageFailsSound,
                 SkipSound, CheckContentSound, InsertSound
    <3> QED BY <1>1, <3>1, <3>2, <3>3, OneRunGap
  <2>3. CASE Commit(r)
    <3>1. r \in Active /\ run[r].phase = "closing" /\ End(r, run[r].wrote) /\ excuse' = excuse
      BY <2>3 DEF Commit, Active
    <3>2. excuse'[run[r].board] = {} => Complete(r)
      BY <2>1, <3>1 DEF Sound, Closing
    <3>3. Remembers
      BY <3>1 DEF Remembers
    <3> QED BY <1>1, <3>1, <3>2, <3>3, EndGap
  <2>4. CASE Lose(r) \/ BreakDeadlock(r)
    <3>1. End(r, {}) /\ excuse' = excuse
      BY <2>4 DEF Lose, BreakDeadlock
    <3>2. Remembers
      BY <3>1 DEF Remembers
    <3> QED BY <1>1, <3>1, <3>2, EndGap
  <2>5. CASE Raise(r)
    <3>1. PICK rows \in Kept(r) :
             End(r, rows) /\ Excused(run[r].board, IF rows # {} THEN {"raised"} ELSE {})
      BY <2>5 DEF Raise
    <3>2. rows \in SUBSET run[r].wrote
      BY KeptIsOwn
    <3>3. Remembers
      BY <1>1, <3>1, ExcusedRemembers
    <3>4. excuse'[run[r].board] = {} => rows = {}
      <4> SUFFICES ASSUME rows # {} PROVE excuse'[run[r].board] # {}
        OBVIOUS
      <4>1. excuse'[run[r].board] = excuse[run[r].board] \cup {"raised"}
        BY <1>1, <3>1 DEF Excused, TypeOK
      <4> QED BY <4>1
    <3> QED BY <1>1, <3>1, <3>2, <3>3, <3>4, EndGap
  <2> QED BY <1>6, <2>2, <2>3, <2>4, <2>5 DEF Step, Fails
<1> QED BY <1>1, <1>2, <1>3, <1>4, <1>5, <1>6 DEF Next

\* The walk of runner.py loses a posting only when a later page failed, the
\* connector raised, the page limit was reached, the feed shifted by Threshold
\* postings under a run (or one expired), or the streak that stopped it held
\* offers that only another board had brought.
THEOREM WalksLeaveOnlyKnownGaps == Spec => []OnlyKnownGaps
<1>1. Init => DInv /\ GInv
  BY InitWalk, InitGap
<1>2. DInv /\ GInv /\ [Next]_vars => (DInv /\ GInv)'
  BY NextWalk, NextGap
<1>3. DInv /\ GInv => OnlyKnownGaps
  BY DEF GInv
<1> QED BY <1>1, <1>2, <1>3, PTL DEF Spec
=============================================================================
