------------------------ MODULE PracujListingProofs ------------------------
(***************************************************************************)
(* Theorems about PracujListing, for any listings, limits and runs: its    *)
(* types, where an unfiltered run leaves the cursor, what becomes of the   *)
(* postings a run has met, and which failures stay quiet.                  *)
(*                                                                         *)
(* All rest on one invariant, IInv: what every run knows in each phase     *)
(* (Ready), what an unfiltered run knows of its walk (Walk), and where the *)
(* postings are that a run has met (Kept).                                 *)
(***************************************************************************)
EXTENDS PracujListing, SequenceTheorems, WellFoundedInduction, TLAPS

-----------------------------------------------------------------------------
(* Numbers and sequences *)

\* A set of naturals has a least element, and Min is it.
LEMMA SmallestOf ==
    ASSUME NEW T, T \subseteq Nat, T # {}
    PROVE  Min(T) \in T /\ \A n \in T : Min(T) <= n
<1>1. PICK m \in T : \A n \in T : ~(<<n, m>> \in OpToRel(<, Nat))
  BY NatLessThanWellFounded, WFMin
<1>2. \A n \in T : ~(n < m)
  BY <1>1 DEF OpToRel
<1>3. \A n \in T : m <= n
  BY <1>2
<1> QED
  BY <1>3 DEF Min

\* Min of two numbers.
LEMMA SmallerOf ==
    ASSUME NEW a \in Int, NEW b \in Int
    PROVE  Min({a, b}) \in {a, b} /\ Min({a, b}) <= a /\ Min({a, b}) <= b
<1>1. \E x \in {a, b} : \A y \in {a, b} : x <= y
  BY SMT
<1> QED
  BY <1>1 DEF Min

\* The elements of a sequence, of its tail and of a longer one.
LEMMA RangeOfTail ==
    ASSUME NEW S, NEW s \in Seq(S), s # <<>>
    PROVE  Range(s) = {Head(s)} \cup Range(Tail(s))
<1>1. Head(s) = s[1] /\ Len(s) \in Nat /\ Len(s) >= 1
  OBVIOUS
<1> DEFINE tail == Tail(s)
           n == Len(s)
<1>2. tail \in Seq(S) /\ Len(tail) = n - 1 /\ \A i \in 1..(n - 1) : tail[i] = s[i + 1]
  BY HeadTailProperties
<1>3. Range(s) = {s[i] : i \in 1..n}
  BY DEF Range
<1> HIDE DEF tail
<1>4. Range(tail) = {tail[i] : i \in 1..(n - 1)}
  BY <1>2 DEF Range
<1> HIDE DEF n
<1>5. \A i \in 1..n : i = 1 \/ (i - 1 \in 1..(n - 1) /\ s[i] = tail[i - 1])
  <2> SUFFICES ASSUME NEW i \in 1..n, i # 1, NEW j, j = i - 1
               PROVE  j \in 1..(n - 1) /\ s[i] = tail[j]
    OBVIOUS
  <2>1. j \in 1..(n - 1) /\ j + 1 = i
    BY <1>1 DEF n
  <2> QED
    BY <1>2, <2>1
<1>6. \A i \in 1..(n - 1) : i + 1 \in 1..n /\ tail[i] = s[i + 1]
  BY <1>1, <1>2 DEF n
<1>7. 1 \in 1..n
  BY <1>1 DEF n
<1>8. Range(s) = {s[1]} \cup Range(tail)
  BY <1>3, <1>4, <1>5, <1>6, <1>7
<1> QED
  BY <1>1, <1>8 DEF tail

LEMMA RangeOfAppend ==
    ASSUME NEW S, NEW s \in Seq(S), NEW e \in S
    PROVE  Range(Append(s, e)) = Range(s) \cup {e}
<1>1. Len(s) \in Nat /\ Len(Append(s, e)) = Len(s) + 1 /\ Append(s, e)[Len(s) + 1] = e
      /\ \A i \in 1..Len(s) : Append(s, e)[i] = s[i]
  BY AppendProperties
<1>2. Range(s) = {s[i] : i \in 1..Len(s)}
      /\ Range(Append(s, e)) = {Append(s, e)[i] : i \in 1..(Len(s) + 1)}
  BY <1>1 DEF Range
<1>3. \A i \in 1..(Len(s) + 1) : i = Len(s) + 1 \/ i \in 1..Len(s)
  BY <1>1
<1>4. \A i \in 1..Len(s) : i \in 1..(Len(s) + 1)
  BY <1>1
<1>5. Len(s) + 1 \in 1..(Len(s) + 1)
  BY <1>1
<1> QED
  BY <1>1, <1>2, <1>3, <1>4, <1>5

LEMMA RangeIn == ASSUME NEW S, NEW s \in Seq(S) PROVE Range(s) \subseteq S
  BY DEF Range

\* Inserting and removing keep a sequence a sequence.
LEMMA InsertAtType ==
    ASSUME NEW S, NEW s \in Seq(S), NEW i \in 1..(Len(s) + 1), NEW e \in S
    PROVE  InsertAt(s, i, e) \in Seq(S)
<1>1. SubSeq(s, 1, i - 1) \in Seq(S)
  BY SubSeqProperties
<1>2. SubSeq(s, i, Len(s)) \in Seq(S)
  BY SubSeqProperties
<1>3. <<e>> \in Seq(S)
  OBVIOUS
<1> QED
  BY <1>1, <1>2, <1>3, ConcatProperties DEF InsertAt

LEMMA RemoveAtType ==
    ASSUME NEW S, NEW s \in Seq(S), NEW i \in 1..Len(s)
    PROVE  RemoveAt(s, i) \in Seq(S)
<1>1. SubSeq(s, 1, i - 1) \in Seq(S)
  BY SubSeqProperties
<1>2. SubSeq(s, i + 1, Len(s)) \in Seq(S)
  BY SubSeqProperties
<1> QED
  BY <1>1, <1>2, ConcatProperties DEF RemoveAt

LEMMA RemoveFirstType ==
    ASSUME NEW S, NEW s \in Seq(S), NEW e
    PROVE  RemoveFirst(s, e) \in Seq(S)
<1> DEFINE at == {i \in 1..Len(s) : s[i] = e}
<1>1. CASE at # {}
  <2>1. Min(at) \in 1..Len(s)
    <3>1. at \subseteq Nat
      OBVIOUS
    <3>2. Min(at) \in at
      BY <1>1, <3>1, SmallestOf
    <3> QED
      BY <3>2
  <2>2. RemoveFirst(s, e) = RemoveAt(s, Min(at))
    BY <1>1 DEF RemoveFirst, SelectInSeq
  <2> QED
    BY <2>1, <2>2, RemoveAtType
<1>2. CASE at = {}
  BY <1>2 DEF RemoveFirst
<1> QED
  BY <1>1, <1>2

\* Induction over the naturals, for a set.
LEMMA SetInduction ==
    ASSUME NEW T, 0 \in T, \A n \in Nat : n \in T => n + 1 \in T
    PROVE  Nat \subseteq T
<1> SUFFICES ASSUME Nat \ T # {} PROVE FALSE
  OBVIOUS
<1>1. PICK m \in Nat \ T : \A n \in Nat \ T : m <= n
  BY SmallestOf
<1>2. m # 0 /\ m - 1 \in Nat /\ m - 1 \in T
  BY <1>1
<1> QED
  BY <1>1, <1>2

\* The groups of a page, one after the other.  The recursive function in
\* FlattenSeq exists: a longer one extends a shorter one.
LEMMA FlattenType ==
    ASSUME NEW S, NEW seqs \in Seq(Seq(S))
    PROVE  FlattenSeq(seqs) \in Seq(S)
<1> DEFINE n == Len(seqs)
           Flat(m, g) == \A i \in 1..m : g[i] = IF i = 1 THEN seqs[i] ELSE g[i - 1] \o seqs[i]
           T == {m \in Nat : m <= n => \E g \in [1..m -> Seq(S)] : Flat(m, g)}
<1>1. CASE n = 0
  BY <1>1 DEF FlattenSeq
<1>2. CASE n # 0
  <2>1. 0 \in T
    <3> DEFINE none == [i \in 1..0 |-> seqs[i]]
    <3>1. none \in [1..0 -> Seq(S)] /\ Flat(0, none)
      OBVIOUS
    <3> HIDE DEF none, Flat
    <3>2. \E g \in [1..0 -> Seq(S)] : Flat(0, g)
      BY <3>1
    <3> QED
      BY <3>2
  <2>2. ASSUME NEW m \in Nat, m \in T PROVE m + 1 \in T
    <3> SUFFICES ASSUME m + 1 <= n PROVE \E g \in [1..(m + 1) -> Seq(S)] : Flat(m + 1, g)
      <4> HIDE DEF Flat
      <4> QED
        OBVIOUS
    <3>1. PICK g \in [1..m -> Seq(S)] : Flat(m, g)
      <4> HIDE DEF Flat
      <4> QED
        BY <2>2
    <3> DEFINE last == IF m = 0 THEN seqs[1] ELSE g[m] \o seqs[m + 1]
               h == [i \in 1..(m + 1) |-> IF i = m + 1 THEN last ELSE g[i]]
    <3>2. last \in Seq(S)
      BY ConcatProperties
    <3> HIDE DEF last
    <3>3. h \in [1..(m + 1) -> Seq(S)]
      BY <3>2
    <3>4. h[m + 1] = IF m + 1 = 1 THEN seqs[m + 1] ELSE h[m + 1 - 1] \o seqs[m + 1]
      BY DEF last
    <3>5. \A i \in 1..m : h[i] = IF i = 1 THEN seqs[i] ELSE h[i - 1] \o seqs[i]
      <4>1. \A i \in 1..m : h[i] = g[i] /\ (i # 1 => h[i - 1] = g[i - 1])
        OBVIOUS
      <4> HIDE DEF h
      <4> QED
        BY <3>1, <4>1
    <3> HIDE DEF h
    <3>6. Flat(m + 1, h)
      BY <3>4, <3>5
    <3> QED
      BY <3>3, <3>6
  <2>3. n \in T
    <3> HIDE DEF T
    <3> QED
      BY <2>1, <2>2, SetInduction
  <2>4. PICK g \in [1..n -> Seq(S)] : Flat(n, g)
    BY <2>3
  <2> DEFINE f == CHOOSE f : f = [i \in 1..n |-> IF i = 1 THEN seqs[i] ELSE f[i - 1] \o seqs[i]]
  <2>5. g = [i \in 1..n |-> IF i = 1 THEN seqs[i] ELSE g[i - 1] \o seqs[i]]
    BY <2>4
  <2>6. f = [i \in 1..n |-> IF i = 1 THEN seqs[i] ELSE f[i - 1] \o seqs[i]]
    BY <2>5
  <2>7. FlattenSeq(seqs) = f[n]
    BY <1>2 DEF FlattenSeq
  <2> HIDE DEF f
  <2>8. \A i \in 1..n : f[i] = IF i = 1 THEN seqs[i] ELSE f[i - 1] \o seqs[i]
    BY <2>6
  <2> DEFINE U == {m \in Nat : m \in 1..n => f[m] \in Seq(S)}
  <2>9. \A m \in Nat : m \in U => m + 1 \in U
    <3> SUFFICES ASSUME NEW m \in Nat, m \in U, NEW i \in 1..n, i = m + 1 PROVE f[i] \in Seq(S)
      OBVIOUS
    <3>1. seqs[i] \in Seq(S)
      BY ElementOfSeq
    <3>2. f[i] = IF i = 1 THEN seqs[i] ELSE f[i - 1] \o seqs[i]
      BY <2>8
    <3>3. CASE m = 0
      BY <3>1, <3>2, <3>3
    <3>4. CASE m # 0
      <4>1. i # 1 /\ i - 1 = m /\ m \in 1..n
        BY <3>4
      <4>2. f[m] \in Seq(S)
        BY <4>1
      <4>3. f[i] = f[m] \o seqs[i]
        BY <3>2, <4>1, Zenon
      <4> QED
        BY <3>1, <4>2, <4>3, ConcatProperties
    <3> QED
      BY <3>3, <3>4
  <2>10. n \in U
    <3>1. 0 \in U
      OBVIOUS
    <3>2. n \in Nat
      OBVIOUS
    <3> HIDE DEF U
    <3> QED
      BY <2>9, <3>1, <3>2, SetInduction
  <2> QED
    BY <1>2, <2>7, <2>10
<1> QED
  BY <1>1, <1>2

-----------------------------------------------------------------------------
(* What the model's operators on listings return *)

\* A page of a listing is a list of groups.
LEMMA PageOfType ==
    ASSUME listing \in [Keywords -> Seq(Seq(Postings))],
           NEW k \in Keywords, NEW n \in Nat, n >= 1
    PROVE  PageOf(k, n) \in Seq(Seq(Postings))
<1> DEFINE groups == listing[k]
           first == (n - 1) * PageSize + 1
           last == Min({n * PageSize, Len(groups)})
<1>1. groups \in Seq(Seq(Postings)) /\ Len(groups) \in Nat
  OBVIOUS
<1>2. PageSize \in Nat
  BY LimitsAssumption
<1>3. first \in Nat /\ first >= 1
  <2>1. n - 1 \in Nat
    OBVIOUS
  <2>2. \A a, b \in Nat : a * b \in Nat
    BY SMT
  <2>3. (n - 1) * PageSize \in Nat
    BY <1>2, <2>1, <2>2
  <2> QED
    BY <2>3
<1>4. last \in Int /\ last <= Len(groups)
  <2> DEFINE a == n * PageSize
             b == Len(groups)
  <2>1. a \in Int /\ b \in Int
    BY <1>1, <1>2
  <2> HIDE DEF a, b
  <2>2. Min({a, b}) \in Int /\ Min({a, b}) <= b
    BY <2>1, SmallerOf
  <2> QED
    BY <2>2 DEF a, b
<1>5. PageOf(k, n) = SubSeq(groups, first, last)
  BY DEF PageOf
<1> HIDE DEF first, last
<1>6. \A i \in first..last : i \in 1..Len(groups)
  BY <1>1, <1>3, <1>4
<1> HIDE DEF groups
<1>7. \A i \in first..last : groups[i] \in Seq(Postings)
  BY <1>1, <1>6, ElementOfSeq
<1>8. SubSeq(groups, first, last) \in Seq(Seq(Postings))
  BY <1>3, <1>4, <1>7, SubSeqProperties
<1> QED
  BY <1>5, <1>8

\* A posting that is taken down leaves a listing of the same type.
LEMMA WithoutType ==
    ASSUME NEW groups \in Seq(Seq(Postings)), NEW p
    PROVE  Without(groups, p) \in Seq(Seq(Postings))
<1> DEFINE shows == {i \in DOMAIN groups : p \in Range(groups[i])}
           at == Min(shows)
<1>1. CASE shows = {}
  BY <1>1 DEF Without
<1>2. CASE shows # {}
  <2>1. shows \subseteq 1..Len(groups) /\ shows \subseteq Nat
    OBVIOUS
  <2>2. at \in shows
    <3> HIDE DEF shows
    <3> QED
      BY <1>2, <2>1, SmallestOf
  <2>3. at \in 1..Len(groups)
    BY <2>1, <2>2
  <2> DEFINE fewer == [groups EXCEPT ![at] = RemoveFirst(@, p)]
  <2>4. Without(groups, p) = IF groups[at] = <<p>> THEN RemoveAt(groups, at) ELSE fewer
    BY <1>2 DEF Without
  <2> HIDE DEF at
  <2>5. RemoveAt(groups, at) \in Seq(Seq(Postings))
    BY <2>3, RemoveAtType
  <2>6. groups[at] \in Seq(Postings)
    BY <2>3, ElementOfSeq
  <2>7. RemoveFirst(groups[at], p) \in Seq(Postings)
    BY <2>6, RemoveFirstType
  <2>8. fewer \in Seq(Seq(Postings))
    BY <2>3, <2>7, ExceptSeq
  <2> QED
    BY <2>4, <2>5, <2>8
<1> QED
  BY <1>1, <1>2

\* The page loop goes through a number of offers.
LEMMA HandledType ==
    ASSUME NEW r \in Runs, run[r].offers \in Seq(Postings)
    PROVE  Handled(r) \in Int
<1> DEFINE enough == {c \in 1..MaxPages : c = MaxPages \/ c * PageSize >= Len(run[r].offers)
                                                       \/ CaughtUp(r, c)}
           a == Slices(r) * PageSize
           b == Len(run[r].offers)
<1>1. Slices(r) \in Int
  <2>1. MaxPages \in enough /\ enough \subseteq Nat
    BY LimitsAssumption
  <2> HIDE DEF enough
  <2>2. Min(enough) \in enough
    BY <2>1, SmallestOf
  <2>3. Slices(r) = Min(enough)
    BY DEF Slices, enough
  <2>4. Min(enough) \in Nat
    BY <2>1, <2>2
  <2> QED
    BY <2>3, <2>4
<1>2. PageSize \in Int
  BY LimitsAssumption
<1>3. a \in Int /\ b \in Int
  BY <1>1, <1>2
<1>4. Handled(r) = Min({a, b})
  BY DEF Handled
<1> HIDE DEF a, b
<1> QED
  BY <1>3, <1>4, SmallerOf

\* The rows that a run creates are for postings in its fetch range.
LEMMA RowsType ==
    ASSUME NEW r \in Runs, NEW n, run[r].config \in Configs
    PROVE  Rows(r, n) \subseteq Postings \ Unreadable
<1>1. run[r].config.range \subseteq Postings
  BY DEF Configs
<1> QED
  BY <1>1 DEF Rows, Created, Ingestible

\* A posting whose content is in the table stays so.
LEMMA CoveredGrows == stored \subseteq stored' => Covered \subseteq Covered'
  BY DEF Covered

\* Of the offers that the page loop goes through, each one in the fetch range
\* that is valid has a row in the end, or one with its content: the first of
\* that content, if there was none before.
LEMMA RowsCover ==
    ASSUME NEW r \in Runs, run[r].offers \in Seq(Postings),
           NEW n \in Int, NEW i \in 1..Len(run[r].offers), i <= n,
           run[r].offers[i] \in Ingestible(r), run[r].offers[i] \notin Covered,
           Rows(r, n) \subseteq stored'
    PROVE  run[r].offers[i] \in Covered'
<1> DEFINE offers == run[r].offers
           same == {j \in 1..i : /\ offers[j] \in Ingestible(r)
                                 /\ Content[offers[j]] = Content[offers[i]]}
           m == Min(same)
<1>1. i \in Nat /\ i \in 1..i
  OBVIOUS
<1>2. i \in same /\ same \subseteq Nat
  BY <1>1
<1>3. m \in same /\ \A j \in same : m <= j
  <2> HIDE DEF same
  <2> QED
    BY <1>2, SmallestOf
<1> HIDE DEF m
<1>4. /\ m \in 1..i /\ offers[m] \in Ingestible(r) /\ Content[offers[m]] = Content[offers[i]]
      /\ \A j \in 1..(m - 1) :
            offers[j] \in Ingestible(r) => Content[offers[j]] # Content[offers[i]]
  BY <1>3
<1>5. m \in 1..n /\ m \in 1..Len(offers)
  BY <1>1, <1>4
<1>6. offers[m] \in Postings /\ offers[i] \in Postings
  BY <1>5, ElementOfSeq
<1>7. offers[m] \notin Covered
  BY <1>4, <1>6 DEF Covered
<1>8. Created(r, m)
  BY <1>4, <1>7 DEF Created
<1>9. offers[m] \in stored'
  BY <1>5, <1>8 DEF Rows
<1> QED
  BY <1>4, <1>6, <1>9 DEF Covered

-----------------------------------------------------------------------------
(* The fields of a run *)

Fields ==
    {"phase", "forced", "config", "terms", "start", "page", "todo", "short", "got", "offers",
     "blocked", "ok", "mid", "next", "read", "ended", "failed", "met", "lost"}

\* s has the fields of a run.
IsRun(s) == s = [f \in Fields |-> s[f]]

RunPhases == {"idle", "listing", "details", "closing"}

\* Their types.
Typed(s) ==
    /\ s.phase \in RunPhases /\ s.forced \in BOOLEAN /\ s.config \in Configs
    /\ s.terms \in Seq(Keywords) /\ s.start \in Nat /\ s.page \in Nat
    /\ s.todo \in Seq(Postings) /\ s.short \in BOOLEAN /\ s.got \in Nat
    /\ s.offers \in Seq(Postings) /\ s.blocked \in SUBSET Postings
    /\ s.ok \in BOOLEAN /\ s.mid \in BOOLEAN /\ s.next \in Nat /\ s.read \in SUBSET Nat
    /\ s.ended \in BOOLEAN /\ s.failed \in BOOLEAN
    /\ s.met \in SUBSET Postings /\ s.lost \in SUBSET Postings

\* A run is what has these fields and types: the steps that follow change a few
\* fields, and only these have to be looked at.
LEMMA RunIsTyped == ASSUME NEW s \in RunStates PROVE IsRun(s) /\ Typed(s)
<1>1. IsRun(s)
  BY DEF RunStates, IsRun, Fields
<1>2. Typed(s)
  BY DEF RunStates, Typed, RunPhases
<1> QED
  BY <1>1, <1>2

\* And back.
LEMMA TypedIsRun == ASSUME NEW s, IsRun(s), Typed(s) PROVE s \in RunStates
<1> DEFINE Truths == BOOLEAN
           Pages == SUBSET Nat
           Sets == SUBSET Postings
           Lists == Seq(Postings)
           Words == Seq(Keywords)
           Records == [phase : RunPhases, forced : Truths, config : Configs, terms : Words,
                       start : Nat, page : Nat, todo : Lists, short : Truths, got : Nat,
                       offers : Lists, blocked : Sets, ok : Truths, mid : Truths, next : Nat,
                       read : Pages, ended : Truths, failed : Truths, met : Sets, lost : Sets]
<1>1. /\ s.phase \in RunPhases /\ s.forced \in Truths /\ s.config \in Configs
      /\ s.terms \in Words /\ s.start \in Nat /\ s.page \in Nat /\ s.todo \in Lists
      /\ s.short \in Truths /\ s.got \in Nat /\ s.offers \in Lists /\ s.blocked \in Sets
      /\ s.ok \in Truths /\ s.mid \in Truths /\ s.next \in Nat /\ s.read \in Pages
      /\ s.ended \in Truths /\ s.failed \in Truths /\ s.met \in Sets /\ s.lost \in Sets
  BY DEF Typed
<1>2. RunStates = Records
  BY DEF RunStates, RunPhases
<1> HIDE DEF Truths, Pages, Sets, Lists, Words
<1>3. s \in Records
  BY <1>1 DEF IsRun, Fields
<1> QED
  BY <1>2, <1>3

LEMMA IdleIsARun == Idle \in RunStates
<1>1. IsRun(Idle)
  BY DEF Idle, IsRun, Fields
<1>2. Typed(Idle)
  BY DEF Idle, Typed, RunPhases, Configs
<1> QED
  BY <1>1, <1>2, TypedIsRun

-----------------------------------------------------------------------------
(* What the steps make of a run *)

\* The updates of ReadListing, ListingFails, FetchDetail, EndPage and Begin.
Reading(s, urls, short) ==
    [s EXCEPT !.read = @ \cup {s.page}, !.met = @ \cup Range(urls),
             !.ended = @ \/ short]
Opened(s, urls, short) ==
    [s EXCEPT !.phase = "details", !.todo = urls, !.short = short]
Failing(s) ==
    [s EXCEPT !.failed = TRUE]
Taken(s) ==
    [s EXCEPT !.todo = Tail(@)]
Collected(s, p) ==
    [s EXCEPT !.got = @ + 1, !.offers = Append(@, p)]
Blocked(s, p) ==
    [s EXCEPT !.blocked = @ \cup {p}]
Lost(s, p) ==
    [s EXCEPT !.lost = @ \cup {p}]
NextPage(s) ==
    [s EXCEPT !.phase = "listing", !.page = @ + 1]
Begun(forced, c, terms, start) ==
    [Idle EXCEPT !.phase = "listing", !.forced = forced, !.config = c,
                !.terms = terms, !.start = start, !.page = start]

\* What a fetch of a posting does not change.
SameWalk(t, s) ==
    /\ t.phase = s.phase /\ t.config = s.config /\ t.terms = s.terms
    /\ t.start = s.start /\ t.page = s.page /\ t.short = s.short
    /\ t.ok = s.ok /\ t.failed = s.failed
    /\ t.read = s.read /\ t.met = s.met /\ t.ended = s.ended

\* KeywordDone moves to the first page of the next keyword.
LEMMA KeywordDoneRun ==
    ASSUME NEW s \in RunStates, s.terms # <<>>,
           NEW ok \in BOOLEAN, NEW mid \in BOOLEAN, NEW next \in Nat,
           NEW t, t = KeywordDone(s, ok, mid, next)
    PROVE  /\ t \in RunStates
           /\ t.phase = IF Len(s.terms) = 1 THEN "closing" ELSE "listing"
           /\ t.terms = Tail(s.terms) /\ t.config = s.config /\ t.next = next
           /\ t.start = 1 /\ t.page = 1 /\ t.todo = <<>>
           /\ t.offers = s.offers /\ t.blocked = s.blocked
           /\ t.read = s.read /\ t.met = s.met /\ t.lost = s.lost
           /\ t.ended = s.ended /\ t.failed = s.failed
           /\ t.ok = (s.ok \/ ok) /\ t.mid = (s.mid \/ mid)
<1>1. IsRun(s) /\ Typed(s)
  BY RunIsTyped
<1>2. IsRun(t)
  BY <1>1 DEF KeywordDone, IsRun, Fields
<1>3. /\ t.phase = IF Len(s.terms) = 1 THEN "closing" ELSE "listing"
      /\ t.terms = Tail(s.terms) /\ t.config = s.config /\ t.next = next
      /\ t.start = 1 /\ t.page = 1 /\ t.todo = <<>> /\ t.got = 0
  <2>1. t.phase = IF Len(s.terms) = 1 THEN "closing" ELSE "listing"
    BY <1>1 DEF KeywordDone, IsRun, Fields
  <2>2. t.terms = Tail(s.terms) /\ t.config = s.config /\ t.next = next
    BY <1>1 DEF KeywordDone, IsRun, Fields
  <2>3. t.start = 1 /\ t.page = 1 /\ t.todo = <<>> /\ t.got = 0
    BY <1>1 DEF KeywordDone, IsRun, Fields
  <2> QED
    BY <2>1, <2>2, <2>3
<1>4. /\ t.forced = s.forced /\ t.short = s.short
      /\ t.offers = s.offers /\ t.blocked = s.blocked
      /\ t.read = s.read /\ t.met = s.met /\ t.lost = s.lost
      /\ t.ended = s.ended /\ t.failed = s.failed
  BY <1>1 DEF KeywordDone, IsRun, Fields
<1>5. t.ok = (s.ok \/ ok)
  BY <1>1 DEF KeywordDone, IsRun, Fields
<1>6. t.mid = (s.mid \/ mid)
  BY <1>1 DEF KeywordDone, IsRun, Fields
<1>7. t.terms \in Seq(Keywords) /\ t.phase \in RunPhases /\ t.todo \in Seq(Postings)
  BY <1>1, <1>3, HeadTailProperties DEF Typed, RunPhases
<1>8. t.ok \in BOOLEAN /\ t.mid \in BOOLEAN
  BY <1>5, <1>6
<1>9. Typed(t)
  BY <1>1, <1>3, <1>4, <1>7, <1>8 DEF Typed
<1> QED
  BY <1>2, <1>3, <1>4, <1>5, <1>6, <1>9, TypedIsRun

\* A page was read.
LEMMA ReadRun ==
    ASSUME NEW s \in RunStates, NEW urls \in Seq(Postings), NEW short \in BOOLEAN,
           NEW t, t = Reading(s, urls, short)
    PROVE  /\ t \in RunStates
           /\ t.phase = s.phase /\ t.config = s.config /\ t.terms = s.terms
           /\ t.start = s.start /\ t.page = s.page /\ t.todo = s.todo
           /\ t.offers = s.offers /\ t.blocked = s.blocked
           /\ t.ok = s.ok /\ t.failed = s.failed /\ t.lost = s.lost
           /\ t.read = s.read \cup {s.page} /\ t.met = s.met \cup Range(urls)
           /\ t.ended = (s.ended \/ short)
<1>1. IsRun(s) /\ Typed(s)
  BY RunIsTyped
<1>2. IsRun(t)
  BY <1>1 DEF IsRun, Fields, Reading
<1>3. /\ t.phase = s.phase /\ t.config = s.config /\ t.terms = s.terms
      /\ t.start = s.start /\ t.page = s.page /\ t.todo = s.todo
      /\ t.offers = s.offers /\ t.blocked = s.blocked
      /\ t.ok = s.ok /\ t.failed = s.failed /\ t.lost = s.lost
      /\ t.read = s.read \cup {s.page} /\ t.met = s.met \cup Range(urls)
  BY <1>1 DEF IsRun, Fields, Reading
<1>4. /\ t.forced = s.forced /\ t.short = s.short /\ t.got = s.got /\ t.mid = s.mid
      /\ t.next = s.next
  BY <1>1 DEF IsRun, Fields, Reading
<1>5. t.ended = (s.ended \/ short)
  BY <1>1 DEF IsRun, Fields, Reading
<1>6. t.read \in SUBSET Nat /\ t.met \in SUBSET Postings /\ t.ended \in BOOLEAN
  <2>1. Range(urls) \subseteq Postings
    BY RangeIn
  <2>2. t.read \in SUBSET Nat /\ t.met \in SUBSET Postings
    BY <1>1, <1>3, <2>1 DEF Typed
  <2> QED
    BY <1>5, <2>2
<1>7. Typed(t)
  BY <1>1, <1>3, <1>4, <1>6 DEF Typed
<1> QED
  BY <1>2, <1>3, <1>5, <1>7, TypedIsRun

\* Its postings are about to be fetched.
LEMMA OpenedRun ==
    ASSUME NEW s \in RunStates, NEW urls \in Seq(Postings), NEW short \in BOOLEAN,
           NEW t, t = Opened(s, urls, short)
    PROVE  /\ t \in RunStates
           /\ t.phase = "details" /\ t.config = s.config /\ t.terms = s.terms
           /\ t.start = s.start /\ t.page = s.page /\ t.todo = urls /\ t.short = short
           /\ t.offers = s.offers /\ t.blocked = s.blocked
           /\ t.ok = s.ok /\ t.failed = s.failed /\ t.lost = s.lost
           /\ t.read = s.read /\ t.met = s.met /\ t.ended = s.ended
<1>1. IsRun(s) /\ Typed(s)
  BY RunIsTyped
<1>2. IsRun(t)
  BY <1>1 DEF IsRun, Fields, Opened
<1>3. /\ t.phase = "details" /\ t.config = s.config /\ t.terms = s.terms
      /\ t.start = s.start /\ t.page = s.page /\ t.todo = urls /\ t.short = short
      /\ t.offers = s.offers /\ t.blocked = s.blocked
      /\ t.ok = s.ok /\ t.failed = s.failed /\ t.lost = s.lost
      /\ t.read = s.read /\ t.met = s.met /\ t.ended = s.ended
  BY <1>1 DEF IsRun, Fields, Opened
<1>4. t.forced = s.forced /\ t.got = s.got /\ t.mid = s.mid /\ t.next = s.next
  BY <1>1 DEF IsRun, Fields, Opened
<1>5. Typed(t)
  BY <1>1, <1>3, <1>4 DEF Typed, RunPhases
<1> QED
  BY <1>2, <1>3, <1>5, TypedIsRun

\* A page could not be fetched.
LEMMA FailedRun ==
    ASSUME NEW s \in RunStates, NEW t, t = Failing(s)
    PROVE  /\ t \in RunStates
           /\ t.phase = s.phase /\ t.config = s.config /\ t.terms = s.terms
           /\ t.start = s.start /\ t.page = s.page /\ t.todo = s.todo
           /\ t.offers = s.offers /\ t.blocked = s.blocked
           /\ t.ok = s.ok /\ t.lost = s.lost
           /\ t.read = s.read /\ t.met = s.met /\ t.ended = s.ended
<1>1. IsRun(s) /\ Typed(s)
  BY RunIsTyped
<1>2. IsRun(t)
  BY <1>1 DEF IsRun, Fields, Failing
<1>3. /\ t.phase = s.phase /\ t.config = s.config /\ t.terms = s.terms
      /\ t.start = s.start /\ t.page = s.page /\ t.todo = s.todo
      /\ t.offers = s.offers /\ t.blocked = s.blocked
      /\ t.ok = s.ok /\ t.lost = s.lost
      /\ t.read = s.read /\ t.met = s.met /\ t.ended = s.ended
  BY <1>1 DEF IsRun, Fields, Failing
<1>4. /\ t.forced = s.forced /\ t.short = s.short /\ t.got = s.got /\ t.mid = s.mid
      /\ t.next = s.next /\ t.failed = TRUE
  BY <1>1 DEF IsRun, Fields, Failing
<1>5. Typed(t)
  BY <1>1, <1>3, <1>4 DEF Typed
<1> QED
  BY <1>2, <1>3, <1>5, TypedIsRun

\* A posting of the page is taken up: it is collected, put aside for a dead
\* letter, or lost.
LEMMA TakenRun ==
    ASSUME NEW s \in RunStates, s.todo # <<>>, NEW t, t = Taken(s)
    PROVE  /\ t \in RunStates /\ SameWalk(t, s)
           /\ t.todo = Tail(s.todo) /\ t.offers = s.offers /\ t.blocked = s.blocked
           /\ t.lost = s.lost
<1>1. IsRun(s) /\ Typed(s)
  BY RunIsTyped
<1>2. IsRun(t)
  BY <1>1 DEF IsRun, Fields, Taken
<1>3. SameWalk(t, s)
  BY <1>1 DEF IsRun, Fields, Taken, SameWalk
<1>4. /\ t.todo = Tail(s.todo) /\ t.offers = s.offers /\ t.blocked = s.blocked
      /\ t.lost = s.lost
      /\ t.forced = s.forced /\ t.got = s.got /\ t.mid = s.mid /\ t.next = s.next
  BY <1>1 DEF IsRun, Fields, Taken
<1>5. t.todo \in Seq(Postings)
  BY <1>1, <1>4, HeadTailProperties DEF Typed
<1>6. Typed(t)
  BY <1>1, <1>3, <1>4, <1>5 DEF Typed, SameWalk
<1> QED
  BY <1>2, <1>3, <1>4, <1>6, TypedIsRun

LEMMA CollectedRun ==
    ASSUME NEW s \in RunStates, NEW p \in Postings,
           NEW t, t = Collected(s, p)
    PROVE  /\ t \in RunStates /\ SameWalk(t, s)
           /\ t.todo = s.todo /\ t.offers = Append(s.offers, p) /\ t.blocked = s.blocked
           /\ t.lost = s.lost
<1>1. IsRun(s) /\ Typed(s)
  BY RunIsTyped
<1>2. IsRun(t)
  BY <1>1 DEF IsRun, Fields, Collected
<1>3. SameWalk(t, s)
  BY <1>1 DEF IsRun, Fields, Collected, SameWalk
<1>4. /\ t.todo = s.todo /\ t.offers = Append(s.offers, p) /\ t.blocked = s.blocked
      /\ t.lost = s.lost
      /\ t.forced = s.forced /\ t.got = s.got + 1 /\ t.mid = s.mid /\ t.next = s.next
  BY <1>1 DEF IsRun, Fields, Collected
<1>5. t.got \in Nat /\ t.offers \in Seq(Postings)
  BY <1>1, <1>4, AppendProperties DEF Typed
<1>6. Typed(t)
  BY <1>1, <1>3, <1>4, <1>5 DEF Typed, SameWalk
<1> QED
  BY <1>2, <1>3, <1>4, <1>6, TypedIsRun

LEMMA BlockedRun ==
    ASSUME NEW s \in RunStates, NEW p \in Postings,
           NEW t, t = Blocked(s, p)
    PROVE  /\ t \in RunStates /\ SameWalk(t, s)
           /\ t.todo = s.todo /\ t.offers = s.offers /\ t.blocked = s.blocked \cup {p}
           /\ t.lost = s.lost
<1>1. IsRun(s) /\ Typed(s)
  BY RunIsTyped
<1>2. IsRun(t)
  BY <1>1 DEF IsRun, Fields, Blocked
<1>3. SameWalk(t, s)
  BY <1>1 DEF IsRun, Fields, Blocked, SameWalk
<1>4. /\ t.todo = s.todo /\ t.offers = s.offers /\ t.blocked = s.blocked \cup {p}
      /\ t.lost = s.lost
      /\ t.forced = s.forced /\ t.got = s.got /\ t.mid = s.mid /\ t.next = s.next
  BY <1>1 DEF IsRun, Fields, Blocked
<1>5. t.blocked \in SUBSET Postings
  BY <1>1, <1>4 DEF Typed
<1>6. Typed(t)
  BY <1>1, <1>3, <1>4, <1>5 DEF Typed, SameWalk
<1> QED
  BY <1>2, <1>3, <1>4, <1>6, TypedIsRun

LEMMA LostRun ==
    ASSUME NEW s \in RunStates, NEW p \in Postings,
           NEW t, t = Lost(s, p)
    PROVE  /\ t \in RunStates /\ SameWalk(t, s)
           /\ t.todo = s.todo /\ t.offers = s.offers /\ t.blocked = s.blocked
           /\ t.lost = s.lost \cup {p}
<1>1. IsRun(s) /\ Typed(s)
  BY RunIsTyped
<1>2. IsRun(t)
  BY <1>1 DEF IsRun, Fields, Lost
<1>3. SameWalk(t, s)
  BY <1>1 DEF IsRun, Fields, Lost, SameWalk
<1>4. /\ t.todo = s.todo /\ t.offers = s.offers /\ t.blocked = s.blocked
      /\ t.lost = s.lost \cup {p}
      /\ t.forced = s.forced /\ t.got = s.got /\ t.mid = s.mid /\ t.next = s.next
  BY <1>1 DEF IsRun, Fields, Lost
<1>5. t.lost \in SUBSET Postings
  BY <1>1, <1>4 DEF Typed
<1>6. Typed(t)
  BY <1>1, <1>3, <1>4, <1>5 DEF Typed, SameWalk
<1> QED
  BY <1>2, <1>3, <1>4, <1>6, TypedIsRun

\* The loop goes on with the next page.
LEMMA NextPageRun ==
    ASSUME NEW s \in RunStates, NEW t, t = NextPage(s)
    PROVE  /\ t \in RunStates
           /\ t.phase = "listing" /\ t.config = s.config /\ t.terms = s.terms
           /\ t.start = s.start /\ t.page = s.page + 1 /\ t.todo = s.todo
           /\ t.offers = s.offers /\ t.blocked = s.blocked
           /\ t.ok = s.ok /\ t.failed = s.failed /\ t.lost = s.lost
           /\ t.read = s.read /\ t.met = s.met /\ t.ended = s.ended
<1>1. IsRun(s) /\ Typed(s)
  BY RunIsTyped
<1>2. IsRun(t)
  BY <1>1 DEF IsRun, Fields, NextPage
<1>3. /\ t.phase = "listing" /\ t.config = s.config /\ t.terms = s.terms
      /\ t.start = s.start /\ t.page = s.page + 1 /\ t.todo = s.todo
      /\ t.offers = s.offers /\ t.blocked = s.blocked
      /\ t.ok = s.ok /\ t.failed = s.failed /\ t.lost = s.lost
      /\ t.read = s.read /\ t.met = s.met /\ t.ended = s.ended
  BY <1>1 DEF IsRun, Fields, NextPage
<1>4. /\ t.forced = s.forced /\ t.short = s.short /\ t.got = s.got /\ t.mid = s.mid
      /\ t.next = s.next
  BY <1>1 DEF IsRun, Fields, NextPage
<1>5. t.page \in Nat
  BY <1>1, <1>3 DEF Typed
<1>6. Typed(t)
  BY <1>1, <1>3, <1>4, <1>5 DEF Typed, RunPhases
<1> QED
  BY <1>2, <1>3, <1>6, TypedIsRun

\* A run begins.
LEMMA BegunRun ==
    ASSUME NEW forced \in BOOLEAN, NEW c \in Configs, NEW terms \in Seq(Keywords),
           NEW start \in Nat,
           NEW t, t = Begun(forced, c, terms, start)
    PROVE  /\ t \in RunStates
           /\ t.phase = "listing" /\ t.config = c /\ t.terms = terms
           /\ t.start = start /\ t.page = start
           /\ t.todo = <<>> /\ t.met = {} /\ ~t.ok /\ ~t.failed
<1>1. IsRun(Idle) /\ Typed(Idle)
  BY IdleIsARun, RunIsTyped
<1>2. Idle.todo = <<>> /\ Idle.met = {} /\ ~Idle.ok /\ ~Idle.failed
  BY DEF Idle
<1>3. IsRun(t)
  BY <1>1 DEF IsRun, Fields, Begun
<1>4. /\ t.phase = "listing" /\ t.forced = forced /\ t.config = c /\ t.terms = terms
      /\ t.start = start /\ t.page = start
      /\ t.todo = Idle.todo /\ t.met = Idle.met /\ t.ok = Idle.ok /\ t.failed = Idle.failed
  BY <1>1 DEF IsRun, Fields, Begun
<1>5. /\ t.short = Idle.short /\ t.got = Idle.got /\ t.mid = Idle.mid /\ t.next = Idle.next
      /\ t.offers = Idle.offers /\ t.blocked = Idle.blocked /\ t.read = Idle.read
      /\ t.ended = Idle.ended /\ t.lost = Idle.lost
  BY <1>1 DEF IsRun, Fields, Begun
<1>6. Typed(t)
  BY <1>1, <1>4, <1>5 DEF Typed, RunPhases
<1> QED
  BY <1>2, <1>3, <1>4, <1>6, TypedIsRun

-----------------------------------------------------------------------------
(* The inductive invariant *)

\* The page at which an unfiltered run starts.
First(s) == Max({s.config.cursor, 1})

Unfilt(s) == ~s.config.filtered

\* The walk has begun, and reads its one keyword.
Walking(s) ==
    /\ Len(s.terms) = 1
    /\ ~s.ok /\ ~s.failed
    /\ s.start = First(s) /\ s.start <= s.page
    /\ s.start..(s.page - 1) \subseteq s.read

\* The walk is over: it has read the pages before the one to resume from.
Walked(s) ==
    /\ s.ok => \/ s.next = 1 /\ s.ended
               \/ s.next > First(s) /\ First(s)..(s.next - 1) \subseteq s.read
    /\ s.failed => ~s.ok \/ s.mid

\* What an unfiltered run knows in each phase.
Walk(s) ==
    Unfilt(s) =>
        /\ s.phase \in {"listing", "details"} => Walking(s)
        /\ s.phase = "details" => s.page \in s.read /\ (s.short => s.ended)
        /\ s.phase = "closing" => Walked(s)

\* What every run knows.  One that has met a posting either has a keyword that
\* was read well, or is still on a keyword whose first page it has read.
Ready(s) ==
    /\ s.page >= 1 /\ s.start <= s.page
    /\ s.phase \in {"listing", "details"} => s.terms # <<>>
    /\ s.phase # "details" => s.todo = <<>>
    /\ \/ s.ok \/ s.met = {} \/ s.phase = "details"
       \/ s.phase = "listing" /\ s.start < s.page

\* Each posting in its fetch range that the run has met is still in its hands,
\* unless it is in done, not valid, or lost.
Kept(s, done) ==
    s.met \cap s.config.range
        \subseteq Unreadable \cup s.lost \cup s.blocked
                     \cup Range(s.todo) \cup Range(s.offers) \cup done

Tables ==
    /\ listing \in [Keywords -> Seq(Seq(Postings))]
    /\ config \in Configs
    /\ stored \subseteq Postings \ Unreadable
    /\ letters \subseteq Postings
    /\ alarm \in BOOLEAN
    /\ cut \subseteq Postings
    /\ trouble \in 0..MaxTrouble /\ changes \in 0..MaxChanges /\ requests \in 0..MaxRequests

IInv ==
    /\ TypeOK
    /\ \A r \in Runs : Ready(run[r]) /\ Walk(run[r]) /\ Kept(run[r], Covered \cup cut)

\* A run starts at a page.
LEMMA FirstPage == ASSUME NEW n \in Nat PROVE Max({n, 1}) \in Nat /\ Max({n, 1}) >= 1
<1>1. \E x \in {n, 1} : \A y \in {n, 1} : x >= y
  BY SMT
<1> QED
  BY <1>1, SMT DEF Max

LEMMA FirstIsAPage == ASSUME NEW s, s.config \in Configs PROVE First(s) \in Nat
<1>1. s.config.cursor \in Nat
  BY DEF Configs
<1> QED
  BY <1>1, FirstPage DEF First

\* What IInv says of one run.
LEMMA Known ==
    ASSUME IInv, NEW r \in Runs
    PROVE  /\ run[r] \in RunStates /\ Typed(run[r])
           /\ Ready(run[r]) /\ Walk(run[r]) /\ Kept(run[r], Covered \cup cut)
<1>1. run[r] \in RunStates
  BY DEF IInv, TypeOK
<1> QED
  BY <1>1, RunIsTyped DEF IInv

\* Goto replaces the state of one run, and what is done of what the others have
\* met only grows.
LEMMA GotoStep ==
    ASSUME IInv, Tables', stored \subseteq stored', cut \subseteq cut',
           NEW r \in Runs, NEW t \in RunStates, Goto(r, t),
           Ready(t), Walk(t), Kept(t, Covered' \cup cut')
    PROVE  IInv'
<1>1. run' = [run EXCEPT ![r] = t] /\ run \in [Runs -> RunStates]
  BY DEF Goto, IInv, TypeOK
<1>2. run' \in [Runs -> RunStates] /\ \A x \in Runs : run'[x] = IF x = r THEN t ELSE run[x]
  BY <1>1
<1>3. TypeOK'
  BY <1>2 DEF Tables, TypeOK
<1>4. ASSUME NEW x \in Runs
      PROVE  Ready(run'[x]) /\ Walk(run'[x]) /\ Kept(run'[x], Covered' \cup cut')
  <2>1. CASE x = r
    BY <1>2, <2>1
  <2>2. CASE x # r
    <3>1. run'[x] = run[x]
      BY <1>2, <2>2
    <3>2. Ready(run[x]) /\ Walk(run[x]) /\ Kept(run[x], Covered \cup cut)
      BY Known
    <3>3. Kept(run[x], Covered' \cup cut')
      BY <3>2, CoveredGrows DEF Kept
    <3> QED
      BY <3>1, <3>2, <3>3
  <2> QED
    BY <2>1, <2>2
<1> QED
  BY <1>3, <1>4 DEF IInv

\* A step of no run.
LEMMA QuietStep ==
    ASSUME IInv, Tables', stored \subseteq stored', cut \subseteq cut', UNCHANGED run
    PROVE  IInv'
<1>1. TypeOK'
  BY DEF Tables, TypeOK, IInv
<1>2. ASSUME NEW x \in Runs PROVE Ready(run[x]) /\ Walk(run[x]) /\ Kept(run[x], Covered' \cup cut')
  <2>1. Ready(run[x]) /\ Walk(run[x]) /\ Kept(run[x], Covered \cup cut)
    BY Known
  <2>2. Kept(run[x], Covered' \cup cut')
    BY <2>1, CoveredGrows DEF Kept
  <2> QED
    BY <2>1, <2>2
<1> QED
  BY <1>1, <1>2 DEF IInv

\* Between runs there is nothing to know.
LEMMA IdleStep ==
    ASSUME IInv, Tables', stored \subseteq stored', cut \subseteq cut',
           NEW r \in Runs, Goto(r, Idle)
    PROVE  IInv'
<1>1. Ready(Idle) /\ Walk(Idle) /\ Kept(Idle, Covered' \cup cut')
  BY DEF Ready, Walk, Kept, Idle
<1> QED
  BY <1>1, IdleIsARun, GotoStep

\* An unfiltered walk that is done with its keyword is over.
LEMMA KeywordDoneKnown ==
    ASSUME NEW s \in RunStates, s.terms # <<>>,
           NEW ok \in BOOLEAN, NEW mid \in BOOLEAN, NEW next \in Nat,
           s.ok \/ ok \/ s.met = {},
           Unfilt(s) => Len(s.terms) = 1 /\ ~s.ok,
           Unfilt(s) => \/ ~ok
                        \/ next = 1 /\ s.ended
                        \/ next > First(s) /\ First(s)..(next - 1) \subseteq s.read,
           Unfilt(s) => (s.failed => ~ok \/ mid),
           NEW done, Kept(s, done), Range(s.todo) \cap s.config.range \subseteq done,
           NEW t, t = KeywordDone(s, ok, mid, next)
    PROVE  t \in RunStates /\ Ready(t) /\ Walk(t) /\ Kept(t, done)
<1>1. /\ t \in RunStates
      /\ t.phase = IF Len(s.terms) = 1 THEN "closing" ELSE "listing"
      /\ t.terms = Tail(s.terms) /\ t.config = s.config /\ t.next = next
      /\ t.start = 1 /\ t.page = 1 /\ t.todo = <<>>
      /\ t.offers = s.offers /\ t.blocked = s.blocked
      /\ t.read = s.read /\ t.met = s.met /\ t.lost = s.lost
      /\ t.ended = s.ended /\ t.failed = s.failed
      /\ t.ok = (s.ok \/ ok) /\ t.mid = (s.mid \/ mid)
  BY KeywordDoneRun
<1>2. Ready(t)
  <2>1. s.terms \in Seq(Keywords)
    BY RunIsTyped DEF Typed
  <2>2. Len(s.terms) # 1 => Tail(s.terms) # <<>>
    <3> DEFINE tail == Tail(s.terms)
    <3>1. Len(tail) = Len(s.terms) - 1 /\ Len(s.terms) \in Nat
      BY <2>1, HeadTailProperties
    <3> HIDE DEF tail
    <3>2. tail = <<>> => Len(tail) = 0
      OBVIOUS
    <3> QED
      BY <3>1, <3>2 DEF tail
  <2>3. t.ok \/ t.met = {}
    BY <1>1
  <2>4. t.page >= 1 /\ t.start <= t.page
    BY <1>1
  <2>5. (t.phase \in {"listing", "details"} => t.terms # <<>>) /\ t.todo = <<>>
    BY <1>1, <2>2
  <2> QED
    BY <2>3, <2>4, <2>5 DEF Ready
<1>3. Walk(t)
  <2> SUFFICES ASSUME Unfilt(t) PROVE t.phase = "closing" /\ Walked(t)
    BY DEF Walk
  <2>1. Unfilt(s)
    BY <1>1 DEF Unfilt
  <2>2. t.phase = "closing" /\ (t.ok <=> ok) /\ (s.failed => ~ok \/ t.mid)
    <3>1. t.phase = "closing" /\ ~s.ok
      BY <1>1, <2>1
    <3>2. t.ok <=> ok
      BY <1>1, <3>1
    <3>3. s.failed => ~ok \/ t.mid
      BY <1>1, <2>1
    <3> QED
      BY <3>1, <3>2, <3>3
  <2>3. First(t) = First(s)
    BY <1>1 DEF First
  <2> QED
    BY <1>1, <2>1, <2>2, <2>3 DEF Walked
<1>4. Kept(t, done)
  BY <1>1 DEF Kept
<1> QED
  BY <1>1, <1>2, <1>3, <1>4

-----------------------------------------------------------------------------
(* One lemma per step *)

\* The steps of a run before its end leave the tables alone.
LEMMA SameTables ==
    ASSUME IInv,
           UNCHANGED <<listing, config, stored, letters, alarm, changes, requests>>,
           cut' \subseteq Postings, trouble' = trouble \/ Trouble
    PROVE  Tables'
<1>1. trouble' \in 0..MaxTrouble
  BY LimitsAssumption DEF IInv, TypeOK, Trouble
<1> QED
  BY <1>1 DEF IInv, TypeOK, Tables

\* ReadListing: an empty page ends the walk, any other is read.
LEMMA ReadListingStep ==
    ASSUME IInv, NEW r \in Runs, ReadListing(r)
    PROVE  IInv'
<1> DEFINE s == run[r]
           groups == PageOf(Head(s.terms), s.page)
           urls == FlattenSeq(groups)
           short == Len(groups) < PageSize
           read == [s EXCEPT !.read = @ \cup {s.page}, !.met = @ \cup Range(urls),
                             !.ended = @ \/ Len(groups) < PageSize]
           more == [read EXCEPT !.phase = "details", !.todo = urls,
                                !.short = Len(groups) < PageSize]
           done == Covered \cup cut
<1>1. /\ s \in RunStates /\ Typed(s) /\ Ready(s) /\ Walk(s) /\ Kept(s, done)
      /\ s.phase = "listing" /\ s.terms # <<>> /\ s.todo = <<>>
  BY Known DEF ReadListing, Ready
<1>2. Goto(r, IF groups = <<>> THEN KeywordDone(read, TRUE, FALSE, 1) ELSE more)
  BY DEF ReadListing
<1>3. Tables' /\ stored' = stored /\ Covered' = Covered /\ cut' = cut
  <2>1. stored' = stored /\ cut' = cut /\ cut \subseteq Postings
    BY DEF ReadListing, IInv, TypeOK
  <2> QED
    BY <2>1, SameTables DEF ReadListing, Covered
<1>4. groups \in Seq(Seq(Postings)) /\ urls \in Seq(Postings)
  <2>1. Head(s.terms) \in Keywords /\ s.page \in Nat /\ s.page >= 1
    BY <1>1, HeadTailProperties DEF Typed, Ready
  <2>2. groups \in Seq(Seq(Postings))
    BY <2>1, PageOfType DEF IInv, TypeOK
  <2> QED
    BY <2>2, FlattenType
<1>5. groups = <<>> => short /\ Range(urls) = {}
  <2>1. PageSize \in Nat \ {0}
    BY LimitsAssumption
  <2> SUFFICES ASSUME groups = <<>> PROVE short /\ Range(urls) = {}
    OBVIOUS
  <2>2. Len(groups) = 0
    OBVIOUS
  <2>3. urls = <<>>
    BY <2>2 DEF FlattenSeq
  <2> HIDE DEF groups, urls
  <2>4. Range(urls) = {}
    BY <2>3 DEF Range
  <2> QED
    BY <2>1, <2>2, <2>4
<1>6. short \in BOOLEAN
  OBVIOUS
<1> HIDE DEF groups, urls
<1>7. read = Reading(s, urls, short) /\ more = Opened(read, urls, short)
  BY DEF Reading, Opened
<1> HIDE DEF s, short, read, more, done
<1>8. /\ read \in RunStates
      /\ read.phase = s.phase /\ read.config = s.config /\ read.terms = s.terms
      /\ read.start = s.start /\ read.page = s.page /\ read.todo = s.todo
      /\ read.offers = s.offers /\ read.blocked = s.blocked
      /\ read.ok = s.ok /\ read.failed = s.failed /\ read.lost = s.lost
      /\ read.read = s.read \cup {s.page} /\ read.met = s.met \cup Range(urls)
      /\ read.ended = (s.ended \/ short)
  BY <1>1, <1>4, <1>6, <1>7, ReadRun
<1>9. CASE groups = <<>>
  <2> DEFINE t == KeywordDone(read, TRUE, FALSE, 1)
  <2>1. Unfilt(read) => Len(read.terms) = 1 /\ ~read.ok /\ ~read.failed /\ read.ended
    BY <1>1, <1>5, <1>8, <1>9 DEF Walk, Walking, Unfilt
  <2>2. Kept(read, done) /\ Range(read.todo) \cap read.config.range \subseteq done
    BY <1>1, <1>5, <1>8, <1>9 DEF Kept, Range
  <2>3. t \in RunStates /\ Ready(t) /\ Walk(t) /\ Kept(t, done)
    BY <1>1, <1>8, <2>1, <2>2, KeywordDoneKnown
  <2>4. Goto(r, t)
    BY <1>2, <1>9
  <2> QED
    BY <1>3, <2>3, <2>4, GotoStep DEF done
<1>10. CASE groups # <<>>
  <2>1. /\ more \in RunStates
        /\ more.phase = "details" /\ more.config = s.config /\ more.terms = s.terms
        /\ more.start = s.start /\ more.page = s.page /\ more.todo = urls /\ more.short = short
        /\ more.offers = s.offers /\ more.blocked = s.blocked
        /\ more.ok = s.ok /\ more.failed = s.failed /\ more.lost = s.lost
        /\ more.read = s.read \cup {s.page} /\ more.met = s.met \cup Range(urls)
        /\ more.ended = (s.ended \/ short)
    BY <1>4, <1>6, <1>7, <1>8, OpenedRun
  <2>2. Ready(more)
    BY <1>1, <2>1 DEF Ready
  <2>3. Walk(more)
    <3> SUFFICES ASSUME Unfilt(more)
                 PROVE  Walking(more) /\ more.page \in more.read /\ (more.short => more.ended)
      BY <2>1 DEF Walk
    <3>1. Walking(s)
      BY <1>1, <2>1 DEF Walk, Unfilt
    <3>2. Walking(more)
      BY <2>1, <3>1 DEF Walking, First
    <3> QED
      BY <2>1, <3>2
  <2>4. Kept(more, done)
    BY <1>1, <2>1 DEF Kept, Range
  <2>5. Goto(r, more)
    BY <1>2, <1>10
  <2> QED
    BY <1>3, <2>1, <2>2, <2>3, <2>4, <2>5, GotoStep DEF done
<1> QED
  BY <1>9, <1>10

\* ListingFails: the page that failed is the one to resume from, if it is not
\* the first.
LEMMA ListingFailsStep ==
    ASSUME IInv, NEW r \in Runs, ListingFails(r)
    PROVE  IInv'
<1> DEFINE s == run[r]
           u == [s EXCEPT !.failed = TRUE]
           first == u.page = u.start
           t == KeywordDone(u, ~first, ~first, u.page)
           done == Covered \cup cut
<1>1. /\ s \in RunStates /\ Typed(s) /\ Ready(s) /\ Walk(s) /\ Kept(s, done)
      /\ s.phase = "listing" /\ s.terms # <<>> /\ s.todo = <<>>
  <2>1. s.phase = "listing"
    BY DEF ListingFails
  <2> QED
    BY <2>1, Known DEF Ready
<1>2. Goto(r, t)
  BY DEF ListingFails
<1>3. Tables' /\ stored' = stored /\ Covered' = Covered /\ cut' = cut
  <2>1. stored' = stored /\ cut' = cut /\ cut \subseteq Postings
    BY DEF ListingFails, IInv, TypeOK
  <2> QED
    BY <2>1, SameTables DEF ListingFails, Covered
<1>4a. u = Failing(s)
  BY DEF Failing
<1> HIDE DEF s, u, done
<1>4. /\ u \in RunStates
      /\ u.config = s.config /\ u.terms = s.terms
      /\ u.start = s.start /\ u.page = s.page /\ u.todo = s.todo
      /\ u.offers = s.offers /\ u.blocked = s.blocked
      /\ u.ok = s.ok /\ u.lost = s.lost
      /\ u.read = s.read /\ u.met = s.met /\ u.ended = s.ended
  BY <1>1, <1>4a, FailedRun
<1>5. First(u) = First(s) /\ First(s) \in Nat /\ u.page \in Nat
  <2>1. u.page \in Nat /\ s.config \in Configs
    BY <1>1, <1>4 DEF Typed
  <2>2. First(u) = First(s)
    BY <1>4 DEF First
  <2> QED
    BY <2>1, <2>2, FirstIsAPage
<1>6. Unfilt(u) => /\ Len(u.terms) = 1 /\ ~u.ok
                   /\ u.start = First(u) /\ u.start <= u.page
                   /\ First(u)..(u.page - 1) \subseteq u.read
  BY <1>1, <1>4, <1>5 DEF Walk, Walking, Unfilt
<1>7. Unfilt(u) => ~(~first) \/ (u.page > First(u) /\ First(u)..(u.page - 1) \subseteq u.read)
  BY <1>5, <1>6
<1>8. Kept(u, done) /\ Range(u.todo) \cap u.config.range \subseteq done
  BY <1>1, <1>4 DEF Kept, Range
<1>9. (~first) \in BOOLEAN /\ (u.failed => ~(~first) \/ ~first)
  OBVIOUS
<1>9a. u.ok \/ ~first \/ u.met = {}
  <2>1. s.start \in Nat /\ s.page \in Nat
    BY <1>1 DEF Typed
  <2>2. s.ok \/ s.met = {} \/ s.start < s.page
    BY <1>1 DEF Ready
  <2>3. s.start < s.page => ~first
    BY <1>4, <2>1
  <2> QED
    BY <1>4, <2>2, <2>3
<1> HIDE DEF first
<1>10. t \in RunStates /\ Ready(t) /\ Walk(t) /\ Kept(t, done)
  BY <1>1, <1>4, <1>5, <1>6, <1>7, <1>8, <1>9, <1>9a, KeywordDoneKnown
<1> QED
  BY <1>2, <1>3, <1>10, GotoStep DEF done

\* FetchDetail: a posting's page leaves the walk where it is.
LEMMA FetchDetailStep ==
    ASSUME IInv, NEW r \in Runs, NEW outcome \in FetchOutcomes, FetchDetail(r, outcome)
    PROVE  IInv'
<1> DEFINE s == run[r]
           p == Head(s.todo)
           rest == Taken(s)
           done == Covered \cup cut
           t == CASE outcome = "record" -> Collected(rest, p)
                  [] outcome = "blocked" -> Blocked(rest, p)
                  [] outcome = "nothing" -> Lost(rest, p)
<1>1. /\ s \in RunStates /\ Typed(s) /\ Ready(s) /\ Walk(s) /\ Kept(s, done)
      /\ s.phase = "details" /\ s.todo # <<>>
  <2>1. s.phase = "details" /\ s.todo # <<>>
    BY DEF FetchDetail
  <2> QED
    BY <2>1, Known
<1>2. Goto(r, t)
  BY DEF FetchDetail, Taken, Collected, Blocked, Lost
<1>3. Tables' /\ stored' = stored /\ Covered' = Covered /\ cut' = cut
  <2>1. stored' = stored /\ cut' = cut /\ cut \subseteq Postings
    BY DEF FetchDetail, IInv, TypeOK
  <2>2. trouble' = trouble \/ Trouble
    BY DEF FetchDetail
  <2> QED
    BY <2>1, <2>2, SameTables DEF FetchDetail, Covered
<1>4. t = Collected(rest, p) \/ t = Blocked(rest, p) \/ t = Lost(rest, p)
  BY DEF FetchOutcomes
<1>5. p \in Postings /\ Range(s.todo) = {p} \cup Range(Tail(s.todo))
  BY <1>1, HeadTailProperties, RangeOfTail DEF Typed
<1> HIDE DEF s, p, rest, t, done
<1>6. /\ rest \in RunStates /\ SameWalk(rest, s)
      /\ rest.todo = Tail(s.todo) /\ rest.offers = s.offers /\ rest.blocked = s.blocked
      /\ rest.lost = s.lost
  BY <1>1, TakenRun DEF rest
<1>7. /\ t \in RunStates /\ SameWalk(t, rest)
      /\ Range(s.todo) \cup Range(s.offers) \cup s.blocked \cup s.lost
           \subseteq Range(t.todo) \cup Range(t.offers) \cup t.blocked \cup t.lost
  <2>1. CASE t = Collected(rest, p)
    <3>1. /\ t \in RunStates /\ SameWalk(t, rest)
          /\ t.todo = rest.todo /\ t.offers = Append(rest.offers, p)
          /\ t.blocked = rest.blocked /\ t.lost = rest.lost
      BY <1>5, <1>6, <2>1, CollectedRun
    <3>2. Range(t.offers) = Range(rest.offers) \cup {p}
      BY <1>5, <1>6, <3>1, RunIsTyped, RangeOfAppend DEF Typed
    <3> QED
      BY <1>5, <1>6, <3>1, <3>2
  <2>2. CASE t = Blocked(rest, p)
    <3>1. /\ t \in RunStates /\ SameWalk(t, rest)
          /\ t.todo = rest.todo /\ t.offers = rest.offers
          /\ t.blocked = rest.blocked \cup {p} /\ t.lost = rest.lost
      BY <1>5, <1>6, <2>2, BlockedRun
    <3> QED
      BY <1>5, <1>6, <3>1
  <2>3. CASE t = Lost(rest, p)
    <3>1. /\ t \in RunStates /\ SameWalk(t, rest)
          /\ t.todo = rest.todo /\ t.offers = rest.offers
          /\ t.blocked = rest.blocked /\ t.lost = rest.lost \cup {p}
      BY <1>5, <1>6, <2>3, LostRun
    <3> QED
      BY <1>5, <1>6, <3>1
  <2> QED
    BY <1>4, <2>1, <2>2, <2>3
<1>8. SameWalk(t, s)
  BY <1>6, <1>7 DEF SameWalk
<1>9. Ready(t)
  BY <1>1, <1>8 DEF Ready, SameWalk
<1>10. Walk(t)
  <2> SUFFICES ASSUME Unfilt(t)
               PROVE  Walking(t) /\ t.page \in t.read /\ (t.short => t.ended)
    BY <1>1, <1>8 DEF Walk, SameWalk
  <2>1. Walking(s) /\ s.page \in s.read /\ (s.short => s.ended)
    BY <1>1, <1>8 DEF Walk, Unfilt, SameWalk
  <2> QED
    BY <1>8, <2>1 DEF Walking, First, SameWalk
<1>11. Kept(t, done)
  BY <1>1, <1>7, <1>8 DEF Kept, SameWalk
<1> QED
  BY <1>2, <1>3, <1>7, <1>9, <1>10, <1>11, GotoStep DEF done

\* EndPage: a short page ends the walk, the last of a run is followed by the
\* one to resume from, and any other by the next one.  What the cap leaves of
\* the page is cut.
LEMMA EndPageStep ==
    ASSUME IInv, NEW r \in Runs, EndPage(r)
    PROVE  IInv'
<1> DEFINE s == run[r]
           last == s.page - s.start + 1 = MaxPages \/ s.got >= TotalCap
           over == KeywordDone(s, TRUE, FALSE, 1)
           resume == KeywordDone(s, TRUE, FALSE, s.page + 1)
           done == Covered' \cup cut'
<1>1. /\ s \in RunStates /\ Typed(s) /\ Ready(s) /\ Walk(s) /\ Kept(s, Covered \cup cut)
      /\ s.phase = "details" /\ s.terms # <<>>
  <2>1. s.phase = "details"
    BY DEF EndPage
  <2> QED
    BY <2>1, Known DEF Ready
<1>2. \/ Goto(r, over) /\ s.short
      \/ Goto(r, resume)
      \/ Goto(r, NextPage(s)) /\ ~(s.got >= TotalCap)
  <2>1. Goto(r, CASE s.short -> over
                  [] ~s.short /\ last -> resume
                  [] OTHER -> NextPage(s))
    BY DEF EndPage, NextPage
  <2> HIDE DEF over, resume
  <2>2. CASE s.short
    BY <2>1, <2>2
  <2>3. CASE ~s.short /\ last
    BY <2>1, <2>3
  <2>4. CASE ~s.short /\ ~last
    BY <2>1, <2>4
  <2> QED
    BY <2>2, <2>3, <2>4
<1>3. /\ Tables' /\ stored' = stored /\ cut \subseteq cut'
      /\ Range(s.todo) \cap s.config.range \subseteq done /\ Kept(s, done)
  <2>1. stored' = stored /\ cut' = cut \cup ((Range(s.todo) \cap s.config.range) \ Covered)
    BY DEF EndPage
  <2>2. Range(s.todo) \subseteq Postings
    BY <1>1, RangeIn DEF Typed
  <2>3. cut' \subseteq Postings
    BY <2>1, <2>2 DEF IInv, TypeOK
  <2>4. Tables'
    BY <2>3, SameTables DEF EndPage
  <2>5. Covered' = Covered
    BY <2>1 DEF Covered
  <2> QED
    BY <1>1, <2>1, <2>4, <2>5 DEF Kept
<1>4. s.todo = <<>> \/ s.got >= TotalCap
  BY DEF EndPage
<1>5. s.page \in Nat /\ First(s) \in Nat
  <2>1. s.page \in Nat /\ s.config \in Configs
    BY <1>1 DEF Typed
  <2> QED
    BY <2>1, FirstIsAPage
<1> HIDE DEF s, over, resume
<1>6. Unfilt(s) => /\ Len(s.terms) = 1 /\ ~s.ok /\ ~s.failed
                   /\ s.start = First(s) /\ s.start <= s.page
                   /\ First(s)..s.page \subseteq s.read
                   /\ (s.short => s.ended)
  <2> SUFFICES ASSUME Unfilt(s)
               PROVE  /\ Len(s.terms) = 1 /\ ~s.ok /\ ~s.failed
                      /\ s.start = First(s) /\ s.start <= s.page
                      /\ First(s)..s.page \subseteq s.read
                      /\ (s.short => s.ended)
    OBVIOUS
  <2>1. Walking(s) /\ s.page \in s.read /\ (s.short => s.ended)
    BY <1>1 DEF Walk
  <2>2. \A n \in First(s)..s.page : n = s.page \/ n \in First(s)..(s.page - 1)
    BY <1>5
  <2> QED
    BY <2>1, <2>2 DEF Walking
<1>7. CASE Goto(r, over) /\ s.short
  <2>1. over \in RunStates /\ Ready(over) /\ Walk(over) /\ Kept(over, done)
    <3> HIDE DEF done
    <3> QED
      BY <1>1, <1>3, <1>6, <1>7, KeywordDoneKnown DEF over
  <2> QED
    BY <1>3, <1>7, <2>1, GotoStep
<1>8. CASE Goto(r, resume)
  <2> DEFINE next == s.page + 1
  <2>1. next \in Nat /\ (Unfilt(s) => next > First(s) /\ First(s)..(next - 1) \subseteq s.read)
    BY <1>5, <1>6
  <2>2. resume = KeywordDone(s, TRUE, FALSE, next)
    BY DEF resume
  <2> HIDE DEF next
  <2>3. resume \in RunStates /\ Ready(resume) /\ Walk(resume) /\ Kept(resume, done)
    <3> HIDE DEF done
    <3> QED
      BY <1>1, <1>3, <1>6, <2>1, <2>2, KeywordDoneKnown
  <2> QED
    BY <1>3, <1>8, <2>3, GotoStep
<1>9. CASE Goto(r, NextPage(s)) /\ ~(s.got >= TotalCap)
  <2> DEFINE t == NextPage(s)
  <2>1. /\ t \in RunStates
        /\ t.phase = "listing" /\ t.config = s.config /\ t.terms = s.terms
        /\ t.start = s.start /\ t.page = s.page + 1 /\ t.todo = s.todo
        /\ t.offers = s.offers /\ t.blocked = s.blocked
        /\ t.ok = s.ok /\ t.failed = s.failed /\ t.lost = s.lost
        /\ t.read = s.read /\ t.met = s.met
    BY <1>1, NextPageRun
  <2> HIDE DEF t
  <2>2. Ready(t)
    <3>1. s.start \in Nat /\ s.start <= s.page /\ s.todo = <<>>
      <4>1. s.todo = <<>>
        BY <1>4, <1>9
      <4> QED
        BY <1>1, <4>1 DEF Ready, Typed
    <3>2. t.page >= 1 /\ t.start <= t.page /\ t.start < t.page
      BY <1>5, <2>1, <3>1
    <3> QED
      BY <1>1, <2>1, <3>1, <3>2 DEF Ready
  <2>3. Unfilt(s) => s.start <= t.page /\ s.start..(t.page - 1) \subseteq s.read
    BY <1>5, <1>6, <2>1
  <2>4. Walk(t)
    <3> SUFFICES ASSUME Unfilt(t) PROVE Walking(t)
      BY <2>1 DEF Walk
    <3>1. Unfilt(s)
      BY <2>1 DEF Unfilt
    <3> QED
      BY <1>6, <2>1, <2>3, <3>1 DEF Walking, First
  <2>5. Kept(t, done)
    BY <1>3, <2>1 DEF Kept
  <2> QED
    BY <1>3, <1>9, <2>1, <2>2, <2>4, <2>5, GotoStep DEF t
<1> QED
  BY <1>2, <1>7, <1>8, <1>9

\* Close: the new cursor is a page number, and what was met is stored, cut or
\* has a dead letter.
LEMMA CloseStep ==
    ASSUME IInv, NEW r \in Runs, Close(r)
    PROVE  IInv'
<1> DEFINE s == run[r]
           rows == Rows(r, Handled(r))
           left == {s.offers[i] : i \in (Handled(r) + 1)..Len(s.offers)} \cap s.config.range
<1>1. s \in RunStates /\ Typed(s) /\ Goto(r, Idle)
  BY Known DEF Close
<1>2. rows \subseteq Postings \ Unreadable /\ left \subseteq Postings
  <2>1. s.config \in Configs
    BY <1>1 DEF Typed
  <2>2. rows \subseteq Postings \ Unreadable
    BY <2>1, RowsType
  <2>3. s.config.range \subseteq Postings
    BY <2>1 DEF Configs
  <2> QED
    BY <2>2, <2>3
<1>3. stored' \subseteq Postings \ Unreadable /\ stored \subseteq stored'
      /\ letters' \subseteq Postings /\ cut' \subseteq Postings /\ cut \subseteq cut'
  <2>1. \/ /\ stored' = stored \cup rows /\ letters' = letters \cup s.blocked
           /\ cut' = cut \cup (left \ Covered)
        \/ UNCHANGED <<stored, letters, cut>>
    BY DEF Close
  <2>2. s.blocked \subseteq Postings
    BY <1>1 DEF Typed
  <2> HIDE DEF rows, left
  <2> QED
    BY <1>2, <2>1, <2>2 DEF IInv, TypeOK
<1>4. config' \in Configs
  <2>1. config' = config \/ config' = [s.config EXCEPT !.cursor = s.next]
    BY DEF Close
  <2>2. s.config \in Configs /\ s.next \in Nat
    BY <1>1 DEF Typed
  <2>3. [s.config EXCEPT !.cursor = s.next] \in Configs
    BY <2>2 DEF Configs
  <2> QED
    BY <2>1, <2>3 DEF IInv, TypeOK
<1>5. alarm' \in BOOLEAN /\ UNCHANGED <<listing, trouble, changes, requests>>
  BY DEF Close
<1>6. Tables'
  BY <1>3, <1>4, <1>5 DEF IInv, TypeOK, Tables
<1> QED
  BY <1>1, <1>3, <1>6, IdleStep

\* Begin: an unfiltered run has one keyword, and starts at its page.
LEMMA BeginStep ==
    ASSUME IInv, NEW r \in Runs, NEW forced \in BOOLEAN, NEW skills \in Starred,
           Begin(r, forced, skills), requests' \in 0..MaxRequests
    PROVE  IInv'
<1> DEFINE terms == ResolvedTerms(skills)
           t == Begun(forced, config, terms, StartPage)
<1>1. UNCHANGED <<listing, config, stored, letters, cut, trouble, changes>>
  BY DEF Begin
<1>2. \/ alarm' = TRUE /\ UNCHANGED run
      \/ terms # <<>> /\ Goto(r, t) /\ UNCHANGED alarm
  BY DEF Begin, Begun
<1>3. Tables' /\ stored \subseteq stored' /\ cut \subseteq cut'
  BY <1>1, <1>2 DEF IInv, TypeOK, Tables
<1>4. CASE UNCHANGED run
  BY <1>3, <1>4, QuietStep
<1>5. CASE terms # <<>> /\ Goto(r, t)
  <2>1. config \in Configs /\ config.cursor \in Nat
    BY DEF IInv, TypeOK, Configs
  <2>2. terms \in Seq(Keywords)
    <3>1. skills \in Seq(Keywords)
      BY KeywordsAssumption, SeqMonotonic DEF Keywords
    <3>2. <<Category>> \in Seq(Keywords)
      BY DEF Keywords
    <3> QED
      BY <3>1, <3>2 DEF ResolvedTerms
  <2>3. ~config.filtered => Len(terms) = 1 /\ StartPage = Max({config.cursor, 1})
    BY DEF ResolvedTerms, StartPage
  <2>4. StartPage \in Nat /\ StartPage >= 1
    BY <2>1, FirstPage DEF StartPage
  <2> HIDE DEF terms
  <2>5. /\ t \in RunStates
        /\ t.phase = "listing" /\ t.config = config /\ t.terms = terms
        /\ t.start = StartPage /\ t.page = StartPage
        /\ t.todo = <<>> /\ t.met = {} /\ ~t.ok /\ ~t.failed
    BY <2>1, <2>2, <2>4, BegunRun
  <2> HIDE DEF t
  <2>6. Ready(t)
    BY <1>5, <2>4, <2>5 DEF Ready
  <2>7. Walk(t)
    BY <2>3, <2>4, <2>5 DEF Walk, Walking, Unfilt, First
  <2>8. Kept(t, Covered' \cup cut')
    BY <2>5 DEF Kept
  <2> QED
    BY <1>3, <1>5, <2>5, <2>6, <2>7, <2>8, GotoStep DEF t
<1> QED
  BY <1>2, <1>4, <1>5

\* Raise: a prefix of what was fetched may be in the table.
LEMMA RaiseStep ==
    ASSUME IInv, NEW r \in Runs, Raise(r)
    PROVE  IInv'
<1>1. Goto(r, Idle) /\ UNCHANGED <<listing, config, letters, cut, changes, requests>> /\ Trouble
  BY DEF Raise
<1>2. run[r] \in RunStates /\ Typed(run[r])
  BY Known
<1>3. stored \subseteq stored' /\ stored' \subseteq Postings \ Unreadable
  <2>1. CASE stored' = stored
    BY <2>1 DEF IInv, TypeOK
  <2>2. CASE \E n \in 0..Handled(r) : stored' = stored \cup Rows(r, n)
    <3>1. PICK n \in 0..Handled(r) : stored' = stored \cup Rows(r, n)
      BY <2>2
    <3>2. Rows(r, n) \subseteq Postings \ Unreadable
      BY <1>2, RowsType DEF Typed
    <3> QED
      BY <3>1, <3>2 DEF IInv, TypeOK
  <2> QED
    BY <2>1, <2>2 DEF Raise
<1>4. alarm' \in BOOLEAN
  BY DEF Raise, IInv, TypeOK
<1>5. trouble' \in 0..MaxTrouble
  BY <1>1, LimitsAssumption DEF IInv, TypeOK, Trouble
<1>6. Tables' /\ cut \subseteq cut'
  BY <1>1, <1>3, <1>4, <1>5 DEF IInv, TypeOK, Tables
<1> QED
  BY <1>1, <1>3, <1>6, IdleStep

\* The board: listings stay listings of postings.
LEMMA ListingStep ==
    ASSUME IInv, NEW k \in Keywords, NEW i \in 1..(Len(listing[k]) + 1), NEW p \in Postings,
           Appears(k, i, p) \/ Expires(p)
    PROVE  IInv'
<1>1. UNCHANGED <<config, stored, letters, alarm, run, cut, trouble, requests>> /\ Change
  BY DEF Appears, Expires
<1>2. listing \in [Keywords -> Seq(Seq(Postings))]
  BY DEF IInv, TypeOK
<1>3. listing' \in [Keywords -> Seq(Seq(Postings))]
  <2>1. CASE Appears(k, i, p)
    <3> DEFINE longer == InsertAt(listing[k], i, <<p>>)
    <3>1. <<p>> \in Seq(Postings)
      OBVIOUS
    <3>2. longer \in Seq(Seq(Postings))
      BY <1>2, <3>1, InsertAtType
    <3>3. listing' = [listing EXCEPT ![k] = longer]
      BY <2>1 DEF Appears
    <3> HIDE DEF longer
    <3> QED
      BY <1>2, <3>2, <3>3
  <2>2. CASE Expires(p)
    <3>1. listing' = [l \in Keywords |-> Without(listing[l], p)]
      BY <2>2 DEF Expires
    <3>2. \A l \in Keywords : Without(listing[l], p) \in Seq(Seq(Postings))
      BY <1>2, WithoutType
    <3> QED
      BY <3>1, <3>2
  <2> QED
    BY <2>1, <2>2
<1>4. changes' \in 0..MaxChanges
  BY <1>1, LimitsAssumption DEF IInv, TypeOK, Change
<1>5. Tables' /\ stored \subseteq stored' /\ cut \subseteq cut'
  BY <1>1, <1>3, <1>4 DEF IInv, TypeOK, Tables
<1> QED
  BY <1>1, <1>5, QuietStep

\* The settings page and the retries.
LEMMA SideStep ==
    ASSUME IInv,
           SetFetchScope \/ SetFetchRange \/ ResolveAlarm \/ \E p \in Postings : RetryDetailFetch(p)
    PROVE  IInv'
<1>1. CASE SetFetchScope
  <2>1. config' \in Configs
    BY <1>1 DEF SetFetchScope, IInv, TypeOK, Configs
  <2>2. changes' \in 0..MaxChanges
    BY <1>1, LimitsAssumption DEF SetFetchScope, IInv, TypeOK, Change
  <2>3. UNCHANGED <<listing, stored, letters, alarm, run, cut, trouble, requests>>
    BY <1>1 DEF SetFetchScope
  <2>4. Tables'
    BY <2>1, <2>2, <2>3 DEF IInv, TypeOK, Tables
  <2> QED
    BY <2>3, <2>4, QuietStep
<1>2. CASE ResolveAlarm
  <2>1. changes' \in 0..MaxChanges /\ alarm' = FALSE
    BY <1>2, LimitsAssumption DEF ResolveAlarm, IInv, TypeOK, Change
  <2>2. UNCHANGED <<listing, config, stored, letters, run, cut, trouble, requests>>
    BY <1>2 DEF ResolveAlarm
  <2>3. Tables'
    BY <2>1, <2>2 DEF IInv, TypeOK, Tables
  <2> QED
    BY <2>2, <2>3, QuietStep
<1>3. CASE SetFetchRange
  <2>1. config' \in Configs
    <3>1. PICK range \in Ranges : config' = [config EXCEPT !.range = range]
      BY <1>3 DEF SetFetchRange
    <3>2. range \subseteq Postings /\ config \in Configs
      BY RangesAssumption DEF IInv, TypeOK
    <3> QED
      BY <3>1, <3>2 DEF Configs
  <2>2. changes' \in 0..MaxChanges
    BY <1>3, LimitsAssumption DEF SetFetchRange, IInv, TypeOK, Change
  <2>3. UNCHANGED <<listing, stored, letters, alarm, run, cut, trouble, requests>>
    BY <1>3 DEF SetFetchRange
  <2>4. Tables'
    BY <2>1, <2>2, <2>3 DEF IInv, TypeOK, Tables
  <2> QED
    BY <2>3, <2>4, QuietStep
<1>4. ASSUME NEW p \in Postings, RetryDetailFetch(p) PROVE IInv'
  <2>1. stored' = stored \cup ({p} \ Covered) /\ letters' = letters \ {p} /\ p \notin Unreadable
        /\ UNCHANGED <<listing, config, alarm, run, cut, trouble, changes, requests>>
    BY <1>4 DEF RetryDetailFetch
  <2>2. stored' \subseteq Postings \ Unreadable /\ letters' \subseteq Postings
    BY <2>1 DEF IInv, TypeOK
  <2>3. Tables' /\ stored \subseteq stored'
    BY <2>1, <2>2 DEF IInv, TypeOK, Tables
  <2> QED
    BY <2>1, <2>3, QuietStep
<1> QED
  BY <1>1, <1>2, <1>3, <1>4

\* IInv holds at first.
LEMMA InvInit == Init => IInv
<1> SUFFICES ASSUME Init PROVE IInv
  OBVIOUS
<1>1. run = [r \in Runs |-> Idle] /\ stored = {} /\ cut = {} /\ letters = {}
  BY DEF Init
<1>2. TypeOK
  <2>1. config \in Configs
    BY RangesAssumption DEF Init, Configs
  <2>2. run \in [Runs -> RunStates]
    BY <1>1, IdleIsARun
  <2>3. listing \in [Keywords -> Seq(Seq(Postings))]
    BY ListedAssumption DEF Init
  <2>4. trouble \in 0..MaxTrouble /\ changes \in 0..MaxChanges /\ requests \in 0..MaxRequests
    BY LimitsAssumption DEF Init
  <2> QED
    BY <1>1, <2>1, <2>2, <2>3, <2>4 DEF Init, TypeOK
<1>3. Ready(Idle) /\ Walk(Idle) /\ Kept(Idle, Covered \cup cut)
  BY DEF Ready, Walk, Kept, Idle
<1> QED
  BY <1>1, <1>2, <1>3 DEF IInv

\* Every step keeps IInv.
LEMMA InvStep == IInv /\ [Next]_vars => IInv'
<1> SUFFICES ASSUME IInv, [Next]_vars PROVE IInv'
  OBVIOUS
<1>1. requests \in 0..MaxRequests /\ MaxRequests \in Nat
  BY LimitsAssumption DEF IInv, TypeOK
<1>2. CASE BeginJob
  <2>1. PICK skills \in Starred : Begin("job", FALSE, skills) /\ UNCHANGED requests
    BY <1>2 DEF BeginJob
  <2>2. "job" \in Runs
    BY DEF Runs
  <2> QED
    BY <1>1, <2>1, <2>2, BeginStep
<1>3. CASE BeginUser
  <2>1. PICK skills \in Starred, forced \in ForceRefresh : Begin("user", forced, skills)
    BY <1>3 DEF BeginUser
  <2>2. "user" \in Runs /\ forced \in BOOLEAN
    BY <2>1, KeywordsAssumption DEF Runs
  <2>3. requests' \in 0..MaxRequests
    BY <1>1, <1>3 DEF BeginUser
  <2> QED
    BY <2>1, <2>2, <2>3, BeginStep
<1>4. ASSUME NEW r \in Runs, Step(r) \/ ListingFails(r) \/ Raise(r) PROVE IInv'
  BY <1>4, ReadListingStep, EndPageStep, CloseStep, FetchDetailStep, ListingFailsStep, RaiseStep
     DEF Step
<1>5. CASE \E k \in Growing : \E i \in 1..(Len(listing[k]) + 1) :
               \E p \in Postings : Appears(k, i, p)
  <2>1. PICK k \in Growing : \E i \in 1..(Len(listing[k]) + 1) :
               \E p \in Postings : Appears(k, i, p)
    BY <1>5
  <2>2. k \in Keywords
    BY KeywordsAssumption
  <2> QED
    BY <2>1, <2>2, ListingStep
<1>6. ASSUME NEW p \in Postings, Expires(p) PROVE IInv'
  <2>1. Category \in Keywords
    BY DEF Keywords
  <2>2. 1 \in 1..(Len(listing[Category]) + 1)
    BY <2>1 DEF IInv, TypeOK
  <2> QED
    BY <1>6, <2>1, <2>2, ListingStep
<1>7. CASE UNCHANGED vars
  BY <1>7, QuietStep DEF vars, IInv, TypeOK, Tables
<1> QED
  BY <1>2, <1>3, <1>4, <1>5, <1>6, <1>7, SideStep DEF Next

-----------------------------------------------------------------------------
(* Theorems *)

\* The sequences, numbers and records of the model keep their types.
THEOREM TypeCorrect == Spec => []TypeOK
<1>1. IInv => TypeOK
  BY DEF IInv
<1> QED
  BY <1>1, InvInit, InvStep, PTL DEF Spec

\* Whatever the listing does and whichever fetch fails, the page that an
\* unfiltered run resumes from follows pages it has read.
THEOREM TheCursorFollowsTheWalk == Spec => []PagesAreNeverSkipped
<1>1. IInv => PagesAreNeverSkipped
  BY DEF IInv, Walk, Walked, Unfilt, Unfiltered, First, PagesAreNeverSkipped
<1> QED
  BY <1>1, InvInit, InvStep, PTL DEF Spec

\* A run that met a listing page it could not fetch, and that leaves no open
\* dead letter of the source, was a filtered one in which another term
\* answered.
THEOREM FailuresAreReported == Spec => OnlyOtherTermsFailQuietly
<1> DEFINE Quiet ==
        \A r \in Runs : Close(r) /\ run[r].failed /\ ~alarm' =>
            ~Unfiltered(r) /\ run[r].ok /\ ~run[r].mid
<1>1. IInv => Quiet
  <2> SUFFICES ASSUME IInv, NEW r \in Runs, Close(r), run[r].failed, ~alarm'
               PROVE  ~Unfiltered(r) /\ run[r].ok /\ ~run[r].mid
    OBVIOUS
  <2>1. run[r].ok /\ ~run[r].mid
    BY DEF Close
  <2>2. Unfiltered(r) => Walked(run[r])
    BY DEF IInv, Walk, Unfilt, Unfiltered, Close
  <2> QED
    BY <2>1, <2>2 DEF Walked
<1>2. Spec => []IInv
  BY InvInit, InvStep, PTL DEF Spec
<1>3. Spec => [][Quiet]_vars
  BY <1>1, <1>2, PTL
<1> QED
  BY <1>3 DEF OnlyOtherTermsFailQuietly

\* A run that closes leaves the content of each posting it has met, and that is
\* in its fetch range, in the table, or the posting in a dead letter or cut, but
\* for those that are not valid or lost.
LEMMA CloseKeeps ==
    ASSUME IInv, NEW r \in Runs, Close(r)
    PROVE  (run[r].met \cap run[r].config.range) \ (Unreadable \cup run[r].lost)
               \subseteq Covered' \cup letters' \cup cut'
<1> DEFINE s == run[r]
           left == {s.offers[i] : i \in (Handled(r) + 1)..Len(s.offers)} \cap s.config.range
<1>1. Typed(s) /\ Kept(s, Covered \cup cut) /\ s.todo = <<>> /\ (s.ok \/ s.met = {})
  BY Known DEF Ready, Close
<1>2. Range(s.todo) = {}
  BY <1>1 DEF Range
<1>3. CASE ~s.ok
  BY <1>1, <1>3
<1>4. CASE s.ok
  <2>1. /\ stored' = stored \cup Rows(r, Handled(r))
        /\ letters' = letters \cup s.blocked
        /\ cut' = cut \cup (left \ Covered)
    BY <1>4 DEF Close
  <2>2. Covered \subseteq Covered' /\ Rows(r, Handled(r)) \subseteq stored'
    BY <2>1, CoveredGrows
  <2>3. ASSUME NEW i \in 1..Len(s.offers),
               s.offers[i] \in s.config.range, s.offers[i] \notin Unreadable \cup Covered
        PROVE  s.offers[i] \in Covered' \cup cut'
    <3>1. s.offers \in Seq(Postings) /\ Handled(r) \in Int
      BY <1>1, HandledType DEF Typed
    <3>2. CASE i <= Handled(r)
      <4>1. s.offers[i] \in Ingestible(r)
        BY <2>3 DEF Ingestible
      <4> QED
        BY <2>2, <2>3, <3>1, <3>2, <4>1, RowsCover
    <3>3. CASE ~(i <= Handled(r))
      <4>1. i \in (Handled(r) + 1)..Len(s.offers)
        BY <3>1, <3>3
      <4>2. s.offers[i] \in left
        BY <2>3, <4>1
      <4> QED
        BY <2>1, <2>3, <4>2
    <3> QED
      BY <3>2, <3>3
  <2>4. \A p \in Range(s.offers) : \E i \in 1..Len(s.offers) : p = s.offers[i]
    BY <1>1 DEF Typed, Range
  <2>5. (Range(s.offers) \cap s.config.range) \ Unreadable \subseteq Covered' \cup cut'
    BY <2>2, <2>3, <2>4
  <2> HIDE DEF left
  <2> QED
    BY <1>1, <1>2, <2>1, <2>2, <2>5 DEF Kept
<1> QED
  BY <1>3, <1>4

\* Whatever listings are read, and whichever limits and fetch ranges are set, a
\* run that closes has dropped nothing that it met but for the reasons that the
\* property lists.
THEOREM ReadingsAreKept == Spec => NothingReadIsDropped
<1> DEFINE Keeps ==
        \A r \in Runs : Close(r) =>
           (run[r].met \cap run[r].config.range) \ (Unreadable \cup run[r].lost)
               \subseteq Covered' \cup letters' \cup cut'
<1>1. IInv => Keeps
  BY CloseKeeps
<1>2. Spec => []IInv
  BY InvInit, InvStep, PTL DEF Spec
<1> HIDE DEF Keeps
<1>3. Spec => [][Keeps]_vars
  BY <1>1, <1>2, PTL DEF Spec
<1> QED
  BY <1>3 DEF NothingReadIsDropped, Keeps
=============================================================================
