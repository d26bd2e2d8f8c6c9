------------------------ MODULE SourceControlProofs ------------------------
(***************************************************************************)
(* Two facts of SourceControl, for any number of connectors, requests and  *)
(* manual runs: a scheduled job follows the two flags of its source but    *)
(* for three known reasons, and a row that says "running" belongs to a run *)
(* in flight, or to one that the database failed.                          *)
(***************************************************************************)
EXTENDS SourceControl, TLAPS

USE SourcesAssumption, SizesAssumption DEF Runners

\* A cursor that is read or computed points into the sitemap.
LEMMA CursorsInRange ==
  ASSUME NEW c \in Cursors, NEW k \in 0..MaxPages, NEW n \in 0..Pages,
         ResolvedCursor(c, n) + k <= n
  PROVE  /\ ResolvedCursor(c, n) \in 0..(Pages - 1)
         /\ NextCursor(ResolvedCursor(c, n), k, n) \in 0..(Pages - 1)
BY DEF ResolvedCursor, NextCursor, Cursors

\* What a request wants is a configuration.
LEMMA WantedIsConfig ==
  ASSUME NEW c \in Config, NEW f, NEW v \in BOOLEAN
  PROVE  Wanted(c, f, v) \in Config
BY DEF Wanted, Config

LEMMA NoRunTyped == \A r \in Runners : NoRun(r) \in RunRecord
BY DEF NoRun, RunRecord, RowIds, Config, Cursors, Seeded

LEMMA NoPutTyped == NoPut \in PutRecord
BY DEF NoPut, PutRecord, Config, Cursors, Seeded

\* Every variable stays in its range.
THEOREM TypeCorrect == Spec => []TypeOK
<1>1. Init => TypeOK
  BY NoRunTyped, NoPutTyped DEF Init, TypeOK, Config, Cursors, Seeded, RowIds
<1>2. TypeOK /\ [Next]_vars => TypeOK'
  <2> SUFFICES ASSUME TypeOK, [Next]_vars PROVE TypeOK'
    OBVIOUS
  <2> USE DEF TypeOK
  <2>1. ASSUME NEW q, NEW T \in Targets, NEW f \in Fields, NEW v \in BOOLEAN,
               ReadSources(q, T, f, v)
        PROVE  TypeOK'
    <3> DEFINE want == [s \in Sources |-> Wanted(config[s], f, v)]
               toggle == f \in {"enabled", "auto"}
               new == [at |-> "read", does |-> IF toggle THEN "toggle" ELSE f, targets |-> T,
                       dirty |-> {s \in T : toggle => want[s] # config[s]}, want |-> want,
                       on |-> {}]
    <3>0. want \in [Sources -> Config]
      BY WantedIsConfig
    <3>1. new \in PutRecord
      <4> HIDE DEF want
      <4> QED BY <3>0 DEF PutRecord, Targets, Fields
    <3>2. put' = [put EXCEPT ![q] = new]
      BY <2>1 DEF ReadSources
    <3> HIDE DEF new
    <3>3. put' \in [Requests -> PutRecord]
      BY <3>1, <3>2
    <3>4. excuse' \in [Sources -> SUBSET Excuses]
      BY <2>1 DEF ReadSources, Excuses
    <3> QED BY <2>1, <3>3, <3>4 DEF ReadSources
  <2>2. ASSUME NEW q \in Requests, CommitSettings(q) PROVE TypeOK'
    <3> DEFINE new == [NoPut EXCEPT !.at = "committed", !.does = put[q].does,
                                    !.targets = put[q].targets,
                                    !.on = {s \in put[q].targets : Verdict(q, s)}]
    <3>a. put[q] \in PutRecord
      OBVIOUS
    <3>b. new \in PutRecord
      BY <3>a, NoPutTyped DEF PutRecord
    <3>c. put' = [put EXCEPT ![q] = IF put[q].does = "fetch" THEN NoPut ELSE new]
      BY <2>2 DEF CommitSettings
    <3> HIDE DEF new
    <3>1. put' \in [Requests -> PutRecord]
      BY <3>b, <3>c, NoPutTyped
    <3>2. config' \in [Sources -> Config]
      BY <2>2, <3>a DEF CommitSettings, PutRecord
    <3> QED BY <2>2, <3>1, <3>2 DEF CommitSettings
  <2>3. ASSUME NEW q \in Requests, NEW s \in Sources, ApplyToJob(q, s) PROVE TypeOK'
    <3>1. put' \in [Requests -> PutRecord]
      <4> DEFINE new == [put[q] EXCEPT !.targets = put[q].targets \ {s}]
      <4>1. put[q] \in PutRecord
        OBVIOUS
      <4>2. new \in PutRecord
        BY <4>1 DEF PutRecord
      <4>3. put' = [put EXCEPT ![q] = IF put[q].targets = {s} THEN NoPut ELSE new]
        BY <2>3 DEF ApplyToJob
      <4> HIDE DEF new
      <4> QED BY <4>2, <4>3, NoPutTyped
    <3>2. job' \in [Sources -> {"active", "paused"}]
      BY <2>3 DEF ApplyToJob
    <3>3. excuse' \in [Sources -> SUBSET Excuses]
      BY <2>3 DEF ApplyToJob, Excuses
    <3> QED BY <2>3, <3>1, <3>2, <3>3 DEF ApplyToJob
  <2>4. ASSUME NEW r \in Runners, NEW s \in Sources, StartRun(r, s) PROVE TypeOK'
    <3> DEFINE new == [at |-> "walking", src |-> s, row |-> <<r, lost>>, seen |-> config[s],
                       from |-> 0, walked |-> 0, next |-> config[s].cursor]
    <3>1. <<r, lost>> \in RowIds
      BY DEF RowIds
    <3>2. new \in RunRecord
      BY <3>1 DEF RunRecord, Config
    <3>3. run' = [run EXCEPT ![r] = new]
      BY <2>4 DEF StartRun
    <3> HIDE DEF new
    <3>4. run' \in [Runners -> RunRecord]
      BY <3>2, <3>3
    <3> QED BY <2>4, <3>1, <3>4 DEF StartRun
  <2>5. ASSUME NEW r \in Runners, NEW k \in 0..MaxPages, NEW n \in 0..Pages, Walk(r, k, n)
        PROVE  TypeOK'
    <3>1. run[r].seen.cursor \in Cursors
      BY DEF RunRecord, Config
    <3>2. /\ ResolvedCursor(run[r].seen.cursor, n) \in 0..(Pages - 1)
          /\ NextCursor(ResolvedCursor(run[r].seen.cursor, n), k, n) \in 0..(Pages - 1)
      BY <2>5, <3>1, CursorsInRange DEF Walk
    <3> DEFINE from == ResolvedCursor(run[r].seen.cursor, n)
               next == NextCursor(from, k, n)
               new == [run[r] EXCEPT !.at = "walked", !.from = from, !.walked = k, !.next = next]
    <3>a. run[r] \in RunRecord
      OBVIOUS
    <3>b. new \in RunRecord
      <4>1. from \in 0..(Pages - 1) /\ next \in Cursors
        BY <3>2 DEF Cursors
      <4> HIDE DEF from, next
      <4> QED BY <3>a, <4>1 DEF RunRecord
    <3>c. run' = [run EXCEPT ![r] = new]
      BY <2>5 DEF Walk
    <3> HIDE DEF new
    <3>3. run' \in [Runners -> RunRecord]
      BY <3>b, <3>c
    <3>4. trouble' \in 0..MaxTrouble
      BY <2>5 DEF Walk
    <3> QED BY <2>5, <3>3, <3>4 DEF Walk
  <2>6. ASSUME NEW r \in Runners, FinishRun(r) PROVE TypeOK'
    <3>1. run[r] \in RunRecord
      OBVIOUS
    <3>2. [run[r].seen EXCEPT !.cursor = run[r].next] \in Config
      BY <3>1 DEF RunRecord, Config
    <3>3. config' \in [Sources -> Config]
      BY <2>6, <3>2 DEF FinishRun
    <3>4. excuse' \in [Sources -> SUBSET Excuses]
      BY <2>6, <3>1 DEF FinishRun, Excuses
    <3> QED BY <2>6, <3>3, <3>4, NoRunTyped DEF FinishRun
  <2>7. ASSUME NEW r \in Runners, RunFails(r) PROVE TypeOK'
    <3>1. CASE Unlisted(r)
      <4> DEFINE new == [run[r] EXCEPT !.at = "walked"]
      <4>1. run[r] \in RunRecord
        OBVIOUS
      <4>2. new \in RunRecord
        BY <4>1 DEF RunRecord
      <4>3. run' = [run EXCEPT ![r] = new]
        BY <3>1 DEF Unlisted
      <4> HIDE DEF new
      <4>4. run' \in [Runners -> RunRecord]
        BY <4>2, <4>3
      <4> QED BY <3>1, <4>4 DEF Unlisted
    <3>2. CASE Raise(r)
      BY <3>2, NoRunTyped DEF Raise
    <3>3. CASE Lose(r)
      <4>1. run' \in [Runners -> RunRecord]
        BY <3>3, NoRunTyped DEF Lose
      <4> QED BY <3>3, <4>1 DEF Lose
    <3> QED BY <2>7, <3>1, <3>2, <3>3 DEF RunFails
  <2>8. CASE Restart
    BY <2>8, NoRunTyped, NoPutTyped DEF Restart, RowIds
  <2>9. CASE UNCHANGED vars
    BY <2>9 DEF vars
  <2> HIDE DEF TypeOK
  <2> QED
    BY <2>1, <2>2, <2>3, <2>4, <2>5, <2>6, <2>7, <2>8, <2>9 DEF Next, PutStep, Fire, Post, Walks
<1> QED BY <1>1, <1>2, PTL DEF Spec

-----------------------------------------------------------------------------
(* Rows *)

\* A run holds a row of its own, so that closing it closes no other, and one
\* that is no newer than the runs lost so far.
OwnRow == \A r \in Runners : run[r].row[1] = r /\ run[r].row[2] \in 0..lost

RowsInv == OwnRow /\ RowsAreFaithful

\* The steps that leave the rows alone, and change no run but the last stages
\* of one already in flight.
LEMMA SameRows ==
  ASSUME RowsInv, rows' = rows,
         \A r \in Runners : run'[r].row = run[r].row /\ (run'[r].at = "idle" <=> run[r].at = "idle"),
         lost' = lost
  PROVE  RowsInv'
<1>1. LiveRows' = LiveRows
  BY DEF LiveRows
<1> QED BY <1>1 DEF RowsInv, OwnRow, RowsAreFaithful

\* The steps that end a run and close its row.
LEMMA CloseRow ==
  ASSUME TypeOK, RowsInv, NEW r \in Runners,
         rows' = rows \ {run[r].row}, run' = [run EXCEPT ![r] = NoRun(r)],
         lost' = lost
  PROVE  RowsInv'
<1>1. /\ run'[r].at = "idle" /\ run'[r].row = <<r, 0>>
      /\ \A x \in Runners \ {r} : run'[x] = run[x]
  BY DEF TypeOK, NoRun
<1>2. LiveRows' = {run[x].row : x \in {y \in Runners \ {r} : run[y].at # "idle"}}
  BY <1>1 DEF LiveRows
<1>3. LiveRows' = LiveRows \ {run[r].row}
  <2>1. \A x \in Runners \ {r} : run[x].row # run[r].row
    BY DEF RowsInv, OwnRow
  <2> QED BY <1>2, <2>1 DEF LiveRows
<1>4. OwnRow'
  BY <1>1 DEF RowsInv, OwnRow, TypeOK
<1>5. rows' \ LiveRows' \subseteq rows \ LiveRows
  BY <1>3
<1>6. LiveRows' \subseteq rows'
  BY <1>3 DEF RowsInv, RowsAreFaithful
<1> QED BY <1>4, <1>5, <1>6 DEF RowsInv, RowsAreFaithful

\* A row says "running" while its run is in flight, and later only if the
\* database failed that run.
THEOREM RowsFaithful == Spec => []RowsAreFaithful
<1>1. Init => RowsInv
  <2> SUFFICES ASSUME Init PROVE RowsInv
    OBVIOUS
  <2>1. lost = 0 /\ \A r \in Runners : run[r].at = "idle" /\ run[r].row = <<r, 0>>
    BY DEF Init, NoRun
  <2>2. LiveRows = {} /\ rows = {}
    BY <2>1 DEF LiveRows, Init
  <2> QED BY <2>1, <2>2 DEF RowsInv, OwnRow, RowsAreFaithful
<1>2. TypeOK /\ RowsInv /\ [Next]_vars => RowsInv'
  <2> SUFFICES ASSUME TypeOK, RowsInv, [Next]_vars PROVE RowsInv'
    OBVIOUS
  <2>1. ASSUME NEW q, NEW T \in Targets, NEW f \in Fields, NEW v \in BOOLEAN,
               ReadSources(q, T, f, v)
        PROVE  RowsInv'
    BY <2>1, SameRows DEF ReadSources, TypeOK
  <2>2. ASSUME NEW q \in Requests, CommitSettings(q) PROVE RowsInv'
    BY <2>2, SameRows DEF CommitSettings
  <2>3. ASSUME NEW q \in Requests, NEW s \in Sources, ApplyToJob(q, s) PROVE RowsInv'
    BY <2>3, SameRows DEF ApplyToJob, TypeOK
  <2>4. ASSUME NEW r \in Runners, NEW s \in Sources, StartRun(r, s) PROVE RowsInv'
    <3>1. /\ run'[r].at = "walking" /\ run'[r].row = <<r, lost>>
          /\ \A x \in Runners \ {r} : run'[x] = run[x]
      BY <2>4 DEF StartRun, TypeOK
    <3>2. run[r].at = "idle" /\ rows' = rows \cup {<<r, lost>>} /\ lost' = lost
      BY <2>4 DEF StartRun
    <3>3. LiveRows' = LiveRows \cup {<<r, lost>>}
      BY <3>1, <3>2 DEF LiveRows
    <3>4. OwnRow'
      BY <3>1, <3>2 DEF RowsInv, OwnRow, TypeOK
    <3> QED BY <3>2, <3>3, <3>4 DEF RowsInv, RowsAreFaithful
  <2>5. ASSUME NEW r \in Runners, NEW k \in 0..MaxPages, NEW n \in 0..Pages, Walk(r, k, n)
        PROVE  RowsInv'
    <3>1. run'[r].at = "walked" /\ run'[r].row = run[r].row
      BY <2>5 DEF Walk, TypeOK, RunRecord
    <3>2. \A x \in Runners \ {r} : run'[x] = run[x]
      BY <2>5 DEF Walk, TypeOK
    <3> QED BY <2>5, <3>1, <3>2, SameRows DEF Walk
  <2>6. ASSUME NEW r \in Runners, FinishRun(r) PROVE RowsInv'
    BY <2>6, CloseRow DEF FinishRun, TypeOK
  <2>7. ASSUME NEW r \in Runners, RunFails(r) PROVE RowsInv'
    <3>1. CASE Unlisted(r)
      <4>1. run'[r].at = "walked" /\ run'[r].row = run[r].row
        BY <3>1 DEF Unlisted, TypeOK, RunRecord
      <4>2. \A x \in Runners \ {r} : run'[x] = run[x]
        BY <3>1 DEF Unlisted, TypeOK
      <4> QED BY <3>1, <4>1, <4>2, SameRows DEF Unlisted
    <3>2. CASE Raise(r)
      BY <3>2, CloseRow DEF Raise
    <3>3. CASE Lose(r)
      <4>1. /\ run'[r].at = "idle" /\ run'[r].row = <<r, 0>>
            /\ \A x \in Runners \ {r} : run'[x] = run[x]
        BY <3>3 DEF Lose, TypeOK, NoRun
      <4>2. rows' = rows /\ lost' = lost + 1 /\ lost \in Nat
        BY <3>3 DEF Lose, TypeOK
      <4>3. OwnRow'
        BY <4>1, <4>2 DEF RowsInv, OwnRow
      <4>4. LiveRows' \subseteq LiveRows
        BY <4>1 DEF LiveRows
      <4>5. \A row \in LiveRows : row[2] < lost'
        BY <4>2 DEF LiveRows, RowsInv, OwnRow
      <4>6. \A row \in rows \ LiveRows : row[2] < lost'
        <5>1. \A row \in rows : row[2] \in Nat
          BY DEF TypeOK, RowIds
        <5> QED BY <4>2, <5>1 DEF RowsInv, RowsAreFaithful
      <4> QED BY <4>2, <4>3, <4>4, <4>5, <4>6 DEF RowsInv, RowsAreFaithful
    <3> QED BY <2>7, <3>1, <3>2, <3>3 DEF RunFails
  <2>8. CASE Restart
    <3>1. \A r \in Runners : run'[r].at = "idle" /\ run'[r].row = <<r, 0>>
      BY <2>8 DEF Restart, NoRun
    <3>2. LiveRows' = {}
      BY <3>1 DEF LiveRows
    <3>3. rows' = {} /\ lost' = 0
      BY <2>8 DEF Restart
    <3>4. OwnRow'
      BY <3>1, <3>3 DEF OwnRow
    <3> QED BY <3>2, <3>3, <3>4 DEF RowsInv, RowsAreFaithful
  <2>9. CASE UNCHANGED vars
    BY <2>9, SameRows DEF vars
  <2> QED
    BY <2>1, <2>2, <2>3, <2>4, <2>5, <2>6, <2>7, <2>8, <2>9 DEF Next, PutStep, Fire, Post, Walks
<1>3. RowsInv => RowsAreFaithful
  BY DEF RowsInv
<1> QED BY <1>1, <1>2, <1>3, TypeCorrect, PTL DEF Spec

-----------------------------------------------------------------------------
(* Jobs and flags *)

Excused(s) == excuse[s] # {}

\* What a request at work on a source may rely on: it is alone; a column that
\* it writes for another purpose, or leaves alone, has the committed flags; the
\* job already follows the flags, unless a toggle is still to be applied, and
\* then it is what the toggle will do that follows them.
InOrder(s) ==
    /\ \A p, q \in Requests : s \in put[p].targets /\ s \in put[q].targets => p = q
    /\ \A q \in Requests : s \in put[q].targets =>
          /\ put[q].at = "read" /\ (put[q].does = "toggle" => s \notin put[q].dirty)
                => SameFlags(put[q].want[s], config[s])
          /\ put[q].at = "committed" /\ put[q].does # "interval"
                => (s \in put[q].on <=> ShouldRun(config[s]))
    /\ (\A q \in Requests : s \in put[q].targets => put[q].at = "read" \/ put[q].does = "interval")
          => (job[s] = "active" <=> ShouldRun(config[s]))

\* What holds of a request at each of its stages.
Settled(req) ==
    /\ req.at = "idle" => req.targets = {}
    /\ req.at = "committed" => req.dirty = {}
    /\ req.at # "read" /\ req.does = "interval" => req.targets \subseteq req.on
    /\ req.dirty \subseteq req.targets

DriftInv ==
    /\ \A q \in Requests : Settled(put[q])
    /\ \A s \in Sources : Excused(s) \/ InOrder(s)

\* The steps of the runs leave the flags alone, or have an excuse.
LEMMA RunsKeepOrder ==
  ASSUME TypeOK, DriftInv, put' = put, job' = job,
         \A s \in Sources : Excused(s) => Excused(s)',
         \A s \in Sources : Excused(s)' \/ SameFlags(config'[s], config[s])
  PROVE  DriftInv'
<1> SUFFICES ASSUME NEW s \in Sources, ~Excused(s)' PROVE InOrder(s)'
  BY DEF DriftInv
<1>1. InOrder(s) /\ SameFlags(config'[s], config[s])
  BY DEF DriftInv
<1> QED BY <1>1 DEF InOrder, SameFlags, ShouldRun

LEMMA ReadKeepsOrder ==
  ASSUME TypeOK, DriftInv, NEW q, NEW T \in Targets, NEW f \in Fields, NEW v \in BOOLEAN,
         ReadSources(q, T, f, v)
  PROVE  DriftInv'
<1> DEFINE want == [s \in Sources |-> Wanted(config[s], f, v)]
           toggle == f \in {"enabled", "auto"}
           new == [at |-> "read", does |-> IF toggle THEN "toggle" ELSE f, targets |-> T,
                   dirty |-> {s \in T : toggle => want[s] # config[s]}, want |-> want, on |-> {}]
<1>1. \A p \in Requests : put'[p] = IF p = q THEN new ELSE put[p]
  BY DEF ReadSources, TypeOK
<1>2. /\ new.at = "read" /\ new.targets = T /\ new.dirty \subseteq T
      /\ \A s \in Sources : s \in T /\ (new.does = "toggle" => s \notin new.dirty)
            => SameFlags(new.want[s], config[s])
  <2>1. \A s \in Sources : ~toggle => want[s] = config[s]
    BY DEF Wanted
  <2>2. new.does = "toggle" <=> toggle
    BY DEF Fields
  <2> HIDE DEF want
  <2> QED BY <2>1, <2>2 DEF SameFlags
<1> HIDE DEF new
<1>3. \A p \in Requests : Settled(put'[p])
  BY <1>1, <1>2 DEF DriftInv, Settled
<1>4. ASSUME NEW s \in Sources, ~Excused(s)' PROVE InOrder(s)'
  <2>1. InOrder(s) /\ (s \in T => ~InHand(s))
    BY <1>4 DEF Excused, ReadSources, DriftInv, TypeOK
  <2>2. config' = config /\ job' = job
    BY DEF ReadSources
  <2>3. q \in Requests => s \notin put[q].targets
    BY DEF ReadSources, DriftInv, Settled
  <2>4. CASE s \in T
    <3>1. \A p \in Requests : s \in put'[p].targets => p = q /\ put'[p] = new
      BY <1>1, <2>1, <2>4 DEF InHand
    <3>2. job[s] = "active" <=> ShouldRun(config[s])
      BY <2>1, <2>4 DEF InHand, InOrder
    <3> QED BY <1>2, <3>1, <3>2, <2>2, <2>4 DEF InOrder
  <2>5. CASE s \notin T
    <3>1. \A p \in Requests : s \in put'[p].targets <=> s \in put[p].targets
      BY <1>1, <1>2, <2>3, <2>5
    <3>2. \A p \in Requests : s \in put[p].targets => put'[p] = put[p]
      BY <1>1, <2>3
    <3> QED BY <3>1, <3>2, <2>1, <2>2 DEF InOrder
  <2> QED BY <2>4, <2>5
<1> QED BY <1>3, <1>4 DEF DriftInv

LEMMA CommitKeepsOrder ==
  ASSUME TypeOK, DriftInv, NEW q \in Requests, CommitSettings(q)
  PROVE  DriftInv'
<1> DEFINE r == put[q]
<1>1. \A p \in Requests \ {q} : put'[p] = put[p]
  BY DEF CommitSettings, TypeOK
<1>2. CASE r.does = "fetch"
  <2>1. put'[q] = NoPut
    BY <1>2 DEF CommitSettings, TypeOK
  <2>2. put'[q].targets = {} /\ put'[q].dirty = {} /\ put'[q].does # "interval"
    BY <2>1 DEF NoPut
  <2>3. ASSUME NEW s \in Sources, ~Excused(s)' PROVE InOrder(s)'
    <3>1. InOrder(s) /\ job' = job /\ r.at = "read"
      BY <2>3 DEF Excused, CommitSettings, DriftInv
    <3>2. config'[s] = IF s \in r.dirty THEN r.want[s] ELSE config[s]
      BY DEF CommitSettings
    <3>3. SameFlags(config'[s], config[s])
      BY <1>2, <3>1, <3>2 DEF InOrder, DriftInv, Settled, SameFlags
    <3>4. \A p \in Requests : s \in put'[p].targets => p # q /\ put'[p] = put[p]
      BY <1>1, <2>2
    <3>5. (\A p \in Requests : s \in put'[p].targets => put'[p].at = "read" \/ put'[p].does = "interval")
          => \A p \in Requests : s \in put[p].targets => put[p].at = "read" \/ put[p].does = "interval"
      BY <1>1, <3>1
    <3>6. ShouldRun(config'[s]) <=> ShouldRun(config[s])
      BY <3>3 DEF SameFlags, ShouldRun
    <3>7. \A c : SameFlags(c, config[s]) => SameFlags(c, config'[s])
      BY <3>3 DEF SameFlags
    <3> QED BY <3>1, <3>4, <3>5, <3>6, <3>7 DEF InOrder
  <2>4. \A p \in Requests : Settled(put'[p])
    BY <1>1, <2>1 DEF DriftInv, Settled, NoPut
  <2> QED BY <2>3, <2>4 DEF DriftInv
<1>3. CASE r.does # "fetch"
  <2>1. /\ put'[q].at = "committed" /\ put'[q].does = r.does /\ put'[q].targets = r.targets
        /\ put'[q].dirty = {} /\ put'[q].on = {s \in r.targets : Verdict(q, s)}
    BY <1>3 DEF CommitSettings, TypeOK, NoPut
  <2>2. \A p \in Requests : Settled(put'[p])
    BY <1>1, <2>1 DEF DriftInv, Settled, Verdict
  <2>3. ASSUME NEW s \in Sources, ~Excused(s)' PROVE InOrder(s)'
    <3>1. InOrder(s) /\ job' = job /\ r.at = "read"
      BY <2>3 DEF Excused, CommitSettings, DriftInv
    <3>2. config'[s] = IF s \in r.dirty THEN r.want[s] ELSE config[s]
      BY DEF CommitSettings
    <3>3. CASE s \in r.targets
      <4>1. \A p \in Requests : s \in put'[p].targets => p = q
        BY <1>1, <3>1, <3>3 DEF InOrder
      <4>2. SameFlags(r.want[s], config'[s])
        BY <3>1, <3>2, <3>3 DEF InOrder, SameFlags
      <4>3. r.does # "interval" => (s \in put'[q].on <=> ShouldRun(config'[s]))
        BY <2>1, <3>3, <4>2 DEF Verdict, SameFlags, ShouldRun
      <4>4. r.does = "interval" => (job'[s] = "active" <=> ShouldRun(config'[s]))
        <5>1. r.does = "interval" => SameFlags(config'[s], config[s])
          BY <3>1, <3>2, <3>3 DEF InOrder, SameFlags
        <5>2. job[s] = "active" <=> ShouldRun(config[s])
          BY <3>1, <3>3 DEF InOrder
        <5> QED BY <3>1, <5>1, <5>2 DEF SameFlags, ShouldRun
      <4> QED BY <2>1, <3>3, <4>1, <4>3, <4>4 DEF InOrder
    <3>4. CASE s \notin r.targets
      <4>1. config'[s] = config[s]
        BY <3>2, <3>4 DEF DriftInv, Settled
      <4>2. \A p \in Requests : s \in put'[p].targets <=> s \in put[p].targets
        BY <1>1, <2>1
      <4>3. \A p \in Requests : s \in put[p].targets => put'[p] = put[p]
        BY <1>1, <3>4
      <4> QED BY <3>1, <4>1, <4>2, <4>3 DEF InOrder
    <3> QED BY <3>3, <3>4
  <2> QED BY <2>2, <2>3 DEF DriftInv
<1> QED BY <1>2, <1>3

LEMMA ApplyKeepsOrder ==
  ASSUME TypeOK, DriftInv, NEW q \in Requests, NEW a \in Sources, ApplyToJob(q, a)
  PROVE  DriftInv'
<1>1. \A p \in Requests \ {q} : put'[p] = put[p]
  BY DEF ApplyToJob, TypeOK
<1>2. /\ put'[q].targets = put[q].targets \ {a}
      /\ put'[q].targets # {} => put'[q] = [put[q] EXCEPT !.targets = put[q].targets \ {a}]
      /\ put'[q].targets = {} => put'[q] = NoPut
  <2>1. CASE put[q].targets = {a}
    <3>1. put'[q] = NoPut
      BY <2>1 DEF ApplyToJob, TypeOK
    <3> QED BY <2>1, <3>1 DEF NoPut
  <2>2. CASE put[q].targets # {a}
    <3>1. put[q] \in PutRecord /\ put'[q] = [put[q] EXCEPT !.targets = put[q].targets \ {a}]
      BY <2>2 DEF ApplyToJob, TypeOK
    <3>2. put[q].targets \ {a} # {}
      BY <2>2 DEF ApplyToJob
    <3> QED BY <3>1, <3>2 DEF PutRecord
  <2> QED BY <2>1, <2>2
<1>3. put'[q].targets # {} => /\ put'[q].at = put[q].at /\ put'[q].does = put[q].does
                              /\ put'[q].dirty = put[q].dirty /\ put'[q].on = put[q].on
                              /\ put'[q].want = put[q].want
  BY <1>2 DEF TypeOK, PutRecord
<1>4. \A p \in Requests : Settled(put'[p])
  <2>1. CASE put'[q].targets = {}
    BY <1>1, <1>2, <2>1 DEF DriftInv, Settled, NoPut
  <2>2. CASE put'[q].targets # {}
    BY <1>1, <1>2, <1>3, <2>2 DEF DriftInv, Settled, ApplyToJob
  <2> QED BY <2>1, <2>2
<1>5. ASSUME NEW s \in Sources, ~Excused(s)' PROVE InOrder(s)'
  <2>1. InOrder(s) /\ config' = config /\ put[q].at = "committed" /\ a \in put[q].targets
    BY <1>5 DEF Excused, ApplyToJob, DriftInv, TypeOK
  <2>2. CASE s = a
    <3>1. \A p \in Requests : s \notin put'[p].targets
      BY <1>1, <1>2, <2>1, <2>2 DEF InOrder
    <3>2. job'[s] = "active" <=> s \in put[q].on
      BY <2>2 DEF ApplyToJob, TypeOK
    <3>3. s \in put[q].on <=> ShouldRun(config[s])
      <4>1. CASE put[q].does # "interval"
        BY <2>1, <2>2, <4>1 DEF InOrder
      <4>2. CASE put[q].does = "interval"
        <5>1. job[s] # "paused"
          BY <1>5, <2>2, <4>2 DEF Excused, ApplyToJob, TypeOK
        <5>2. job[s] = "active"
          BY <5>1 DEF TypeOK
        <5>3. job[s] = "active" <=> ShouldRun(config[s])
          BY <2>1, <2>2, <4>2 DEF InOrder
        <5>4. s \in put[q].on
          BY <2>1, <2>2, <4>2 DEF DriftInv, Settled
        <5> QED BY <5>2, <5>3, <5>4
      <4> QED BY <4>1, <4>2
    <3> QED BY <2>1, <3>1, <3>2, <3>3 DEF InOrder
  <2>3. CASE s # a
    <3>1. job'[s] = job[s]
      BY <2>3 DEF ApplyToJob, TypeOK
    <3>2. \A p \in Requests : s \in put'[p].targets <=> s \in put[p].targets
      BY <1>1, <1>2, <2>3
    <3>3. \A p \in Requests : s \in put[p].targets =>
             /\ put'[p].at = put[p].at /\ put'[p].does = put[p].does
             /\ put'[p].dirty = put[p].dirty /\ put'[p].on = put[p].on
             /\ put'[p].want = put[p].want
      BY <1>1, <1>3, <3>2
    <3> QED BY <2>1, <3>1, <3>2, <3>3 DEF InOrder
  <2> QED BY <2>2, <2>3
<1> QED BY <1>4, <1>5 DEF DriftInv

\* When no request is at work on a source, its job is paused exactly as its
\* two flags say, unless requests overlapped, a run wrote older flags back, or
\* an interval was set while the job was paused.
THEOREM DriftIsKnown == Spec => []OnlyKnownDrift
<1>1. Init => DriftInv
  BY DEF Init, DriftInv, Settled, InOrder, NoPut, Seeded, ShouldRun
<1>2. TypeOK /\ DriftInv /\ [Next]_vars => DriftInv'
  <2> SUFFICES ASSUME TypeOK, DriftInv, [Next]_vars PROVE DriftInv'
    OBVIOUS
  <2>1. ASSUME NEW r \in Runners, NEW s \in Sources, StartRun(r, s) PROVE DriftInv'
    BY <2>1, RunsKeepOrder DEF StartRun, Excused, SameFlags
  <2>2. ASSUME NEW r \in Runners, NEW k \in 0..MaxPages, NEW n \in 0..Pages, Walk(r, k, n)
        PROVE  DriftInv'
    BY <2>2, RunsKeepOrder DEF Walk, Excused, SameFlags
  <2>3. ASSUME NEW r \in Runners, FinishRun(r) PROVE DriftInv'
    <3> DEFINE a == run[r].src
               new == [run[r].seen EXCEPT !.cursor = run[r].next]
    <3>1. a \in Sources /\ SameFlags(new, run[r].seen)
      BY DEF TypeOK, RunRecord, Config, SameFlags
    <3>2. config' = IF Moves(r) THEN [config EXCEPT ![a] = new] ELSE config
      BY <2>3 DEF FinishRun
    <3>3. excuse' = [excuse EXCEPT ![a] = excuse[a] \cup
             (IF Moves(r) /\ ~SameFlags(run[r].seen, config[a]) THEN {"overwritten"} ELSE {})]
      BY <2>3 DEF FinishRun
    <3>4. \A s \in Sources : Excused(s) => Excused(s)'
      BY <3>3 DEF Excused, TypeOK
    <3> HIDE DEF a, new
    <3>5. ASSUME NEW s \in Sources, ~Excused(s)' PROVE SameFlags(config'[s], config[s])
      <4>1. CASE s = a /\ Moves(r)
        <5>1. SameFlags(run[r].seen, config[a])
          BY <3>1, <3>3, <3>5, <4>1 DEF Excused, TypeOK
        <5>2. config'[s] = new
          BY <3>2, <4>1 DEF TypeOK
        <5> QED BY <3>1, <4>1, <5>1, <5>2 DEF SameFlags
      <4>2. CASE ~(s = a /\ Moves(r))
        <5>1. config'[s] = config[s]
          BY <3>2, <4>2 DEF TypeOK
        <5> QED BY <5>1 DEF SameFlags
      <4> QED BY <4>1, <4>2
    <3>6. put' = put /\ job' = job
      BY <2>3 DEF FinishRun
    <3> QED BY <3>4, <3>5, <3>6, RunsKeepOrder
  <2>4. ASSUME NEW r \in Runners, RunFails(r) PROVE DriftInv'
    <3>1. CASE Unlisted(r) \/ Raise(r)
      BY <3>1, RunsKeepOrder DEF Unlisted, Raise, Excused, SameFlags
    <3>2. CASE Lose(r)
      BY <3>2, RunsKeepOrder DEF Lose, Excused, SameFlags, TypeOK
    <3> QED BY <2>4, <3>1, <3>2 DEF RunFails
  <2>5. CASE Restart
    BY <2>5 DEF Restart, DriftInv, Settled, InOrder, NoPut
  <2>6. CASE UNCHANGED vars
    BY <2>6, RunsKeepOrder DEF vars, Excused, SameFlags
  <2> QED
    BY <2>1, <2>2, <2>3, <2>4, <2>5, <2>6, ReadKeepsOrder, CommitKeepsOrder, ApplyKeepsOrder
    DEF Next, PutStep, Fire, Post, Walks
<1>3. TypeOK /\ DriftInv => OnlyKnownDrift
  <2> SUFFICES ASSUME TypeOK, DriftInv, NEW s \in Sources, ~InHand(s), ~Excused(s)
               PROVE  job[s] = "active" <=> ShouldRun(config[s])
    BY DEF OnlyKnownDrift, Drifted, Excused
  <2>1. InOrder(s)
    BY DEF DriftInv
  <2> QED BY <2>1 DEF InOrder, InHand
<1> QED BY <1>1, <1>2, <1>3, TypeCorrect, PTL DEF Spec
=============================================================================
