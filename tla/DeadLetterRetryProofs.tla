----------------------- MODULE DeadLetterRetryProofs -----------------------
(***************************************************************************)
(* The job of DeadLetterRetry neither overwrites a newer failure nor       *)
(* overspends a row's attempts, for any number of sources, postings,       *)
(* manual retries and runs.                                                *)
(*                                                                         *)
(* Neither invariant is inductive.  What keeps newer failures away is that *)
(* no run has an uncommitted write of the row the job works on (LockInv);  *)
(* what keeps the attempts right is that every copy of a retry_count, in   *)
(* the scan, in the job and in an uncommitted upsert, is the committed one *)
(* (CountInv), which in turn rests on LockInv; and the committed count is  *)
(* the number of attempts that were not rolled back (AttemptInv).          *)
(***************************************************************************)
EXTENDS DeadLetterRetry, TLAPS

\* No run has written the row that the job holds.
LockInv == \A k \in Keys : TickHolds(k) => NoRunHolds(k)

\* The copies of a retry_count are current.
CountInv ==
    /\ \A k \in Keys : row[k].count <= MaxAttempts
    /\ \A k \in Keys : todo[k] # Nothing => todo[k] = row[k].count
    /\ \A k \in Keys : caller[Tick].key = k =>
        /\ todo[k] = Nothing
        /\ caller[Tick].count = row[k].count
        /\ caller[Tick].at \in Calling => caller[Tick].count < MaxAttempts
    /\ \A c \in Runners, k \in Keys : RunHolds(c, k) => run[c].pend[k].count = row[k].count

\* The attempts that were not rolled back: those of the committed count, and
\* the one in flight.
AttemptInv ==
    \A k \in Keys : attempts[k] = IF TickHolds(k) THEN row[k].count + 1 ELSE row[k].count

IInv == TypeOK /\ LockInv /\ CountInv /\ AttemptInv /\ ~caller[Tick].missed

USE KeysAssumption, RunnersAssumption, RetryLimitsAssumption, NothingAssumption
    DEF Keys, Retriers, Runners

\* Initially no row exists and nothing runs.
LEMMA InitIInv == Init => IInv
  BY DEF Init, IInv, TypeOK, LockInv, CountInv, AttemptInv, Row, NoRow, NoRows, Idle, NoRun, Calling,
         CallRecord, RunRecord, Statuses, TickHolds, NoRunHolds, RunHolds

\* A step that leaves the counts and the job's lock alone counts no attempt.
LEMMA AttemptsFrame ==
  ASSUME AttemptInv, UNCHANGED attempts,
         \A k \in Keys : row'[k].count = row[k].count,
         caller'[Tick].key = caller[Tick].key,
         caller'[Tick].at \in Calling <=> caller[Tick].at \in Calling
  PROVE  AttemptInv'
BY DEF AttemptInv, TickHolds

\* A step that only changes the run of one runner, and that keeps the retry
\* of that run waiting, keeps the invariant if what the run has written is
\* still unlocked by the job and counted as committed.
LEMMA RunChange ==
  ASSUME IInv, NEW c \in Runners, NEW r \in RunRecord,
         run' = [run EXCEPT ![c] = r],
         UNCHANGED <<row, enabled, todo, caller, attempts, stops, trouble>>,
         c \in Retriers => (r.at = "none" <=> run[c].at = "none"),
         r.at \in {"none", "ended"} <=> r.src = Nothing,
         r.at = "recording" <=> r.key # Nothing,
         \A k \in Keys : r.pend[k] # Nothing => ~TickHolds(k) /\ r.pend[k].count = row[k].count
  PROVE  IInv'
<1> USE DEF IInv
<1>1. \A x \in Runners : run'[x] = IF x = c THEN r ELSE run[x]
  BY DEF TypeOK
<1>2. run' \in [Runners -> RunRecord]
  BY DEF TypeOK
<1>3. \A x \in Retriers : caller'[x].at = "waiting" <=> run'[x].at # "none"
  BY <1>1 DEF TypeOK
<1>4. TypeOK'
  <2>1. \A x \in Runners : /\ run'[x].at \in {"none", "ended"} <=> run'[x].src = Nothing
                           /\ run'[x].at = "recording" <=> run'[x].key # Nothing
    BY <1>1 DEF TypeOK
  <2> QED BY <1>2, <1>3, <2>1 DEF TypeOK
<1>5. LockInv'
  BY <1>1 DEF LockInv, TickHolds, NoRunHolds, RunHolds
<1>6. CountInv'
  BY <1>1 DEF CountInv, RunHolds
<1>7. AttemptInv'
  BY AttemptsFrame
<1> QED BY <1>4, <1>5, <1>6, <1>7

\* A step that ends a run, with its writes or without them, keeps the
\* invariant: its writes are not of the job's row and change no retry_count.
LEMMA RunEnds ==
  ASSUME IInv, NEW c \in Runners, NEW ok \in BOOLEAN,
         run[c].at \in {"fetching", "details", "closing"},
         run' = [run EXCEPT ![c] = After(c, ok)],
         \/ Apply(run[c].pend) /\ caller' = Miss(run[c].pend)
         \/ UNCHANGED <<row, caller>>,
         UNCHANGED <<enabled, todo, attempts, stops, trouble>>
  PROVE  IInv'
<1> USE DEF IInv
<1> DEFINE r == After(c, ok)
<1>1. /\ r \in RunRecord
      /\ r.at = IF c \in Beats THEN "none" ELSE "ended"
      /\ r.key = Nothing
      /\ \A k \in Keys : r.pend[k] = Nothing
      /\ r.src = Nothing
  <2>1. NoRows \in [Keys -> Row \cup {Nothing}] /\ \A k \in Keys : NoRows[k] = Nothing
    BY DEF NoRows
  <2>2. run[c] \in RunRecord
    BY DEF TypeOK
  <2>3. CASE c \in Beats
    BY <2>1, <2>3 DEF After, NoRun, RunRecord
  <2>4. CASE c \notin Beats
    BY <2>1, <2>2, <2>4 DEF After, NoRun, RunRecord
  <2> QED BY <2>3, <2>4
<1> HIDE DEF r
<1>2. \A x \in Runners : run'[x] = IF x = c THEN r ELSE run[x]
  BY DEF TypeOK, r
<1>3. caller'[Tick] = caller[Tick]
  BY DEF Miss, LockInv, TickHolds, NoRunHolds, RunHolds, TypeOK, CallRecord, Calling
<1>4. /\ caller' \in [Retriers -> CallRecord]
      /\ \A x \in Retriers : /\ caller'[x].at = caller[x].at
                             /\ caller'[x].key = caller[x].key
  <2>1. \A x \in Retriers : [caller[x] EXCEPT !.missed = TRUE] \in CallRecord
    <3>1. \A x \in Retriers : caller[x] \in CallRecord
      BY DEF TypeOK
    <3> QED BY <3>1 DEF CallRecord
  <2>2. Miss(run[c].pend) \in [Retriers -> CallRecord]
    BY <2>1 DEF Miss, TypeOK
  <2>3. \A x \in Retriers : /\ Miss(run[c].pend)[x].at = caller[x].at
                            /\ Miss(run[c].pend)[x].key = caller[x].key
    BY DEF Miss, TypeOK, CallRecord
  <2> QED BY <2>2, <2>3 DEF TypeOK
<1>5. /\ row' \in [Keys -> Row]
      /\ \A k \in Keys : row'[k].count = row[k].count
  <2>1. run[c].pend \in [Keys -> Row \cup {Nothing}]
    BY DEF TypeOK, RunRecord
  <2>2. CASE Apply(run[c].pend)
    BY <2>1, <2>2 DEF Apply, TypeOK, CountInv, RunHolds
  <2>3. CASE UNCHANGED row
    BY <2>3 DEF TypeOK
  <2> QED BY <2>2, <2>3
<1>6. TypeOK'
  <2>1. run' \in [Runners -> RunRecord]
    BY <1>1, <1>2 DEF TypeOK, r
  <2>2. \A x \in Retriers : /\ caller'[x].at = "idle" <=> caller'[x].key = Nothing
                            /\ caller'[x].at = "waiting" <=> run'[x].at # "none"
    BY <1>1, <1>2, <1>4 DEF TypeOK
  <2>3. \A x \in Runners : /\ run'[x].at \in {"none", "ended"} <=> run'[x].src = Nothing
                           /\ run'[x].at = "recording" <=> run'[x].key # Nothing
    BY <1>1, <1>2 DEF TypeOK
  <2> QED BY <1>4, <1>5, <2>1, <2>2, <2>3 DEF TypeOK
<1>7. LockInv'
  BY <1>1, <1>2, <1>3 DEF LockInv, TickHolds, NoRunHolds, RunHolds
<1>8. CountInv'
  BY <1>1, <1>2, <1>3, <1>5 DEF CountInv, RunHolds
<1>9. AttemptInv'
  BY <1>3, <1>5, AttemptsFrame
<1> QED BY <1>3, <1>6, <1>7, <1>8, <1>9

\* What a rollback undoes is the attempt in flight.
LEMMA UndoneKeeps ==
  ASSUME TypeOK, AttemptInv
  PROVE  /\ Undone(Tick) \in [Keys -> Nat]
         /\ \A k \in Keys : Undone(Tick)[k] = row[k].count
<1>1. \A k \in Keys : row[k].count \in Nat /\ attempts[k] \in Nat
  BY DEF TypeOK, Row
<1>2. \A k \in Keys : Undone(Tick)[k] = row[k].count
  BY <1>1 DEF Undone, AttemptInv
<1> QED BY <1>1, <1>2 DEF Undone

\* A retry whose exception is not caught leaves no trace (perform_retry).
LEMMA AbortKeeps ==
  ASSUME IInv, NEW c \in Retriers, caller[c].at = "handling", Aborts(c),
         UNCHANGED <<row, enabled, run, stops>>, trouble' \in 0..MaxTrouble
  PROVE  IInv'
<1> USE DEF IInv
<1>1. \A x \in Retriers : caller'[x] = IF x = c THEN Idle ELSE caller[x]
  BY DEF Aborts, TypeOK
<1>2. attempts' \in [Keys -> Nat]
  BY UndoneKeeps DEF Aborts, Undone, TypeOK
<1>3. TypeOK'
  <2>1. caller' \in [Retriers -> CallRecord]
    BY DEF Aborts, TypeOK, CallRecord, Idle, Statuses
  <2>2. todo' \in [Keys -> Nat \cup {Nothing}]
    BY DEF Aborts, TypeOK, NoRows
  <2>3. \A x \in Retriers : /\ caller'[x].at = "idle" <=> caller'[x].key = Nothing
                            /\ caller'[x].at = "waiting" <=> run'[x].at # "none"
    BY <1>1 DEF TypeOK, Idle
  <2> QED BY <1>2, <2>1, <2>2, <2>3 DEF TypeOK
<1>4. CASE c = Tick
  <2>1. /\ \A k \in Keys : caller'[Tick].key # k /\ ~TickHolds(k)'
        /\ caller'[Tick].missed = FALSE
        /\ todo' = NoRows /\ attempts' = Undone(Tick)
    BY <1>1, <1>4 DEF Aborts, TickHolds, Idle
  <2>2. LockInv' /\ CountInv'
    BY <2>1 DEF LockInv, CountInv, NoRows, RunHolds
  <2>3. AttemptInv'
    BY <2>1, UndoneKeeps DEF AttemptInv
  <2> QED BY <1>3, <2>1, <2>2, <2>3
<1>5. CASE c # Tick
  <2>1. caller'[Tick] = caller[Tick] /\ todo' = todo
    BY <1>1, <1>5 DEF Aborts
  <2>2. attempts' = attempts
    BY <1>5 DEF Aborts, Undone, TypeOK
  <2>3. LockInv' /\ CountInv'
    BY <2>1 DEF LockInv, CountInv, TickHolds, NoRunHolds, RunHolds
  <2>4. AttemptInv'
    BY <2>1, <2>2, AttemptsFrame
  <2> QED BY <1>3, <2>1, <2>3, <2>4
<1> QED BY <1>4, <1>5

\* Every action keeps the invariant.
LEMMA StepIInv == IInv /\ [Next]_vars => IInv'
<1> SUFFICES ASSUME IInv, [Next]_vars PROVE IInv'
  OBVIOUS
<1> USE DEF IInv
<1>1. ASSUME TickScans PROVE IInv'
  <2>1. TypeOK'
    <3>1. todo' \in [Keys -> Nat \cup {Nothing}]
      BY <1>1 DEF TypeOK, TickScans, Eligible, NoRows, Row
    <3> QED BY <1>1, <3>1 DEF TypeOK, TickScans, Eligible
  <2>2. LockInv'
    BY <1>1 DEF TypeOK, LockInv, TickScans, Eligible, TickHolds, NoRunHolds, RunHolds, CallRecord, RunRecord, Calling, Idle, NoRun, NoRows
  <2>3. CountInv'
    BY <1>1 DEF TypeOK, LockInv, CountInv, TickScans, Eligible, TickHolds, NoRunHolds, RunHolds, Row, CallRecord, RunRecord, Calling, Idle, NoRun, NoRows
  <2>4. ~caller'[Tick].missed
    BY <1>1 DEF TypeOK, TickScans, Eligible, CallRecord, Idle
  <2>5. AttemptInv'
    BY <1>1, AttemptsFrame DEF TickScans
  <2> QED BY <2>1, <2>2, <2>3, <2>4, <2>5
<1>2. ASSUME TickAbandons PROVE IInv'
  <2>1. TypeOK'
    <3>1. row' \in [Keys -> Row]
      <4> DEFINE k1 == caller[Tick].key
                 r1 == [row[k1] EXCEPT !.status = "abandoned"]
      <4>1. k1 \in Keys /\ row[k1] \in Row
        BY <1>2 DEF TypeOK, TickAbandons, CallRecord
      <4>2. r1 \in Row
        BY <4>1, <1>2 DEF  Row, Statuses, TypeOK, CallRecord
      <4>3. row' = [row EXCEPT ![k1] = r1]
        BY <4>1, <1>2 DEF TickAbandons, CallRecord, TypeOK, Row
      <4> HIDE DEF k1, r1
      <4> QED BY <4>1, <4>2, <4>3 DEF TypeOK
    <3>2. caller' \in [Retriers -> CallRecord]
      BY <1>2 DEF TypeOK, TickAbandons, CallRecord, Calling, Idle, Row, Statuses
    <3>3. \A x \in Retriers : /\ caller'[x].at = "idle" <=> caller'[x].key = Nothing
                              /\ caller'[x].at = "waiting" <=> run'[x].at # "none"
      BY <1>2 DEF TypeOK, TickAbandons, CallRecord, RunRecord, Calling, Idle, NoRun
    <3> QED BY <1>2, <3>1, <3>2, <3>3 DEF TypeOK, TickAbandons
  <2>2. LockInv'
    BY <1>2 DEF TypeOK, LockInv, TickAbandons, TickHolds, NoRunHolds, RunHolds, CallRecord, RunRecord, Calling, Idle, NoRun, NoRows
  <2>3. CountInv'
    BY <1>2 DEF TypeOK, LockInv, CountInv, TickAbandons, TickHolds, NoRunHolds, RunHolds, Row, CallRecord, RunRecord, Calling, Idle, NoRun, NoRows
  <2>4. ~caller'[Tick].missed
    BY <1>2 DEF TypeOK, TickAbandons, CallRecord, Idle
  <2>5. AttemptInv'
    BY <1>2 DEF TypeOK, AttemptInv, TickAbandons, TickHolds, Row, CallRecord, Calling, Idle
  <2> QED BY <2>1, <2>2, <2>3, <2>4, <2>5
<1>3. ASSUME TickSpends PROVE IInv'
  <2>1. TypeOK'
    <3>1. caller' \in [Retriers -> CallRecord]
      <4> DEFINE r1 == [caller[Tick] EXCEPT !.at = "handling"]
      <4>1. caller[Tick] \in CallRecord
        BY DEF TypeOK
      <4>2. r1 \in CallRecord
        BY <4>1 DEF CallRecord, Calling
      <4>3. caller' = [caller EXCEPT ![Tick] = r1]
        BY <1>3 DEF TickSpends
      <4> HIDE DEF r1
      <4> QED BY <4>2, <4>3 DEF TypeOK
    <3>2. \A x \in Retriers : /\ caller'[x].at = "idle" <=> caller'[x].key = Nothing
                              /\ caller'[x].at = "waiting" <=> run'[x].at # "none"
      BY <1>3 DEF TypeOK, TickSpends, Spent, CallRecord, RunRecord, Calling, Idle, NoRun
    <3>3. attempts' \in [Keys -> Nat]
      <4> DEFINE n == attempts[caller[Tick].key] + 1
      <4>1. caller[Tick].key \in Keys
        BY <1>3 DEF TickSpends, TypeOK, CallRecord
      <4>2. n \in Nat
        BY <4>1 DEF TypeOK
      <4>3. attempts' = [attempts EXCEPT ![caller[Tick].key] = n]
        BY <1>3 DEF TickSpends
      <4> HIDE DEF n
      <4> QED BY <4>2, <4>3 DEF TypeOK
    <3> QED BY <1>3, <3>1, <3>2, <3>3 DEF TypeOK, TickSpends
  <2>2. LockInv'
    BY <1>3 DEF TypeOK, LockInv, TickSpends, Spent, TickHolds, NoRunHolds, RunHolds, CallRecord, RunRecord, Calling, Idle, NoRun, NoRows
  <2>3. CountInv'
    BY <1>3 DEF TypeOK, LockInv, CountInv, TickSpends, Spent, TickHolds, NoRunHolds, RunHolds, Row, CallRecord, RunRecord, Calling, Idle, NoRun, NoRows
  <2>4. ~caller'[Tick].missed
    BY <1>3 DEF TypeOK, TickSpends, Spent, CallRecord, Idle
  <2>5. AttemptInv'
    BY <1>3 DEF TypeOK, AttemptInv, TickSpends, TickHolds, Row, CallRecord, Calling
  <2> QED BY <2>1, <2>2, <2>3, <2>4, <2>5
<1>4. ASSUME NEW k \in Keys, TickPicks(k) PROVE IInv'
  <2>1. TypeOK'
    <3>1. todo' \in [Keys -> Nat \cup {Nothing}]
      BY <1>4 DEF TypeOK, TickPicks, NoRows, Row
    <3>2. caller' \in [Retriers -> CallRecord]
      <4> DEFINE r1 == [Idle EXCEPT !.at = "picked", !.key = k, !.status = "open", !.count = todo[k]]
      <4>1. r1 \in CallRecord
        BY <1>4 DEF TickPicks, TypeOK, CallRecord, Idle, Statuses
      <4>2. caller' = [caller EXCEPT ![Tick] = r1]
        BY <1>4 DEF TickPicks
      <4> HIDE DEF r1
      <4> QED BY <4>1, <4>2 DEF TypeOK
    <3>3. \A x \in Retriers : /\ caller'[x].at = "idle" <=> caller'[x].key = Nothing
                              /\ caller'[x].at = "waiting" <=> run'[x].at # "none"
      BY <1>4 DEF TypeOK, TickPicks, CallRecord, RunRecord, Calling, Idle, NoRun
    <3> QED BY <1>4, <3>1, <3>2, <3>3 DEF TypeOK, TickPicks
  <2>2. LockInv'
    BY <1>4 DEF TypeOK, LockInv, TickPicks, TickHolds, NoRunHolds, RunHolds, CallRecord, RunRecord, Calling, Idle, NoRun, NoRows
  <2>3. CountInv'
    BY <1>4 DEF TypeOK, LockInv, CountInv, TickPicks, TickHolds, NoRunHolds, RunHolds, Row, CallRecord, RunRecord, Calling, Idle, NoRun, NoRows
  <2>4. ~caller'[Tick].missed
    BY <1>4 DEF TypeOK, TickPicks, CallRecord, Idle
  <2>5. AttemptInv'
    BY <1>4, AttemptsFrame DEF TypeOK, AttemptInv, TickPicks, TickHolds, CallRecord, Calling, Idle
  <2> QED BY <2>1, <2>2, <2>3, <2>4, <2>5
<1>5. ASSUME NEW u \in Users, NEW k \in Keys, UserLoads(u, k) PROVE IInv'
  <2>1. TypeOK'
    <3>1. caller' \in [Retriers -> CallRecord]
      <4> DEFINE r1 == [Idle EXCEPT !.at = "handling", !.key = k, !.status = row[k].status,
                                    !.count = row[k].count]
      <4>1. row[k].status \in Statuses /\ row[k].count \in Nat
        BY DEF TypeOK, Row, Statuses
      <4>2. r1 \in CallRecord
        BY <4>1 DEF CallRecord, Calling, Idle
      <4>3. caller' = [caller EXCEPT ![u] = r1]
        BY <1>5 DEF UserLoads
      <4> HIDE DEF r1
      <4> QED BY <4>2, <4>3 DEF TypeOK
    <3>2. \A x \in Retriers : /\ caller'[x].at = "idle" <=> caller'[x].key = Nothing
                              /\ caller'[x].at = "waiting" <=> run'[x].at # "none"
      BY <1>5 DEF TypeOK, UserLoads, CallRecord, RunRecord, Calling, Idle, NoRun
    <3> QED BY <1>5, <3>1, <3>2 DEF TypeOK, UserLoads
  <2>2. LockInv'
    BY <1>5 DEF TypeOK, LockInv, UserLoads, TickHolds, NoRunHolds, RunHolds, CallRecord, RunRecord, Calling, Idle, NoRun, NoRows
  <2>3. CountInv'
    BY <1>5 DEF TypeOK, LockInv, CountInv, UserLoads, TickHolds, NoRunHolds, RunHolds, Row, CallRecord, RunRecord, Calling, Idle, NoRun, NoRows
  <2>4. ~caller'[Tick].missed
    BY <1>5 DEF TypeOK, UserLoads, CallRecord, Idle
  <2>5. AttemptInv'
    BY <1>5, AttemptsFrame DEF TypeOK, UserLoads
  <2> QED BY <2>1, <2>2, <2>3, <2>4, <2>5
<1>6. ASSUME NEW c \in Retriers, StartRun(c) PROVE IInv'
  <2>1. TypeOK'
    <3>1. caller' \in [Retriers -> CallRecord]
      <4> DEFINE r1 == [caller[c] EXCEPT !.at = "waiting"]
      <4>1. caller[c] \in CallRecord
        BY DEF TypeOK
      <4>2. r1 \in CallRecord
        BY <4>1 DEF CallRecord, Calling
      <4>3. caller' = [caller EXCEPT ![c] = r1]
        BY <1>6 DEF StartRun
      <4> HIDE DEF r1
      <4> QED BY <4>2, <4>3 DEF TypeOK
    <3>2. run' \in [Runners -> RunRecord]
      BY <1>6 DEF TypeOK, StartRun, RunRecord, NoRun, NoRows
    <3>3. \A x \in Retriers : /\ caller'[x].at = "idle" <=> caller'[x].key = Nothing
                              /\ caller'[x].at = "waiting" <=> run'[x].at # "none"
      BY <1>6 DEF TypeOK, StartRun, CallRecord, RunRecord, Calling, Idle, NoRun
    <3>4. \A x \in Runners : /\ run'[x].at \in {"none", "ended"} <=> run'[x].src = Nothing
                             /\ run'[x].at = "recording" <=> run'[x].key # Nothing
      BY <1>6 DEF TypeOK, StartRun, RunRecord, NoRun
    <3> QED BY <1>6, <3>1, <3>2, <3>3, <3>4 DEF TypeOK, StartRun
  <2>2. LockInv'
    BY <1>6 DEF TypeOK, LockInv, StartRun, TickHolds, NoRunHolds, RunHolds, CallRecord, RunRecord, Calling, Idle, NoRun, NoRows
  <2>3. CountInv'
    BY <1>6 DEF TypeOK, LockInv, CountInv, StartRun, TickHolds, NoRunHolds, RunHolds, Row, CallRecord, RunRecord, Calling, Idle, NoRun, NoRows
  <2>4. ~caller'[Tick].missed
    BY <1>6 DEF TypeOK, StartRun, CallRecord, Idle
  <2>5. AttemptInv'
    BY <1>6, AttemptsFrame DEF TypeOK, StartRun, Calling
  <2> QED BY <2>1, <2>2, <2>3, <2>4, <2>5
<1>7. ASSUME NEW c \in Retriers, Refused(c) \/ FetchRaises(c) PROVE IInv'
  <2>1. trouble' \in 0..MaxTrouble
    BY <1>7 DEF Refused, FetchRaises, TypeOK
  <2>2. caller[c].at = "handling" /\ Aborts(c) /\ UNCHANGED <<row, enabled, run, stops>>
    BY <1>7 DEF Refused, FetchRaises
  <2> QED BY <2>1, <2>2, AbortKeeps
<1>8. ASSUME NEW c \in Retriers, RunReturns(c) PROVE IInv'
  <2>1. TypeOK'
    <3>1. caller' \in [Retriers -> CallRecord]
      <4> DEFINE r1 == [caller[c] EXCEPT !.at = "returned",
                                         !.result = IF run[c].ok THEN "fixed" ELSE "failed"]
      <4>1. caller[c] \in CallRecord
        BY DEF TypeOK
      <4>2. r1 \in CallRecord
        BY <4>1 DEF CallRecord, Calling
      <4>3. caller' = [caller EXCEPT ![c] = r1]
        BY <1>8 DEF RunReturns
      <4> HIDE DEF r1
      <4> QED BY <4>2, <4>3 DEF TypeOK
    <3>2. run' \in [Runners -> RunRecord]
      BY <1>8 DEF TypeOK, RunReturns, RunRecord, NoRun, NoRows
    <3>3. \A x \in Retriers : /\ caller'[x].at = "idle" <=> caller'[x].key = Nothing
                              /\ caller'[x].at = "waiting" <=> run'[x].at # "none"
      BY <1>8 DEF TypeOK, RunReturns, CallRecord, RunRecord, Calling, Idle, NoRun
    <3>4. \A x \in Runners : /\ run'[x].at \in {"none", "ended"} <=> run'[x].src = Nothing
                             /\ run'[x].at = "recording" <=> run'[x].key # Nothing
      BY <1>8 DEF TypeOK, RunReturns, RunRecord, NoRun
    <3> QED BY <1>8, <3>1, <3>2, <3>3, <3>4 DEF TypeOK, RunReturns
  <2>2. LockInv'
    BY <1>8 DEF TypeOK, LockInv, RunReturns, TickHolds, NoRunHolds, RunHolds, CallRecord, RunRecord, Calling, Idle, NoRun, NoRows
  <2>3. CountInv'
    BY <1>8 DEF TypeOK, LockInv, CountInv, RunReturns, TickHolds, NoRunHolds, RunHolds, Row, CallRecord, RunRecord, Calling, Idle, NoRun, NoRows
  <2>4. ~caller'[Tick].missed
    BY <1>8 DEF TypeOK, RunReturns, CallRecord, Idle
  <2>5. AttemptInv'
    BY <1>8, AttemptsFrame DEF TypeOK, RunReturns, Calling
  <2> QED BY <2>1, <2>2, <2>3, <2>4, <2>5
<1>9. ASSUME NEW c \in Retriers, FetchDetail(c) PROVE IInv'
  <2>1. TypeOK'
    <3>1. caller' \in [Retriers -> CallRecord]
      BY <1>9 DEF TypeOK, FetchDetail, CallRecord, Calling, Idle, Row, Statuses
    <3>2. \A x \in Retriers : /\ caller'[x].at = "idle" <=> caller'[x].key = Nothing
                              /\ caller'[x].at = "waiting" <=> run'[x].at # "none"
      BY <1>9 DEF TypeOK, FetchDetail, CallRecord, RunRecord, Calling, Idle, NoRun
    <3> QED BY <1>9, <3>1, <3>2 DEF TypeOK, FetchDetail
  <2>2. LockInv'
    BY <1>9 DEF TypeOK, LockInv, FetchDetail, TickHolds, NoRunHolds, RunHolds, CallRecord, RunRecord, Calling, Idle, NoRun, NoRows
  <2>3. CountInv'
    BY <1>9 DEF TypeOK, LockInv, CountInv, FetchDetail, TickHolds, NoRunHolds, RunHolds, Row, CallRecord, RunRecord, Calling, Idle, NoRun, NoRows
  <2>4. ~caller'[Tick].missed
    BY <1>9 DEF TypeOK, FetchDetail, CallRecord, Idle
  <2>5. AttemptInv'
    BY <1>9, AttemptsFrame DEF TypeOK, FetchDetail, Calling
  <2> QED BY <2>1, <2>2, <2>3, <2>4, <2>5
<1>10. ASSUME NEW c \in Retriers, Finish(c) PROVE IInv'
  <2>1. TypeOK'
    <3>1. row' \in [Keys -> Row]
      <4> DEFINE k1 == caller[c].key
                 r1 == CommitRow(c, k1)
      <4>1. k1 \in Keys /\ row[k1] \in Row
        BY <1>10 DEF TypeOK, Finish, CallRecord
      <4>2. r1 \in Row
        <5> DEFINE st == IF caller[c].result = "fixed" /\ caller[c].status # "resolved"
                         THEN "resolved" ELSE row[k1].status
                   ct == IF c = Tick THEN caller[c].count + 1 ELSE row[k1].count
                   ol == row[k1].old /\ caller[c].result # "blocked"
        <5>1. r1 = [row[k1] EXCEPT !.status = st, !.count = ct, !.old = ol]
          BY DEF CommitRow
        <5>2. st \in Statuses
          BY <4>1 DEF Row, Statuses
        <5>3. ct \in Nat
          <6>1. caller[c].count \in Nat
            BY <1>10 DEF TypeOK, CallRecord
          <6> QED BY <4>1, <6>1 DEF Row
        <5>4. ol \in BOOLEAN
          BY <4>1
        <5> HIDE DEF st, ct, ol, k1, r1
        <5> QED BY <4>1, <5>1, <5>2, <5>3, <5>4 DEF Row
      <4>3. row' = [row EXCEPT ![k1] = r1]
        BY <4>1, <1>10 DEF Finish, CallRecord, TypeOK, Row
      <4> HIDE DEF k1, r1
      <4> QED BY <4>1, <4>2, <4>3 DEF TypeOK
    <3>2. caller' \in [Retriers -> CallRecord]
      BY <1>10 DEF TypeOK, Finish, CommitRow, CallRecord, Calling, Idle, Row, Statuses
    <3>3. \A x \in Retriers : /\ caller'[x].at = "idle" <=> caller'[x].key = Nothing
                              /\ caller'[x].at = "waiting" <=> run'[x].at # "none"
      BY <1>10 DEF TypeOK, Finish, CommitRow, CallRecord, RunRecord, Calling, Idle, NoRun
    <3> QED BY <1>10, <3>1, <3>2, <3>3 DEF TypeOK, Finish, CommitRow
  <2>2. LockInv'
    BY <1>10 DEF TypeOK, LockInv, Finish, CommitRow, TickHolds, NoRunHolds, RunHolds, CallRecord, RunRecord, Calling, Idle, NoRun, NoRows
  <2>3. CountInv'
    <3> DEFINE k1 == caller[c].key
    <3>1. /\ k1 \in Keys /\ caller[c].at = "returned" /\ caller[c].count \in Nat
          /\ todo' = todo /\ run' = run
      BY <1>10 DEF TypeOK, Finish, CallRecord, Calling
    <3>2. caller'[c] = Idle /\ \A x \in Retriers \ {c} : caller'[x] = caller[x]
      BY <1>10 DEF TypeOK, Finish
    <3>3. \A k \in Keys : row[k] \in Row
      BY DEF TypeOK
    <3>4. \A k \in Keys : row'[k].count = IF k = k1 /\ c = Tick THEN caller[c].count + 1
                                         ELSE row[k].count
      <4>1. row' = [row EXCEPT ![k1] = CommitRow(c, k1)]
        BY <1>10 DEF Finish
      <4>2. CommitRow(c, k1).count = IF c = Tick THEN caller[c].count + 1 ELSE row[k1].count
        BY <3>1, <3>3 DEF CommitRow, Row
      <4> HIDE DEF k1
      <4> QED BY <3>1, <4>1, <4>2 DEF TypeOK
    <3>5. Idle.key = Nothing /\ Nothing \notin Keys
      BY KeysAssumption DEF Idle
    <3>6. CASE c = Tick
      <4>1. /\ caller[Tick].count < MaxAttempts /\ todo[k1] = Nothing
            /\ NoRunHolds(k1)
        BY <3>1, <3>6 DEF CountInv, LockInv, TickHolds, Calling
      <4>2. MaxAttempts \in Nat /\ caller[Tick].count + 1 <= MaxAttempts
        BY <3>1, <3>6, <4>1, RetryLimitsAssumption
      <4>3. \A k \in Keys : caller'[Tick].key # k
        BY <3>2, <3>5, <3>6
      <4> HIDE DEF k1
      <4>4. \A k \in Keys : row'[k].count <= MaxAttempts
        BY <3>4, <3>6, <4>2 DEF CountInv
      <4>5. \A k \in Keys : todo[k] # Nothing => todo[k] = row'[k].count
        BY <3>4, <4>1 DEF CountInv
      <4>6. \A d \in Runners, k \in Keys :
               RunHolds(d, k) => run[d].pend[k].count = row'[k].count
        BY <3>4, <4>1 DEF CountInv, NoRunHolds
      <4> QED BY <3>1, <4>3, <4>4, <4>5, <4>6 DEF CountInv, RunHolds
    <3>7. CASE c # Tick
      <4>1. caller'[Tick] = caller[Tick]
        BY <3>2, <3>7
      <4>2. \A k \in Keys : row'[k].count = row[k].count
        BY <3>4, <3>7
      <4> HIDE DEF k1
      <4> QED BY <3>1, <4>1, <4>2 DEF CountInv, RunHolds
    <3> QED BY <3>6, <3>7
  <2>4. ~caller'[Tick].missed
    BY <1>10 DEF TypeOK, Finish, CommitRow, CallRecord, Idle
  <2>5. AttemptInv'
    <3> DEFINE k1 == caller[c].key
    <3>1. k1 \in Keys /\ caller[c].at = "returned" /\ attempts' = attempts
      BY <1>10 DEF TypeOK, Finish, CallRecord, Calling
    <3>2. caller'[c] = Idle /\ \A x \in Retriers \ {c} : caller'[x] = caller[x]
      BY <1>10 DEF TypeOK, Finish
    <3>3. \A k \in Keys : row'[k].count = IF k = k1 /\ c = Tick THEN caller[c].count + 1
                                         ELSE row[k].count
      <4>1. row' = [row EXCEPT ![k1] = CommitRow(c, k1)] /\ row[k1] \in Row
        BY <1>10, <3>1 DEF Finish, TypeOK
      <4>2. CommitRow(c, k1).count = IF c = Tick THEN caller[c].count + 1 ELSE row[k1].count
        BY <4>1 DEF CommitRow, Row
      <4> HIDE DEF k1
      <4> QED BY <3>1, <4>1, <4>2 DEF TypeOK
    <3>4. CASE c = Tick
      <4>1. \A k \in Keys : TickHolds(k) <=> k = k1
        BY <3>1, <3>4 DEF TickHolds, Calling
      <4>2. \A k \in Keys : ~TickHolds(k)'
        BY <3>2, <3>4 DEF TickHolds, Idle
      <4>3. caller[c].count = row[k1].count
        BY <3>1, <3>4 DEF CountInv
      <4> HIDE DEF k1
      <4> QED BY <3>1, <3>3, <3>4, <4>1, <4>2, <4>3 DEF AttemptInv
    <3>5. CASE c # Tick
      <4>1. caller'[Tick] = caller[Tick]
        BY <3>2, <3>5
      <4>2. \A k \in Keys : row'[k].count = row[k].count
        BY <3>3, <3>5
      <4> QED BY <3>1, <4>1, <4>2, AttemptsFrame
    <3> QED BY <3>4, <3>5
  <2> QED BY <2>1, <2>2, <2>3, <2>4, <2>5
<1>11. ASSUME NEW k \in Keys, Age(k) PROVE IInv'
  <2>1. TypeOK'
    <3>1. row' \in [Keys -> Row]
      <4> DEFINE k1 == k
                 r1 == [row[k1] EXCEPT !.old = TRUE]
      <4>1. k1 \in Keys /\ row[k1] \in Row
        BY <1>11 DEF TypeOK, Age
      <4>2. r1 \in Row
        BY <4>1, <1>11 DEF  Row, Statuses, TypeOK, CallRecord
      <4>3. row' = [row EXCEPT ![k1] = r1]
        BY <4>1, <1>11 DEF Age, TypeOK, Row
      <4> HIDE DEF k1, r1
      <4> QED BY <4>1, <4>2, <4>3 DEF TypeOK
    <3> QED BY <1>11, <3>1 DEF TypeOK, Age
  <2>2. LockInv'
    BY <1>11 DEF TypeOK, LockInv, Age, TickHolds, NoRunHolds, RunHolds, CallRecord, RunRecord, Calling, Idle, NoRun, NoRows
  <2>3. CountInv'
    BY <1>11 DEF TypeOK, LockInv, CountInv, Age, TickHolds, NoRunHolds, RunHolds, Row, CallRecord, RunRecord, Calling, Idle, NoRun, NoRows
  <2>4. ~caller'[Tick].missed
    BY <1>11 DEF TypeOK, Age, CallRecord, Idle
  <2>5. AttemptInv'
    BY <1>11, AttemptsFrame DEF TypeOK, Age, Row
  <2> QED BY <2>1, <2>2, <2>3, <2>4, <2>5
<1>12. ASSUME NEW s \in Sources, SetEnabled(s) PROVE IInv'
  <2>1. TypeOK'
    <3>1. enabled' \in [Sources -> BOOLEAN]
      BY <1>12 DEF TypeOK, SetEnabled
    <3> QED BY <1>12, <3>1 DEF TypeOK, SetEnabled
  <2>2. LockInv'
    BY <1>12 DEF TypeOK, LockInv, SetEnabled, TickHolds, NoRunHolds, RunHolds, CallRecord, RunRecord, Calling, Idle, NoRun, NoRows
  <2>3. CountInv'
    BY <1>12 DEF TypeOK, LockInv, CountInv, SetEnabled, TickHolds, NoRunHolds, RunHolds, Row, CallRecord, RunRecord, Calling, Idle, NoRun, NoRows
  <2>4. ~caller'[Tick].missed
    BY <1>12 DEF TypeOK, SetEnabled, CallRecord, Idle
  <2>5. AttemptInv'
    BY <1>12, AttemptsFrame DEF SetEnabled
  <2> QED BY <2>1, <2>2, <2>3, <2>4, <2>5
<1>13. ASSUME Crash PROVE IInv'
  <2>1. TypeOK'
    <3>1. todo' \in [Keys -> Nat \cup {Nothing}]
      BY <1>13 DEF TypeOK, Crash, NoRows, Row
    <3>2. caller' \in [Retriers -> CallRecord]
      BY <1>13 DEF TypeOK, Crash, CallRecord, Calling, Idle, Row, Statuses
    <3>3. run' \in [Runners -> RunRecord]
      BY <1>13 DEF TypeOK, Crash, RunRecord, NoRun, NoRows
    <3>4. \A x \in Retriers : /\ caller'[x].at = "idle" <=> caller'[x].key = Nothing
                              /\ caller'[x].at = "waiting" <=> run'[x].at # "none"
      BY <1>13 DEF TypeOK, Crash, CallRecord, RunRecord, Calling, Idle, NoRun
    <3>5. \A x \in Runners : /\ run'[x].at \in {"none", "ended"} <=> run'[x].src = Nothing
                             /\ run'[x].at = "recording" <=> run'[x].key # Nothing
      BY <1>13 DEF TypeOK, Crash, RunRecord, NoRun
    <3>6. attempts' \in [Keys -> Nat] /\ trouble' \in 0..MaxTrouble
      BY <1>13, UndoneKeeps DEF Crash, TypeOK
    <3> QED BY <1>13, <3>1, <3>2, <3>3, <3>4, <3>5, <3>6 DEF TypeOK, Crash
  <2>2. LockInv'
    BY <1>13 DEF TypeOK, LockInv, Crash, TickHolds, NoRunHolds, RunHolds, CallRecord, RunRecord, Calling, Idle, NoRun, NoRows
  <2>3. CountInv'
    BY <1>13 DEF TypeOK, LockInv, CountInv, Crash, TickHolds, NoRunHolds, RunHolds, Row, CallRecord, RunRecord, Calling, Idle, NoRun, NoRows
  <2>4. ~caller'[Tick].missed
    BY <1>13 DEF TypeOK, Crash, CallRecord, Idle
  <2>5. AttemptInv'
    BY <1>13, UndoneKeeps DEF Crash, Calling, Idle, TickHolds, AttemptInv
  <2> QED BY <2>1, <2>2, <2>3, <2>4, <2>5
<1>14. ASSUME NEW b \in Beats, NEW s \in Sources, BeatStarts(b, s) PROVE IInv'
  <2> DEFINE r == [NoRun EXCEPT !.at = "fetching", !.src = s]
  <2>1. run[b] \in RunRecord /\ NoRows \in [Keys -> Row \cup {Nothing}]
    BY DEF TypeOK, NoRows
  <2>2. r \in RunRecord
    BY <1>14, <2>1 DEF RunRecord, NoRun
  <2>3. run' = [run EXCEPT ![b] = r] /\ UNCHANGED <<row, enabled, todo, caller, attempts, stops, trouble>>
    BY <1>14, <2>1 DEF BeatStarts, TypeOK, RunRecord
  <2>4. /\ b \in Retriers => (r.at = "none" <=> run[b].at = "none")
        /\ r.at \in {"none", "ended"} <=> r.src = Nothing
        /\ r.at = "recording" <=> r.key # Nothing
    BY <1>14, <2>1 DEF BeatStarts, TypeOK, RunRecord, NoRun
  <2>5. \A x \in Keys : r.pend[x] # Nothing => ~TickHolds(x) /\ r.pend[x].count = row[x].count
    BY <1>14, <2>1 DEF LockInv, CountInv, NoRunHolds, RunHolds, RunRecord, NoRun, NoRows
  <2> HIDE DEF r
  <2> QED BY <2>2, <2>3, <2>4, <2>5, RunChange
<1>15. ASSUME NEW c \in Runners, NEW stage \in {"details", "closing"}, run[c].at \in {"fetching", "details"}, Goes(c, stage) PROVE IInv'
  <2> DEFINE r == [run[c] EXCEPT !.at = stage]
  <2>1. run[c] \in RunRecord /\ NoRows \in [Keys -> Row \cup {Nothing}]
    BY DEF TypeOK, NoRows
  <2>2. r \in RunRecord
    BY <1>15, <2>1 DEF RunRecord, NoRun
  <2>3. run' = [run EXCEPT ![c] = r] /\ UNCHANGED <<row, enabled, todo, caller, attempts, stops, trouble>>
    BY <1>15, <2>1 DEF Goes, TypeOK, RunRecord
  <2>4. /\ c \in Retriers => (r.at = "none" <=> run[c].at = "none")
        /\ r.at \in {"none", "ended"} <=> r.src = Nothing
        /\ r.at = "recording" <=> r.key # Nothing
    BY <1>15, <2>1 DEF Goes, TypeOK, RunRecord, NoRun
  <2>5. \A x \in Keys : r.pend[x] # Nothing => ~TickHolds(x) /\ r.pend[x].count = row[x].count
    BY <1>15, <2>1 DEF LockInv, CountInv, NoRunHolds, RunHolds, RunRecord, NoRun, NoRows
  <2> HIDE DEF r
  <2> QED BY <2>2, <2>3, <2>4, <2>5, RunChange
<1>16. ASSUME NEW c \in Runners, NEW k \in Keys, NEW b \in BOOLEAN, NEW ok \in BOOLEAN, run[c].at \in {"fetching", "details"}, Reports(c, k, b, ok) PROVE IInv'
  <2> DEFINE r == [run[c] EXCEPT !.at = "recording", !.key = k, !.blocked = b, !.ok = ok]
  <2>1. run[c] \in RunRecord /\ NoRows \in [Keys -> Row \cup {Nothing}]
    BY DEF TypeOK, NoRows
  <2>2. r \in RunRecord
    BY <1>16, <2>1 DEF RunRecord, NoRun
  <2>3. run' = [run EXCEPT ![c] = r] /\ UNCHANGED <<row, enabled, todo, caller, attempts, stops, trouble>>
    BY <1>16, <2>1 DEF Reports, TypeOK, RunRecord
  <2>4. /\ c \in Retriers => (r.at = "none" <=> run[c].at = "none")
        /\ r.at \in {"none", "ended"} <=> r.src = Nothing
        /\ r.at = "recording" <=> r.key # Nothing
    BY <1>16, <2>1 DEF Reports, TypeOK, RunRecord, NoRun
  <2>5. \A x \in Keys : r.pend[x] # Nothing => ~TickHolds(x) /\ r.pend[x].count = row[x].count
    BY <1>16, <2>1 DEF LockInv, CountInv, NoRunHolds, RunHolds, RunRecord, NoRun, NoRows
  <2> HIDE DEF r
  <2> QED BY <2>2, <2>3, <2>4, <2>5, RunChange
<1>17. ASSUME NEW c \in Runners, Record(c) PROVE IInv'
  <2> DEFINE k == run[c].key
             seen == IF RunHolds(c, k) THEN run[c].pend[k] ELSE row[k]
             done == Upsert(seen, run[c].blocked, ~run[c].ok)
             r == [run[c] EXCEPT !.at = IF run[c].ok THEN "details" ELSE "closing",
                                 !.key = Nothing, !.pend = [@ EXCEPT ![k] = done]]
  <2>1. run[c] \in RunRecord /\ k \in Keys /\ run[c].pend \in [Keys -> Row \cup {Nothing}]
    BY <1>17 DEF Record, TypeOK, RunRecord
  <2>2. seen \in Row /\ seen.count = row[k].count
    BY <2>1 DEF RunHolds, TypeOK, CountInv
  <2>3. done \in Row /\ done.count = row[k].count
    <3> HIDE DEF seen
    <3> QED BY <2>1, <2>2 DEF Upsert, Row, Statuses, RunRecord
  <2>4. run' = [run EXCEPT ![c] = r] /\ UNCHANGED <<row, enabled, todo, caller, attempts, stops, trouble>>
    BY <1>17, <2>1 DEF Record, TypeOK, RunRecord
  <2>5. /\ r \in RunRecord
        /\ r.at \in {"details", "closing"} /\ r.key = Nothing /\ r.src = run[c].src
        /\ r.pend = [run[c].pend EXCEPT ![k] = done]
    <3> HIDE DEF done, k
    <3> QED BY <2>1, <2>3 DEF RunRecord
  <2>6. /\ c \in Retriers => (r.at = "none" <=> run[c].at = "none")
        /\ r.at \in {"none", "ended"} <=> r.src = Nothing
        /\ r.at = "recording" <=> r.key # Nothing
    <3> HIDE DEF r
    <3> QED BY <1>17, <2>5 DEF Record, TypeOK
  <2>7. \A x \in Keys : r.pend[x] # Nothing => ~TickHolds(x) /\ r.pend[x].count = row[x].count
    <3>1. ~TickHolds(k)
      BY <1>17 DEF Record, FreeFor
    <3> HIDE DEF r, done, k
    <3> QED BY <3>1, <2>1, <2>3, <2>5 DEF LockInv, CountInv, NoRunHolds, RunHolds
  <2> HIDE DEF r
  <2> QED BY <2>4, <2>5, <2>6, <2>7, RunChange
<1>18. ASSUME NEW c \in Runners, CommitRun(c) PROVE IInv'
  BY <1>18, RunEnds DEF CommitRun, TypeOK, RunRecord
<1>19. ASSUME NEW c \in Runners, RunRaises(c) PROVE IInv'
  BY <1>19, RunEnds DEF RunRaises
<1>20. ASSUME NEW c \in Runners, RunStep(c) PROVE IInv'
  <2>1. ASSUME NEW b \in BOOLEAN, FirstPageFails(c, b) \/ LaterPageFails(c, b) \/ LaterTermFails(c, b) PROVE IInv'
    <3>1. run[c].src \in Keys
      BY <2>1 DEF FirstPageFails, LaterPageFails, LaterTermFails, TypeOK, RunRecord
    <3> QED BY <2>1, <3>1, <1>16 DEF FirstPageFails, LaterPageFails, LaterTermFails
  <2>2. ASSUME NEW u \in Urls, DetailBlocked(c, u) PROVE IInv'
    BY <2>2, <1>16 DEF DetailBlocked
  <2>3. CASE PagesFetched(c) \/ AllRecorded(c)
    BY <2>3, <1>15 DEF PagesFetched, AllRecorded
  <2> HIDE DEF IInv
  <2> QED BY <1>20, <2>1, <2>2, <2>3, <1>18, <1>19 DEF RunStep
<1>21. CASE UNCHANGED vars
  BY <1>21 DEF vars, TypeOK, LockInv, CountInv, AttemptInv, TickHolds, NoRunHolds, RunHolds
<1> HIDE DEF IInv
<1> QED
  BY <1>1, <1>2, <1>3, <1>4, <1>5, <1>6, <1>7, <1>8, <1>9, <1>10, <1>11, <1>12, <1>13, <1>14, <1>17, <1>20, <1>21
     DEF Next, TickStep, RetryStep

\* The inductive invariant: the state is well formed, no run writes the row
\* that the job holds, and every copy of a retry_count is current, from the
\* scan of dlq/retry.py to the commit of perform_retry.
THEOREM DeadLetterInvariance == Spec => []IInv
  BY InitIInv, StepIInv, PTL DEF Spec

\* The types of every reachable state (the records of DeadLetterRetry).
THEOREM DeadLetterTypeCorrect == Spec => []TypeOK
  BY DeadLetterInvariance, PTL DEF IInv

\* What the job resolves is never a failure newer than the one it retried:
\* its flushed retry_count locks the row (retry.py:207-209).
THEOREM NoNewerFailureLost == Spec => []TickSeesEveryFailure
<1>1. IInv => TickSeesEveryFailure
  BY DEF IInv, TickSeesEveryFailure
<1> QED BY <1>1, DeadLetterInvariance, PTL

\* detail_retry_max_attempts bounds the job's attempts at every row that were not
\* rolled back, the one in flight included: the count it compares is as many
\* minutes old as its scan, and still the number of these attempts.
THEOREM AttemptsBounded == Spec => []BudgetRespected
<1>1. IInv => BudgetRespected
  <2>1. SUFFICES ASSUME IInv, NEW k \in Keys PROVE attempts[k] <= MaxAttempts
    BY DEF BudgetRespected
  <2>2. row[k].count \in Nat /\ row[k].count <= MaxAttempts
    BY <2>1 DEF IInv, TypeOK, CountInv, Row
  <2>3. TickHolds(k) => row[k].count < MaxAttempts
    BY <2>1 DEF IInv, CountInv, TickHolds
  <2>4. attempts[k] = IF TickHolds(k) THEN row[k].count + 1 ELSE row[k].count
    BY <2>1 DEF IInv, AttemptInv
  <2> QED BY <2>2, <2>3, <2>4
<1> QED BY <1>1, DeadLetterInvariance, PTL

\* A commit of a run writes the retry_counts it found.
LEMMA ApplyKeepsCounts ==
  ASSUME IInv, NEW c \in Runners, Apply(run[c].pend)
  PROVE  \A k \in Keys : row'[k].count = row[k].count
<1>1. run[c].pend \in [Keys -> Row \cup {Nothing}]
  BY DEF IInv, TypeOK, RunRecord
<1> QED BY <1>1 DEF Apply, IInv, TypeOK, CountInv, RunHolds

\* No step lowers a retry_count: the job writes back the count it scanned,
\* plus one, and that count is current; no one else writes another count.
LEMMA StepKeepsAttempts ==
  ASSUME IInv, [Next]_vars
  PROVE  \A k \in Keys : row'[k].count >= row[k].count
<1> DEFINE Kept == \A k \in Keys : row'[k].count >= row[k].count
<1>1. \A k \in Keys : row[k] \in Row /\ row[k].count \in Nat
  BY DEF IInv, TypeOK, Row
<1>2. CASE UNCHANGED row
  BY <1>1, <1>2
<1>3. CASE TickAbandons
  BY <1>1, <1>3 DEF TickAbandons, IInv, TypeOK, Row
<1>4. ASSUME NEW k \in Keys, Age(k) PROVE Kept
  BY <1>1, <1>4 DEF Age, IInv, TypeOK, Row
<1>5. ASSUME NEW c \in Retriers, Finish(c) PROVE Kept
  <2> DEFINE k == caller[c].key
             r == CommitRow(c, k)
  <2>1. k \in Keys /\ row' = [row EXCEPT ![k] = r]
    BY <1>5 DEF Finish, IInv, TypeOK, CallRecord
  <2>2. c = Tick => caller[c].count = row[k].count
    BY <2>1 DEF IInv, CountInv
  <2>3. r.count = IF c = Tick THEN caller[c].count + 1 ELSE row[k].count
    BY <1>1, <2>1 DEF CommitRow, Row
  <2>4. r.count >= row[k].count
    BY <1>1, <2>1, <2>2, <2>3
  <2> HIDE DEF r, k
  <2> QED BY <1>1, <2>1, <2>4 DEF IInv, TypeOK
<1>6. ASSUME NEW c \in Runners, RunStep(c), row' # row PROVE Kept
  <2>1. Apply(run[c].pend)
    BY <1>6 DEF RunStep, FirstPageFails, LaterPageFails, LaterTermFails, Reports, PagesFetched,
                AllRecorded, Goes, DetailBlocked, CommitRun, RunRaises
  <2> QED BY <1>1, <2>1, ApplyKeepsCounts
<1>7. ASSUME Next, row' # row,
             ~TickAbandons,
             \A k \in Keys : ~Age(k),
             \A c \in Retriers : ~Finish(c),
             \A c \in Runners : ~RunStep(c)
      PROVE  FALSE
  BY <1>7 DEF Next, TickStep, TickScans, TickSpends, TickPicks, UserLoads, RetryStep, StartRun,
              Refused, FetchRaises, RunReturns, FetchDetail, BeatStarts, Record, SetEnabled, Crash
<1> QED BY <1>2, <1>3, <1>4, <1>5, <1>6, <1>7 DEF vars

\* No attempt at a row is ever forgotten (the retry_count of
\* ingestion_failures only grows).
THEOREM AttemptsKept == Spec => AttemptsNeverForgotten
<1>1. IInv /\ [Next]_vars => [\A k \in Keys : row'[k].count >= row[k].count]_vars
  BY StepKeepsAttempts
<1> QED BY <1>1, DeadLetterInvariance, PTL DEF Spec, AttemptsNeverForgotten
=============================================================================
