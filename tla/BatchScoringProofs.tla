------------------------ MODULE BatchScoringProofs ------------------------
(***************************************************************************)
(* Proofs about BatchScoring, for every set of callers, retriers, offers   *)
(* and profiles and every limit.                                           *)
(***************************************************************************)
EXTENDS BatchScoring, FiniteSetTheorems, SequenceTheorems, TLAPS

\* The inductive invariant: the types need to know that a batch that leaves
\* the lock holds it, and that a committed score has a profile and its data.
IInv == TypeOK /\ LockInv /\ WorkInv

\* Inserting scores of known data keeps match_scores well formed
\* (score_offers_with_langchain, _retry_scoring_failed).
LEMMA WithScoresType ==
    ASSUME TypeOK, NEW S, NEW p, NEW d, S = {} \/ d \in Datas
    PROVE  WithScores(S, p, d) \in [Offers \X Profiles -> Seq(Datas)]
<1>1. SUFFICES ASSUME NEW op \in Offers \X Profiles
               PROVE  (IF op[1] \in S /\ op[2] = p THEN Append(scores[op], d) ELSE scores[op])
                        \in Seq(Datas)
    BY DEF WithScores
<1>2. scores[op] \in Seq(Datas)
    BY DEF TypeOK
<1>3. CASE S = {}
    BY <1>2, <1>3
<1>4. CASE d \in Datas
    BY <1>2, <1>4, AppendProperties
<1>5. QED
    BY <1>3, <1>4

\* Opening or resolving dead letters keeps scoring_failures well formed
\* (record_failure, perform_retry).
LEMMA WithFailuresType ==
    ASSUME TypeOK, NEW S, NEW p, NEW status \in {"open", "resolved"}
    PROVE  WithFailures(S, p, status) \in [Offers \X Profiles -> {"none", "open", "resolved"}]
    BY DEF WithFailures, TypeOK

\* Leaving the lock keeps the queue well formed (`async with _scoring_lock`).
LEMMA ReleaseType ==
    ASSUME TypeOK, NEW c \in Callers, HasLock(c), Release
    PROVE  queue' \in Seq(Callers)
    BY HeadTailProperties DEF TypeOK, HasLock, Release

\* A batch is never larger than a natural number can say (ScoringProgress).
LEMMA PageSize ==
    ASSUME NEW c \in Callers
    PROVE  Cardinality(Page(c)) \in Nat
    BY OffersAssumption, FS_Subset, FS_CardinalityType DEF Page

\* The tables and in-memory state start well formed (_progress, _scoring_lock).
LEMMA InitInv == Init => IInv
<1>1. SUFFICES ASSUME Init PROVE IInv
    OBVIOUS
<1>2. TypeOK
    BY <1>1, EmptySeq DEF Init, TypeOK, Stages, Results
<1>3. LockInv
    BY <1>1 DEF Init, LockInv, Locked
<1>4. WorkInv
    BY <1>1 DEF Init, WorkInv, Locked
<1>5. QED
    BY <1>2, <1>3, <1>4 DEF IInv

\* Every step keeps every variable in its range (the handlers of
\* app/scoring/batch.py, app/dlq/retry.py and app/db/profile_repo.py).
LEMMA TypeStep == IInv /\ [Next]_vars => TypeOK'
<1>1. SUFFICES ASSUME TypeOK, LockInv, WorkInv, [Next]_vars PROVE TypeOK'
    BY DEF IInv
<1> USE <1>1 DEF TypeOK, vars, dbVars, batchVars, auxVars, Stages, Results
<1>2. ASSUME NEW c \in Callers, Request(c) PROVE TypeOK'
    BY <1>2, AppendProperties DEF Request
<1>3. ASSUME NEW c \in Callers, StartWithoutProfile(c) PROVE TypeOK'
    BY <1>3, ReleaseType DEF StartWithoutProfile
<1>4. ASSUME NEW c \in Callers, Start(c) PROVE TypeOK'
    BY <1>4 DEF Start
<1>5. ASSUME NEW c \in Callers, Scan(c) PROVE TypeOK'
  <2>1. result' \in [Callers -> [Offers -> Results]]
    BY <1>5 DEF Scan
  <2>2. contested' \subseteq Offers \X Profiles
    <3>1. profileOf[c] \in Profiles
      BY <1>5 DEF Scan, WorkInv, Locked
    <3>2. Newest(Candidates(profileOf[c]), BatchLimit) \subseteq Offers
      BY DEF Newest, Candidates
    <3>3. QED
      BY <1>5, <3>1, <3>2 DEF Scan
  <2>3. QED
    BY <1>5, <2>1, <2>2 DEF Scan
<1>6. ASSUME NEW c \in Callers, Hydrate(c) PROVE TypeOK'
    BY <1>6, PageSize DEF Hydrate
<1>7. ASSUME NEW c \in Callers, HydrateRaises(c) PROVE TypeOK'
    BY <1>7, ReleaseType DEF HydrateRaises, LockInv, Locked
<1>8. ASSUME NEW c \in Callers, NEW o \in Offers, Call(c, o) PROVE TypeOK'
    BY <1>8 DEF Call
<1>9. ASSUME NEW c \in Callers, NEW o \in Offers, NEW r \in {"scored", "failed"}, Answer(c, o, r)
      PROVE  TypeOK'
  <2>1. progress' \in [running : BOOLEAN, processed : Nat, total : Nat]
    <3> DEFINE n == progress.processed + 1
    <3>1. n \in Nat
        OBVIOUS
    <3>2. progress' = [progress EXCEPT !.processed = n]
        BY <1>9 DEF Answer
    <3> HIDE DEF n
    <3>3. QED
        BY <3>1, <3>2
  <2>2. result' \in [Callers -> [Offers -> Results]]
    BY <1>9 DEF Answer
  <2>3. QED
    BY <1>9, <2>1, <2>2 DEF Answer
<1>10. ASSUME NEW c \in Callers, Flush(c) \/ FlushRaises(c) \/ FlushLoses(c) PROVE TypeOK'
    BY <1>10, ReleaseType DEF Flush, FlushRaises, FlushLoses, Answered, LockInv, Locked
<1>11. ASSUME NEW c \in Callers, Commit(c) PROVE TypeOK'
  <2>1. In(c, "scored") = {} \/ dataOf[c] \in Datas
    BY DEF WorkInv, In
  <2>2. scores' \in [Offers \X Profiles -> Seq(Datas)]
    BY <1>11, <2>1, WithScoresType DEF Commit
  <2>3. failure' \in [Offers \X Profiles -> {"none", "open", "resolved"}]
    BY <1>11, WithFailuresType DEF Commit
  <2>4. QED
    BY <1>11, <2>2, <2>3 DEF Commit, Forget
<1>12. ASSUME NEW c \in Callers, RollBack(c) PROVE TypeOK'
    BY <1>12 DEF RollBack, Forget
<1>13. ASSUME NEW o \in Offers, Ingest(o) PROVE TypeOK'
    BY <1>13 DEF Ingest
<1>14. ASSUME NEW p \in Profiles, NEW d \in Datas, NEW activate \in BOOLEAN,
              PutProfile(p, d, activate)
       PROVE  TypeOK'
    BY <1>14, EmptySeq DEF PutProfile
<1>15. ASSUME NEW o \in Offers, DeleteOffers(o + 1) PROVE TypeOK'
    BY <1>15, EmptySeq DEF DeleteOffers
<1>16. ASSUME NEW r \in Retriers, NEW o \in Offers, NEW p \in Profiles, RetryStart(r, o, p)
       PROVE  TypeOK'
    BY <1>16 DEF RetryStart, RetryJob
<1>17. ASSUME NEW r \in Retriers, RetrySucceeds(r) PROVE TypeOK'
  <2>1. retry[r] \in RetryJob
    BY <1>17 DEF RetrySucceeds
  <2>2. scores' \in [Offers \X Profiles -> Seq(Datas)]
    BY <1>17, <2>1, WithScoresType DEF RetrySucceeds, RetryJob
  <2>3. failure' \in [Offers \X Profiles -> {"none", "open", "resolved"}]
    BY <1>17, WithFailuresType DEF RetrySucceeds
  <2>4. QED
    BY <1>17, <2>2, <2>3 DEF RetrySucceeds
<1>18. ASSUME NEW r \in Retriers, RetryFails(r) PROVE TypeOK'
    BY <1>18 DEF RetryFails
<1>19. CASE Crash
    BY <1>19, EmptySeq DEF Crash
<1>20. CASE UNCHANGED vars
    BY <1>20
<1> HIDE DEF TypeOK, vars, dbVars, batchVars, auxVars, Stages, Results
<1>21. QED
    BY <1>2, <1>3, <1>4, <1>5, <1>6, <1>7, <1>8, <1>9, <1>10, <1>11, <1>12, <1>13, <1>14,
       <1>15, <1>16, <1>17, <1>18, <1>19, <1>20
    DEF Next, Run, Environment

\* Two holders of the lock are both the head of its queue (_scoring_lock).
LEMMA LockExcludes == LockInv => OneBatchAtATime
    BY DEF LockInv, HasLock, OneBatchAtATime

\* Every step leaves the batch that runs at the head of the queue: waiters
\* join behind it, and the head leaves only with its batch (_scoring_lock).
LEMMA LockStep == IInv /\ [Next]_vars => LockInv'
<1>1. SUFFICES ASSUME TypeOK, LockInv, [Next]_vars,
                      NEW d \in Callers, pc'[d] \in Locked
               PROVE  HasLock(d)'
    BY DEF IInv, LockInv
<1>2. CASE UNCHANGED <<pc, queue>>
    BY <1>1, <1>2 DEF LockInv, HasLock
<1>3. ASSUME NEW c \in Callers, Request(c) PROVE HasLock(d)'
  <2>1. d # c /\ pc[d] \in Locked /\ HasLock(d)
    BY <1>1, <1>3 DEF Request, TypeOK, LockInv, Locked
  <2>2. queue \in Seq(Callers) /\ queue # << >> /\ Head(queue) = d /\ queue' = Append(queue, c)
    BY <1>1, <1>3, <2>1 DEF Request, HasLock, TypeOK
  <2>3. queue' # << >> /\ Head(queue') = d
    BY <2>2, AppendProperties
  <2>4. QED
    BY <2>3 DEF HasLock
<1>4. ASSUME NEW c \in Callers, UNCHANGED queue, pc'[c] \in Locked => HasLock(c),
             \A e \in Callers \ {c} : pc'[e] = pc[e]
      PROVE  HasLock(d)'
    BY <1>1, <1>4 DEF LockInv, HasLock
<1>5. ASSUME NEW c \in Callers, Start(c) \/ Scan(c) \/ Hydrate(c) PROVE HasLock(d)'
    BY <1>1, <1>4, <1>5 DEF Start, Scan, Hydrate, TypeOK, LockInv, Locked
<1>6. ASSUME NEW c \in Callers, Commit(c) \/ RollBack(c) PROVE HasLock(d)'
    BY <1>1, <1>4, <1>6 DEF Commit, RollBack, TypeOK, Locked
<1>7. ASSUME NEW c \in Callers, HasLock(c), pc'[c] \notin Locked,
             \A e \in Callers \ {c} : pc'[e] = pc[e]
      PROVE  HasLock(d)'
    BY <1>1, <1>7 DEF LockInv, HasLock
<1>8. ASSUME NEW c \in Callers, StartWithoutProfile(c) \/ HydrateRaises(c) PROVE HasLock(d)'
    BY <1>1, <1>7, <1>8 DEF StartWithoutProfile, HydrateRaises, TypeOK, LockInv, Locked
<1>9. ASSUME NEW c \in Callers, Flush(c) \/ FlushRaises(c) \/ FlushLoses(c) PROVE HasLock(d)'
    BY <1>1, <1>7, <1>9 DEF Flush, FlushRaises, FlushLoses, Answered, TypeOK, LockInv, Locked
<1>10. CASE Crash
    BY <1>1, <1>10 DEF Crash, Locked
<1>11. ASSUME NEW c \in Callers, NEW o \in Offers, NEW r \in {"scored", "failed"},
              Call(c, o) \/ Answer(c, o, r)
       PROVE  HasLock(d)'
    BY <1>2, <1>11 DEF Call, Answer
<1>12. CASE Environment
    BY <1>2, <1>10, <1>12
    DEF Environment, Ingest, PutProfile, DeleteOffers, RetryStart, RetrySucceeds, RetryFails,
        batchVars
<1>13. CASE UNCHANGED vars
    BY <1>2, <1>13 DEF vars, batchVars
<1>14. QED
    BY <1>1, <1>3, <1>5, <1>6, <1>8, <1>9, <1>11, <1>12, <1>13 DEF Next, Run

\* Every step keeps a page only where a profile was read (the locals of
\* _run_batch_scoring_locked).
LEMMA WorkStep == IInv /\ [Next]_vars => WorkInv'
<1>1. SUFFICES ASSUME TypeOK, WorkInv, [Next]_vars PROVE WorkInv'
    BY DEF IInv
<1>2. CASE UNCHANGED <<pc, profileOf, dataOf, result>>
    BY <1>1, <1>2 DEF WorkInv
<1>3. ASSUME NEW c \in Callers, Request(c) \/ StartWithoutProfile(c) PROVE WorkInv'
    BY <1>1, <1>3 DEF Request, StartWithoutProfile, WorkInv, TypeOK, Locked
<1>4. ASSUME NEW c \in Callers, Start(c) PROVE WorkInv'
  <2>1. active \in Profiles /\ data[active] \in Datas
    BY <1>1, <1>4 DEF Start, TypeOK
  <2>2. active # None /\ data[active] # None
    BY <2>1, ProfilesAssumption
  <2>3. QED
    BY <1>1, <1>4, <2>2 DEF Start, WorkInv, TypeOK, Locked
<1>5. ASSUME NEW c \in Callers, Scan(c) PROVE WorkInv'
  <2>1. /\ profileOf[c] # None
        /\ \A e \in Callers \ {c} : result'[e] = result[e]
    BY <1>1, <1>5 DEF Scan, WorkInv, Locked, TypeOK
  <2>2. /\ pc' = [pc EXCEPT ![c] = "scanned"]
        /\ pc[c] = "started"
        /\ UNCHANGED <<profileOf, dataOf>>
    BY <1>5 DEF Scan
  <2>3. QED
    BY <1>1, <2>1, <2>2 DEF WorkInv, TypeOK, Locked
<1>6. ASSUME NEW c \in Callers, Hydrate(c) \/ HydrateRaises(c) PROVE WorkInv'
    BY <1>1, <1>6 DEF Hydrate, HydrateRaises, WorkInv, TypeOK, Locked
<1>7. ASSUME NEW c \in Callers, NEW o \in Offers, NEW r \in {"scored", "failed"},
             Call(c, o) \/ Answer(c, o, r)
      PROVE  WorkInv'
  <2>1. /\ profileOf[c] # None
        /\ \A e \in Callers \ {c} : result'[e] = result[e]
    BY <1>1, <1>7 DEF Call, Answer, WorkInv, Locked, TypeOK
  <2>2. UNCHANGED <<pc, profileOf, dataOf>>
    BY <1>7 DEF Call, Answer
  <2>3. QED
    BY <1>1, <2>1, <2>2 DEF WorkInv
<1>8. ASSUME NEW c \in Callers, Flush(c) \/ FlushRaises(c) \/ FlushLoses(c) PROVE WorkInv'
    BY <1>1, <1>8 DEF Flush, FlushRaises, FlushLoses, Answered, WorkInv, TypeOK, Locked
<1>9. ASSUME NEW c \in Callers, Commit(c) \/ RollBack(c) PROVE WorkInv'
  <2>1. pc' = [pc EXCEPT ![c] = "idle"] /\ Forget(c)
    BY <1>9 DEF Commit, RollBack
  <2>2. QED
    BY <1>1, <2>1 DEF Forget, WorkInv, TypeOK, Locked
<1>10. CASE Crash
    BY <1>10 DEF Crash, WorkInv, Locked
<1>11. CASE Environment
    BY <1>2, <1>10, <1>11
    DEF Environment, Ingest, PutProfile, DeleteOffers, RetryStart, RetrySucceeds, RetryFails,
        batchVars
<1>12. CASE UNCHANGED vars
    BY <1>2, <1>12 DEF vars, batchVars
<1>13. QED
    BY <1>1, <1>3, <1>4, <1>5, <1>6, <1>7, <1>8, <1>9, <1>11, <1>12 DEF Next, Run

\* The inductive invariant holds in every reachable state (the whole module).
THEOREM Invariance == Spec => []IInv
<1>1. IInv /\ [Next]_vars => IInv'
    BY TypeStep, LockStep, WorkStep DEF IInv
<1>2. QED
    BY <1>1, InitInv, PTL DEF Spec

\* Every variable stays in its range, for every size of the instance
\* (app/db/models.py, ScoringProgress).
THEOREM TypeCorrect == Spec => []TypeOK
    BY Invariance, PTL DEF IInv

\* No two batches are ever between their first read and their flush together,
\* however many callers there are (_scoring_lock).
THEOREM MutualExclusion == Spec => []OneBatchAtATime
<1>1. IInv => OneBatchAtATime
    BY LockExcludes DEF IInv
<1>2. QED
    BY <1>1, Invariance, PTL

\* If all of a sequence equals v and not all of it once e is appended, then
\* e is not v (the rows of match_scores for one offer and profile).
LEMMA AppendedDiffers ==
    ASSUME NEW S, NEW s \in Seq(S), NEW e \in S, NEW v,
           \A i \in 1..Len(s) : s[i] = v,
           \E i \in 1..Len(Append(s, e)) : Append(s, e)[i] # v
    PROVE  e # v
<1>1. /\ Len(Append(s, e)) = Len(s) + 1
      /\ \A i \in 1..Len(s) : Append(s, e)[i] = s[i]
      /\ Append(s, e)[Len(s) + 1] = e
    BY AppendProperties
<1>2. PICK i \in 1..Len(Append(s, e)) : Append(s, e)[i] # v
    OBVIOUS
<1>3. i \in 1..Len(s) \/ i = Len(s) + 1
    BY <1>1, LenProperties
<1>4. QED
    BY <1>1, <1>2, <1>3

\* While a profile stays active, only a batch or a retry that read it before
\* its last edit can leave a stale score behind (upsert_profile).
THEOREM StaleScoresComeLate == Spec => OnlyLateWritersLeaveStaleScores
<1> DEFINE A == \A o \in Offers, p \in Profiles :
                   active = p /\ active' = p /\ ~ Stale(o, p) /\ Stale(o, p)' => LateWriter(p)
<1>1. ASSUME TypeOK, WorkInv, [Next]_vars PROVE A
  <2>1. SUFFICES ASSUME NEW o \in Offers, NEW p \in Profiles,
                        active = p, active' = p, ~ Stale(o, p), Stale(o, p)'
                 PROVE  LateWriter(p)
    OBVIOUS
  <2>2. <<o, p>> \in Offers \X Profiles /\ scores[<<o, p>>] \in Seq(Datas)
    BY <1>1 DEF TypeOK
  <2>3. CASE scores'[<<o, p>>] = scores[<<o, p>>] /\ data'[p] = data[p]
    BY <2>1, <2>3 DEF Stale
  <2>4. CASE scores'[<<o, p>>] = << >>
    <3>1. Len(<< >>) = 0
        BY EmptySeq
    <3>2. QED
        BY <2>1, <2>4, <3>1 DEF Stale
  <2>5. ASSUME NEW d \in Datas, scores'[<<o, p>>] = Append(scores[<<o, p>>], d), data'[p] = data[p]
        PROVE  d # data[p]
    <3>1. \A i \in 1..Len(scores[<<o, p>>]) : scores[<<o, p>>][i] = data[p]
        BY <2>1 DEF Stale
    <3>2. \E i \in 1..Len(Append(scores[<<o, p>>], d)) : Append(scores[<<o, p>>], d)[i] # data[p]
        BY <2>1, <2>5 DEF Stale
    <3>3. QED
        BY <2>2, <3>1, <3>2, AppendedDiffers
  <2>6. ASSUME NEW c \in Callers, Commit(c) PROVE LateWriter(p)
    <3>1. CASE o \in In(c, "scored") /\ profileOf[c] = p
      <4>1. dataOf[c] \in Datas
        BY <1>1, <3>1, ProfilesAssumption DEF WorkInv, TypeOK
      <4>2. scores'[<<o, p>>] = Append(scores[<<o, p>>], dataOf[c]) /\ data'[p] = data[p]
        BY <2>2, <2>6, <3>1 DEF Commit, WithScores
      <4>3. QED
        BY <2>5, <3>1, <4>1, <4>2 DEF LateWriter
    <3>2. CASE ~ (o \in In(c, "scored") /\ profileOf[c] = p)
      BY <2>2, <2>3, <2>6, <3>2 DEF Commit, WithScores
    <3>3. QED
      BY <3>1, <3>2
  <2>7. ASSUME NEW r \in Retriers, RetrySucceeds(r) PROVE LateWriter(p)
    <3>1. retry[r] \in RetryJob /\ retry[r] # None
      BY <1>1, <2>7 DEF RetrySucceeds, TypeOK
    <3>2. CASE o = retry[r].offer /\ retry[r].profile = p
      <4>1. retry[r].data \in Datas
        BY <3>1 DEF RetryJob
      <4>2. scores'[<<o, p>>] = Append(scores[<<o, p>>], retry[r].data) /\ data'[p] = data[p]
        BY <2>2, <2>7, <3>2 DEF RetrySucceeds, WithScores
      <4>3. QED
        BY <2>5, <3>1, <3>2, <4>1, <4>2 DEF LateWriter
    <3>3. CASE ~ (o = retry[r].offer /\ retry[r].profile = p)
      BY <2>2, <2>3, <2>7, <3>3 DEF RetrySucceeds, WithScores
    <3>4. QED
      BY <3>2, <3>3
  <2>8. ASSUME NEW q \in Profiles, NEW d \in Datas, NEW activate \in BOOLEAN,
               PutProfile(q, d, activate)
        PROVE  LateWriter(p)
    <3>1. CASE q = p /\ data[p] # d
      BY <2>1, <2>2, <2>4, <2>8, <3>1 DEF PutProfile
    <3>2. CASE ~ (q = p /\ data[p] # d)
      BY <1>1, <2>2, <2>3, <2>8, <3>2 DEF PutProfile, TypeOK
    <3>3. QED
      BY <3>1, <3>2
  <2>9. ASSUME NEW cutoff \in Nat, DeleteOffers(cutoff) PROVE LateWriter(p)
    BY <2>2, <2>3, <2>4, <2>9 DEF DeleteOffers
  <2>10. CASE UNCHANGED <<scores, data>>
    BY <2>3, <2>10
  <2>11. ASSUME NEW c \in Callers, Request(c) \/ Run(c), ~ Commit(c) PROVE LateWriter(p)
    BY <2>10, <2>11
    DEF Request, Run, StartWithoutProfile, Start, Scan, Hydrate, HydrateRaises, Call, Answer,
        Flush, FlushRaises, FlushLoses, RollBack, dbVars
  <2>12. CASE Environment
    <3>1. \A n \in Offers : n + 1 \in Nat
      BY OffersAssumption
    <3>2. QED
      BY <2>7, <2>8, <2>9, <2>10, <2>12, <3>1
      DEF Environment, Ingest, RetryStart, RetryFails, Crash, dbVars
  <2>13. CASE UNCHANGED vars
    BY <2>10, <2>13 DEF vars, dbVars
  <2>14. QED
    BY <1>1, <2>6, <2>11, <2>12, <2>13 DEF Next
<1>2. IInv /\ [Next]_vars => [A]_vars
    BY <1>1 DEF IInv
<1>3. QED
    BY <1>2, Invariance, PTL DEF Spec, OnlyLateWritersLeaveStaleScores

-----------------------------------------------------------------------------
(* Verdicts.  A pair that is not contested is in one pair of hands at most, *)
(* and whoever has it found it without a score: the three exclusions of the *)
(* scan, and the dead letter as the retry read it, hold until the commit.   *)

\* What holds of an offer and profile that is not contested.
Verdict(o, p) ==
    /\ Len(scores[<<o, p>>]) <= 1
    /\ failure[<<o, p>>] = "open" => scores[<<o, p>>] = << >>
    /\ \A c \in Callers : BatchHas(c, o, p) =>
        /\ scores[<<o, p>>] = << >>
        /\ failure[<<o, p>>] # "open"
        /\ \A d \in Callers : BatchHas(d, o, p) => d = c
        /\ \A r \in Retriers : ~ RetryHas(r, o, p)
    /\ \A r \in Retriers : RetryHas(r, o, p) =>
        /\ scores[<<o, p>>] = << >>
        /\ failure[<<o, p>>] = retry[r].status \/ o \in deleted
        /\ \A s \in Retriers : RetryHas(s, o, p) => s = r

VerdictInv ==
    /\ offers \cap deleted = {}
    /\ \A o \in Offers, p \in Profiles : <<o, p>> \notin contested => Verdict(o, p)

\* A step that takes up no pair, and at most clears the scores of the pair and,
\* if it removes the offer, its dead letter, keeps the verdict (upsert_profile,
\* delete_offers, and every step of a batch but its scan and its commit).
LEMMA VerdictFrame ==
    ASSUME NEW o \in Offers, NEW p \in Profiles, Verdict(o, p),
           scores'[<<o, p>>] \in {scores[<<o, p>>], << >>},
           \/ failure'[<<o, p>>] = failure[<<o, p>>]
           \/ failure'[<<o, p>>] = "none" /\ scores'[<<o, p>>] = << >> /\ o \in deleted',
           deleted \subseteq deleted',
           \A c \in Callers : BatchHas(c, o, p)' => BatchHas(c, o, p),
           \A r \in Retriers : RetryHas(r, o, p)' => RetryHas(r, o, p) /\ retry'[r] = retry[r]
    PROVE  Verdict(o, p)'
<1> USE EmptySeq
<1>1. Len(scores'[<<o, p>>]) <= 1
  BY DEF Verdict
<1>2. failure'[<<o, p>>] = "open" => scores'[<<o, p>>] = << >>
  BY DEF Verdict
<1>3. ASSUME NEW c \in Callers, BatchHas(c, o, p)'
      PROVE  /\ scores'[<<o, p>>] = << >>
             /\ failure'[<<o, p>>] # "open"
             /\ \A d \in Callers : BatchHas(d, o, p)' => d = c
             /\ \A r \in Retriers : ~ RetryHas(r, o, p)'
  BY <1>3 DEF Verdict
<1>4. ASSUME NEW r \in Retriers, RetryHas(r, o, p)'
      PROVE  /\ scores'[<<o, p>>] = << >>
             /\ failure'[<<o, p>>] = retry'[r].status \/ o \in deleted'
             /\ \A s \in Retriers : RetryHas(s, o, p)' => s = r
  BY <1>4 DEF Verdict
<1>5. QED
  BY <1>1, <1>2, <1>3, <1>4 DEF Verdict

\* The scan takes up pairs without a verdict, and those that another had in
\* hand become contested (select_scoring_candidates).
LEMMA ScanVerdicts ==
    ASSUME TypeOK, VerdictInv, NEW c \in Callers, Scan(c),
           NEW o \in Offers, NEW p \in Profiles, <<o, p>> \notin contested'
    PROVE  Verdict(o, p)'
<1>1. /\ UNCHANGED <<offers, deleted, scores, failure, retry, profileOf>>
      /\ \A d \in Callers \ {c} : result'[d] = result[d]
      /\ contested \subseteq contested'
  BY DEF Scan, dbVars, TypeOK
<1>2. /\ \A d \in Callers \ {c} : BatchHas(d, o, p)' <=> BatchHas(d, o, p)
      /\ \A r \in Retriers : RetryHas(r, o, p)' <=> RetryHas(r, o, p)
  BY <1>1 DEF BatchHas, RetryHas, Page, In
<1>3. Verdict(o, p)
  BY <1>1 DEF VerdictInv
<1>4. CASE ~ BatchHas(c, o, p)'
  <2>1. \A d \in Callers : BatchHas(d, o, p)' => BatchHas(d, o, p)
    BY <1>2, <1>4
  <2>2. QED
    BY <1>1, <1>2, <1>3, <2>1, VerdictFrame
<1>5. CASE BatchHas(c, o, p)'
  <2>1. p = profileOf[c] /\ o \in Newest(Candidates(p), BatchLimit)
    BY <1>1, <1>5 DEF Scan, BatchHas, Page, In, TypeOK
  <2>2. scores[<<o, p>>] = << >> /\ failure[<<o, p>>] # "open"
    BY <2>1 DEF Newest, Candidates
  <2>3. ~ InHand(o, p)
    BY <2>1 DEF Scan
  <2>4. /\ \A d \in Callers : BatchHas(d, o, p)' => d = c
        /\ \A r \in Retriers : ~ RetryHas(r, o, p)'
    BY <1>2, <2>3 DEF InHand
  <2>5. QED
    BY <1>1, <2>2, <2>4, EmptySeq DEF Verdict
<1>6. QED
  BY <1>4, <1>5

\* A retry takes up a pair without a score that nobody has, or makes it
\* contested (_retry_scoring_failed).
LEMMA RetryStartVerdicts ==
    ASSUME TypeOK, VerdictInv,
           NEW r \in Retriers, NEW x \in Offers, NEW q \in Profiles, RetryStart(r, x, q),
           NEW o \in Offers, NEW p \in Profiles, <<o, p>> \notin contested'
    PROVE  Verdict(o, p)'
<1>1. /\ UNCHANGED <<offers, deleted, scores, failure, result, profileOf>>
      /\ contested \subseteq contested'
      /\ retry' = [retry EXCEPT ![r] =
            [offer |-> x, profile |-> q, data |-> data[q], status |-> failure[<<x, q>>]]]
  BY DEF RetryStart, dbVars, batchVars
<1>2. /\ \A c \in Callers : BatchHas(c, o, p)' <=> BatchHas(c, o, p)
      /\ \A s \in Retriers \ {r} : retry'[s] = retry[s] /\ (RetryHas(s, o, p)' <=> RetryHas(s, o, p))
  BY <1>1 DEF BatchHas, RetryHas, Page, In, TypeOK
<1>3. Verdict(o, p)
  BY <1>1 DEF VerdictInv
<1>4. CASE ~ RetryHas(r, o, p)'
  <2>1. \A s \in Retriers : RetryHas(s, o, p)' => RetryHas(s, o, p) /\ retry'[s] = retry[s]
    BY <1>2, <1>4
  <2>2. QED
    BY <1>1, <1>2, <1>3, <2>1, VerdictFrame
<1>5. CASE RetryHas(r, o, p)'
  <2>1. o = x /\ p = q /\ retry'[r].status = failure[<<o, p>>]
    BY <1>1, <1>5 DEF RetryHas, TypeOK
  <2>2. ~ InHand(o, p) /\ scores[<<o, p>>] = << >>
    BY <2>1 DEF RetryStart
  <2>3. /\ \A c \in Callers : ~ BatchHas(c, o, p)'
        /\ \A s \in Retriers : RetryHas(s, o, p)' => s = r
    BY <1>2, <2>2 DEF InHand
  <2>4. QED
    BY <1>1, <2>1, <2>2, <2>3, EmptySeq DEF Verdict
<1>6. QED
  BY <1>4, <1>5

\* The commit of the batch that has a pair gives it its first verdict (the
\* callers of run_batch_scoring).
LEMMA CommitVerdicts ==
    ASSUME TypeOK, WorkInv, VerdictInv, NEW c \in Callers, Commit(c),
           NEW o \in Offers, NEW p \in Profiles, <<o, p>> \notin contested'
    PROVE  Verdict(o, p)'
<1>1. /\ UNCHANGED <<offers, deleted, retry, contested>>
      /\ \A d \in Callers \ {c} : result'[d] = result[d] /\ profileOf'[d] = profileOf[d]
      /\ \A x \in Offers : result'[c][x] = "none"
  BY DEF Commit, Forget, TypeOK, auxVars
<1>2. /\ \A d \in Callers : BatchHas(d, o, p)' => d # c /\ BatchHas(d, o, p)
      /\ \A r \in Retriers : RetryHas(r, o, p)' <=> RetryHas(r, o, p)
  BY <1>1 DEF BatchHas, RetryHas, Page, In
<1>3. Verdict(o, p)
  BY <1>1 DEF VerdictInv
<1>4. /\ scores'[<<o, p>>] = IF o \in In(c, "scored") /\ p = profileOf[c]
                            THEN Append(scores[<<o, p>>], dataOf[c]) ELSE scores[<<o, p>>]
      /\ failure'[<<o, p>>] = IF o \in In(c, "failed") /\ p = profileOf[c]
                              THEN "open" ELSE failure[<<o, p>>]
  BY DEF Commit, WithScores, WithFailures
<1>5. CASE ~ BatchHas(c, o, p)
  <2>1. ~ (o \in In(c, "scored") \cup In(c, "failed") /\ p = profileOf[c])
    BY <1>5 DEF BatchHas, Page, In
  <2>2. scores'[<<o, p>>] = scores[<<o, p>>] /\ failure'[<<o, p>>] = failure[<<o, p>>]
    BY <1>4, <2>1
  <2>3. QED
    BY <1>1, <1>2, <1>3, <2>2, VerdictFrame
<1>6. CASE BatchHas(c, o, p)
  <2>1. /\ \A d \in Callers : ~ BatchHas(d, o, p)'
        /\ \A r \in Retriers : ~ RetryHas(r, o, p)'
    BY <1>2, <1>3, <1>6 DEF Verdict
  <2>2. scores[<<o, p>>] = << >> /\ failure[<<o, p>>] # "open" /\ p = profileOf[c]
    BY <1>3, <1>6 DEF Verdict, BatchHas
  <2>3. Len(scores'[<<o, p>>]) <= 1 /\ (failure'[<<o, p>>] = "open" => scores'[<<o, p>>] = << >>)
    <3>1. CASE o \in In(c, "scored")
      <4>1. o \notin In(c, "failed")
        BY <3>1 DEF In
      <4>2. failure'[<<o, p>>] # "open" /\ scores'[<<o, p>>] = Append(<< >>, dataOf[c])
        BY <1>4, <2>2, <3>1, <4>1
      <4>3. dataOf[c] \in Datas
        BY <2>2, ProfilesAssumption DEF WorkInv, TypeOK
      <4>4. Len(Append(<< >>, dataOf[c])) = 1
        BY <4>3, EmptySeq, AppendProperties
      <4>5. QED
        BY <4>2, <4>4
    <3>2. CASE o \notin In(c, "scored")
      BY <1>4, <2>2, <3>2, EmptySeq
    <3>3. QED
      BY <3>1, <3>2
  <2>4. QED
    BY <2>1, <2>3 DEF Verdict
<1>7. QED
  BY <1>5, <1>6

\* A retry that succeeds gives its pair the first score and leaves no open dead
\* letter beside it (_retry_scoring_failed, perform_retry).
LEMMA RetryVerdicts ==
    ASSUME TypeOK, VerdictInv, NEW r \in Retriers, RetrySucceeds(r),
           NEW o \in Offers, NEW p \in Profiles, <<o, p>> \notin contested'
    PROVE  Verdict(o, p)'
<1> DEFINE j == retry[r]
<1>1. /\ j \in RetryJob /\ j.offer \in offers /\ retry' = [retry EXCEPT ![r] = None]
      /\ UNCHANGED <<offers, deleted, result, profileOf, contested>>
      /\ scores' = WithScores({j.offer}, j.profile, j.data)
      /\ failure' = IF j.status = "open" THEN WithFailures({j.offer}, j.profile, "resolved") ELSE failure
  BY DEF RetrySucceeds, TypeOK, batchVars, auxVars
<1>2. /\ \A c \in Callers : BatchHas(c, o, p)' <=> BatchHas(c, o, p)
      /\ \A s \in Retriers : RetryHas(s, o, p)' => s # r /\ RetryHas(s, o, p) /\ retry'[s] = retry[s]
  BY <1>1 DEF BatchHas, RetryHas, Page, In, TypeOK
<1>3. Verdict(o, p)
  BY <1>1 DEF VerdictInv
<1>4. CASE ~ RetryHas(r, o, p)
  <2>1. ~ (o = j.offer /\ p = j.profile)
    BY <1>4 DEF RetryHas, RetrySucceeds
  <2>2. scores'[<<o, p>>] = scores[<<o, p>>] /\ failure'[<<o, p>>] = failure[<<o, p>>]
    BY <1>1, <2>1 DEF WithScores, WithFailures
  <2>3. QED
    BY <1>1, <1>2, <1>3, <2>2, VerdictFrame
<1>5. CASE RetryHas(r, o, p)
  <2>1. /\ \A c \in Callers : ~ BatchHas(c, o, p)'
        /\ \A s \in Retriers : ~ RetryHas(s, o, p)'
    BY <1>2, <1>3, <1>5 DEF Verdict
  <2>2. j.offer = o /\ j.profile = p /\ scores[<<o, p>>] = << >>
    BY <1>3, <1>5 DEF Verdict, RetryHas
  <2>3. failure[<<o, p>>] = j.status
    <3>1. o \notin deleted
      BY <1>1, <2>2 DEF VerdictInv
    <3>2. QED
      BY <1>3, <1>5, <3>1 DEF Verdict
  <2>4. scores'[<<o, p>>] = Append(<< >>, j.data)
    BY <1>1, <2>2 DEF WithScores
  <2>5. failure'[<<o, p>>] # "open"
    BY <1>1, <2>2, <2>3 DEF WithFailures
  <2>6. Len(scores'[<<o, p>>]) <= 1
    <3>1. j.data \in Datas
      BY <1>1 DEF RetryJob
    <3> HIDE DEF j
    <3>2. Len(Append(<< >>, j.data)) = 1
      BY <3>1, EmptySeq, AppendProperties
    <3>3. QED
      BY <2>4, <3>2
  <2>7. QED
    BY <2>1, <2>5, <2>6 DEF Verdict
<1>6. QED
  BY <1>4, <1>5

\* An edit may clear scores, a cleanup removes scores, dead letters and offers
\* together (upsert_profile, delete_offers).
LEMMA RowsCleared ==
    ASSUME VerdictInv, UNCHANGED <<batchVars, retry>>,
           \/ \E q \in Profiles, d \in Datas, activate \in BOOLEAN : PutProfile(q, d, activate)
           \/ \E cutoff \in Nat : DeleteOffers(cutoff),
           NEW o \in Offers, NEW p \in Profiles, <<o, p>> \notin contested'
    PROVE  Verdict(o, p)'
<1>1. /\ \A c \in Callers : BatchHas(c, o, p)' <=> BatchHas(c, o, p)
      /\ \A r \in Retriers : retry'[r] = retry[r] /\ (RetryHas(r, o, p)' <=> RetryHas(r, o, p))
  BY DEF BatchHas, RetryHas, Page, In, batchVars
<1>2. ASSUME NEW q \in Profiles, NEW d \in Datas, NEW activate \in BOOLEAN, PutProfile(q, d, activate)
      PROVE  Verdict(o, p)'
  <2>1. /\ UNCHANGED <<contested, deleted>>
        /\ failure' = failure
        /\ scores'[<<o, p>>] \in {scores[<<o, p>>], << >>}
    BY <1>2 DEF PutProfile
  <2>2. QED
    BY <1>1, <2>1, VerdictFrame DEF VerdictInv
<1>3. ASSUME NEW cutoff \in Nat, DeleteOffers(cutoff) PROVE Verdict(o, p)'
  <2>1. /\ UNCHANGED contested
        /\ deleted \subseteq deleted'
        /\ scores'[<<o, p>>] \in {scores[<<o, p>>], << >>}
        /\ \/ failure'[<<o, p>>] = failure[<<o, p>>]
           \/ failure'[<<o, p>>] = "none" /\ scores'[<<o, p>>] = << >> /\ o \in deleted'
    BY <1>3 DEF DeleteOffers, auxVars
  <2>2. QED
    BY <1>1, <2>1, VerdictFrame DEF VerdictInv
<1>4. QED
  BY <1>2, <1>3

\* No step breaks the verdicts (run_batch_scoring and all that writes the
\* rows it reads).
LEMMA VerdictStep == IInv /\ VerdictInv /\ [Next]_vars => VerdictInv'
<1>1. SUFFICES ASSUME TypeOK, WorkInv, VerdictInv, [Next]_vars PROVE VerdictInv'
  BY DEF IInv
<1>2. (offers \cap deleted = {})'
  <2>1. \/ UNCHANGED <<offers, deleted>>
        \/ \E o \in Offers : Ingest(o)
        \/ \E n \in Nat : DeleteOffers(n)
    <3>1. \A o \in Offers : o + 1 \in Nat
      BY OffersAssumption
    <3>2. QED
      BY <1>1, <3>1
      DEF Next, Run, Environment, Request, StartWithoutProfile, Start, Scan, Hydrate, HydrateRaises,
          Call, Answer, Flush, FlushRaises, FlushLoses, Commit, RollBack, PutProfile, RetryStart,
          RetrySucceeds, RetryFails, Crash, vars, dbVars
  <2>2. QED
    BY <1>1, <2>1 DEF VerdictInv, Ingest, DeleteOffers
<1>3. SUFFICES ASSUME NEW o \in Offers, NEW p \in Profiles, <<o, p>> \notin contested'
               PROVE  Verdict(o, p)'
  BY <1>2 DEF VerdictInv
<1>4. ASSUME UNCHANGED <<scores, failure, retry, contested>>, deleted' = deleted,
             \A c \in Callers, x \in Offers :
                result'[c][x] # "none" => result[c][x] # "none" /\ profileOf'[c] = profileOf[c]
      PROVE  Verdict(o, p)'
  <2>1. /\ \A c \in Callers : BatchHas(c, o, p)' => BatchHas(c, o, p)
        /\ \A r \in Retriers : RetryHas(r, o, p)' => RetryHas(r, o, p) /\ retry'[r] = retry[r]
    BY <1>4 DEF BatchHas, RetryHas, Page, In
  <2>2. QED
    BY <1>1, <1>3, <1>4, <2>1, VerdictFrame DEF VerdictInv
<1>5. ASSUME NEW c \in Callers, Start(c) PROVE Verdict(o, p)'
  <2>1. \A d \in Callers, x \in Offers :
           result'[d][x] # "none" => result[d][x] # "none" /\ profileOf'[d] = profileOf[d]
    BY <1>1, <1>5 DEF Start, WorkInv, TypeOK
  <2>2. QED
    BY <1>4, <1>5, <2>1 DEF Start, dbVars, auxVars
<1>6. ASSUME NEW c \in Callers, NEW x \in Offers, NEW r \in {"scored", "failed"},
             Call(c, x) \/ Answer(c, x, r)
      PROVE  Verdict(o, p)'
  <2>1. PICK v : result' = [result EXCEPT ![c] = [result[c] EXCEPT ![x] = v]]
    BY <1>6 DEF Call, Answer
  <2>2. result[c][x] # "none" /\ result \in [Callers -> [Offers -> Results]]
    BY <1>1, <1>6 DEF Call, Answer, TypeOK
  <2>3. \A d \in Callers, y \in Offers : result'[d][y] # "none" => result[d][y] # "none"
    BY <2>1, <2>2
  <2>4. QED
    BY <1>4, <1>6, <2>3 DEF Call, Answer, dbVars, auxVars
<1>7. ASSUME NEW c \in Callers, RollBack(c) PROVE Verdict(o, p)'
  <2>1. \A d \in Callers, x \in Offers :
           result'[d][x] # "none" => result[d][x] # "none" /\ profileOf'[d] = profileOf[d]
    BY <1>1, <1>7 DEF RollBack, Forget, TypeOK
  <2>2. QED
    BY <1>4, <1>7, <2>1 DEF RollBack, dbVars, auxVars
<1>8. CASE UNCHANGED <<deleted, scores, failure, retry, contested, result, profileOf>>
  BY <1>4, <1>8
<1>9. ASSUME NEW c \in Callers,
             \/ Request(c) \/ StartWithoutProfile(c) \/ Hydrate(c) \/ HydrateRaises(c)
             \/ Flush(c) \/ FlushRaises(c) \/ FlushLoses(c)
      PROVE  Verdict(o, p)'
  BY <1>8, <1>9
  DEF Request, StartWithoutProfile, Hydrate, HydrateRaises, Flush, FlushRaises, FlushLoses,
      dbVars, auxVars
<1>10. ASSUME NEW x \in Offers, Ingest(x) PROVE Verdict(o, p)'
  BY <1>8, <1>10 DEF Ingest, batchVars, auxVars
<1>11. CASE (\E q \in Profiles, d \in Datas, activate \in BOOLEAN : PutProfile(q, d, activate))
            \/ \E n \in Nat : DeleteOffers(n)
  <2>1. UNCHANGED <<batchVars, retry>>
    BY <1>11 DEF PutProfile, DeleteOffers
  <2>2. QED
    BY <1>1, <1>3, <1>11, <2>1, RowsCleared
<1>12. ASSUME NEW r \in Retriers, RetryFails(r) PROVE Verdict(o, p)'
  <2>1. /\ UNCHANGED <<deleted, scores, failure, contested, result, profileOf>>
        /\ retry' = [retry EXCEPT ![r] = None]
    BY <1>12 DEF RetryFails, dbVars, batchVars, auxVars
  <2>2. /\ \A c \in Callers : BatchHas(c, o, p)' => BatchHas(c, o, p)
        /\ \A s \in Retriers : RetryHas(s, o, p)' => RetryHas(s, o, p) /\ retry'[s] = retry[s]
    BY <1>1, <2>1 DEF BatchHas, RetryHas, Page, In, TypeOK
  <2>3. QED
    BY <1>1, <1>3, <2>1, <2>2, VerdictFrame DEF VerdictInv
<1>13. CASE Crash
  <2>1. /\ UNCHANGED <<deleted, scores, failure, contested>>
        /\ \A c \in Callers : ~ BatchHas(c, o, p)'
        /\ \A r \in Retriers : ~ RetryHas(r, o, p)'
    BY <1>13 DEF Crash, BatchHas, RetryHas, Page, In, dbVars
  <2>2. QED
    BY <1>1, <1>3, <2>1, VerdictFrame DEF VerdictInv
<1>14. CASE UNCHANGED vars
  BY <1>8, <1>14 DEF vars, dbVars, batchVars, auxVars
<1>15. \A n \in Offers : n + 1 \in Nat
  BY OffersAssumption
<1>16. QED
  BY <1>1, <1>3, <1>5, <1>6, <1>7, <1>9, <1>10, <1>11, <1>12, <1>13, <1>14, <1>15,
     ScanVerdicts, CommitVerdicts, RetryStartVerdicts, RetryVerdicts
  DEF Next, Run, Environment

\* Whoever takes up a pair that is not contested has it alone until the commit,
\* and finds it without a score (select_scoring_candidates, perform_retry).
THEOREM VerdictInvariance == Spec => []VerdictInv
<1>1. Init => VerdictInv
  <2>1. ASSUME Init, NEW o \in Offers, NEW p \in Profiles PROVE Verdict(o, p)
    BY <2>1, EmptySeq DEF Init, Verdict, BatchHas, RetryHas, Page, In
  <2>2. QED
    BY <2>1 DEF Init, VerdictInv
<1>2. QED
  BY <1>1, VerdictStep, Invariance, PTL DEF Spec

\* For any callers and retriers, no offer is scored twice for a profile, nor
\* scored beside an open dead letter, whatever edits, cleanups, retries and
\* crashes come between, unless a second writer took up the pair before the
\* first had committed, or a retry was asked for a pair that had its score
\* (select_scoring_candidates, _open_scoring_failures, perform_retry).
THEOREM OneVerdict == Spec => []OneVerdictPerPair
<1>1. VerdictInv => OneVerdictPerPair
  BY DEF VerdictInv, Verdict, OneVerdictPerPair
<1>2. QED
  BY <1>1, VerdictInvariance, PTL

\* With the same two exceptions no batch calls the LLM for a pair that has its
\* verdict: the page stays unscored until its batch commits (_scoring_lock).
THEOREM NoCallIsWasted == Spec => []PageStaysUnscored
<1>1. VerdictInv => PageStaysUnscored
  BY DEF VerdictInv, Verdict, PageStaysUnscored
<1>2. QED
  BY <1>1, VerdictInvariance, PTL

-----------------------------------------------------------------------------
(* The calls in flight and the progress.  A semaphore belongs to one batch, *)
(* and the progress is one for the process: both are right because only one *)
(* batch is with the LLM, and because a batch enters and leaves that stage  *)
(* without an answer to come.                                               *)

\* What holds of the LLM calls of one caller.
Calls(c) ==
    /\ \A o \in Offers : result[c][o] = "calling" => pc[c] = "scoring"
    /\ pc[c] = "scanned" => \A o \in Offers : result[c][o] \in {"none", "todo"}
    /\ Cardinality(In(c, "calling")) <= MaxConcurrency

CallInv == (\A c \in Callers : Calls(c)) /\ ProgressIsFaithful

\* The sets of offers that are counted are finite.
LEMMA OffersFinite ==
    ASSUME NEW S, S \subseteq Offers
    PROVE  IsFiniteSet(S) /\ Cardinality(S) \in Nat
BY OffersAssumption, FS_Subset, FS_CardinalityType

\* Nothing in flight needs no semaphore.
LEMMA NoCalls ==
    ASSUME NEW c \in Callers, \A o \in Offers : result[c][o] # "calling"
    PROVE  Cardinality(In(c, "calling")) <= MaxConcurrency
<1>1. In(c, "calling") = {}
  BY DEF In
<1>2. QED
  BY <1>1, FS_EmptySet, LimitsAssumption

\* A caller that stays where it is keeps what holds of it.
LEMMA CallsFrame ==
    ASSUME NEW c \in Callers, Calls(c), pc'[c] = pc[c], result'[c] = result[c]
    PROVE  Calls(c)'
<1>1. In(c, "calling")' = In(c, "calling")
  BY DEF In
<1>2. QED
  BY <1>1 DEF Calls

\* So does the progress.
LEMMA ProgressFrame ==
    ASSUME ProgressIsFaithful, UNCHANGED <<progress, result>>,
           \A c \in Callers : pc'[c] = "scoring" <=> pc[c] = "scoring"
    PROVE  ProgressIsFaithful'
<1>1. \A c \in Callers : \A r : In(c, r)' = In(c, r)
  BY DEF In
<1>2. \A c \in Callers : Page(c)' = Page(c)
  BY <1>1 DEF Page
<1>3. QED
  BY <1>1, <1>2 DEF ProgressIsFaithful

\* Call: one offer moves from "todo" to "calling".
LEMMA CallKeeps ==
    ASSUME IInv, CallInv, NEW c \in Callers, NEW o \in Offers, Call(c, o)
    PROVE  CallInv'
<1>1. /\ result \in [Callers -> [Offers -> Results]]
      /\ result' = [result EXCEPT ![c] = [result[c] EXCEPT ![o] = "calling"]]
      /\ pc' = pc /\ progress' = progress
      /\ pc[c] = "scoring" /\ result[c][o] = "todo"
      /\ Cardinality(In(c, "calling")) < MaxConcurrency
  BY DEF Call, IInv, TypeOK
<1>2. /\ \A d \in Callers \ {c} : result'[d] = result[d]
      /\ result'[c][o] = "calling"
      /\ \A x \in Offers \ {o} : result'[c][x] = result[c][x]
  BY <1>1
<1>3. Calls(c)'
  <2>1. In(c, "calling")' = In(c, "calling") \cup {o} /\ o \notin In(c, "calling")
    BY <1>1, <1>2 DEF In
  <2>2. In(c, "calling") \subseteq Offers
    BY DEF In
  <2>3. Cardinality(In(c, "calling")') <= MaxConcurrency
    BY <1>1, <2>1, <2>2, OffersFinite, FS_AddElement, LimitsAssumption
  <2>4. QED
    BY <1>1, <2>3 DEF Calls
<1>4. \A d \in Callers \ {c} : Calls(d)'
  BY <1>1, <1>2, CallsFrame DEF CallInv
<1>5. ProgressIsFaithful'
  <2>1. \A d \in Callers : /\ In(d, "none")' = In(d, "none")
                           /\ In(d, "scored")' = In(d, "scored")
                           /\ In(d, "failed")' = In(d, "failed")
    BY <1>1, <1>2 DEF In
  <2>2. \A d \in Callers : Page(d)' = Page(d)
    BY <2>1 DEF Page
  <2>3. QED
    BY <1>1, <2>1, <2>2 DEF CallInv, ProgressIsFaithful
<1>6. QED
  BY <1>3, <1>4, <1>5 DEF CallInv

\* Answer: one offer moves from "calling" to its outcome, and is counted.
LEMMA AnswerKeeps ==
    ASSUME IInv, CallInv, NEW c \in Callers, NEW o \in Offers,
           NEW r \in {"scored", "failed"}, Answer(c, o, r)
    PROVE  CallInv'
<1>1. /\ result \in [Callers -> [Offers -> Results]]
      /\ result' = [result EXCEPT ![c] = [result[c] EXCEPT ![o] = r]]
      /\ pc' = pc /\ pc[c] = "scoring" /\ result[c][o] = "calling"
  BY DEF Answer, IInv, TypeOK
<1>2. /\ \A d \in Callers \ {c} : result'[d] = result[d]
      /\ result'[c][o] = r
      /\ \A x \in Offers \ {o} : result'[c][x] = result[c][x]
  BY <1>1
<1>3. \A d \in Callers \ {c} : Calls(d)' /\ pc[d] # "scoring"
  <2>1. \A d \in Callers \ {c} : pc[d] # "scoring"
    BY <1>1, LockExcludes DEF IInv, OneBatchAtATime, Locked
  <2>2. QED
    BY <1>1, <1>2, <2>1, CallsFrame DEF CallInv
<1>4. Calls(c)'
  <2>1. In(c, "calling")' \subseteq In(c, "calling") /\ In(c, "calling") \subseteq Offers
    BY <1>1, <1>2 DEF In
  <2>2. Cardinality(In(c, "calling")') <= Cardinality(In(c, "calling"))
    BY <2>1, OffersFinite, FS_Subset
  <2>3. /\ Cardinality(In(c, "calling")') \in Nat /\ Cardinality(In(c, "calling")) \in Nat
        /\ Cardinality(In(c, "calling")) <= MaxConcurrency
    BY <2>1, OffersFinite DEF CallInv, Calls
  <2>4. Cardinality(In(c, "calling")') <= MaxConcurrency
    BY <2>2, <2>3, LimitsAssumption
  <2>5. QED
    BY <1>1, <1>2, <2>4 DEF CallInv, Calls
<1>5. ProgressIsFaithful'
  <2> DEFINE done == In(c, "scored") \cup In(c, "failed")
  <2>1. (In(c, "scored") \cup In(c, "failed"))' = done \cup {o} /\ o \notin done
    BY <1>1, <1>2 DEF In
  <2>2. done \subseteq Offers
    BY DEF In
  <2>3. Cardinality(done \cup {o}) = Cardinality(done) + 1
    BY <2>1, <2>2, OffersFinite, FS_AddElement
  <2>4. In(c, "none")' = In(c, "none")
    BY <1>1, <1>2 DEF In
  <2>5. Page(c)' = Page(c)
    BY <2>4 DEF Page
  <2>6. progress.processed = Cardinality(done) /\ progress.total = Cardinality(Page(c))
        /\ progress.running
    BY <1>1 DEF CallInv, ProgressIsFaithful
  <2>7. progress \in [running : BOOLEAN, processed : Nat, total : Nat]
        /\ progress' = [progress EXCEPT !.processed = progress.processed + 1]
    BY DEF Answer, IInv, TypeOK
  <2>8. /\ progress'.running
        /\ progress'.total = progress.total
        /\ progress'.processed = progress.processed + 1
    BY <2>6, <2>7
  <2> HIDE DEF done
  <2>9. pc'[c] = "scoring" /\ \A d \in Callers : pc'[d] = "scoring" => d = c
    BY <1>1, <1>3
  <2>10. /\ progress'.total = Cardinality(Page(c)')
         /\ progress'.processed = Cardinality((In(c, "scored") \cup In(c, "failed"))')
    BY <2>1, <2>3, <2>5, <2>6, <2>8
  <2>11. QED
    BY <2>8, <2>9, <2>10 DEF ProgressIsFaithful
<1>6. QED
  BY <1>3, <1>4, <1>5 DEF CallInv

\* Hydrate: a batch goes to the LLM without a call or an answer.
LEMMA HydrateKeeps ==
    ASSUME IInv, CallInv, NEW c \in Callers, Hydrate(c)
    PROVE  CallInv'
<1>1. /\ pc[c] = "scanned" /\ pc' = [pc EXCEPT ![c] = "scoring"] /\ result' = result
      /\ progress' = [running |-> TRUE, processed |-> 0, total |-> Cardinality(Page(c))]
      /\ \A o \in Offers : result[c][o] \in {"none", "todo"}
  BY DEF Hydrate, CallInv, Calls
<1>2. pc'[c] = "scoring" /\ \A d \in Callers \ {c} : pc'[d] = pc[d] /\ pc[d] # "scoring"
  BY <1>1, LockExcludes DEF IInv, TypeOK, OneBatchAtATime, Locked
<1>3. \A d \in Callers \ {c} : Calls(d)'
  BY <1>1, <1>2, CallsFrame DEF CallInv
<1>4. In(c, "calling")' = In(c, "calling")
  BY <1>1 DEF In
<1>5. Calls(c)'
  BY <1>1, <1>2, <1>4 DEF CallInv, Calls
<1>6. (In(c, "scored") \cup In(c, "failed"))' = {}
  BY <1>1 DEF In
<1>7. Page(c)' = Page(c)
  BY <1>1 DEF Page, In
<1>8. /\ progress'.running
      /\ progress'.total = Cardinality(Page(c)')
      /\ progress'.processed = Cardinality((In(c, "scored") \cup In(c, "failed"))')
  BY <1>1, <1>6, <1>7, FS_EmptySet
<1>9. ProgressIsFaithful'
  BY <1>2, <1>8 DEF ProgressIsFaithful
<1>10. QED
  BY <1>3, <1>5, <1>9 DEF CallInv

\* Flush and its exceptions: the only batch leaves the LLM, with every answer.
LEMMA FlushKeeps ==
    ASSUME IInv, CallInv, NEW c \in Callers, Flush(c) \/ FlushRaises(c) \/ FlushLoses(c)
    PROVE  CallInv'
<1>1. /\ pc[c] = "scoring" /\ result' = result /\ progress' = [progress EXCEPT !.running = FALSE]
      /\ \E stage \in {"flushed", "raised", "lost"} : pc' = [pc EXCEPT ![c] = stage]
      /\ In(c, "todo") \cup In(c, "calling") = {}
  BY DEF Flush, FlushRaises, FlushLoses, Answered
<1>2. /\ pc'[c] \in {"flushed", "raised", "lost"}
      /\ \A d \in Callers \ {c} : pc'[d] = pc[d] /\ pc[d] # "scoring"
  BY <1>1, LockExcludes DEF IInv, TypeOK, OneBatchAtATime, Locked
<1>3. \A o \in Offers : result'[c][o] # "calling"
  BY <1>1 DEF In
<1>4. \A d \in Callers \ {c} : Calls(d)'
  BY <1>1, <1>2, CallsFrame DEF CallInv
<1>5. (Cardinality(In(c, "calling")) <= MaxConcurrency)'
  <2>1. In(c, "calling")' = In(c, "calling")
    BY <1>1 DEF In
  <2>2. QED
    BY <2>1 DEF CallInv, Calls
<1>6. Calls(c)'
  BY <1>2, <1>3, <1>5 DEF Calls
<1>7. ~ progress'.running
  BY <1>1 DEF IInv, TypeOK
<1>8. ProgressIsFaithful'
  BY <1>2, <1>7 DEF ProgressIsFaithful
<1>9. QED
  BY <1>4, <1>6, <1>8 DEF CallInv

\* Every other step of a caller takes it from a stage without the LLM to
\* another one, and its page is new, gone or the same.
LEMMA ElsewhereKeeps ==
    ASSUME IInv, CallInv, NEW c \in Callers, UNCHANGED progress,
           pc[c] # "scoring", pc'[c] # "scoring",
           \A d \in Callers \ {c} : pc'[d] = pc[d] /\ result'[d] = result[d],
           \A o \in Offers : result'[c][o] # "calling",
           pc'[c] = "scanned" => \A o \in Offers : result'[c][o] \in {"none", "todo"}
    PROVE  CallInv'
<1>1. \A d \in Callers \ {c} : Calls(d)'
  BY CallsFrame DEF CallInv
<1>2. In(c, "calling")' = {}
  BY DEF In
<1>3. Cardinality({}) <= MaxConcurrency
  BY FS_EmptySet, LimitsAssumption
<1>4. Calls(c)'
  BY <1>2, <1>3 DEF Calls
<1>5. \A d \in Callers \ {c} : \A r : In(d, r)' = In(d, r)
  BY DEF In
<1>6. \A d \in Callers \ {c} : Page(d)' = Page(d)
  BY <1>5 DEF Page
<1>7. ProgressIsFaithful'
  BY <1>5, <1>6 DEF CallInv, ProgressIsFaithful
<1>8. QED
  BY <1>1, <1>4, <1>7 DEF CallInv

\* A restart leaves nothing in flight.
LEMMA CrashKeeps == ASSUME Crash PROVE CallInv'
<1>1. /\ pc' = [c \in Callers |-> "idle"]
      /\ result' = [c \in Callers |-> [o \in Offers |-> "none"]]
      /\ progress' = [running |-> FALSE, processed |-> 0, total |-> 0]
  BY DEF Crash
<1>2. \A c \in Callers : In(c, "calling")' = {}
  BY <1>1 DEF In
<1>3. Cardinality({}) <= MaxConcurrency
  BY FS_EmptySet, LimitsAssumption
<1>4. \A c \in Callers : Calls(c)'
  BY <1>1, <1>2, <1>3 DEF Calls
<1>5. ProgressIsFaithful'
  BY <1>1 DEF ProgressIsFaithful
<1>6. QED
  BY <1>4, <1>5 DEF CallInv

\* Every step keeps what is known of the calls in flight.
LEMMA CallStep == IInv /\ CallInv /\ [Next]_vars => CallInv'
<1>1. SUFFICES ASSUME IInv, CallInv, [Next]_vars PROVE CallInv'
  OBVIOUS
<1>2. CASE UNCHANGED <<pc, result, progress>>
  <2>1. \A c \in Callers : Calls(c)'
    BY <1>1, <1>2, CallsFrame DEF CallInv
  <2>2. ProgressIsFaithful'
    BY <1>1, <1>2, ProgressFrame DEF CallInv
  <2>3. QED
    BY <2>1, <2>2 DEF CallInv
<1>3. \A c \in Callers : pc[c] # "scoring" => \A o \in Offers : result[c][o] # "calling"
  BY <1>1 DEF CallInv, Calls
<1>4. pc \in [Callers -> Stages] /\ result \in [Callers -> [Offers -> Results]]
  BY <1>1 DEF IInv, TypeOK
<1>5. ASSUME NEW c \in Callers, Request(c) \/ StartWithoutProfile(c) \/ Start(c) \/ HydrateRaises(c)
      PROVE  CallInv'
  <2>1. /\ progress' = progress /\ result' = result
        /\ pc[c] \in {"idle", "queued", "scanned"}
        /\ pc'[c] \in {"queued", "flushed", "started", "raised"}
        /\ \A d \in Callers \ {c} : pc'[d] = pc[d]
    BY <1>4, <1>5 DEF Request, StartWithoutProfile, Start, HydrateRaises
  <2>2. QED
    BY <1>1, <1>3, <2>1, ElsewhereKeeps
<1>6. ASSUME NEW c \in Callers, Scan(c) PROVE CallInv'
  <2>1. /\ progress' = progress
        /\ pc[c] = "started" /\ pc'[c] = "scanned"
        /\ \A d \in Callers \ {c} : pc'[d] = pc[d] /\ result'[d] = result[d]
        /\ \A o \in Offers : result'[c][o] \in {"none", "todo"}
    BY <1>4, <1>6 DEF Scan
  <2>2. QED
    BY <1>1, <2>1, ElsewhereKeeps
<1>7. ASSUME NEW c \in Callers, Commit(c) \/ RollBack(c) PROVE CallInv'
  <2>1. /\ progress' = progress
        /\ pc[c] \in {"flushed", "lost", "raised"} /\ pc'[c] = "idle"
        /\ \A d \in Callers \ {c} : pc'[d] = pc[d] /\ result'[d] = result[d]
        /\ \A o \in Offers : result'[c][o] = "none"
    BY <1>4, <1>7 DEF Commit, RollBack, Forget
  <2>2. QED
    BY <1>1, <2>1, ElsewhereKeeps
<1>8. ASSUME NEW c \in Callers, NEW o \in Offers, NEW r \in {"scored", "failed"},
             Call(c, o) \/ Answer(c, o, r)
      PROVE  CallInv'
  BY <1>1, <1>8, CallKeeps, AnswerKeeps
<1>9. ASSUME NEW c \in Callers, Hydrate(c) \/ Flush(c) \/ FlushRaises(c) \/ FlushLoses(c)
      PROVE  CallInv'
  BY <1>1, <1>9, HydrateKeeps, FlushKeeps
<1>10. CASE Environment
  BY <1>2, <1>10, CrashKeeps
  DEF Environment, Ingest, PutProfile, DeleteOffers, RetryStart, RetrySucceeds, RetryFails,
      batchVars
<1>11. CASE UNCHANGED vars
  BY <1>2, <1>11 DEF vars, batchVars
<1>12. QED
  BY <1>1, <1>5, <1>6, <1>7, <1>8, <1>9, <1>10, <1>11 DEF Next, Run

\* In every state, calls are in flight only while their caller holds the lock and
\* scores, never more than the semaphore of batch.py lets in, and the banner
\* counts the answers.
THEOREM CallInvariance == Spec => []CallInv
<1>1. Init => CallInv
  <2>1. SUFFICES ASSUME Init PROVE CallInv
    OBVIOUS
  <2>2. \A c \in Callers : \A o \in Offers : result[c][o] = "none" /\ pc[c] = "idle"
    BY <2>1 DEF Init
  <2>3. \A c \in Callers : Calls(c)
    BY <2>1, <2>2, NoCalls DEF Calls, Init
  <2>4. ProgressIsFaithful
    BY <2>1 DEF Init, ProgressIsFaithful
  <2>5. QED
    BY <2>3, <2>4 DEF CallInv
<1>2. QED
  BY <1>1, CallStep, Invariance, PTL DEF Spec

\* The status banner runs while a batch is with the LLM and counts its answers,
\* for any callers, exceptions and restarts (_record_progress).
THEOREM ProgressFollowsTheBatch == Spec => []ProgressIsFaithful
<1>1. CallInv => ProgressIsFaithful
  BY DEF CallInv
<1>2. QED
  BY <1>1, CallInvariance, PTL

\* The semaphores of all the batches together admit no more calls than one of
\* them (scoring_max_concurrency); the calls of scoring retries, which pass no
\* semaphore, are not among them.
THEOREM CallsStayBounded == Spec => []BatchCallsBounded
<1>1. IInv /\ CallInv => BatchCallsBounded
  <2>1. SUFFICES ASSUME IInv, CallInv PROVE BatchCallsBounded
    OBVIOUS
  <2> DEFINE calls == {co \in Callers \X Offers : result[co[1]][co[2]] = "calling"}
  <2>2. CASE calls = {}
    BY <2>2, FS_EmptySet, LimitsAssumption DEF BatchCallsBounded
  <2>3. CASE calls # {}
    <3>1. PICK c \in Callers : pc[c] = "scoring"
      BY <2>1, <2>3 DEF CallInv, Calls
    <3>2. \A co \in calls : co[1] = c
      BY <2>1, <3>1, LockExcludes DEF IInv, CallInv, Calls, OneBatchAtATime, Locked
    <3> DEFINE S == In(c, "calling")
               f == [o \in S |-> <<c, o>>]
    <3>3. S \subseteq Offers
      BY DEF In
    <3>4. \A o \in S : f[o] \in calls
      BY <3>3 DEF In
    <3>5. \A co \in calls : co[2] \in S /\ f[co[2]] = co
      BY <3>2 DEF In
    <3>6. f \in Surjection(S, calls)
      BY <3>4, <3>5 DEF Surjection
    <3>7. IsFiniteSet(calls) /\ Cardinality(calls) <= Cardinality(S)
      BY <3>3, <3>6, OffersFinite, FS_Surjection
    <3>8. Cardinality(calls) \in Nat /\ Cardinality(S) \in Nat /\ Cardinality(S) <= MaxConcurrency
      BY <2>1, <3>3, <3>7, OffersFinite, FS_CardinalityType DEF CallInv, Calls
    <3>9. QED
      BY <3>7, <3>8, LimitsAssumption DEF BatchCallsBounded
  <2>4. QED
    BY <2>2, <2>3
<1>2. QED
  BY <1>1, CallInvariance, Invariance, PTL
===========================================================================
