-------------------------- MODULE ProxyPoolProofs --------------------------
(***************************************************************************)
(* The shared pool of ProxyPool stays within target_size, holds no proxy   *)
(* twice, and hands no proxy again to a fetch that it has failed, for any  *)
(* number of proxies and of threads, any pool size and any budget.         *)
(*                                                                         *)
(* The three facts are inductive together: an eviction removes one         *)
(* occurrence, so only the absence of duplicates makes it complete.        *)
(***************************************************************************)
EXTENDS ProxyPool, TLAPS

IInv == TypeOK /\ PoolBounded /\ NoDuplicates /\ FailedProxyNotReused

USE ThreadsAssumption, SizesAssumption DEF Threads

\* list.remove on a list without duplicates: the proxy is gone and every
\* other member was there before.
LEMMA WithoutFacts ==
  ASSUME NEW s \in Seq(Proxies), NEW p \in Proxies,
         \E i \in 1..Len(s) : s[i] = p,
         \A i, j \in 1..Len(s) : s[i] = s[j] => i = j
  PROVE  /\ Without(s, p) \in Seq(Proxies)
         /\ Len(Without(s, p)) = Len(s) - 1
         /\ \A i, j \in 1..(Len(s) - 1) : Without(s, p)[i] = Without(s, p)[j] => i = j
         /\ \A i \in 1..(Len(s) - 1) :
               /\ Without(s, p)[i] # p
               /\ \E j \in 1..Len(s) : Without(s, p)[i] = s[j]
<1> DEFINE IsFirst(i) == s[i] = p /\ \A j \in 1..(i - 1) : s[j] # p
           first == CHOOSE i \in 1..Len(s) : IsFirst(i)
           w == [j \in 1..(Len(s) - 1) |-> IF j < first THEN s[j] ELSE s[j + 1]]
<1>1. PICK k \in 1..Len(s) : s[k] = p
  OBVIOUS
<1>2. IsFirst(k)
  BY <1>1
<1>3. first \in 1..Len(s) /\ s[first] = p
  <2> HIDE DEF IsFirst
  <2>1. first \in 1..Len(s) /\ IsFirst(first)
    BY <1>2
  <2> QED BY <2>1 DEF IsFirst
<1>4. Len(s) \in Nat \ {0}
  BY <1>1
<1>5. Without(s, p) = w
  BY DEF Without
<1> HIDE DEF first
<1>6. \A i \in 1..(Len(s) - 1) : w[i] = s[IF i < first THEN i ELSE i + 1]
  BY <1>3
<1>7. \A i \in 1..(Len(s) - 1) : /\ (IF i < first THEN i ELSE i + 1) \in 1..Len(s)
                                 /\ (IF i < first THEN i ELSE i + 1) # first
  BY <1>3, <1>4
<1>8. w \in Seq(Proxies) /\ Len(w) = Len(s) - 1
  <2>1. \A i \in 1..(Len(s) - 1) : w[i] \in Proxies
    BY <1>6, <1>7
  <2>2. w \in [1..(Len(s) - 1) -> Proxies]
    BY <2>1
  <2> QED BY <2>2, <1>4
<1> HIDE DEF w
<1>9. \A i, j \in 1..(Len(s) - 1) : w[i] = w[j] => i = j
  <2> SUFFICES ASSUME NEW i \in 1..(Len(s) - 1), NEW j \in 1..(Len(s) - 1), w[i] = w[j]
               PROVE  i = j
    OBVIOUS
  <2> DEFINE at(x) == IF x < first THEN x ELSE x + 1
  <2>1. s[at(i)] = s[at(j)] /\ at(i) \in 1..Len(s) /\ at(j) \in 1..Len(s)
    BY <1>6, <1>7
  <2>2. at(i) = at(j)
    <3> HIDE DEF at
    <3> QED BY <2>1
  <2> QED BY <1>3, <1>4, <2>2
<1>10. \A i \in 1..(Len(s) - 1) : w[i] # p /\ \E j \in 1..Len(s) : w[i] = s[j]
  BY <1>3, <1>6, <1>7
<1> QED BY <1>5, <1>8, <1>9, <1>10

\* At the start the pool is empty and no thread is busy.
LEMMA InitIInv == Init => IInv
  BY DEF Init, IInv, TypeOK, PoolBounded, NoDuplicates, FailedProxyNotReused, InPool, Idle,
         ThreadRecord

\* A step of one thread that leaves the pool alone and forgets or keeps the
\* proxies that failed it keeps the invariant.
LEMMA ThreadChange ==
  ASSUME IInv, NEW t \in Threads, NEW r \in ThreadRecord,
         thread' = [thread EXCEPT ![t] = r],
         good' = good,
         r.at \in {"found", "using", "reporting"} <=> r.proxy # Nothing,
         r.failed \subseteq thread[t].failed
  PROVE  IInv'
<1>1. \A u \in Threads : thread'[u] = IF u = t THEN r ELSE thread[u]
  BY DEF IInv, TypeOK
<1>2. thread' \in [Threads -> ThreadRecord]
  BY DEF IInv, TypeOK
<1>3. TypeOK'
  BY <1>1, <1>2 DEF IInv, TypeOK
<1>4. FailedProxyNotReused'
  BY <1>1 DEF IInv, FailedProxyNotReused, InPool
<1>5. PoolBounded' /\ NoDuplicates'
  BY DEF IInv, PoolBounded, NoDuplicates
<1> QED BY <1>3, <1>4, <1>5 DEF IInv

\* Threads are records, and so is one that is idle.
LEMMA RecordFacts ==
  ASSUME IInv, NEW t \in Threads
  PROVE  /\ thread[t] \in ThreadRecord /\ Idle \in ThreadRecord
         /\ Idle.at = "idle" /\ Idle.proxy = Nothing /\ Idle.failed = {}
<1>1. Idle \in ThreadRecord
  BY DEF Idle, ThreadRecord
<1>2. thread[t] \in ThreadRecord
  BY DEF IInv, TypeOK
<1> QED BY <1>1, <1>2 DEF Idle

\* The number of an attempt stays within range(1, _MAX_PROXY_ATTEMPTS + 1).
LEMMA NextTry ==
  \A n \in 0..MaxAttempts : (IF n < MaxAttempts THEN n + 1 ELSE n) \in 0..MaxAttempts
  OBVIOUS

\* An attempt that failed leaves a well-formed thread without a proxy.
LEMMA FailedFacts ==
  ASSUME NEW r \in ThreadRecord
  PROVE  /\ Failed(r) \in ThreadRecord
         /\ Failed(r).proxy = Nothing
         /\ Failed(r).at \in {"asking", "ended"}
         /\ Failed(r).failed = r.failed
<1> DEFINE at == IF r.tries < MaxAttempts THEN "asking" ELSE "ended"
           tries == IF r.tries < MaxAttempts THEN r.tries + 1 ELSE r.tries
<1>1. /\ at \in {"asking", "ended"}
      /\ tries \in 0..MaxAttempts
  <2>1. r.tries \in 0..MaxAttempts
    BY DEF ThreadRecord
  <2>2. tries \in 0..MaxAttempts
    BY <2>1, NextTry, Zenon
  <2>3. (IF r.tries < MaxAttempts THEN "asking" ELSE "ended") \in {"asking", "ended"}
    OBVIOUS
  <2> QED BY <2>2, <2>3, Zenon
<1>2. Failed(r) = [r EXCEPT !.at = at, !.tries = tries, !.proxy = Nothing]
  BY DEF Failed
<1> HIDE DEF at, tries
<1> QED BY <1>1, <1>2 DEF ThreadRecord

\* Every step of a top-up keeps the invariant.
LEMMA TopUpKeeps ==
  ASSUME IInv, NEW t \in Threads, TopUpStep(t)
  PROVE  IInv'
<1>0. thread[t] \in ThreadRecord
  BY RecordFacts
<1>1. CASE TopUpGoesOn(t)
  <2> DEFINE r == [thread[t] EXCEPT !.at = "scraping", !.scrapes = @ + 1]
  <2>1. /\ r \in ThreadRecord /\ r.failed = thread[t].failed
        /\ r.at = "scraping" /\ r.proxy = Nothing
    <3>1. thread[t].proxy = Nothing
      BY <1>1 DEF TopUpGoesOn, IInv, TypeOK
    <3>2. thread[t].scrapes \in 0..Budget
      BY <1>0 DEF ThreadRecord
    <3>3. thread[t].scrapes + 1 \in 0..Budget
      BY <1>1, <3>2 DEF TopUpGoesOn
    <3> DEFINE n == thread[t].scrapes + 1
    <3>4. n \in 0..Budget /\ r = [thread[t] EXCEPT !.at = "scraping", !.scrapes = n]
      BY <3>3
    <3> HIDE DEF n
    <3> QED BY <1>0, <3>1, <3>4 DEF ThreadRecord
  <2>2. thread' = [thread EXCEPT ![t] = r] /\ good' = good
    BY <1>1 DEF TopUpGoesOn
  <2> QED BY <2>1, <2>2, ThreadChange
<1>2. CASE TopUpEnds(t)
  <2> DEFINE r == IF t = Job THEN Idle ELSE [thread[t] EXCEPT !.at = "asking again", !.scrapes = 0]
  <2>1. /\ r \in ThreadRecord /\ r.failed \subseteq thread[t].failed
        /\ r.at \in {"idle", "asking again"} /\ r.proxy = Nothing
    <3>1. CASE t = Job
      BY <3>1, RecordFacts
    <3>2. CASE t # Job
      <4>1. thread[t].proxy = Nothing
        BY <1>2 DEF TopUpEnds, IInv, TypeOK
      <4>2. r = [thread[t] EXCEPT !.at = "asking again", !.scrapes = 0] /\ 0 \in 0..Budget
        BY <3>2
      <4> HIDE DEF r
      <4> QED BY <1>0, <4>1, <4>2 DEF ThreadRecord
    <3> QED BY <3>1, <3>2
  <2>2. thread' = [thread EXCEPT ![t] = r] /\ good' = good
    BY <1>2 DEF TopUpEnds
  <2> QED BY <2>1, <2>2, ThreadChange
<1>3. CASE ScrapeFails(t)
  <2> DEFINE r == [thread[t] EXCEPT !.at = "checking"]
  <2>1. /\ r \in ThreadRecord /\ r.failed = thread[t].failed
        /\ r.at = "checking" /\ r.proxy = Nothing
    BY <1>0, <1>3 DEF ScrapeFails, IInv, TypeOK, ThreadRecord
  <2>2. thread' = [thread EXCEPT ![t] = r] /\ good' = good
    BY <1>3 DEF ScrapeFails
  <2> QED BY <2>1, <2>2, ThreadChange
<1>4. ASSUME NEW p \in Proxies, ScrapeFinds(t, p) PROVE IInv'
  <2> DEFINE r == [thread[t] EXCEPT !.at = "found", !.proxy = p]
  <2>1. /\ r \in ThreadRecord /\ r.failed = thread[t].failed
        /\ r.at = "found" /\ r.proxy # Nothing
    BY <1>0 DEF ThreadRecord
  <2>2. thread' = [thread EXCEPT ![t] = r] /\ good' = good
    BY <1>4 DEF ScrapeFinds
  <2> QED BY <2>1, <2>2, ThreadChange
<1>5. CASE Admit(t)
  <2> DEFINE p == thread[t].proxy
  <2>1. p \in Proxies
    BY <1>0, <1>5 DEF Admit, IInv, TypeOK, ThreadRecord
  <2>2. /\ good' \in Seq(Proxies)
        /\ Fits(p) => /\ Len(good') = Len(good) + 1
                      /\ \A i \in 1..Len(good) : good'[i] = good[i]
                      /\ good'[Len(good) + 1] = p
        /\ ~Fits(p) => good' = good
    <3>1. good' = (IF Fits(p) THEN Append(good, p) ELSE good)
      BY <1>5 DEF Admit
    <3>2. good \in Seq(Proxies)
      BY DEF IInv, TypeOK
    <3> HIDE DEF p
    <3> QED BY <2>1, <3>1, <3>2
  <2>3. PoolBounded' /\ NoDuplicates'
    BY <2>1, <2>2 DEF Fits, InPool, IInv, TypeOK, PoolBounded, NoDuplicates
  <2>4. \A u \in Threads :
          /\ thread'[u] \in ThreadRecord
          /\ thread'[u].at = IF u = t THEN "checking" ELSE thread[u].at
          /\ thread'[u].proxy = IF u = t THEN Nothing ELSE thread[u].proxy
          /\ thread'[u].failed = IF Fits(p) THEN thread[u].failed \ {p} ELSE thread[u].failed
    <3>1. \A u \in Threads : thread[u] \in ThreadRecord
      BY DEF IInv, TypeOK
    <3>2. thread' = [u \in Threads |->
             [thread[u] EXCEPT !.at = IF u = t THEN "checking" ELSE @,
                               !.proxy = IF u = t THEN Nothing ELSE @,
                               !.failed = IF Fits(p) THEN @ \ {p} ELSE @]]
      BY <1>5 DEF Admit
    <3> HIDE DEF p
    <3> TAKE u \in Threads
    <3> DEFINE a == IF u = t THEN "checking" ELSE thread[u].at
               x == IF u = t THEN Nothing ELSE thread[u].proxy
               f == IF Fits(p) THEN thread[u].failed \ {p} ELSE thread[u].failed
    <3>3. /\ thread[u] \in ThreadRecord
          /\ thread'[u] = [thread[u] EXCEPT !.at = a, !.proxy = x, !.failed = f]
      BY <3>1, <3>2
    <3>4. [thread[u] EXCEPT !.at = "checking"] \in ThreadRecord
      BY <3>3 DEF ThreadRecord
    <3>5. thread[u].failed \ {p} \in SUBSET Proxies
      BY <3>3 DEF ThreadRecord
    <3>6. /\ a \in {"checking", thread[u].at}
          /\ x \in {Nothing, thread[u].proxy}
          /\ f \in SUBSET Proxies
      BY <3>3, <3>5 DEF ThreadRecord
    <3> HIDE DEF a, x, f
    <3>7. thread'[u] \in ThreadRecord
      BY <3>3, <3>6 DEF ThreadRecord
    <3>8. thread'[u].at = a /\ thread'[u].proxy = x /\ thread'[u].failed = f
      BY <3>3 DEF ThreadRecord
    <3> QED BY <3>7, <3>8 DEF a, x, f
  <2>5. thread' \in [Threads -> ThreadRecord]
    <3>1. thread' = [u \in Threads |-> thread'[u]]
      BY <1>5 DEF Admit
    <3> QED BY <2>4, <3>1
  <2>6. TypeOK'
    <3>1. \A u \in Threads :
            thread[u].at \in {"found", "using", "reporting"} <=> thread[u].proxy # Nothing
      BY DEF IInv, TypeOK
    <3>2. \A u \in Threads :
            thread'[u].at \in {"found", "using", "reporting"} <=> thread'[u].proxy # Nothing
      BY <2>4, <3>1
    <3> QED BY <2>2, <2>5, <3>2 DEF IInv, TypeOK
  <2>7. FailedProxyNotReused'
    <3> SUFFICES ASSUME NEW u \in Fetchers, NEW q \in Proxies, q \in thread'[u].failed
                 PROVE  \A i \in 1..Len(good') : good'[i] # q
      BY DEF FailedProxyNotReused, InPool
    <3> HIDE DEF p
    <3>0. u \in Threads
      OBVIOUS
    <3>1. q \in thread[u].failed /\ (Fits(p) => q # p)
      <4>1. CASE Fits(p)
        <5>1. thread'[u].failed = thread[u].failed \ {p}
          BY <2>4, <3>0, <4>1
        <5> QED BY <5>1
      <4>2. CASE ~Fits(p)
        <5>1. thread'[u].failed = thread[u].failed
          BY <2>4, <3>0, <4>2
        <5> QED BY <5>1, <4>2
      <4> QED BY <4>1, <4>2
    <3>2. \A i \in 1..Len(good) : good[i] # q
      BY <3>1 DEF IInv, FailedProxyNotReused, InPool
    <3>3. Len(good) \in Nat
      BY DEF IInv, TypeOK
    <3> QED BY <2>2, <3>1, <3>2, <3>3
  <2> QED BY <2>3, <2>6, <2>7 DEF IInv
<1> QED BY <1>1, <1>2, <1>3, <1>4, <1>5 DEF TopUpStep

\* Every step of a fetch keeps the invariant.
LEMMA FetchKeeps ==
  ASSUME IInv, NEW t \in Fetchers, Begin(t) \/ FetchStep(t)
  PROVE  IInv'
<1>0. thread[t] \in ThreadRecord /\ Idle \in ThreadRecord /\ Idle.failed = {}
  BY RecordFacts
<1>1. CASE Begin(t)
  <2> DEFINE r == [thread[t] EXCEPT !.at = "asking", !.tries = 1]
  <2>1. /\ r \in ThreadRecord /\ r.failed = thread[t].failed
        /\ r.at = "asking" /\ r.proxy = Nothing
    <3>1. thread[t].proxy = Nothing /\ 1 \in 0..MaxAttempts
      BY <1>1 DEF Begin, IInv, TypeOK
    <3> QED BY <1>0, <3>1 DEF ThreadRecord
  <2>2. thread' = [thread EXCEPT ![t] = r] /\ good' = good
    BY <1>1 DEF Begin
  <2> QED BY <2>1, <2>2, ThreadChange
<1>2. CASE Draw(t)
  <2>1. PICK p \in Proxies : thread' = [thread EXCEPT ![t].at = "using", ![t].proxy = p]
    BY <1>2 DEF Draw
  <2> DEFINE r == [thread[t] EXCEPT !.at = "using", !.proxy = p]
  <2>2. /\ r \in ThreadRecord /\ r.failed = thread[t].failed
        /\ r.at = "using" /\ r.proxy # Nothing
    BY <1>0 DEF ThreadRecord
  <2>3. thread' = [thread EXCEPT ![t] = r] /\ good' = good
    BY <1>2, <2>1 DEF Draw
  <2> QED BY <2>2, <2>3, ThreadChange
<1>3. CASE ColdStart(t)
  <2> DEFINE r == [thread[t] EXCEPT !.at = "checking"]
  <2>1. /\ r \in ThreadRecord /\ r.failed = thread[t].failed
        /\ r.at = "checking" /\ r.proxy = Nothing
    BY <1>0, <1>3 DEF ColdStart, IInv, TypeOK, ThreadRecord
  <2>2. thread' = [thread EXCEPT ![t] = r] /\ good' = good
    BY <1>3 DEF ColdStart
  <2> QED BY <2>1, <2>2, ThreadChange
<1>4. CASE NoProxy(t)
  <2> DEFINE r == Failed(thread[t])
  <2>1. /\ r \in ThreadRecord /\ r.failed = thread[t].failed
        /\ r.at \in {"asking", "ended"} /\ r.proxy = Nothing
    BY <1>0, FailedFacts
  <2>2. thread' = [thread EXCEPT ![t] = r] /\ good' = good
    BY <1>4 DEF NoProxy
  <2> HIDE DEF r
  <2> QED BY <2>1, <2>2, ThreadChange
<1>5. CASE RequestSucceeds(t) \/ GivesUp(t)
  <2>1. thread' = [thread EXCEPT ![t] = Idle] /\ good' = good
    BY <1>5 DEF RequestSucceeds, GivesUp
  <2>2. Idle.at = "idle" /\ Idle.proxy = Nothing
    BY DEF Idle
  <2> QED BY <1>0, <2>1, <2>2, ThreadChange
<1>6. CASE RequestFails(t)
  <2> DEFINE r == [thread[t] EXCEPT !.at = "reporting"]
  <2>1. /\ r \in ThreadRecord /\ r.failed = thread[t].failed
        /\ r.at = "reporting" /\ r.proxy # Nothing
    BY <1>0, <1>6 DEF RequestFails, IInv, TypeOK, ThreadRecord
  <2>2. thread' = [thread EXCEPT ![t] = r] /\ good' = good
    BY <1>6 DEF RequestFails
  <2> QED BY <2>1, <2>2, ThreadChange
<1>7. CASE Report(t)
  <2> DEFINE p == thread[t].proxy
             next == Failed(thread[t])
             r == [next EXCEPT !.failed = thread[t].failed \cup {p}]
  <2>1. p \in Proxies /\ thread' = [thread EXCEPT ![t] = r]
    <3>1. p # Nothing
      BY <1>7 DEF Report, IInv, TypeOK
    <3>2. p \in Proxies
      BY <1>0, <3>1 DEF ThreadRecord
    <3> QED BY <1>7, <3>2 DEF Report
  <2>2. /\ good' \in Seq(Proxies)
        /\ PoolBounded' /\ NoDuplicates'
        /\ \A i \in 1..Len(good') : good'[i] # p /\ InPool(good'[i])
    <3>1. good' = Evict(p)
      BY <1>7 DEF Report
    <3> HIDE DEF p, r, next
    <3>2. CASE InPool(p)
      <4>1. good' = Without(good, p)
        BY <3>1, <3>2 DEF Evict
      <4>2. good \in Seq(Proxies) /\ \A i, j \in 1..Len(good) : good[i] = good[j] => i = j
        BY DEF IInv, TypeOK, NoDuplicates
      <4>3. /\ good' \in Seq(Proxies)
            /\ Len(good') = Len(good) - 1
            /\ \A i, j \in 1..(Len(good) - 1) : good'[i] = good'[j] => i = j
            /\ \A i \in 1..(Len(good) - 1) :
                  good'[i] # p /\ \E j \in 1..Len(good) : good'[i] = good[j]
        BY <2>1, <3>2, <4>1, <4>2, WithoutFacts DEF InPool
      <4> QED BY <4>2, <4>3 DEF IInv, PoolBounded, NoDuplicates, InPool
    <3>3. CASE ~InPool(p)
      BY <3>1, <3>3 DEF Evict, InPool, IInv, TypeOK, PoolBounded, NoDuplicates
    <3> QED BY <3>2, <3>3
  <2>3. /\ r \in ThreadRecord /\ r.failed = thread[t].failed \cup {p}
        /\ r.at \in {"asking", "ended"} /\ r.proxy = Nothing
    <3>1. /\ next \in ThreadRecord /\ next.proxy = Nothing
          /\ next.at \in {"asking", "ended"} /\ next.failed = thread[t].failed
      BY <1>0, FailedFacts
    <3>2. thread[t].failed \cup {p} \in SUBSET Proxies
      BY <1>0, <2>1 DEF ThreadRecord
    <3> HIDE DEF next, p
    <3> QED BY <3>1, <3>2 DEF ThreadRecord
  <2> HIDE DEF r, p
  <2>4. \A u \in Threads : thread'[u] = IF u = t THEN r ELSE thread[u]
    BY <2>1 DEF IInv, TypeOK
  <2>5. TypeOK'
    <3>1. thread' \in [Threads -> ThreadRecord]
      BY <2>1, <2>3 DEF IInv, TypeOK
    <3> QED BY <3>1, <2>1, <2>2, <2>3, <2>4 DEF IInv, TypeOK
  <2>6. FailedProxyNotReused'
    <3>1. SUFFICES ASSUME NEW u \in Fetchers, NEW q \in Proxies, q \in thread'[u].failed,
                          NEW i \in 1..Len(good'), good'[i] = q
                   PROVE  FALSE
      BY DEF FailedProxyNotReused, InPool
    <3>2. q # p /\ InPool(q)
      BY <2>2, <3>1
    <3>3. thread'[u].failed \subseteq thread[u].failed \cup {p}
      BY <2>3, <2>4
    <3>4. q \in thread[u].failed
      BY <3>1, <3>2, <3>3
    <3> QED BY <3>2, <3>4 DEF IInv, FailedProxyNotReused
  <2> QED BY <2>2, <2>5, <2>6 DEF IInv
<1> QED BY <1>1, <1>2, <1>3, <1>4, <1>5, <1>6, <1>7 DEF FetchStep

\* Every step of the specification keeps the invariant.
LEMMA StepIInv == IInv /\ [Next]_vars => IInv'
<1> SUFFICES ASSUME IInv, [Next]_vars PROVE IInv'
  OBVIOUS
<1>1. CASE JobTicks
  <2> DEFINE r == [thread[Job] EXCEPT !.at = "checking"]
  <2>1. /\ r \in ThreadRecord /\ r.failed = thread[Job].failed
        /\ r.at = "checking" /\ r.proxy = Nothing
    BY <1>1 DEF JobTicks, IInv, TypeOK, ThreadRecord
  <2>2. thread' = [thread EXCEPT ![Job] = r] /\ good' = good
    BY <1>1 DEF JobTicks
  <2> QED BY <2>1, <2>2, ThreadChange
<1>2. CASE UNCHANGED vars
  BY <1>2 DEF vars, IInv, TypeOK, PoolBounded, NoDuplicates, FailedProxyNotReused, InPool
<1> QED BY <1>1, <1>2, TopUpKeeps, FetchKeeps DEF Next

\* The pool of proxy_pool.py in every reachable state: the conjunction of
\* the types and the three facts below.
THEOREM PoolInvariance == Spec => []IInv
  BY InitIInv, StepIInv, PTL DEF Spec

\* The types of every reachable state.
THEOREM PoolTypeCorrect == Spec => []TypeOK
  BY PoolInvariance, PTL DEF IInv

\* top_up never admits beyond target_size, however many threads top up.
THEOREM PoolStaysBounded == Spec => []PoolBounded
  BY PoolInvariance, PTL DEF IInv

\* top_up never admits a proxy that is in the pool.
THEOREM PoolHasNoDuplicates == Spec => []NoDuplicates
  BY PoolInvariance, PTL DEF IInv

\* After report_failure a fetch is not handed the same proxy again, unless a
\* top-up has admitted it anew.
THEOREM EvictionHolds == Spec => []FailedProxyNotReused
  BY PoolInvariance, PTL DEF IInv
=============================================================================
