------------------------ MODULE DexCacheInitProofs -------------------------
(* InitDexCache settles every claim it makes and keeps the promise of        *)
(* CacheWarmUp, for any dexes, cache parts, faulty parts and requests.       *)
EXTENDS DexCacheInit, TLAPS

Known(k, d) == flag[k][d] \cup failed_flags[k][d]
Working == {"begin", "submit", "unwind"}

\* A job is what its dex has claimed in the current round: open until its task
\* has run, known from then on.
JobsAreClaims ==
    /\ \A d \in Dexes :
         /\ jobs[d] \subseteq Asked
         /\ task[d] # "none" => jobs[d] # {}
         /\ task[d] = "ran" => inflight[round][d] = {} /\ jobs[d] \subseteq Known(round, d)
         /\ task[d] # "ran" => inflight[round][d] = jobs[d] /\ jobs[d] \cap Known(round, d) = {}
         /\ \A k \in Rounds \ {round} : inflight[k][d] = {}
    /\ stage \notin Working => \A d \in Dexes : jobs[d] = {}
    /\ stage \notin {"submit", "unwind"} => \A d \in Dexes : task[d] = "none"
    /\ stage = "unwind" => \E d \in Dexes : jobs[d] # {} /\ task[d] = "none"
    /\ \A d \in todo : stage = "begin" /\ jobs[d] = {}

\* A part is published or failed, not both, and what was built is one of them.
\* A round reaches no part that an earlier one has not published in every dex.
KnownParts ==
    /\ \A k \in Rounds, d \in Dexes :
         /\ flag[k][d] \cap failed_flags[k][d] = {}
         /\ \A f \in Flags : built[k][d][f] = 1 => f \in Known(k, d)
    /\ \A d, e \in Dexes : Known("cross", d) \subseteq CrossFlags \cap flag["init"][e]
    /\ agg_flag \cap agg_failed = {}
    /\ \A d \in Dexes : agg_flag \cup agg_failed \cup agg_inflight \subseteq flag["cross"][d]

\* What the rounds before the present one have done.
Aggregating == {"aggregate", "aggregate_build", "rethrow", "aggregate_wait"}
RoundsInOrder ==
    /\ stage = "idle" => round = "init" /\ init_flags = {}
    /\ round = "cross" => \A d \in Dexes : init_flags \subseteq flag["init"][d]
    /\ stage \in Aggregating =>
         round = "cross" /\ \A d \in Dexes : Asked \subseteq flag["cross"][d]
    /\ IF stage = "aggregate_build"
       THEN /\ agg_inflight # {} /\ agg_inflight \subseteq Asked
            /\ agg_inflight \cap (agg_flag \cup agg_failed) = {}
       ELSE agg_inflight = {}
    /\ stage = "rethrow" => Asked \cap agg_failed # {}

CacheInv == TypeOK /\ JobsAreClaims /\ KnownParts /\ RoundsInOrder /\ OnlyThrowsLatch

-----------------------------------------------------------------------------
\* Changing what one dex has in one round.
LEMMA PutCell ==
    ASSUME NEW table \in [Rounds -> [Dexes -> SUBSET Flags]],
           NEW k \in Rounds, NEW d \in Dexes, NEW parts \in SUBSET Flags
    PROVE  LET put == [table EXCEPT ![k][d] = parts]
           IN  /\ put \in [Rounds -> [Dexes -> SUBSET Flags]]
               /\ \A j \in Rounds, e \in Dexes :
                    put[j][e] = IF j = k /\ e = d THEN parts ELSE table[j][e]
OBVIOUS

\* Changing what every dex has in one round.
LEMMA PutRow ==
    ASSUME NEW table \in [Rounds -> [Dexes -> SUBSET Flags]],
           NEW k \in Rounds, NEW row \in [Dexes -> SUBSET Flags]
    PROVE  LET put == [table EXCEPT ![k] = row]
           IN  /\ put \in [Rounds -> [Dexes -> SUBSET Flags]]
               /\ \A j \in Rounds, e \in Dexes :
                    put[j][e] = IF j = k THEN row[e] ELSE table[j][e]
OBVIOUS

\* Every step keeps the invariant.
LEMMA NextCache == CacheInv /\ [Next]_vars => CacheInv'
<1> SUFFICES ASSUME CacheInv, [Next]_vars PROVE CacheInv'
  OBVIOUS
<1> USE InitAssumption DEF Known, Working, Aggregating, Rounds, pool, dex_state, agg_state
<1>0. TypeOK /\ JobsAreClaims /\ KnownParts /\ RoundsInOrder /\ OnlyThrowsLatch
  BY DEF CacheInv
<1>1. ASSUME NEW flags \in Requests, Call(flags) PROVE CacheInv'
  <2>1. flags \subseteq Flags
    OBVIOUS
  <2>2. TypeOK'
    BY <1>0, <1>1, <2>1 DEF Call, TypeOK
  <2>3. JobsAreClaims'
    BY <1>0, <1>1 DEF Call, TypeOK, JobsAreClaims, Asked
  <2>4. KnownParts' /\ OnlyThrowsLatch'
    BY <1>0, <1>1 DEF Call, KnownParts, OnlyThrowsLatch
  <2>5. RoundsInOrder'
    BY <1>0, <1>1 DEF Call, RoundsInOrder, Asked
  <2> QED BY <2>2, <2>3, <2>4, <2>5 DEF CacheInv
<1>2. ASSUME NEW d \in Dexes, BeginDex(d) PROVE CacheInv'
  <2>0. Asked' = Asked /\ Asked \subseteq Flags
    BY <1>0, <1>2 DEF BeginDex, Asked, TypeOK
  <2>1. CASE Missing(d) = {} /\ UNCHANGED <<jobs, inflight>>
    <3>1. TypeOK'
      BY <1>0, <1>2, <2>1 DEF BeginDex, TypeOK
    <3>2. JobsAreClaims'
      BY <1>0, <1>2, <2>0, <2>1 DEF BeginDex, TypeOK, JobsAreClaims
    <3>3. KnownParts' /\ RoundsInOrder' /\ OnlyThrowsLatch'
      BY <1>0, <1>2, <2>0 DEF BeginDex, KnownParts, RoundsInOrder, OnlyThrowsLatch
    <3> QED BY <3>1, <3>2, <3>3 DEF CacheInv
  <2>2. CASE /\ Missing(d) # {} /\ inflight[round][d] = {}
             /\ jobs' = [jobs EXCEPT ![d] = Missing(d)]
             /\ inflight' = [inflight EXCEPT ![round][d] = Missing(d)]
    <3>0. /\ Missing(d) \subseteq Asked /\ Missing(d) \in SUBSET Flags
          /\ Missing(d) \cap (flag[round][d] \cup failed_flags[round][d]) = {}
      BY <2>0 DEF Missing
    <3>a. /\ inflight' \in [Rounds -> [Dexes -> SUBSET Flags]]
          /\ \A j \in Rounds, e \in Dexes :
               inflight'[j][e] = IF j = round /\ e = d THEN Missing(d) ELSE inflight[j][e]
      BY <1>0, <2>2, <3>0, PutCell DEF TypeOK
    <3> HIDE DEF Rounds
    <3>1. TypeOK'
      BY <1>0, <1>2, <2>2, <3>0, <3>a DEF BeginDex, TypeOK
    <3>2. JobsAreClaims'
      BY <1>0, <1>2, <2>0, <2>2, <3>0, <3>a DEF BeginDex, TypeOK, JobsAreClaims
    <3>3. KnownParts' /\ RoundsInOrder' /\ OnlyThrowsLatch'
      BY <1>0, <1>2, <2>0 DEF BeginDex, KnownParts, RoundsInOrder, OnlyThrowsLatch
    <3> QED BY <3>1, <3>2, <3>3 DEF CacheInv
  <2> QED BY <1>2, <2>1, <2>2 DEF BeginDex
<1>3. ASSUME CreatePool PROVE CacheInv'
  <2>0. Asked' = Asked /\ Asked \subseteq Flags
    BY <1>0, <1>3 DEF CreatePool, Asked, TypeOK
  <2>1. TypeOK'
    BY <1>0, <1>3, <2>0 DEF CreatePool, HasJobs, TypeOK, Flags
  <2>2. JobsAreClaims'
    BY <1>0, <1>3, <2>0 DEF CreatePool, HasJobs, TypeOK, JobsAreClaims
  <2>3. KnownParts'
    BY <1>0, <1>3, <2>0 DEF CreatePool, HasJobs, TypeOK, KnownParts
  <2>4. RoundsInOrder'
    BY <1>0, <1>3, <2>0 DEF CreatePool, HasJobs, TypeOK, RoundsInOrder
  <2>5. OnlyThrowsLatch'
    BY <1>0, <1>3, <2>0 DEF CreatePool, HasJobs, TypeOK, OnlyThrowsLatch
  <2> QED BY <2>1, <2>2, <2>3, <2>4, <2>5 DEF CacheInv
<1>4. ASSUME NEW d \in Dexes, Submit(d) PROVE CacheInv'
  <2>0. Asked' = Asked /\ Asked \subseteq Flags
    BY <1>0, <1>4 DEF Submit, Asked, TypeOK
  <2>1. TypeOK'
    BY <1>0, <1>4, <2>0 DEF Submit, TypeOK, Flags
  <2>2. JobsAreClaims'
    BY <1>0, <1>4, <2>0 DEF Submit, TypeOK, JobsAreClaims
  <2>3. KnownParts'
    BY <1>0, <1>4, <2>0 DEF Submit, TypeOK, KnownParts
  <2>4. RoundsInOrder'
    BY <1>0, <1>4, <2>0 DEF Submit, TypeOK, RoundsInOrder
  <2>5. OnlyThrowsLatch'
    BY <1>0, <1>4, <2>0 DEF Submit, TypeOK, OnlyThrowsLatch
  <2> QED BY <2>1, <2>2, <2>3, <2>4, <2>5 DEF CacheInv
<1>5. ASSUME PoolThrows PROVE CacheInv'
  <2>0. Asked' = Asked /\ Asked \subseteq Flags
    BY <1>0, <1>5 DEF PoolThrows, Asked, TypeOK
  <2>1. TypeOK'
    BY <1>0, <1>5, <2>0 DEF PoolThrows, TypeOK, Flags
  <2>2. JobsAreClaims'
    BY <1>0, <1>5, <2>0 DEF PoolThrows, TypeOK, JobsAreClaims
  <2>3. KnownParts'
    BY <1>0, <1>5, <2>0 DEF PoolThrows, TypeOK, KnownParts
  <2>4. RoundsInOrder'
    BY <1>0, <1>5, <2>0 DEF PoolThrows, TypeOK, RoundsInOrder
  <2>5. OnlyThrowsLatch'
    BY <1>0, <1>5, <2>0 DEF PoolThrows, TypeOK, OnlyThrowsLatch
  <2> QED BY <2>1, <2>2, <2>3, <2>4, <2>5 DEF CacheInv
<1>6. ASSUME NEW d \in Dexes, RunTask(d) PROVE CacheInv'
  <2>0. Asked' = Asked /\ Asked \subseteq Flags
    BY <1>0, <1>6 DEF RunTask, Asked, TypeOK
  <2>1. /\ round \in Rounds /\ task[d] = "queued" /\ stage \in {"submit", "unwind"}
        /\ jobs[d] # {} /\ jobs[d] \subseteq Asked /\ inflight[round][d] = jobs[d]
        /\ jobs[d] \cap (flag[round][d] \cup failed_flags[round][d]) = {}
    BY <1>0, <1>6 DEF RunTask, TypeOK, JobsAreClaims
  <2>2. /\ inflight' \in [Rounds -> [Dexes -> SUBSET Flags]]
        /\ \A j \in Rounds, e \in Dexes :
             inflight'[j][e] = IF j = round /\ e = d THEN {} ELSE inflight[j][e]
    <3>1. inflight' = [inflight EXCEPT ![round][d] = {}]
      BY <1>0, <1>6, <2>1 DEF RunTask, TypeOK
    <3> QED BY <1>0, <2>1, <3>1, PutCell DEF TypeOK
  <2>3. /\ flag' \in [Rounds -> [Dexes -> SUBSET Flags]]
        /\ failed_flags' \in [Rounds -> [Dexes -> SUBSET Flags]]
        /\ \A j \in Rounds, e \in Dexes :
             j # round \/ e # d =>
               flag'[j][e] = flag[j][e] /\ failed_flags'[j][e] = failed_flags[j][e]
        /\ \/ /\ Throws(d) /\ flag'[round][d] = flag[round][d]
              /\ failed_flags'[round][d] = failed_flags[round][d] \cup jobs[d]
           \/ /\ ~Throws(d) /\ failed_flags'[round][d] = failed_flags[round][d]
              /\ flag'[round][d] = flag[round][d] \cup jobs[d]
    <3>1. CASE Throws(d)
      <4>1. failed_flags' = [failed_flags EXCEPT ![round][d] = failed_flags[round][d] \cup jobs[d]]
        BY <1>0, <1>6, <2>1, <3>1 DEF RunTask, Latched, TypeOK
      <4>2. failed_flags[round][d] \cup jobs[d] \in SUBSET Flags
        BY <1>0, <2>1 DEF TypeOK
      <4> QED BY <1>0, <1>6, <2>1, <3>1, <4>1, <4>2, PutCell DEF RunTask, TypeOK
    <3>2. CASE ~Throws(d)
      <4>1. flag' = [flag EXCEPT ![round][d] = flag[round][d] \cup jobs[d]]
        BY <1>0, <1>6, <2>1, <3>2 DEF RunTask, TypeOK
      <4>2. flag[round][d] \cup jobs[d] \in SUBSET Flags
        BY <1>0, <2>1 DEF TypeOK
      <4> QED BY <1>0, <1>6, <2>1, <3>2, <4>1, <4>2, PutCell DEF RunTask, TypeOK
    <3> QED BY <3>1, <3>2
  <2>4. /\ built' \in [Rounds -> [Dexes -> [Flags -> 0..1]]]
        /\ \A j \in Rounds, e \in Dexes, f \in Flags :
             ~(j = round /\ e = d /\ f \in jobs[d]) => built'[j][e][f] = built[j][e][f]
    <3>1. \A f \in jobs[d] : f \in Flags /\ built[round][d][f] = 0
      BY <1>0, <2>0, <2>1 DEF TypeOK, KnownParts
    <3>2. built' = [built EXCEPT ![round][d] =
                       [f \in Flags |-> IF f \in jobs[d] THEN 1 ELSE built[round][d][f]]]
      <4>1. [f \in Flags |-> IF f \in jobs[d] THEN built[round][d][f] + 1 ELSE built[round][d][f]]
              = [f \in Flags |-> IF f \in jobs[d] THEN 1 ELSE built[round][d][f]]
        BY <3>1
      <4>2. built' = [built EXCEPT ![round][d] =
                 [f \in Flags |-> IF f \in jobs[d] THEN built[round][d][f] + 1 ELSE built[round][d][f]]]
        BY <1>0, <1>6, <2>1 DEF RunTask, TypeOK
      <4> QED BY <4>1, <4>2
    <3> QED BY <1>0, <2>1, <3>2 DEF TypeOK
  <2>5. task' = [task EXCEPT ![d] = "ran"]
        /\ UNCHANGED <<stage, round, init_flags, todo, jobs, agg_state, runs>>
    BY <1>6 DEF RunTask
  <2> HIDE DEF Rounds
  <2>6. TypeOK'
    BY <1>0, <2>2, <2>3, <2>4, <2>5 DEF TypeOK
  <2>7. JobsAreClaims'
    <3>1. ASSUME NEW e \in Dexes
          PROVE  /\ jobs[e] \subseteq Asked
                 /\ task'[e] # "none" => jobs[e] # {}
                 /\ task'[e] = "ran" => /\ inflight'[round][e] = {}
                                        /\ jobs[e] \subseteq flag'[round][e] \cup failed_flags'[round][e]
                 /\ task'[e] # "ran" =>
                      /\ inflight'[round][e] = jobs[e]
                      /\ jobs[e] \cap (flag'[round][e] \cup failed_flags'[round][e]) = {}
                 /\ \A k \in Rounds \ {round} : inflight'[k][e] = {}
      BY <1>0, <2>1, <2>2, <2>3, <2>5 DEF TypeOK, JobsAreClaims
    <3>2. stage = "unwind" => \E e \in Dexes : jobs[e] # {} /\ task'[e] = "none"
      BY <1>0, <2>1, <2>5 DEF TypeOK, JobsAreClaims
    <3>3. /\ stage \in Working
          /\ \A e \in todo : stage = "begin" /\ jobs[e] = {}
      BY <1>0, <2>1 DEF JobsAreClaims
    <3> QED BY <2>0, <2>1, <2>5, <3>1, <3>2, <3>3 DEF JobsAreClaims
  <2>8. KnownParts'
    <3>1. \A k \in Rounds, e \in Dexes :
            /\ flag'[k][e] \cap failed_flags'[k][e] = {}
            /\ \A f \in Flags : built'[k][e][f] = 1 => f \in flag'[k][e] \cup failed_flags'[k][e]
            /\ flag[k][e] \subseteq flag'[k][e]
      <4>0. \A k \in Rounds, e \in Dexes :
              /\ flag[k][e] \cap failed_flags[k][e] = {}
              /\ \A f \in Flags : built[k][e][f] = 1 => f \in flag[k][e] \cup failed_flags[k][e]
        BY <1>0 DEF KnownParts
      <4>1. ASSUME NEW k \in Rounds, NEW e \in Dexes
            PROVE  /\ flag'[k][e] \cap failed_flags'[k][e] = {}
                   /\ flag[k][e] \subseteq flag'[k][e]
        BY <2>1, <2>3, <4>0
      <4>2. ASSUME NEW k \in Rounds, NEW e \in Dexes, NEW f \in Flags, built'[k][e][f] = 1
            PROVE  f \in flag'[k][e] \cup failed_flags'[k][e]
        <5>1. CASE k = round /\ e = d
          <6>1. jobs[d] \cup flag[k][e] \cup failed_flags[k][e]
                  \subseteq flag'[k][e] \cup failed_flags'[k][e]
            BY <2>3, <5>1
          <6>2. f \notin jobs[d] => built[k][e][f] = 1
            BY <2>4, <4>2
          <6>3. f \notin jobs[d] => f \in flag[k][e] \cup failed_flags[k][e]
            BY <4>0, <6>2
          <6> QED BY <6>1, <6>3
        <5>2. CASE k # round \/ e # d
          <6>1. built'[k][e][f] = built[k][e][f]
            BY <2>4, <5>2
          <6>2. built[k][e][f] = 1
            BY <4>2, <6>1
          <6>3. f \in flag[k][e] \cup failed_flags[k][e]
            BY <4>0, <6>2
          <6>4. flag'[k][e] = flag[k][e] /\ failed_flags'[k][e] = failed_flags[k][e]
            BY <2>3, <5>2
          <6> QED BY <6>3, <6>4
        <5> QED BY <5>1, <5>2
      <4> QED BY <4>1, <4>2
    <3>2. \A e, g \in Dexes : flag'["cross"][e] \cup failed_flags'["cross"][e]
                                \subseteq CrossFlags \cap flag'["init"][g]
      <4>1. \A g \in Dexes : round = "cross" => jobs[d] \subseteq CrossFlags \cap flag["init"][g]
        BY <1>0, <2>1 DEF RoundsInOrder, Asked
      <4>2. "cross" \in Rounds /\ "init" \in Rounds
        BY DEF Rounds
      <4>3. \A e \in Dexes : flag'["cross"][e] \cup failed_flags'["cross"][e]
              \subseteq flag["cross"][e] \cup failed_flags["cross"][e]
                        \cup (IF round = "cross" THEN jobs[d] ELSE {})
        BY <2>1, <2>3, <4>2
      <4>4. \A e, g \in Dexes : flag["cross"][e] \cup failed_flags["cross"][e]
                                  \subseteq CrossFlags \cap flag["init"][g]
        BY <1>0 DEF KnownParts
      <4> QED BY <3>1, <4>1, <4>2, <4>3, <4>4
    <3> QED BY <1>0, <2>5, <3>1, <3>2 DEF KnownParts, Rounds
  <2>9. RoundsInOrder'
    <3>1. \A k \in Rounds, e \in Dexes : flag[k][e] \subseteq flag'[k][e]
      BY <1>0, <2>1, <2>3
    <3> QED BY <1>0, <2>0, <2>1, <2>5, <3>1 DEF RoundsInOrder, Rounds
  <2>10. OnlyThrowsLatch'
    BY <1>0, <2>1, <2>3 DEF OnlyThrowsLatch, Throws, Rounds
  <2> QED BY <2>6, <2>7, <2>8, <2>9, <2>10 DEF CacheInv
<1>7. ASSUME RetireClaims PROVE CacheInv'
  <2>0. Asked' = Asked /\ Asked \subseteq Flags
    BY <1>0, <1>7 DEF RetireClaims, Asked, TypeOK
  <2>1. \A d \in Dexes : jobs[d] \subseteq flag[round][d] \cup failed_flags[round][d]
    BY <1>0, <1>7 DEF RetireClaims, JobsAreClaims
  <2>2. failed_flags' = failed_flags
    <3>1. [d \in Dexes |-> failed_flags[round][d] \cup (jobs[d] \ flag[round][d])]
            = failed_flags[round]
      BY <1>0, <2>1 DEF TypeOK
    <3> QED BY <1>0, <1>7, <3>1 DEF RetireClaims, TypeOK
  <2>3. /\ inflight' \in [Rounds -> [Dexes -> SUBSET Flags]]
        /\ \A k \in Rounds, e \in Dexes : inflight'[k][e] = {}
    <3>1. \A e \in Dexes : inflight[round][e] \ jobs[e] = {}
      BY <1>0, <1>7 DEF RetireClaims, JobsAreClaims
    <3>2. [e \in Dexes |-> inflight[round][e] \ jobs[e]] \in [Dexes -> SUBSET Flags]
      BY <1>0 DEF TypeOK
    <3>3. inflight' = [inflight EXCEPT ![round] = [e \in Dexes |-> inflight[round][e] \ jobs[e]]]
      BY <1>7 DEF RetireClaims
    <3> QED BY <1>0, <3>1, <3>2, <3>3, PutRow DEF TypeOK, JobsAreClaims
  <2>4. /\ jobs' = [d \in Dexes |-> {}] /\ task' = [d \in Dexes |-> "none"]
        /\ stage' = "wait" /\ todo = {}
        /\ UNCHANGED <<round, init_flags, todo, flag, agg_state, built, runs>>
    BY <1>0, <1>7 DEF RetireClaims, NoJobs, JobsAreClaims, TypeOK
  <2> HIDE DEF Rounds
  <2>5. TypeOK'
    BY <1>0, <2>2, <2>3, <2>4 DEF TypeOK
  <2>6. JobsAreClaims'
    BY <1>0, <2>2, <2>3, <2>4 DEF JobsAreClaims, TypeOK
  <2>7. KnownParts' /\ OnlyThrowsLatch'
    BY <1>0, <2>2, <2>4 DEF KnownParts, OnlyThrowsLatch
  <2>8. RoundsInOrder'
    BY <1>0, <1>7, <2>0, <2>4 DEF RoundsInOrder, RetireClaims
  <2> QED BY <2>5, <2>6, <2>7, <2>8 DEF CacheInv
<1>8. ASSUME ReleaseClaims PROVE CacheInv'
  <2>0. Asked' = Asked /\ Asked \subseteq Flags
    BY <1>0, <1>8 DEF ReleaseClaims, Asked, TypeOK
  <2>1. /\ inflight' \in [Rounds -> [Dexes -> SUBSET Flags]]
        /\ \A k \in Rounds, e \in Dexes : inflight'[k][e] = {}
    <3>1. \A e \in Dexes : inflight[round][e] \ jobs[e] = {}
      BY <1>0, <1>8 DEF ReleaseClaims, JobsAreClaims
    <3>2. [e \in Dexes |-> inflight[round][e] \ jobs[e]] \in [Dexes -> SUBSET Flags]
      BY <1>0 DEF TypeOK
    <3>3. inflight' = [inflight EXCEPT ![round] = [e \in Dexes |-> inflight[round][e] \ jobs[e]]]
      BY <1>8 DEF ReleaseClaims
    <3> QED BY <1>0, <3>1, <3>2, <3>3, PutRow DEF TypeOK, JobsAreClaims
  <2>2. /\ jobs' = [d \in Dexes |-> {}] /\ task' = [d \in Dexes |-> "none"]
        /\ stage' = "thrown" /\ todo = {}
        /\ UNCHANGED <<round, init_flags, todo, flag, failed_flags, agg_state, built, runs>>
    BY <1>0, <1>8 DEF ReleaseClaims, NoJobs, JobsAreClaims, TypeOK
  <2> HIDE DEF Rounds
  <2>3. TypeOK'
    BY <1>0, <2>1, <2>2 DEF TypeOK
  <2>4. JobsAreClaims'
    BY <1>0, <2>1, <2>2 DEF JobsAreClaims, TypeOK
  <2>5. KnownParts' /\ OnlyThrowsLatch'
    BY <1>0, <2>2 DEF KnownParts, OnlyThrowsLatch
  <2>6. RoundsInOrder'
    BY <1>0, <1>8, <2>0, <2>2 DEF RoundsInOrder, ReleaseClaims
  <2> QED BY <2>3, <2>4, <2>5, <2>6 DEF CacheInv
<1>9. ASSUME WaitDexes PROVE CacheInv'
  <2>1. TypeOK'
    BY <1>0, <1>9 DEF WaitDexes, TypeOK, Flags
  <2>2. JobsAreClaims'
    BY <1>0, <1>9 DEF WaitDexes, TypeOK, JobsAreClaims, Asked
  <2>3. KnownParts'
    BY <1>0, <1>9 DEF WaitDexes, TypeOK, KnownParts
  <2>4. RoundsInOrder'
    BY <1>0, <1>9 DEF WaitDexes, TypeOK, RoundsInOrder, Asked
  <2>5. OnlyThrowsLatch'
    BY <1>0, <1>9 DEF WaitDexes, TypeOK, OnlyThrowsLatch
  <2> QED BY <2>1, <2>2, <2>3, <2>4, <2>5 DEF CacheInv
<1>10. ASSUME BeginBuildCrossRefAggregates PROVE CacheInv'
  <2>0. Asked' = Asked /\ Asked \subseteq CrossFlags
    BY <1>0, <1>10 DEF BeginBuildCrossRefAggregates, Asked, RoundsInOrder
  <2>1. AggMissing \subseteq Asked /\ AggMissing \cap (agg_flag \cup agg_failed) = {}
    BY DEF AggMissing
  <2>2. TypeOK'
    BY <1>0, <1>10, <2>0, <2>1 DEF BeginBuildCrossRefAggregates, TypeOK
  <2>3. JobsAreClaims'
    BY <1>0, <1>10, <2>0 DEF BeginBuildCrossRefAggregates, JobsAreClaims
  <2>4. KnownParts'
    BY <1>0, <1>10, <2>1 DEF BeginBuildCrossRefAggregates, KnownParts, RoundsInOrder
  <2>5. RoundsInOrder'
    BY <1>0, <1>10, <2>0, <2>1 DEF BeginBuildCrossRefAggregates, RoundsInOrder
  <2>6. OnlyThrowsLatch'
    BY <1>0, <1>10 DEF BeginBuildCrossRefAggregates, OnlyThrowsLatch
  <2> QED BY <2>2, <2>3, <2>4, <2>5, <2>6 DEF CacheInv
<1>11. ASSUME FinishBuildCrossRefAggregates PROVE CacheInv'
  <2>0. Asked' = Asked
    BY <1>11 DEF FinishBuildCrossRefAggregates, Asked
  <2>1. TypeOK' /\ JobsAreClaims'
    BY <1>0, <1>11, <2>0 DEF FinishBuildCrossRefAggregates, TypeOK, JobsAreClaims
  <2>2. agg_inflight \cap agg_failed = {}
    BY <1>0, <1>11 DEF FinishBuildCrossRefAggregates, RoundsInOrder
  <2>3. KnownParts'
    BY <1>0, <1>11, <2>2 DEF FinishBuildCrossRefAggregates, KnownParts
  <2>4. RoundsInOrder' /\ OnlyThrowsLatch'
    BY <1>0, <1>11, <2>0 DEF FinishBuildCrossRefAggregates, RoundsInOrder, OnlyThrowsLatch
  <2> QED BY <2>1, <2>3, <2>4 DEF CacheInv
<1>12. ASSUME AbortBuildCrossRefAggregates PROVE CacheInv'
  <2>0. Asked' = Asked /\ Asked \subseteq Flags
    BY <1>0, <1>12 DEF AbortBuildCrossRefAggregates, Asked, TypeOK
  <2>1. TypeOK'
    BY <1>0, <1>12, <2>0 DEF AbortBuildCrossRefAggregates, TypeOK, Flags
  <2>2. JobsAreClaims'
    BY <1>0, <1>12, <2>0 DEF AbortBuildCrossRefAggregates, TypeOK, JobsAreClaims
  <2>3. KnownParts'
    BY <1>0, <1>12, <2>0 DEF AbortBuildCrossRefAggregates, TypeOK, KnownParts
  <2>4. RoundsInOrder'
    BY <1>0, <1>12, <2>0 DEF AbortBuildCrossRefAggregates, TypeOK, RoundsInOrder
  <2>5. OnlyThrowsLatch'
    BY <1>0, <1>12, <2>0 DEF AbortBuildCrossRefAggregates, TypeOK, OnlyThrowsLatch
  <2> QED BY <2>1, <2>2, <2>3, <2>4, <2>5 DEF CacheInv
<1>13. ASSUME Rethrow PROVE CacheInv'
  <2>0. Asked' = Asked /\ Asked \subseteq Flags
    BY <1>0, <1>13 DEF Rethrow, Asked, TypeOK
  <2>1. TypeOK'
    BY <1>0, <1>13, <2>0 DEF Rethrow, TypeOK, Flags
  <2>2. JobsAreClaims'
    BY <1>0, <1>13, <2>0 DEF Rethrow, TypeOK, JobsAreClaims
  <2>3. KnownParts'
    BY <1>0, <1>13, <2>0 DEF Rethrow, TypeOK, KnownParts
  <2>4. RoundsInOrder'
    BY <1>0, <1>13, <2>0 DEF Rethrow, TypeOK, RoundsInOrder
  <2>5. OnlyThrowsLatch'
    BY <1>0, <1>13, <2>0 DEF Rethrow, TypeOK, OnlyThrowsLatch
  <2> QED BY <2>1, <2>2, <2>3, <2>4, <2>5 DEF CacheInv
<1>14. ASSUME WaitBuildCrossRefAggregates PROVE CacheInv'
  <2>0. Asked' = Asked /\ Asked \subseteq Flags
    BY <1>0, <1>14 DEF WaitBuildCrossRefAggregates, Asked, TypeOK
  <2>1. TypeOK'
    BY <1>0, <1>14, <2>0 DEF WaitBuildCrossRefAggregates, TypeOK, Flags
  <2>2. JobsAreClaims'
    BY <1>0, <1>14, <2>0 DEF WaitBuildCrossRefAggregates, TypeOK, JobsAreClaims
  <2>3. KnownParts'
    BY <1>0, <1>14, <2>0 DEF WaitBuildCrossRefAggregates, TypeOK, KnownParts
  <2>4. RoundsInOrder'
    BY <1>0, <1>14, <2>0 DEF WaitBuildCrossRefAggregates, TypeOK, RoundsInOrder
  <2>5. OnlyThrowsLatch'
    BY <1>0, <1>14, <2>0 DEF WaitBuildCrossRefAggregates, TypeOK, OnlyThrowsLatch
  <2> QED BY <2>1, <2>2, <2>3, <2>4, <2>5 DEF CacheInv
<1>15. ASSUME Return PROVE CacheInv'
  <2>1. TypeOK'
    BY <1>0, <1>15 DEF Return, TypeOK, Flags
  <2>2. JobsAreClaims'
    BY <1>0, <1>15 DEF Return, TypeOK, JobsAreClaims, Asked
  <2>3. KnownParts'
    BY <1>0, <1>15 DEF Return, TypeOK, KnownParts
  <2>4. RoundsInOrder'
    BY <1>0, <1>15 DEF Return, TypeOK, RoundsInOrder, Asked
  <2>5. OnlyThrowsLatch'
    BY <1>0, <1>15 DEF Return, TypeOK, OnlyThrowsLatch
  <2> QED BY <2>1, <2>2, <2>3, <2>4, <2>5 DEF CacheInv
<1>16. CASE UNCHANGED vars
  <2>1. TypeOK'
    BY <1>0, <1>16 DEF vars, TypeOK
  <2>2. JobsAreClaims'
    BY <1>0, <1>16 DEF vars, JobsAreClaims, Asked
  <2>3. KnownParts'
    BY <1>0, <1>16 DEF vars, KnownParts
  <2>4. RoundsInOrder'
    BY <1>0, <1>16 DEF vars, RoundsInOrder, Asked
  <2>5. OnlyThrowsLatch'
    BY <1>0, <1>16 DEF vars, OnlyThrowsLatch
  <2> QED BY <2>1, <2>2, <2>3, <2>4, <2>5 DEF CacheInv
<1> QED BY <1>1, <1>2, <1>3, <1>4, <1>5, <1>6, <1>7, <1>8, <1>9, <1>10, <1>11, <1>12, <1>13, <1>14, <1>15, <1>16 DEF Next, Run

\* A session begins with nothing claimed, published or failed.
LEMMA InitCache == Init => CacheInv
<1> SUFFICES ASSUME Init PROVE CacheInv
  OBVIOUS
<1> USE InitAssumption DEF Init, PerDex, Rounds
<1>1. TypeOK
  BY DEF TypeOK
<1>2. JobsAreClaims /\ KnownParts
  BY DEF JobsAreClaims, KnownParts, Known, Working, Asked
<1>3. RoundsInOrder /\ OnlyThrowsLatch
  BY DEF RoundsInOrder, Aggregating, OnlyThrowsLatch
<1> QED BY <1>1, <1>2, <1>3 DEF CacheInv

\* The invariant holds in every state of InitDexCache.
LEMMA CacheInvariant == Spec => []CacheInv
<1> QED BY InitCache, NextCache, PTL DEF Spec

\* Only the two ways out of BuildCrossRefAggregates touch what is known of an
\* aggregate, and they find the claimed parts neither built nor failed.
LEMMA NextShortages == CacheInv /\ ShortagesAbandon /\ [Next]_vars => ShortagesAbandon'
<1> SUFFICES ASSUME CacheInv, ShortagesAbandon, [Next]_vars PROVE ShortagesAbandon'
  OBVIOUS
<1> USE DEF ShortagesAbandon, pool, dex_state, agg_state
<1>1. stage = "aggregate_build" => agg_inflight \cap (agg_flag \cup agg_failed) = {}
  BY DEF CacheInv, RoundsInOrder
<1>2. CASE FinishBuildCrossRefAggregates
  BY <1>1, <1>2 DEF FinishBuildCrossRefAggregates
<1>3. CASE AbortBuildCrossRefAggregates
  <2>1. /\ agg_failed' = agg_failed \cup agg_inflight
        /\ agg_flag' = agg_flag
    BY <1>1, <1>3 DEF AbortBuildCrossRefAggregates
  <2>2. CASE abandoned' = abandoned \cup agg_inflight
    BY <1>1, <1>3, <2>1, <2>2 DEF AbortBuildCrossRefAggregates
  <2>3. CASE abandoned' = abandoned /\ agg_inflight \cap BadAggregate # {}
    BY <1>1, <1>3, <2>1, <2>3 DEF AbortBuildCrossRefAggregates
  <2> QED BY <1>3, <2>2, <2>3 DEF AbortBuildCrossRefAggregates, AggregateThrows
<1>4. CASE UNCHANGED <<agg_flag, agg_failed, abandoned>>
  BY <1>4
<1> QED BY <1>2, <1>3, <1>4
        DEF Next, Run, vars, Call, BeginDex, CreatePool, Submit, PoolThrows, RunTask,
            RetireClaims, ReleaseClaims, WaitDexes, BeginBuildCrossRefAggregates, Rethrow,
            WaitBuildCrossRefAggregates, Return

\* Whatever throws and wherever the pool fails, InitDexCache leaves no claim
\* behind and builds a part of a dex at most once: RetireInitClaims and
\* ReleaseInitClaims between them settle what BeginInitCache and BeginPutCrossRef
\* claimed. A cache or a cross reference is latched only in a dex where something
\* threw; an aggregate also for want of a thread, and then it is never built.
THEOREM EveryClaimIsSettled == Spec => []ClaimsSettled
<1>1. CacheInv => NothingLeftClaimed
  <2> SUFFICES ASSUME CacheInv, stage \in {"idle", "done", "thrown"},
                      NEW k \in Rounds, NEW d \in Dexes
               PROVE  agg_inflight = {} /\ inflight[k][d] = {}
    BY DEF NothingLeftClaimed, CacheInv, RoundsInOrder
  <2>1. agg_inflight = {}
    BY DEF CacheInv, RoundsInOrder
  <2>2. inflight[round][d] = {}
    BY DEF CacheInv, JobsAreClaims, Working
  <2>3. k # round => inflight[k][d] = {}
    BY DEF CacheInv, JobsAreClaims
  <2> QED BY <2>1, <2>2, <2>3
<1>2. Init => ShortagesAbandon
  BY DEF Init, ShortagesAbandon
<1>3. Spec => []ShortagesAbandon
  BY <1>2, CacheInvariant, NextShortages, PTL DEF Spec
<1>4. CacheInv /\ ShortagesAbandon => ClaimsSettled
  BY <1>1 DEF ClaimsSettled, CacheInv
<1> QED BY <1>3, <1>4, CacheInvariant, PTL

-----------------------------------------------------------------------------
(* The refinement: what InitDexCache does to the parts all dexes have and to *)
(* those some dex has given up is what CacheWarmUp promises.                 *)

\* Membership in the two sets of the mapping.
LEMMA ReadyMeans ==
    /\ \A f \in CacheFlags : f \in AllReady <=> \A d \in Dexes : f \in flag["init"][d]
    /\ \A f \in CrossFlags :
         f \in AllReady <=> f \in agg_flag /\ \A d \in Dexes : f \in flag["cross"][d]
    /\ AllReady \subseteq Flags
BY InitAssumption DEF AllReady, Flags

\* A part has failed for the caller when it failed in a dex, or in the aggregates.
LEMMA FailedMeans ==
    \A f : f \in SomeFailed <=> \/ f \in agg_failed
                                \/ \E k \in Rounds, d \in Dexes : f \in failed_flags[k][d]
BY DEF SomeFailed

\* A part that is ready is published in every round and dex.
LEMMA ReadyIsPublished ==
    ASSUME CacheInv, NEW f \in AllReady, NEW d \in Dexes
    PROVE  f \in flag["init"][d] /\ (f \in CrossFlags => f \in flag["cross"][d])
<1>1. CASE f \in CacheFlags
  BY <1>1, ReadyMeans, InitAssumption
<1>2. CASE f \in CrossFlags
  <2>1. f \in flag["cross"][d]
    BY <1>2, ReadyMeans
  <2> QED BY <1>2, <2>1 DEF CacheInv, KnownParts, Known
<1> QED BY <1>1, <1>2, ReadyMeans DEF Flags

\* No part is ready in all dexes and failed in one.
LEMMA ReadyNotFailed == CacheInv => AllReady \cap SomeFailed = {}
<1> SUFFICES ASSUME CacheInv, NEW f \in AllReady, f \in SomeFailed PROVE FALSE
  OBVIOUS
<1>1. CASE \E k \in Rounds, d \in Dexes : f \in failed_flags[k][d]
  <2>1. PICK k \in Rounds, d \in Dexes : f \in failed_flags[k][d]
    BY <1>1
  <2>2. f \notin flag[k][d]
    BY <2>1 DEF CacheInv, KnownParts
  <2>3. k = "cross" => f \in CrossFlags
    BY <2>1 DEF CacheInv, KnownParts, Known
  <2> QED BY <2>1, <2>2, <2>3, ReadyIsPublished DEF Rounds
<1>2. CASE f \in agg_failed
  <2>1. f \in CrossFlags /\ f \notin agg_flag
    BY <1>2 DEF CacheInv, TypeOK, KnownParts
  <2> QED BY <2>1, ReadyMeans
<1> QED BY <1>1, <1>2, FailedMeans

\* Nothing that is known about a part changes.
LEMMA KnownSame ==
    UNCHANGED <<flag, failed_flags, agg_flag, agg_failed>> =>
        AllReady' = AllReady /\ SomeFailed' = SomeFailed
BY DEF AllReady, SomeFailed

\* Parts of the request become known: a step of CacheWarmUp!Progress.
LEMMA ProgressStep ==
    ASSUME CacheInv, CacheInv', Result = "running", UNCHANGED <<init_flags, Result>>,
           AllReady \subseteq AllReady', AllReady' \subseteq AllReady \cup init_flags,
           SomeFailed \subseteq SomeFailed', SomeFailed' \subseteq SomeFailed \cup init_flags,
           SomeFailed' # SomeFailed => init_flags \cap BrokenParts # {}
    PROVE  W!Progress
<1> DEFINE new == AllReady' \ AllReady
           bad == SomeFailed' \ SomeFailed
<1>1. AllReady \cap SomeFailed = {} /\ AllReady' \cap SomeFailed' = {}
  <2>1. (CacheInv => AllReady \cap SomeFailed = {})'
    BY ReadyNotFailed, PTL
  <2> QED BY <2>1, ReadyNotFailed
<1>2. new \in SUBSET init_flags /\ bad \in SUBSET init_flags
  OBVIOUS
<1>3. W!Outcome(init_flags, AllReady, SomeFailed, new, bad)
  BY <1>1, <1>2 DEF W!Outcome
<1>4. AllReady' = AllReady \cup new /\ SomeFailed' = SomeFailed \cup bad
  OBVIOUS
<1> HIDE DEF new, bad
<1> QED BY <1>2, <1>3, <1>4 DEF W!Progress

\* A request that a failed part, or one that is not published, belongs to is not
\* answered well.
LEMMA NotAllReady ==
    ASSUME CacheInv, NEW d \in Dexes, NEW f \in Asked, f \notin flag[round][d]
    PROVE  ~(init_flags \subseteq AllReady)
<1>1. f \in init_flags /\ round \in Rounds /\ (round = "cross" => f \in CrossFlags)
  BY DEF CacheInv, TypeOK, Asked
<1> QED BY <1>1, ReadyIsPublished DEF Rounds

\* A pool task ends: its parts are published, or given up because one of them
\* throws.
LEMMA RunTaskRefines ==
    ASSUME CacheInv, CacheInv', NEW d \in Dexes, RunTask(d)
    PROVE  W!Progress
<1> USE DEF dex_state, agg_state, pool
<1>1. /\ round \in Rounds /\ jobs[d] # {} /\ jobs[d] \subseteq Asked /\ Asked \subseteq init_flags
      /\ init_flags \subseteq Flags
  BY DEF RunTask, CacheInv, TypeOK, JobsAreClaims, Asked
<1>2. /\ flag \in [Rounds -> [Dexes -> SUBSET Flags]]
      /\ failed_flags \in [Rounds -> [Dexes -> SUBSET Flags]]
  BY DEF CacheInv, TypeOK
<1>3. \A k \in Rounds, e \in Dexes :
        flag[k][e] \subseteq flag'[k][e] /\ flag'[k][e] \subseteq flag[k][e] \cup jobs[d]
  BY <1>1, <1>2 DEF RunTask
<1>4. \A k \in Rounds, e \in Dexes :
        /\ failed_flags[k][e] \subseteq failed_flags'[k][e]
        /\ failed_flags'[k][e] \subseteq failed_flags[k][e] \cup jobs[d]
  BY <1>1, <1>2 DEF RunTask, Latched
<1>5. agg_flag' = agg_flag /\ agg_failed' = agg_failed /\ init_flags' = init_flags
      /\ stage' = stage /\ Result = "running"
  BY DEF RunTask, Result
<1>6. AllReady \subseteq AllReady' /\ AllReady' \subseteq AllReady \cup init_flags
  BY <1>1, <1>3, <1>5 DEF AllReady, Rounds
<1>7. SomeFailed \subseteq SomeFailed' /\ SomeFailed' \subseteq SomeFailed \cup init_flags
  BY <1>1, <1>4, <1>5 DEF SomeFailed
<1>8. SomeFailed' # SomeFailed => init_flags \cap BrokenParts # {}
  <2>1. CASE ~Throws(d)
    BY <1>5, <2>1 DEF RunTask, SomeFailed
  <2>2. CASE Throws(d)
    <3>1. PICK f \in jobs[d] : <<d, f>> \in BadInit \cup BadCross
      BY <2>2 DEF Throws
    <3> QED BY <1>1, <3>1 DEF BrokenParts
  <2> QED BY <2>1, <2>2
<1>9. UNCHANGED <<init_flags, Result>>
  BY <1>5 DEF Result
<1> QED BY <1>5, <1>6, <1>7, <1>8, <1>9, ProgressStep

\* The aggregates are built, or given up.
LEMMA AggregatesRefine ==
    ASSUME CacheInv, CacheInv', FinishBuildCrossRefAggregates \/ AbortBuildCrossRefAggregates
    PROVE  W!Progress
<1> USE DEF dex_state, agg_state, pool
<1>1. /\ UNCHANGED <<flag, failed_flags, init_flags, Result>> /\ Result = "running"
      /\ stage = "aggregate_build"
  BY DEF FinishBuildCrossRefAggregates, AbortBuildCrossRefAggregates, Result
<1>2. agg_inflight # {} /\ agg_inflight \subseteq init_flags \cap CrossFlags
  BY <1>1 DEF CacheInv, RoundsInOrder, Asked, Aggregating
<1>3. /\ agg_flag \subseteq agg_flag' /\ agg_flag' \subseteq agg_flag \cup agg_inflight
      /\ agg_failed \subseteq agg_failed' /\ agg_failed' \subseteq agg_failed \cup agg_inflight
  BY DEF FinishBuildCrossRefAggregates, AbortBuildCrossRefAggregates
<1>4. AllReady \subseteq AllReady' /\ AllReady' \subseteq AllReady \cup init_flags
  BY <1>1, <1>2, <1>3 DEF AllReady
<1>5. SomeFailed \subseteq SomeFailed' /\ SomeFailed' \subseteq SomeFailed \cup init_flags
  BY <1>1, <1>2, <1>3 DEF SomeFailed
<1>6. init_flags \cap BrokenParts # {}
  BY <1>2 DEF BrokenParts
<1> QED BY <1>1, <1>4, <1>5, <1>6, ProgressStep

\* The pool could not be created or fed: what some dex was to build is missing.
LEMMA ReleaseRefines ==
    ASSUME CacheInv, ReleaseClaims
    PROVE  W!Shortage
<1>1. PICK d \in Dexes : jobs[d] # {} /\ task[d] = "none"
  BY DEF ReleaseClaims, CacheInv, JobsAreClaims
<1>2. PICK f \in jobs[d] : f \in Asked /\ f \notin flag[round][d]
  BY <1>1 DEF CacheInv, JobsAreClaims, Known
<1>3. ~(init_flags \subseteq AllReady)
  BY <1>2, NotAllReady
<1>4. UNCHANGED <<AllReady, SomeFailed, init_flags>>
  BY KnownSame DEF ReleaseClaims, agg_state
<1>5. Result = "running" /\ Result' = "thrown"
  BY DEF ReleaseClaims, Result
<1> QED BY <1>3, <1>4, <1>5 DEF W!Shortage

\* A round is answered: by a failed part, by going on, or well at the last one.
LEMMA WaitDexesRefines ==
    ASSUME CacheInv, WaitDexes
    PROVE  W!Return \/ UNCHANGED W!vars
<1>1. UNCHANGED <<AllReady, SomeFailed, init_flags>>
  BY KnownSame DEF WaitDexes, dex_state, agg_state
<1>2. Result = "running" /\ round \in Rounds /\ Asked \subseteq init_flags /\ init_flags \subseteq Flags
  BY DEF WaitDexes, Result, CacheInv, TypeOK, Asked
<1>3. CASE \E d \in Dexes : Asked \cap failed_flags[round][d] # {}
  <2>1. PICK d \in Dexes, f \in Asked : f \in failed_flags[round][d]
    BY <1>3
  <2>2. f \in init_flags /\ f \in SomeFailed
    BY <1>2, <2>1, FailedMeans
  <2>3. f \notin flag[round][d]
    BY <1>2, <2>1 DEF CacheInv, KnownParts
  <2>4. ~(init_flags \subseteq AllReady)
    BY <2>3, NotAllReady
  <2>5. Result' = "thrown"
    BY <1>3 DEF WaitDexes, Result
  <2> QED BY <1>1, <1>2, <2>2, <2>4, <2>5 DEF W!Return, W!Settled
<1>4. CASE ~ \E d \in Dexes : Asked \cap failed_flags[round][d] # {}
  <2>1. CASE round = "cross" \/ init_flags \cap CrossFlags # {}
    <3>1. Result' = "running"
      BY <1>4, <2>1 DEF WaitDexes, Result
    <3> QED BY <1>1, <1>2, <3>1 DEF W!vars
  <2>2. CASE round = "init" /\ init_flags \cap CrossFlags = {}
    <3>1. \A d \in Dexes : init_flags \subseteq flag["init"][d]
      BY <1>4, <2>2 DEF WaitDexes, Asked
    <3>2. init_flags \subseteq AllReady
      BY <1>2, <2>2, <3>1, ReadyMeans DEF Flags
    <3>3. Result' = "done"
      BY <1>4, <2>2 DEF WaitDexes, Result
    <3> QED BY <1>1, <1>2, <3>2, <3>3 DEF W!Return, W!Settled
  <2> QED BY <1>2, <2>1, <2>2 DEF Rounds
<1> QED BY <1>3, <1>4

\* The last round is answered.
LEMMA WaitAggregatesRefines ==
    ASSUME CacheInv, WaitBuildCrossRefAggregates
    PROVE  W!Return
<1>1. UNCHANGED <<AllReady, SomeFailed, init_flags>>
  BY KnownSame DEF WaitBuildCrossRefAggregates, dex_state, agg_state
<1>2. Result = "running" /\ stage = "aggregate_wait" /\ init_flags \subseteq Flags
  BY DEF WaitBuildCrossRefAggregates, Result, CacheInv, TypeOK
<1>3. /\ Asked = init_flags \cap CrossFlags
      /\ \A d \in Dexes : Asked \subseteq flag["cross"][d] /\ init_flags \subseteq flag["init"][d]
  BY <1>2 DEF CacheInv, RoundsInOrder, Aggregating, Asked
<1>4. CASE Asked \cap agg_failed # {}
  <2>1. PICK f \in Asked : f \in agg_failed
    BY <1>4
  <2>2. f \in SomeFailed /\ f \notin AllReady
    BY <2>1, FailedMeans, ReadyNotFailed
  <2>3. Result' = "thrown"
    BY <1>4 DEF WaitBuildCrossRefAggregates, Result
  <2> QED BY <1>1, <1>2, <1>3, <2>2, <2>3 DEF W!Return, W!Settled
<1>5. CASE Asked \cap agg_failed = {}
  <2>1. Asked \subseteq agg_flag
    BY <1>5 DEF WaitBuildCrossRefAggregates
  <2>2. init_flags \subseteq AllReady
    BY <1>2, <1>3, <2>1, ReadyMeans DEF Flags
  <2>3. Result' = "done"
    BY <1>5 DEF WaitBuildCrossRefAggregates, Result
  <2> QED BY <1>1, <1>2, <2>2, <2>3 DEF W!Return, W!Settled
<1> QED BY <1>4, <1>5

\* The exception of BuildCrossRefAggregates reaches the caller.
LEMMA RethrowRefines ==
    ASSUME CacheInv, Rethrow
    PROVE  W!Return
<1>1. UNCHANGED <<AllReady, SomeFailed, init_flags>> /\ Result = "running" /\ Result' = "thrown"
  BY KnownSame DEF Rethrow, dex_state, agg_state, Result
<1>2. PICK f \in Asked : f \in agg_failed
  BY DEF Rethrow, CacheInv, RoundsInOrder
<1>3. f \in init_flags /\ f \in SomeFailed /\ f \notin AllReady
  BY <1>2, FailedMeans, ReadyNotFailed DEF Asked
<1> QED BY <1>1, <1>3 DEF W!Return, W!Settled

\* Every step of InitDexCache is one of CacheWarmUp, or none.
LEMMA StepRefines == CacheInv /\ CacheInv' /\ [Next]_vars => [W!Next]_W!vars
<1> SUFFICES ASSUME CacheInv, CacheInv', [Next]_vars PROVE W!Next \/ UNCHANGED W!vars
  OBVIOUS
<1> USE DEF dex_state, agg_state, pool
<1>1. ASSUME NEW flags \in Requests, Call(flags) PROVE W!Begin
  <2>1. UNCHANGED <<AllReady, SomeFailed>>
    BY <1>1, KnownSame DEF Call
  <2> QED BY <1>1, <2>1 DEF Call, Result, W!Begin
<1>2. ASSUME NEW d \in Dexes, BeginDex(d) \/ Submit(d) PROVE UNCHANGED W!vars
  BY <1>2, KnownSame DEF BeginDex, Submit, Result, W!vars
<1>3. CASE CreatePool \/ PoolThrows \/ BeginBuildCrossRefAggregates
  BY <1>3, KnownSame DEF CreatePool, PoolThrows, BeginBuildCrossRefAggregates, Result, W!vars
<1>4. CASE RetireClaims
  <2>1. failed_flags' = failed_flags
    <3>1. [d \in Dexes |-> failed_flags[round][d] \cup (jobs[d] \ flag[round][d])]
            = failed_flags[round]
      <4>1. \A d \in Dexes : jobs[d] \subseteq flag[round][d] \cup failed_flags[round][d]
        BY <1>4 DEF RetireClaims, CacheInv, JobsAreClaims, Known
      <4>2. failed_flags[round] \in [Dexes -> SUBSET Flags]
        BY DEF CacheInv, TypeOK
      <4> QED BY <4>1, <4>2
    <3> QED BY <1>4, <3>1 DEF RetireClaims, CacheInv, TypeOK
  <2> QED BY <1>4, <2>1, KnownSame DEF RetireClaims, Result, W!vars
<1>5. CASE Return
  <2>1. UNCHANGED <<AllReady, SomeFailed>>
    BY <1>5, KnownSame DEF Return
  <2>2. W!Collect
    BY <1>5, <2>1 DEF Return, Result, W!Collect
  <2> QED BY <2>2 DEF W!Next
<1>6. CASE UNCHANGED vars
  BY <1>6, KnownSame DEF vars, Result, W!vars
<1> QED BY <1>1, <1>2, <1>3, <1>4, <1>5, <1>6, RunTaskRefines, AggregatesRefine, ReleaseRefines,
           WaitDexesRefines, WaitAggregatesRefines, RethrowRefines
        DEF Next, Run, W!Next

\* The initial state is the abstract one: nothing ready, nothing failed.
LEMMA InitRefines == Init => W!Init
<1> SUFFICES ASSUME Init PROVE W!Init
  OBVIOUS
<1>1. AllReady = {}
  BY InitAssumption DEF Init, AllReady, PerDex, Rounds
<1>2. SomeFailed = {}
  BY DEF Init, SomeFailed, PerDex
<1> QED BY <1>1, <1>2 DEF Init, Result, W!Init

\* InitDexCache keeps the promise that the query gate relies on: parts become
\* ready in all dexes at once or are given up, never both, and a call returns
\* well exactly when it is answered in full.
THEOREM InitKeepsPromise == Spec => WarmUpPromise
<1> QED BY InitRefines, StepRefines, CacheInvariant, PTL DEF Spec, W!Spec, WarmUpPromise
=============================================================================
