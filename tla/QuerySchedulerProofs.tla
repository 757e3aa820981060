------------------------ MODULE QuerySchedulerProofs ------------------------
(* The scheduler's counts and queues agree with the pool and with what may   *)
(* run, no worker idles while a query may use it, and workers are handed out *)
(* in the order of service, for any number of queries, workers and tasks.    *)
EXTENDS QueryScheduler, SequenceTheorems, FiniteSetTheorems, TLAPS

-----------------------------------------------------------------------------
(* Finite sets in the order of a relation. *)

\* A finite set with a strict total order can be listed in it: an element's place
\* is the number of elements that do not come after it.
LEMMA Ranked ==
    ASSUME NEW S, IsFiniteSet(S), NEW R,
           \A x \in S : <<x, x>> \notin R,
           \A x, y \in S : x # y => <<x, y>> \in R \/ <<y, x>> \in R,
           \A x, y, z \in S : <<x, y>> \in R /\ <<y, z>> \in R => <<x, z>> \in R
    PROVE  \E f \in [1..Cardinality(S) -> S] :
              /\ \A i, j \in 1..Cardinality(S) : i < j => <<f[i], f[j]>> \in R
              /\ \A x \in S : \E i \in 1..Cardinality(S) : f[i] = x
<1> DEFINE n == Cardinality(S)
           below(x) == {y \in S : y = x \/ <<y, x>> \in R}
           rank == [x \in S |-> Cardinality(below(x))]
           f == [i \in 1..n |-> CHOOSE x \in S : rank[x] = i]
<1>1. ASSUME NEW x \in S
      PROVE  IsFiniteSet(below(x)) /\ Cardinality(below(x)) \in 1..n
  <2>1. below(x) \in SUBSET S /\ x \in below(x)
    OBVIOUS
  <2>2. IsFiniteSet(below(x)) /\ Cardinality(below(x)) <= n
    BY <2>1, FS_Subset
  <2>3. Cardinality(below(x)) \in Nat /\ n \in Nat
    BY <2>2, FS_CardinalityType
  <2>4. Cardinality(below(x)) # 0
    BY <2>1, <2>2, FS_EmptySet
  <2> QED BY <2>2, <2>3, <2>4
<1>2. n \in Nat
  BY FS_CardinalityType
<1>3. rank \in [S -> 1..n]
  BY <1>1
<1>4. ASSUME NEW x \in S, NEW y \in S, <<x, y>> \in R PROVE rank[x] < rank[y]
  <2>1. below(x) \in SUBSET below(y)
    BY <1>4
  <2>2. y \in below(y) /\ y \notin below(x)
    BY <1>4
  <2>3. /\ Cardinality(below(x)) <= Cardinality(below(y))
        /\ Cardinality(below(y)) # Cardinality(below(x))
    BY <1>1, <2>1, <2>2, FS_Subset
  <2> QED BY <1>1, <2>3
<1>a. ASSUME NEW x \in S, NEW y \in S, rank[x] = rank[y] PROVE x = y
  <2>1. rank[x] \in 1..n /\ rank[y] \in 1..n
    BY <1>3
  <2> HIDE DEF rank
  <2>2. CASE x # y /\ <<x, y>> \in R
    BY <1>4, <1>a, <2>1, <2>2
  <2>3. CASE x # y /\ <<y, x>> \in R
    BY <1>4, <1>a, <2>1, <2>3
  <2> QED BY <2>2, <2>3
<1>5. \A i \in 1..n : \E x \in S : rank[x] = i
  <2>1. rank \in Injection(S, 1..n)
    <3> HIDE DEF rank
    <3> QED BY <1>3, <1>a DEF Injection, IsInjective
  <2>2. IsFiniteSet(1..n) /\ Cardinality(1..n) = n
    BY <1>2, FS_Interval
  <2>3. rank \in Surjection(S, 1..n)
    <3> HIDE DEF rank
    <3> QED BY <2>1, <2>2, FS_Injection
  <2> HIDE DEF rank
  <2> QED BY <2>3 DEF Surjection
<1>6. \A i \in 1..n : f[i] \in S /\ rank[f[i]] = i
  <2> HIDE DEF rank
  <2> QED BY <1>5
<1>7. \A i, j \in 1..n : i < j => <<f[i], f[j]>> \in R
  <2> SUFFICES ASSUME NEW i \in 1..n, NEW j \in 1..n, i < j PROVE <<f[i], f[j]>> \in R
    OBVIOUS
  <2>1. f[i] \in S /\ f[j] \in S /\ rank[f[i]] = i /\ rank[f[j]] = j
    BY <1>6
  <2> HIDE DEF f, rank
  <2>2. f[i] # f[j]
    BY <2>1
  <2>3. ASSUME <<f[j], f[i]>> \in R PROVE FALSE
    BY <1>4, <2>1, <2>3
  <2> QED BY <2>1, <2>2, <2>3
<1>8. \A x \in S : \E i \in 1..n : f[i] = x
  <2> SUFFICES ASSUME NEW x \in S PROVE \E i \in 1..n : f[i] = x
    OBVIOUS
  <2>1. rank[x] \in 1..n
    BY <1>3
  <2>2. f[rank[x]] \in S /\ rank[f[rank[x]]] = rank[x]
    BY <1>6, <2>1
  <2>3. f[rank[x]] = x
    <3> HIDE DEF f
    <3> HIDE DEF rank
    <3> QED BY <1>a, <2>2
  <2> QED BY <2>1, <2>3
<1>9. f \in [1..n -> S]
  BY <1>6
<1> QED BY <1>7, <1>8, <1>9

\* Min of a finite set of integers.
LEMMA LeastOf ==
    ASSUME NEW S \in SUBSET Int, IsFiniteSet(S), S # {}
    PROVE  Min(S) \in S /\ \A x \in S : Min(S) <= x
<1> DEFINE R == {p \in S \X S : p[1] < p[2]}
<1>1. /\ \A x \in S : <<x, x>> \notin R
      /\ \A x, y \in S : x # y => <<x, y>> \in R \/ <<y, x>> \in R
      /\ \A x, y, z \in S : <<x, y>> \in R /\ <<y, z>> \in R => <<x, z>> \in R
      /\ \A x, y \in S : <<x, y>> \in R => x < y
  OBVIOUS
<1>2. PICK f \in [1..Cardinality(S) -> S] :
         /\ \A i, j \in 1..Cardinality(S) : i < j => <<f[i], f[j]>> \in R
         /\ \A x \in S : \E i \in 1..Cardinality(S) : f[i] = x
  <2> HIDE DEF R
  <2> QED BY <1>1, Ranked
<1>3. Cardinality(S) \in Nat \ {0}
  BY FS_CardinalityType, FS_EmptySet
<1>4. 1 \in 1..Cardinality(S) /\ f[1] \in S /\ f[1] \in Int
  <2>1. 1 \in 1..Cardinality(S)
    BY <1>3
  <2>2. f[1] \in S
    BY <2>1
  <2> QED BY <2>1, <2>2
<1>5. ASSUME NEW x \in S PROVE f[1] <= x
  <2>1. PICK i \in 1..Cardinality(S) : f[i] = x
    BY <1>2
  <2>2. CASE i = 1
    BY <1>4, <2>1, <2>2
  <2>3. CASE i # 1
    <3> HIDE DEF R
    <3>1. 1 < i
      BY <1>3, <2>3
    <3>2. <<f[1], x>> \in R
      BY <1>2, <1>4, <2>1, <3>1
    <3>3. f[1] < x
      BY <1>1, <1>4, <3>2
    <3>4. x \in Int
      OBVIOUS
    <3> QED BY <1>4, <3>3, <3>4
  <2> QED BY <2>2, <2>3
<1> QED BY <1>4, <1>5 DEF Min

\* Max of one and another integer.
LEMMA MaxWithOne ==
    ASSUME NEW n \in Int
    PROVE  Max({1, n}) = IF n > 1 THEN n ELSE 1
<1> DEFINE m == IF n > 1 THEN n ELSE 1
<1>1. m \in {1, n} /\ \A y \in {1, n} : m >= y
  OBVIOUS
<1>2. \A x \in {1, n} : (\A y \in {1, n} : x >= y) => x = m
  OBVIOUS
<1> HIDE DEF m
<1>3. Max({1, n}) \in {1, n} /\ \A y \in {1, n} : Max({1, n}) >= y
  BY <1>1 DEF Max
<1> QED BY <1>2, <1>3 DEF m

-----------------------------------------------------------------------------
(* Shares and caps. *)

\* The queries are finitely many.
LEMMA QueryFinite ==
    IsFiniteSet(Query) /\ Cardinality(Query) = NumQueries /\ NumQueries \in Nat
BY SchedulerAssumption, FS_Interval DEF Query

\* The share counts no more queries than there are, and never none.
LEMMA ShareType ==
    ASSUME NEW s, DOMAIN s.slots \in SUBSET Query
    PROVE  QueryShareCount(s) \in 1..Max({1, NumQueries}) /\ QueryShareCount(s) \in Nat \ {0}
<1> DEFINE V == {q \in DOMAIN s.slots : IsVisible(s.slots[q])}
<1>1. IsFiniteSet(Query) /\ Cardinality(Query) = NumQueries /\ NumQueries \in Nat
  BY QueryFinite
<1>2. V \in SUBSET Query
  OBVIOUS
<1>3. IsFiniteSet(V) /\ Cardinality(V) <= NumQueries /\ Cardinality(V) \in Nat
  BY <1>1, <1>2, FS_Subset, FS_CardinalityType
<1> HIDE DEF V
<1>4. /\ Max({1, Cardinality(V)}) = IF Cardinality(V) > 1 THEN Cardinality(V) ELSE 1
      /\ Max({1, NumQueries}) = IF NumQueries > 1 THEN NumQueries ELSE 1
  BY <1>1, <1>3, MaxWithOne
<1>5. QueryShareCount(s) = Max({1, Cardinality(V)})
  BY DEF QueryShareCount, V
<1> QED BY <1>1, <1>3, <1>4, <1>5

\* A share of the workers is at least one, and so is a base budget when it is new.
LEMMA CapTypes ==
    ASSUME NEW share \in Nat \ {0}
    PROVE  /\ InFlightLimit(share) \in Nat \ {0}
           /\ BaseCap(share) \in Nat \ {0}
           /\ \A slot : BonusCap(slot, share) \in {0, 1}
<1>1. WorkerCount \in Nat \ {0}
  BY SchedulerAssumption
<1>2. (WorkerCount + share - 1) \div share \in Int
  BY <1>1
<1>3. InFlightLimit(share) \in Nat \ {0}
  BY <1>2, MaxWithOne DEF InFlightLimit
<1> QED BY <1>1, <1>3 DEF BaseCap, BonusCap

-----------------------------------------------------------------------------
(* The queues as lists of queries in the order of service. *)

\* The queue holds exactly these queries, each once.
Lists(queue, ids) ==
    /\ \A i \in 1..Len(queue) : queue[i] \in ids
    /\ \A q \in ids : \E i \in 1..Len(queue) : queue[i] = q
    /\ \A i, j \in 1..Len(queue) : queue[i] = queue[j] => i = j

InServiceOrder(slots, bonusPhase, queue) ==
    \A i, j \in 1..Len(queue) :
        i < j => RunnableQueryLess(slots, bonusPhase, queue[i], queue[j])

\* The order of service is a strict total order.
LEMMA ServiceOrder ==
    ASSUME NEW slots, NEW bonusPhase \in BOOLEAN, NEW ids \in SUBSET Query,
           \A q \in ids : slots[q] \in Slot
    PROVE  /\ \A p \in ids : ~RunnableQueryLess(slots, bonusPhase, p, p)
           /\ \A p, q \in ids : p # q => \/ RunnableQueryLess(slots, bonusPhase, p, q)
                                        \/ RunnableQueryLess(slots, bonusPhase, q, p)
           /\ \A p, q, r \in ids : /\ RunnableQueryLess(slots, bonusPhase, p, q)
                                   /\ RunnableQueryLess(slots, bonusPhase, q, r)
                                   => RunnableQueryLess(slots, bonusPhase, p, r)
<1> DEFINE served(x) == IF bonusPhase THEN slots[x].bonusSeq ELSE slots[x].baseSeq
           activated(x) == slots[x].activationSeq
<1>1. \A q \in ids : q \in Int /\ served(q) \in Nat /\ activated(q) \in Nat
  BY DEF Query, Slot
<1>2. \A p, q : RunnableQueryLess(slots, bonusPhase, p, q) <=>
          \/ served(p) < served(q)
          \/ /\ served(p) = served(q)
             /\ \/ activated(p) < activated(q)
                \/ activated(p) = activated(q) /\ p < q
  BY DEF RunnableQueryLess
<1> HIDE DEF served, activated
<1> QED BY <1>1, <1>2

\* Collected queries are listed in the order of service.
LEMMA SortedLists ==
    ASSUME NEW slots, NEW bonusPhase \in BOOLEAN, NEW ids \in SUBSET Query,
           \A q \in ids : slots[q] \in Slot
    PROVE  LET queue == Sorted(slots, bonusPhase, ids)
           IN  /\ queue \in Seq(Query)
               /\ Lists(queue, ids)
               /\ InServiceOrder(slots, bonusPhase, queue)
<1> DEFINE R == {p \in ids \X ids : RunnableQueryLess(slots, bonusPhase, p[1], p[2])}
           n == Cardinality(ids)
           queue == Sorted(slots, bonusPhase, ids)
<1>1. \A p, q \in ids : <<p, q>> \in R <=> RunnableQueryLess(slots, bonusPhase, p, q)
  OBVIOUS
<1>2. IsFiniteSet(ids) /\ n \in Nat
  BY QueryFinite, FS_Subset, FS_CardinalityType
<1>3. /\ \A x \in ids : <<x, x>> \notin R
      /\ \A x, y \in ids : x # y => <<x, y>> \in R \/ <<y, x>> \in R
      /\ \A x, y, z \in ids : <<x, y>> \in R /\ <<y, z>> \in R => <<x, z>> \in R
  <2> HIDE DEF R
  <2>1. /\ \A p \in ids : ~RunnableQueryLess(slots, bonusPhase, p, p)
        /\ \A p, q \in ids : p # q => \/ RunnableQueryLess(slots, bonusPhase, p, q)
                                     \/ RunnableQueryLess(slots, bonusPhase, q, p)
        /\ \A p, q, r \in ids : /\ RunnableQueryLess(slots, bonusPhase, p, q)
                                /\ RunnableQueryLess(slots, bonusPhase, q, r)
                                => RunnableQueryLess(slots, bonusPhase, p, r)
    BY ServiceOrder
  <2> QED BY <1>1, <2>1
<1>4. \E f \in [1..n -> ids] : \A i, j \in 1..n : i < j => <<f[i], f[j]>> \in R
  <2> HIDE DEF R
  <2> QED BY <1>2, <1>3, Ranked
<1>5. \E f \in [1..n -> ids] :
        \A i, j \in DOMAIN f : i < j => RunnableQueryLess(slots, bonusPhase, f[i], f[j])
  <2>1. PICK f \in [1..n -> ids] : \A i, j \in 1..n : i < j => <<f[i], f[j]>> \in R
    BY <1>4
  <2>2. \A i \in 1..n : f[i] \in ids
    OBVIOUS
  <2> HIDE DEF R
  <2>3. \A i, j \in DOMAIN f : i < j => RunnableQueryLess(slots, bonusPhase, f[i], f[j])
    BY <1>1, <2>1, <2>2
  <2> QED BY <2>3
<1>6. /\ queue \in [1..n -> ids]
      /\ \A i, j \in 1..n : i < j => RunnableQueryLess(slots, bonusPhase, queue[i], queue[j])
  BY <1>5 DEF Sorted
<1>7. queue \in Seq(Query) /\ Len(queue) = n
  <2> HIDE DEF queue, n
  <2> QED BY <1>2, <1>6
<1>8. \A i, j \in 1..n : queue[i] = queue[j] => i = j
  <2> SUFFICES ASSUME NEW i \in 1..n, NEW j \in 1..n, queue[i] = queue[j] PROVE i = j
    OBVIOUS
  <2>1. queue[i] \in ids /\ ~RunnableQueryLess(slots, bonusPhase, queue[i], queue[i])
    BY <1>6, ServiceOrder
  <2> HIDE DEF queue, n
  <2> QED BY <1>2, <1>6, <2>1
<1>9. \A q \in ids : \E i \in 1..n : queue[i] = q
  <2>1. queue \in Injection(1..n, ids)
    <3> HIDE DEF queue, n
    <3> QED BY <1>6, <1>8 DEF Injection, IsInjective
  <2>2. IsFiniteSet(1..n) /\ Cardinality(1..n) = n
    BY <1>2, FS_Interval
  <2>3. queue \in Surjection(1..n, ids)
    BY <1>2, <2>1, <2>2, FS_Injection
  <2> HIDE DEF queue, n
  <2> QED BY <2>3 DEF Surjection
<1> HIDE DEF queue, n
<1> QED BY <1>6, <1>7, <1>8, <1>9 DEF Lists, InServiceOrder, queue

\* What InsertAt does to a queue.
LEMMA Inserted ==
    ASSUME NEW queue \in Seq(Query), NEW q \in Query, NEW k \in 1..(Len(queue) + 1)
    PROVE  LET r == InsertAt(queue, k, q)
           IN  /\ r \in Seq(Query) /\ Len(r) = Len(queue) + 1
               /\ \A j \in 1..(Len(queue) + 1) :
                    r[j] = IF j < k THEN queue[j] ELSE IF j = k THEN q ELSE queue[j - 1]
<1> DEFINE n == Len(queue)
           front == SubSeq(queue, 1, k - 1)
           back == SubSeq(queue, k, n)
           head == front \o <<q>>
           r == InsertAt(queue, k, q)
<1>1. n \in Nat /\ k \in 1..(n + 1)
  OBVIOUS
<1>2. /\ front \in Seq(Query) /\ Len(front) = k - 1
      /\ \A j \in 1..(k - 1) : front[j] = queue[j]
  BY <1>1, SubSeqProperties
<1>3. /\ back \in Seq(Query) /\ Len(back) = n - k + 1
      /\ \A j \in 1..(n - k + 1) : back[j] = queue[k + j - 1]
  <2>1. CASE k <= n
    BY <1>1, <2>1, SubSeqProperties
  <2>2. CASE k = n + 1
    BY <1>1, <2>2
  <2> QED BY <1>1, <2>1, <2>2
<1>4. r = head \o back
  BY DEF InsertAt
<1> HIDE DEF front, back, n
<1>5. /\ head \in Seq(Query) /\ Len(head) = k
      /\ \A j \in 1..(k - 1) : head[j] = queue[j]
      /\ head[k] = q
  <2>1. <<q>> \in Seq(Query) /\ Len(<<q>>) = 1 /\ <<q>>[1] = q
    OBVIOUS
  <2>2. /\ head \in Seq(Query) /\ Len(head) = Len(front) + Len(<<q>>)
        /\ \A j \in 1..(Len(front) + Len(<<q>>)) :
             head[j] = IF j <= Len(front) THEN front[j] ELSE <<q>>[j - Len(front)]
    BY <1>2, <2>1, ConcatProperties
  <2> QED BY <1>1, <1>2, <2>1, <2>2
<1> HIDE DEF head
<1>6. /\ r \in Seq(Query) /\ Len(r) = Len(head) + Len(back)
      /\ \A j \in 1..(Len(head) + Len(back)) :
           r[j] = IF j <= Len(head) THEN head[j] ELSE back[j - Len(head)]
  <2>1. LET t == head \o back
        IN  /\ t \in Seq(Query) /\ Len(t) = Len(head) + Len(back)
            /\ \A j \in 1..(Len(head) + Len(back)) :
                 t[j] = IF j <= Len(head) THEN head[j] ELSE back[j - Len(head)]
    BY <1>3, <1>5, ConcatProperties
  <2> HIDE DEF r
  <2> QED BY <1>4, <2>1
<1> HIDE DEF r
<1>7. Len(r) = n + 1
  BY <1>1, <1>3, <1>5, <1>6
<1>8. ASSUME NEW j \in 1..(n + 1)
      PROVE  r[j] = IF j < k THEN queue[j] ELSE IF j = k THEN q ELSE queue[j - 1]
  <2>1. r[j] = IF j <= k THEN head[j] ELSE back[j - k]
    BY <1>1, <1>3, <1>5, <1>6
  <2>2. CASE j <= k
    <3>1. CASE j = k
      BY <1>5, <2>1, <2>2, <3>1
    <3>2. CASE j # k
      <4>1. j \in 1..(k - 1) /\ j < k
        BY <1>1, <2>2, <3>2
      <4> QED BY <1>5, <2>1, <2>2, <4>1
    <3> QED BY <3>1, <3>2
  <2>3. CASE ~(j <= k)
    <3>1. j - k \in 1..(n - k + 1) /\ k + (j - k) - 1 = j - 1 /\ ~(j < k) /\ j # k
      BY <1>1, <2>3
    <3> QED BY <1>3, <2>1, <2>3, <3>1
  <2> QED BY <2>2, <2>3
<1> QED BY <1>6, <1>7, <1>8 DEF n, r

\* A query that becomes runnable takes its place in the order of service.
LEMMA InsertedInOrder ==
    ASSUME NEW s, NEW bonusPhase \in BOOLEAN, NEW ids \in SUBSET Query, NEW queue \in Seq(Query),
           NEW q \in Query, q \notin ids,
           \A p \in ids \cup {q} : s.slots[p] \in Slot,
           Lists(queue, ids), InServiceOrder(s.slots, bonusPhase, queue)
    PROVE  LET r == OrderedInsert(s, queue, bonusPhase, q)
           IN  /\ r \in Seq(Query)
               /\ Lists(r, ids \cup {q})
               /\ InServiceOrder(s.slots, bonusPhase, r)
<1> DEFINE n == Len(queue)
           Less(a, b) == RunnableQueryLess(s.slots, bonusPhase, a, b)
           later == {i \in 1..n : Less(q, queue[i])}
           k == Min(later \cup {n + 1})
           r == OrderedInsert(s, queue, bonusPhase, q)
<1>1. n \in Nat
  OBVIOUS
<1>2. k \in later \cup {n + 1} /\ \A i \in later : k <= i
  <2>1. later \cup {n + 1} \in SUBSET Int /\ later \cup {n + 1} # {}
    BY <1>1
  <2>2. IsFiniteSet(later \cup {n + 1})
    <3>1. later \in SUBSET (1..n)
      OBVIOUS
    <3> HIDE DEF later
    <3>2. IsFiniteSet(1..n)
      BY <1>1, FS_Interval
    <3>3. IsFiniteSet(later)
      BY <3>1, <3>2, FS_Subset
    <3> QED BY <3>3, FS_AddElement
  <2> HIDE DEF later
  <2> QED BY <2>1, <2>2, LeastOf
<1>3. k \in 1..(n + 1)
  BY <1>1, <1>2
<1>4. r = InsertAt(queue, k, q)
  BY DEF OrderedInsert
<1>5. /\ \A a \in ids \cup {q} : ~Less(a, a)
      /\ \A a, b \in ids \cup {q} : a # b => Less(a, b) \/ Less(b, a)
      /\ \A a, b, c \in ids \cup {q} : Less(a, b) /\ Less(b, c) => Less(a, c)
  <2> DEFINE all == ids \cup {q}
  <2>1. all \in SUBSET Query /\ \A p \in all : s.slots[p] \in Slot
    OBVIOUS
  <2> HIDE DEF all
  <2>2. /\ \A a \in all : ~Less(a, a)
        /\ \A a, b \in all : a # b => Less(a, b) \/ Less(b, a)
        /\ \A a, b, c \in all : Less(a, b) /\ Less(b, c) => Less(a, c)
    <3> DEFINE slots == s.slots
    <3>1. \A p \in all : slots[p] \in Slot
      BY <2>1
    <3> HIDE DEF slots
    <3>2. /\ \A p \in all : ~RunnableQueryLess(slots, bonusPhase, p, p)
          /\ \A p, u \in all : p # u => \/ RunnableQueryLess(slots, bonusPhase, p, u)
                                       \/ RunnableQueryLess(slots, bonusPhase, u, p)
          /\ \A p, u, v \in all : /\ RunnableQueryLess(slots, bonusPhase, p, u)
                                  /\ RunnableQueryLess(slots, bonusPhase, u, v)
                                  => RunnableQueryLess(slots, bonusPhase, p, v)
      BY <2>1, <3>1, ServiceOrder
    <3> QED BY <3>2 DEF slots
  <2> QED BY <2>2 DEF all
<1>6. /\ \A i \in 1..n : i < k => Less(queue[i], q)
      /\ \A i \in 1..n : i >= k => Less(q, queue[i])
  <2>1. \A i \in 1..n : queue[i] \in ids /\ queue[i] # q
    BY DEF Lists
  <2>2. \A i, j \in 1..n : i < j => Less(queue[i], queue[j])
    BY DEF InServiceOrder
  <2>3. ASSUME NEW i \in 1..n, i < k PROVE Less(queue[i], q)
    <3>1. i \notin later
      BY <1>1, <1>2, <1>3, <2>3
    <3>2. ~Less(q, queue[i])
      BY <3>1
    <3> HIDE DEF Less
    <3> QED BY <1>5, <2>1, <3>2
  <2>4. ASSUME NEW i \in 1..n, i >= k PROVE Less(q, queue[i])
    <3>1. k \in 1..n /\ Less(q, queue[k])
      BY <1>1, <1>2, <1>3, <2>4
    <3>2. CASE i = k
      BY <3>1, <3>2
    <3>3. CASE i # k
      <4>1. k < i
        BY <1>3, <2>4, <3>3
      <4> HIDE DEF Less
      <4> QED BY <1>5, <2>1, <2>2, <3>1, <4>1
    <3> QED BY <3>2, <3>3
  <2> QED BY <2>3, <2>4
<1> HIDE DEF k, Less
<1>7. /\ r \in Seq(Query) /\ Len(r) = n + 1
      /\ \A j \in 1..(n + 1) :
           r[j] = IF j < k THEN queue[j] ELSE IF j = k THEN q ELSE queue[j - 1]
  <2>1. LET t == InsertAt(queue, k, q)
        IN  /\ t \in Seq(Query) /\ Len(t) = n + 1
            /\ \A j \in 1..(n + 1) :
                 t[j] = IF j < k THEN queue[j] ELSE IF j = k THEN q ELSE queue[j - 1]
    BY <1>3, Inserted
  <2> HIDE DEF r
  <2> QED BY <1>4, <2>1
<1> HIDE DEF r, n
<1>a. \A j \in 1..(n + 1) : \/ j < k /\ j \in 1..n /\ r[j] = queue[j]
                            \/ j = k /\ r[j] = q
                            \/ j > k /\ j - 1 \in 1..n /\ j - 1 >= k /\ r[j] = queue[j - 1]
  BY <1>1, <1>3, <1>7
<1>b. /\ \A i \in 1..n : queue[i] \in ids /\ queue[i] # q
      /\ \A i, j \in 1..n : queue[i] = queue[j] => i = j
      /\ \A p \in ids : \E i \in 1..n : queue[i] = p
      /\ \A i, j \in 1..n : i < j => Less(queue[i], queue[j])
  BY DEF Lists, InServiceOrder, n, Less
<1>8. Lists(r, ids \cup {q})
  <2>1. \A j \in 1..(n + 1) : r[j] \in ids \cup {q}
    BY <1>a, <1>b
  <2>2. ASSUME NEW p \in ids \cup {q} PROVE \E j \in 1..(n + 1) : r[j] = p
    <3>1. CASE p = q
      BY <1>1, <1>3, <1>7, <3>1
    <3>2. CASE p # q
      <4>1. PICK i \in 1..n : queue[i] = p
        BY <1>b, <3>2
      <4>2. CASE i < k
        BY <1>1, <1>7, <4>1, <4>2
      <4>3. CASE ~(i < k)
        <5>1. i + 1 \in 1..(n + 1) /\ ~(i + 1 < k) /\ i + 1 # k /\ (i + 1) - 1 = i
          BY <1>1, <1>3, <4>3
        <5> QED BY <1>7, <4>1, <5>1
      <4> QED BY <4>2, <4>3
    <3> QED BY <3>1, <3>2
  <2>3. ASSUME NEW i \in 1..(n + 1), NEW j \in 1..(n + 1), r[i] = r[j] PROVE i = j
    BY <1>1, <1>3, <1>a, <1>b, <2>3
  <2> QED BY <1>7, <2>1, <2>2, <2>3 DEF Lists
<1>9. InServiceOrder(s.slots, bonusPhase, r)
  <2>1. ASSUME NEW i \in 1..(n + 1), NEW j \in 1..(n + 1), i < j PROVE Less(r[i], r[j])
    <3>1. CASE j < k
      BY <1>3, <1>a, <1>b, <2>1, <3>1
    <3>2. CASE j = k
      BY <1>3, <1>6, <1>a, <2>1, <3>2
    <3>3. CASE j > k /\ i > k
      BY <1>3, <1>a, <1>b, <2>1, <3>3
    <3>4. CASE j > k /\ i = k
      BY <1>3, <1>6, <1>a, <2>1, <3>4
    <3>5. CASE j > k /\ i < k
      <4>1. /\ i \in 1..n /\ r[i] = queue[i] /\ j - 1 \in 1..n /\ r[j] = queue[j - 1]
            /\ i < j - 1
        BY <1>3, <1>a, <2>1, <3>5
      <4> QED BY <1>b, <4>1
    <3> QED BY <1>3, <3>1, <3>2, <3>3, <3>4, <3>5
  <2> QED BY <1>7, <2>1 DEF InServiceOrder, Less
<1> QED BY <1>7, <1>8, <1>9 DEF r

-----------------------------------------------------------------------------
(* The members of the scheduler, and what it means that its queues fit them. *)

AnySlots == UNION {[D -> Slot] : D \in SUBSET Query}

Scheduler == [slots : AnySlots, baseQueue : Seq(Query), bonusQueue : Seq(Query),
              lastShare : Nat \ {0}, totalInFlight : Nat,
              nextActivation : Nat, nextDispatch : Nat]

\* The queries marked queued with base budget left, or with only a bonus.
Waits(slots, bonusPhase) ==
    {q \in DOMAIN slots : slots[q].queued /\ (bonusPhase <=> slots[q].baseBudget = 0)}

\* The queues hold the queries marked queued, in the order of service; those may
\* be dispatched below the limit, and every other one that may is in X.
QueuesFit(s, limit, X) ==
    /\ Lists(s.baseQueue, Waits(s.slots, FALSE))
    /\ InServiceOrder(s.slots, FALSE, s.baseQueue)
    /\ Lists(s.bonusQueue, Waits(s.slots, TRUE))
    /\ InServiceOrder(s.slots, TRUE, s.bonusQueue)
    /\ \A q \in DOMAIN s.slots :
         s.slots[q].queued => CouldRun(s.slots[q], limit) /\ Budget(s.slots[q]) # 0
    /\ \A q \in DOMAIN s.slots \ X : ~IsRunnableCandidate(s.slots[q], limit)

\* The share of the workers that the scheduler last computed is up to date.
Fits(s, X) == /\ s.lastShare = QueryShareCount(s)
              /\ QueuesFit(s, InFlightLimit(QueryShareCount(s)), X)

\* What the thread of a query and its tasks see of a slot.
SameTasks(slot, old) ==
    /\ slot.attached = old.attached /\ slot.activated = old.activated
    /\ slot.started = old.started
    /\ slot.pending = old.pending /\ slot.inFlight = old.inFlight

\* Members of a scheduler.
LEMMA SchedulerTypes ==
    ASSUME NEW s \in Scheduler
    PROVE  /\ DOMAIN s.slots \in SUBSET Query
           /\ \A q \in DOMAIN s.slots : s.slots[q] \in Slot
           /\ s.slots \in [DOMAIN s.slots -> Slot]
           /\ s.baseQueue \in Seq(Query) /\ s.bonusQueue \in Seq(Query)
           /\ s.lastShare \in Nat \ {0} /\ s.totalInFlight \in Nat
           /\ s.nextActivation \in Nat /\ s.nextDispatch \in Nat
           /\ QueryShareCount(s) \in 1..Max({1, NumQueries}) /\ QueryShareCount(s) \in Nat \ {0}
           /\ InFlightLimit(QueryShareCount(s)) \in Nat \ {0}
<1>1. s.slots \in AnySlots
  BY DEF Scheduler
<1>2. PICK D \in SUBSET Query : s.slots \in [D -> Slot]
  BY <1>1 DEF AnySlots
<1>3. DOMAIN s.slots = D /\ \A q \in D : s.slots[q] \in Slot
  BY <1>2
<1>4. QueryShareCount(s) \in 1..Max({1, NumQueries}) /\ QueryShareCount(s) \in Nat \ {0}
  BY <1>3, ShareType
<1>5. InFlightLimit(QueryShareCount(s)) \in Nat \ {0}
  BY <1>4, CapTypes
<1> QED BY <1>2, <1>3, <1>4, <1>5 DEF Scheduler

\* A change of the slots keeps a scheduler one.
LEMMA SlotsTyped ==
    ASSUME NEW f, NEW D \in SUBSET Query, f = [q \in D |-> f[q]], \A q \in D : f[q] \in Slot
    PROVE  f \in AnySlots
<1>1. f \in [D -> Slot]
  OBVIOUS
<1> QED BY <1>1 DEF AnySlots

\* The share depends on who is visible only.
LEMMA SameVisible ==
    ASSUME NEW s, NEW t,
           {q \in DOMAIN s.slots : IsVisible(s.slots[q])}
             = {q \in DOMAIN t.slots : IsVisible(t.slots[q])}
    PROVE  QueryShareCount(s) = QueryShareCount(t)
BY DEF QueryShareCount

\* The share does not see the queues and budgets.
LEMMA SameShare ==
    ASSUME NEW s, NEW t, DOMAIN s.slots = DOMAIN t.slots,
           \A q \in DOMAIN s.slots : SameTasks(t.slots[q], s.slots[q])
    PROVE  QueryShareCount(s) = QueryShareCount(t)
<1>1. \A q \in DOMAIN s.slots : IsVisible(s.slots[q]) <=> IsVisible(t.slots[q])
  BY DEF SameTasks, IsVisible
<1> QED BY <1>1, SameVisible

\* The order of service looks at three numbers of a slot.
LEMMA SameOrder ==
    ASSUME NEW queue, NEW bonusPhase, NEW slots, NEW old, InServiceOrder(old, bonusPhase, queue),
           \A i \in 1..Len(queue) :
              /\ slots[queue[i]].baseSeq = old[queue[i]].baseSeq
              /\ slots[queue[i]].bonusSeq = old[queue[i]].bonusSeq
              /\ slots[queue[i]].activationSeq = old[queue[i]].activationSeq
    PROVE  InServiceOrder(slots, bonusPhase, queue)
BY DEF InServiceOrder, RunnableQueryLess

\* The queues still fit when the queued slots kept their budgets and places and may
\* still run, nobody was marked or unmarked, and who may run now is in Y.
LEMMA FitKept ==
    ASSUME NEW s, NEW t, NEW limit, NEW X, NEW Y, QueuesFit(s, limit, X),
           t.baseQueue = s.baseQueue, t.bonusQueue = s.bonusQueue,
           \A q \in DOMAIN s.slots : s.slots[q].queued => q \in DOMAIN t.slots /\ t.slots[q].queued,
           \A q \in DOMAIN t.slots : t.slots[q].queued =>
              /\ q \in DOMAIN s.slots /\ s.slots[q].queued
              /\ t.slots[q].baseBudget = s.slots[q].baseBudget
              /\ t.slots[q].bonusBudget = s.slots[q].bonusBudget
              /\ t.slots[q].baseSeq = s.slots[q].baseSeq
              /\ t.slots[q].bonusSeq = s.slots[q].bonusSeq
              /\ t.slots[q].activationSeq = s.slots[q].activationSeq
              /\ CouldRun(t.slots[q], limit),
           \A q \in DOMAIN t.slots \ Y : ~IsRunnableCandidate(t.slots[q], limit)
    PROVE  QueuesFit(t, limit, Y)
<1>1. Waits(t.slots, FALSE) = Waits(s.slots, FALSE) /\ Waits(t.slots, TRUE) = Waits(s.slots, TRUE)
  BY DEF Waits
<1>2. /\ \A i \in 1..Len(s.baseQueue) : s.baseQueue[i] \in Waits(t.slots, FALSE)
      /\ \A i \in 1..Len(s.bonusQueue) : s.bonusQueue[i] \in Waits(t.slots, TRUE)
  BY <1>1 DEF QueuesFit, Lists
<1>3. \A q \in Waits(t.slots, FALSE) \cup Waits(t.slots, TRUE) :
        /\ t.slots[q].baseSeq = s.slots[q].baseSeq
        /\ t.slots[q].bonusSeq = s.slots[q].bonusSeq
        /\ t.slots[q].activationSeq = s.slots[q].activationSeq
  BY DEF Waits
<1>4. InServiceOrder(t.slots, FALSE, t.baseQueue)
  BY <1>2, <1>3, SameOrder DEF QueuesFit
<1>5. InServiceOrder(t.slots, TRUE, t.bonusQueue)
  BY <1>2, <1>3, SameOrder DEF QueuesFit
<1>6. \A q \in DOMAIN t.slots :
        t.slots[q].queued => CouldRun(t.slots[q], limit) /\ Budget(t.slots[q]) # 0
  BY DEF QueuesFit, Budget
<1> QED BY <1>1, <1>4, <1>5, <1>6 DEF QueuesFit

\* CollectAndEnqueueRunnableCandidatesLocked on empty queues.
LEMMA CollectedFits ==
    ASSUME NEW c \in Scheduler, NEW limit, c.baseQueue = << >>, c.bonusQueue = << >>,
           \A q \in DOMAIN c.slots : c.slots[q].queued = FALSE
    PROVE  LET t == Collected(c, limit)
           IN  /\ t \in Scheduler
               /\ DOMAIN t.slots = DOMAIN c.slots
               /\ \A q \in DOMAIN c.slots :
                    t.slots[q] = IF q \in Candidates(c, limit)
                                 THEN [c.slots[q] EXCEPT !.queued = TRUE] ELSE c.slots[q]
               /\ t.lastShare = c.lastShare /\ t.totalInFlight = c.totalInFlight
               /\ QueuesFit(t, limit, {})
<1> DEFINE ids == Candidates(c, limit)
           inBase == {q \in ids : c.slots[q].baseBudget # 0}
           inBonus == ids \ inBase
           base == Sorted(c.slots, FALSE, inBase)
           bonus == Sorted(c.slots, TRUE, inBonus)
           slots == [q \in DOMAIN c.slots |->
                       IF q \in ids THEN [c.slots[q] EXCEPT !.queued = TRUE] ELSE c.slots[q]]
           t == Collected(c, limit)
<1>1. /\ DOMAIN c.slots \in SUBSET Query
      /\ \A q \in DOMAIN c.slots : c.slots[q] \in Slot
  BY SchedulerTypes
<1>2. ids \in SUBSET DOMAIN c.slots /\ inBase \in SUBSET ids /\ inBonus \in SUBSET ids
  BY DEF Candidates
<1> HIDE DEF ids
<1>3. /\ base \in Seq(Query) /\ Lists(base, inBase) /\ InServiceOrder(c.slots, FALSE, base)
  <2>1. inBase \in SUBSET Query /\ \A q \in inBase : c.slots[q] \in Slot
    BY <1>1, <1>2
  <2> HIDE DEF inBase
  <2> QED BY <2>1, SortedLists
<1>4. /\ bonus \in Seq(Query) /\ Lists(bonus, inBonus) /\ InServiceOrder(c.slots, TRUE, bonus)
  <2>1. inBonus \in SUBSET Query /\ \A q \in inBonus : c.slots[q] \in Slot
    BY <1>1, <1>2
  <2> HIDE DEF inBonus
  <2> QED BY <2>1, SortedLists
<1>5. /\ t = [c EXCEPT !.baseQueue = << >> \o base, !.bonusQueue = << >> \o bonus, !.slots = slots]
  BY DEF Collected, ids
<1> HIDE DEF base, bonus, t
<1>6. << >> \o base = base /\ << >> \o bonus = bonus
  BY <1>3, <1>4, ConcatEmptySeq
<1>7. /\ DOMAIN slots = DOMAIN c.slots
      /\ \A q \in DOMAIN c.slots :
           slots[q] = IF q \in ids THEN [c.slots[q] EXCEPT !.queued = TRUE] ELSE c.slots[q]
  OBVIOUS
<1>8. slots \in AnySlots
  <2>1. \A q \in DOMAIN c.slots : slots[q] \in Slot
    BY <1>1, <1>7 DEF Slot
  <2>2. slots = [q \in DOMAIN c.slots |-> slots[q]]
    OBVIOUS
  <2> HIDE DEF slots
  <2> QED BY <1>1, <2>1, <2>2, SlotsTyped
<1> HIDE DEF slots
<1>9. /\ t \in Scheduler /\ t.slots = slots /\ t.baseQueue = base /\ t.bonusQueue = bonus
      /\ t.lastShare = c.lastShare /\ t.totalInFlight = c.totalInFlight
  BY <1>3, <1>4, <1>5, <1>6, <1>8 DEF Scheduler
<1>a. \A q \in DOMAIN c.slots :
        /\ slots[q].queued <=> q \in ids
        /\ slots[q].baseBudget = c.slots[q].baseBudget
        /\ slots[q].bonusBudget = c.slots[q].bonusBudget
        /\ slots[q].baseSeq = c.slots[q].baseSeq
        /\ slots[q].bonusSeq = c.slots[q].bonusSeq
        /\ slots[q].activationSeq = c.slots[q].activationSeq
        /\ slots[q].activated = c.slots[q].activated
        /\ slots[q].pending = c.slots[q].pending
        /\ slots[q].inFlight = c.slots[q].inFlight
  BY <1>1, <1>7 DEF Slot
<1>b. Waits(slots, FALSE) = inBase /\ Waits(slots, TRUE) = inBonus
  BY <1>2, <1>7, <1>a DEF Waits
<1>c. InServiceOrder(slots, FALSE, base) /\ InServiceOrder(slots, TRUE, bonus)
  <2>1. /\ \A i \in 1..Len(base) : base[i] \in DOMAIN c.slots
        /\ \A i \in 1..Len(bonus) : bonus[i] \in DOMAIN c.slots
    BY <1>2, <1>3, <1>4 DEF Lists
  <2>2. InServiceOrder(slots, FALSE, base)
    BY <1>3, <1>a, <2>1, SameOrder
  <2>3. InServiceOrder(slots, TRUE, bonus)
    BY <1>4, <1>a, <2>1, SameOrder
  <2> QED BY <2>2, <2>3
<1>d. \A q \in DOMAIN slots :
        /\ slots[q].queued => CouldRun(slots[q], limit) /\ Budget(slots[q]) # 0
        /\ ~IsRunnableCandidate(slots[q], limit)
  <2>1. \A q \in DOMAIN c.slots : q \in ids <=> IsRunnableCandidate(c.slots[q], limit)
    BY DEF ids, Candidates
  <2>2. \A q \in DOMAIN c.slots : q \in ids <=> CouldRun(c.slots[q], limit) /\ Budget(c.slots[q]) # 0
    BY <2>1 DEF IsRunnableCandidate
  <2>3. \A q \in DOMAIN c.slots : /\ CouldRun(slots[q], limit) <=> CouldRun(c.slots[q], limit)
                                  /\ Budget(slots[q]) = Budget(c.slots[q])
    BY <1>a DEF CouldRun, Budget
  <2> QED BY <1>7, <1>a, <2>2, <2>3 DEF IsRunnableCandidate
<1>e. QueuesFit(t, limit, {})
  BY <1>3, <1>4, <1>9, <1>b, <1>c, <1>d DEF QueuesFit
<1> QED BY <1>7, <1>9, <1>e DEF t, ids

\* A budget that is lowered stays a number.
LEMMA LowerOfTwo ==
    ASSUME NEW a \in Nat, NEW b \in Nat
    PROVE  Min({a, b}) \in Nat
<1>1. {a, b} \in SUBSET Int /\ {a, b} # {}
  OBVIOUS
<1>2. IsFiniteSet({a, b})
  <2>1. IsFiniteSet({a})
    BY FS_Singleton
  <2>2. IsFiniteSet({a} \cup {b})
    BY <2>1, FS_AddElement
  <2>3. {a} \cup {b} = {a, b}
    OBVIOUS
  <2> QED BY <2>2, <2>3
<1>3. Min({a, b}) \in {a, b}
  <2> DEFINE S == {a, b}
  <2>1. S \in SUBSET Int /\ IsFiniteSet(S) /\ S # {}
    BY <1>1, <1>2
  <2> HIDE DEF S
  <2>2. Min(S) \in S
    BY <2>1, LeastOf
  <2> QED BY <2>2 DEF S
<1> QED BY <1>3

\* RebalanceDispatchBudgetsLocked on one slot.
LEMMA CappedSlot ==
    ASSUME NEW slot \in Slot, NEW share \in Nat \ {0}
    PROVE  Capped(slot, share) \in Slot /\ SameTasks(Capped(slot, share), slot)
<1> DEFINE base == Min({slot.baseBudget, BaseCap(share)})
           bonus == Min({slot.bonusBudget, BonusCap(slot, share)})
<1>1. BaseCap(share) \in Nat /\ BonusCap(slot, share) \in Nat
  BY CapTypes
<1>2. slot.baseBudget \in Nat /\ slot.bonusBudget \in Nat
  BY DEF Slot
<1>3. base \in Nat
  BY <1>1, <1>2, LowerOfTwo
<1>4. bonus \in Nat
  BY <1>1, <1>2, LowerOfTwo
<1>5. Capped(slot, share) = IF slot.activated
                            THEN [slot EXCEPT !.baseBudget = base, !.bonusBudget = bonus]
                            ELSE slot
  BY DEF Capped
<1> HIDE DEF base, bonus
<1> QED BY <1>3, <1>4, <1>5 DEF Slot, SameTasks

\* SyncQueryShareCountLocked brings the share up to date and keeps the queues fit.
LEMMA SyncFits ==
    ASSUME NEW s \in Scheduler, NEW X, QueuesFit(s, InFlightLimit(s.lastShare), X)
    PROVE  LET t == Synced(s)
           IN  /\ t \in Scheduler
               /\ DOMAIN t.slots = DOMAIN s.slots
               /\ \A q \in DOMAIN s.slots : SameTasks(t.slots[q], s.slots[q])
               /\ t.totalInFlight = s.totalInFlight
               /\ Fits(t, X)
<1> DEFINE share == QueryShareCount(s)
           capped == [q \in DOMAIN s.slots |-> Capped(s.slots[q], share)]
           rebalanced == [s EXCEPT !.lastShare = share, !.slots = capped]
           cleared == [q \in DOMAIN capped |-> [capped[q] EXCEPT !.queued = FALSE]]
           c == [rebalanced EXCEPT !.baseQueue = << >>, !.bonusQueue = << >>, !.slots = cleared]
           limit == InFlightLimit(QueryShareCount(rebalanced))
           t == Collected(c, limit)
<1>1. CASE share = s.lastShare
  <2>1. Synced(s) = s
    BY <1>1 DEF Synced
  <2> QED BY <1>1, <2>1 DEF Fits, SameTasks
<1>2. CASE share # s.lastShare
  <2>1. Synced(s) = t
    BY <1>2 DEF Synced, Rebuilt
  <2>2. /\ DOMAIN s.slots \in SUBSET Query
        /\ \A q \in DOMAIN s.slots : s.slots[q] \in Slot
        /\ share \in Nat \ {0}
    BY SchedulerTypes
  <2> HIDE DEF share
  <2>3. /\ DOMAIN capped = DOMAIN s.slots
        /\ \A q \in DOMAIN s.slots : capped[q] \in Slot /\ SameTasks(capped[q], s.slots[q])
    BY <2>2, CappedSlot
  <2> HIDE DEF capped
  <2>4. /\ DOMAIN cleared = DOMAIN s.slots
        /\ \A q \in DOMAIN s.slots : /\ cleared[q] \in Slot /\ cleared[q].queued = FALSE
                                     /\ SameTasks(cleared[q], s.slots[q])
    BY <2>3 DEF Slot, SameTasks
  <2>5. cleared \in AnySlots
    <3>1. cleared = [q \in DOMAIN s.slots |-> cleared[q]]
      BY <2>3
    <3> HIDE DEF cleared
    <3> QED BY <2>2, <2>4, <3>1, SlotsTyped
  <2> HIDE DEF cleared
  <2>6. rebalanced.slots = capped /\ DOMAIN s = DOMAIN rebalanced
    BY DEF Scheduler
  <2>7. QueryShareCount(rebalanced) = share
    <3> HIDE DEF rebalanced
    <3> QED BY <2>3, <2>6, SameShare DEF share
  <2>8. /\ c \in Scheduler /\ c.slots = cleared
        /\ c.baseQueue = << >> /\ c.bonusQueue = << >>
        /\ c.lastShare = share /\ c.totalInFlight = s.totalInFlight
    <3>1. c = [s EXCEPT !.lastShare = share, !.baseQueue = << >>, !.bonusQueue = << >>,
                        !.slots = cleared]
      BY DEF Scheduler
    <3>2. << >> \in Seq(Query)
      OBVIOUS
    <3> HIDE DEF c
    <3> QED BY <2>2, <2>5, <3>1, <3>2 DEF Scheduler
  <2> HIDE DEF c, rebalanced
  <2>9. /\ t \in Scheduler
        /\ DOMAIN t.slots = DOMAIN c.slots
        /\ \A q \in DOMAIN c.slots :
             t.slots[q] = IF q \in Candidates(c, limit)
                          THEN [c.slots[q] EXCEPT !.queued = TRUE] ELSE c.slots[q]
        /\ t.lastShare = c.lastShare /\ t.totalInFlight = c.totalInFlight
        /\ QueuesFit(t, limit, {})
    BY <2>4, <2>8, CollectedFits
  <2> HIDE DEF t
  <2>a. \A q \in DOMAIN s.slots : SameTasks(t.slots[q], s.slots[q])
    <3> SUFFICES ASSUME NEW q \in DOMAIN s.slots PROVE SameTasks(t.slots[q], s.slots[q])
      OBVIOUS
    <3> DEFINE old == cleared[q]
               new == t.slots[q]
    <3>1. old \in Slot /\ SameTasks(old, s.slots[q])
      BY <2>4
    <3>2. new = [old EXCEPT !.queued = TRUE] \/ new = old
      BY <2>4, <2>8, <2>9
    <3> HIDE DEF old, new
    <3>3. SameTasks(new, old)
      BY <3>1, <3>2 DEF Slot, SameTasks
    <3>4. SameTasks(new, s.slots[q])
      BY <3>1, <3>3 DEF SameTasks
    <3> QED BY <3>4 DEF new
  <2>b. QueryShareCount(t) = share
    BY <2>4, <2>8, <2>9, <2>a, SameShare DEF share
  <2>c. QueuesFit(t, InFlightLimit(share), X)
    BY <2>7, <2>9 DEF QueuesFit
  <2> QED BY <2>1, <2>4, <2>8, <2>9, <2>a, <2>b, <2>c DEF Fits
<1> QED BY <1>1, <1>2

\* A query enters the queue that its budgets call for.
LEMMA QueuedFits ==
    ASSUME NEW s \in Scheduler, NEW q \in DOMAIN s.slots, NEW limit, NEW t \in Scheduler,
           QueuesFit(s, limit, {q}), IsRunnableCandidate(s.slots[q], limit),
           t.slots = [s.slots EXCEPT ![q].queued = TRUE],
           IF s.slots[q].baseBudget # 0
           THEN /\ t.baseQueue = OrderedInsert(s, s.baseQueue, FALSE, q)
                /\ t.bonusQueue = s.bonusQueue
           ELSE /\ t.bonusQueue = OrderedInsert(s, s.bonusQueue, TRUE, q)
                /\ t.baseQueue = s.baseQueue
    PROVE  QueuesFit(t, limit, {})
<1> DEFINE base == Waits(s.slots, FALSE)
           bonus == Waits(s.slots, TRUE)
<1>1. /\ DOMAIN s.slots \in SUBSET Query
      /\ \A p \in DOMAIN s.slots : s.slots[p] \in Slot
      /\ s.baseQueue \in Seq(Query) /\ s.bonusQueue \in Seq(Query)
  BY SchedulerTypes
<1>2. /\ base \in SUBSET DOMAIN s.slots /\ bonus \in SUBSET DOMAIN s.slots
      /\ q \notin base /\ q \notin bonus
  BY DEF Waits, IsRunnableCandidate
<1>3. /\ DOMAIN t.slots = DOMAIN s.slots
      /\ \A p \in DOMAIN s.slots :
           /\ t.slots[p].queued <=> p = q \/ s.slots[p].queued
           /\ t.slots[p].baseBudget = s.slots[p].baseBudget
           /\ t.slots[p].bonusBudget = s.slots[p].bonusBudget
           /\ t.slots[p].baseSeq = s.slots[p].baseSeq
           /\ t.slots[p].bonusSeq = s.slots[p].bonusSeq
           /\ t.slots[p].activationSeq = s.slots[p].activationSeq
           /\ t.slots[p].activated = s.slots[p].activated
           /\ t.slots[p].pending = s.slots[p].pending
           /\ t.slots[p].inFlight = s.slots[p].inFlight
  <2>1. /\ DOMAIN t.slots = DOMAIN s.slots
        /\ \A p \in DOMAIN s.slots : p # q => t.slots[p] = s.slots[p]
        /\ t.slots[q] = [s.slots[q] EXCEPT !.queued = TRUE]
    OBVIOUS
  <2> DEFINE old == s.slots[q]
             new == t.slots[q]
  <2>2. old \in Slot /\ new = [old EXCEPT !.queued = TRUE]
    BY <1>1, <2>1
  <2> HIDE DEF old, new
  <2>3. /\ new.queued = TRUE
        /\ new.baseBudget = old.baseBudget /\ new.bonusBudget = old.bonusBudget
        /\ new.baseSeq = old.baseSeq /\ new.bonusSeq = old.bonusSeq
        /\ new.activationSeq = old.activationSeq /\ new.activated = old.activated
        /\ new.pending = old.pending /\ new.inFlight = old.inFlight
    BY <2>2 DEF Slot
  <2> QED BY <2>1, <2>3 DEF old, new
<1>4. /\ \A p \in DOMAIN s.slots :
           t.slots[p].queued => CouldRun(t.slots[p], limit) /\ Budget(t.slots[p]) # 0
      /\ \A p \in DOMAIN t.slots : ~IsRunnableCandidate(t.slots[p], limit)
  <2>1. \A p \in DOMAIN s.slots : /\ CouldRun(t.slots[p], limit) <=> CouldRun(s.slots[p], limit)
                                  /\ Budget(t.slots[p]) = Budget(s.slots[p])
    BY <1>3 DEF CouldRun, Budget
  <2>2. /\ CouldRun(s.slots[q], limit) /\ Budget(s.slots[q]) # 0
        /\ \A p \in DOMAIN s.slots : s.slots[p].queued =>
             CouldRun(s.slots[p], limit) /\ Budget(s.slots[p]) # 0
        /\ \A p \in DOMAIN s.slots : p # q =>
             s.slots[p].queued \/ ~(CouldRun(s.slots[p], limit) /\ Budget(s.slots[p]) # 0)
    BY DEF QueuesFit, IsRunnableCandidate
  <2>3. ASSUME NEW p \in DOMAIN s.slots
        PROVE  /\ t.slots[p].queued => CouldRun(t.slots[p], limit) /\ Budget(t.slots[p]) # 0
               /\ t.slots[p].queued \/ ~(CouldRun(t.slots[p], limit) /\ Budget(t.slots[p]) # 0)
    <3>1. CASE p = q
      BY <1>3, <2>1, <2>2, <3>1
    <3>2. CASE p # q
      BY <1>3, <2>1, <2>2, <3>2
    <3> QED BY <3>1, <3>2
  <2> QED BY <1>3, <2>3 DEF IsRunnableCandidate
<1>5. ASSUME NEW queue \in Seq(Query), NEW b \in BOOLEAN, NEW ids \in SUBSET DOMAIN s.slots,
             Lists(queue, ids), InServiceOrder(s.slots, b, queue)
      PROVE  InServiceOrder(t.slots, b, queue)
  <2>1. \A i \in 1..Len(queue) : queue[i] \in DOMAIN s.slots
    BY <1>5 DEF Lists
  <2> QED BY <1>3, <1>5, <2>1, SameOrder
<1>6. CASE s.slots[q].baseBudget # 0
  <2>1. Waits(t.slots, FALSE) = base \cup {q} /\ Waits(t.slots, TRUE) = bonus
    BY <1>3, <1>6 DEF Waits
  <2>2. /\ t.baseQueue = OrderedInsert(s, s.baseQueue, FALSE, q)
        /\ t.bonusQueue = s.bonusQueue
    BY <1>6
  <2>3. Lists(s.baseQueue, base) /\ InServiceOrder(s.slots, FALSE, s.baseQueue)
    BY DEF QueuesFit
  <2>4. base \in SUBSET Query /\ \A p \in base \cup {q} : s.slots[p] \in Slot
    BY <1>1, <1>2
  <2>5. LET r == OrderedInsert(s, s.baseQueue, FALSE, q)
        IN  /\ r \in Seq(Query)
            /\ Lists(r, base \cup {q})
            /\ InServiceOrder(s.slots, FALSE, r)
    <3> HIDE DEF base
    <3> QED BY <1>1, <1>2, <2>3, <2>4, InsertedInOrder
  <2>6. InServiceOrder(t.slots, FALSE, t.baseQueue)
    <3>1. base \cup {q} \in SUBSET DOMAIN s.slots
      BY <1>2
    <3> HIDE DEF base
    <3> QED BY <1>5, <2>2, <2>5, <3>1
  <2>7. InServiceOrder(t.slots, TRUE, t.bonusQueue)
    BY <1>1, <1>2, <1>5, <2>2 DEF QueuesFit
  <2>8. Lists(t.baseQueue, Waits(t.slots, FALSE)) /\ Lists(t.bonusQueue, Waits(t.slots, TRUE))
    BY <2>1, <2>2, <2>5 DEF QueuesFit
  <2> QED BY <1>3, <1>4, <2>6, <2>7, <2>8 DEF QueuesFit
<1>7. CASE s.slots[q].baseBudget = 0
  <2>1. Waits(t.slots, FALSE) = base /\ Waits(t.slots, TRUE) = bonus \cup {q}
    BY <1>3, <1>7 DEF Waits
  <2>2. /\ t.bonusQueue = OrderedInsert(s, s.bonusQueue, TRUE, q)
        /\ t.baseQueue = s.baseQueue
    BY <1>7
  <2>3. Lists(s.bonusQueue, bonus) /\ InServiceOrder(s.slots, TRUE, s.bonusQueue)
    BY DEF QueuesFit
  <2>4. bonus \in SUBSET Query /\ \A p \in bonus \cup {q} : s.slots[p] \in Slot
    BY <1>1, <1>2
  <2>5. LET r == OrderedInsert(s, s.bonusQueue, TRUE, q)
        IN  /\ r \in Seq(Query)
            /\ Lists(r, bonus \cup {q})
            /\ InServiceOrder(s.slots, TRUE, r)
    <3> HIDE DEF bonus
    <3> QED BY <1>1, <1>2, <2>3, <2>4, InsertedInOrder
  <2>6. InServiceOrder(t.slots, TRUE, t.bonusQueue)
    <3>1. bonus \cup {q} \in SUBSET DOMAIN s.slots
      BY <1>2
    <3> HIDE DEF bonus
    <3> QED BY <1>5, <2>2, <2>5, <3>1
  <2>7. InServiceOrder(t.slots, FALSE, t.baseQueue)
    BY <1>1, <1>2, <1>5, <2>2 DEF QueuesFit
  <2>8. Lists(t.baseQueue, Waits(t.slots, FALSE)) /\ Lists(t.bonusQueue, Waits(t.slots, TRUE))
    BY <2>1, <2>2, <2>5 DEF QueuesFit
  <2> QED BY <1>3, <1>4, <2>6, <2>7, <2>8 DEF QueuesFit
<1> QED BY <1>6, <1>7

\* TryEnqueueRunnableLocked.
LEMMA EnqueueFits ==
    ASSUME NEW s \in Scheduler, NEW q \in DOMAIN s.slots, Fits(s, {q})
    PROVE  LET t == Enqueued(s, q)
           IN  /\ t \in Scheduler
               /\ DOMAIN t.slots = DOMAIN s.slots
               /\ \A p \in DOMAIN s.slots : SameTasks(t.slots[p], s.slots[p])
               /\ t.totalInFlight = s.totalInFlight
               /\ Fits(t, {})
<1> DEFINE limit == InFlightLimit(QueryShareCount(s))
           t == Enqueued(s, q)
           slots == [s.slots EXCEPT ![q].queued = TRUE]
           base == OrderedInsert(s, s.baseQueue, FALSE, q)
           bonus == OrderedInsert(s, s.bonusQueue, TRUE, q)
<1>1. CASE ~IsRunnableCandidate(s.slots[q], limit)
  <2>1. t = s
    BY <1>1 DEF Enqueued
  <2> HIDE DEF t
  <2>2. QueuesFit(s, limit, {})
    BY <1>1 DEF Fits, QueuesFit
  <2>3. \A p \in DOMAIN s.slots : SameTasks(t.slots[p], s.slots[p])
    BY <2>1 DEF SameTasks
  <2> QED BY <2>1, <2>2, <2>3 DEF Fits, t
<1>2. CASE IsRunnableCandidate(s.slots[q], limit)
  <2>1. /\ DOMAIN s.slots \in SUBSET Query
        /\ \A p \in DOMAIN s.slots : s.slots[p] \in Slot
        /\ s.baseQueue \in Seq(Query) /\ s.bonusQueue \in Seq(Query)
    BY SchedulerTypes
  <2>2. /\ DOMAIN slots = DOMAIN s.slots
        /\ \A p \in DOMAIN s.slots : slots[p] \in Slot /\ SameTasks(slots[p], s.slots[p])
    BY <2>1 DEF Slot, SameTasks
  <2>3. slots \in AnySlots
    <3>1. slots = [p \in DOMAIN s.slots |-> slots[p]]
      OBVIOUS
    <3> HIDE DEF slots
    <3> QED BY <2>1, <2>2, <3>1, SlotsTyped
  <2>4. /\ s.slots[q].baseBudget # 0 => base \in Seq(Query)
        /\ s.slots[q].baseBudget = 0 => bonus \in Seq(Query)
    <3> DEFINE inBase == Waits(s.slots, FALSE)
               inBonus == Waits(s.slots, TRUE)
    <3>1. /\ inBase \in SUBSET Query /\ q \notin inBase
          /\ \A p \in inBase \cup {q} : s.slots[p] \in Slot
          /\ inBonus \in SUBSET Query /\ q \notin inBonus
          /\ \A p \in inBonus \cup {q} : s.slots[p] \in Slot
      BY <1>2, <2>1 DEF Waits, IsRunnableCandidate
    <3>2. /\ Lists(s.baseQueue, inBase) /\ InServiceOrder(s.slots, FALSE, s.baseQueue)
          /\ Lists(s.bonusQueue, inBonus) /\ InServiceOrder(s.slots, TRUE, s.bonusQueue)
      BY DEF Fits, QueuesFit
    <3> HIDE DEF inBase, inBonus
    <3>3. base \in Seq(Query)
      BY <2>1, <3>1, <3>2, InsertedInOrder
    <3>4. bonus \in Seq(Query)
      BY <2>1, <3>1, <3>2, InsertedInOrder
    <3> QED BY <3>3, <3>4
  <2>5. t = IF s.slots[q].baseBudget # 0
            THEN [s EXCEPT !.slots = slots, !.baseQueue = base]
            ELSE [s EXCEPT !.slots = slots, !.bonusQueue = bonus]
    BY <1>2 DEF Enqueued, Scheduler
  <2> HIDE DEF slots, base, bonus, t
  <2>6. /\ t \in Scheduler /\ t.slots = slots
        /\ t.lastShare = s.lastShare /\ t.totalInFlight = s.totalInFlight
        /\ IF s.slots[q].baseBudget # 0
           THEN t.baseQueue = base /\ t.bonusQueue = s.bonusQueue
           ELSE t.bonusQueue = bonus /\ t.baseQueue = s.baseQueue
    BY <2>1, <2>3, <2>4, <2>5 DEF Scheduler
  <2>7. QueryShareCount(t) = QueryShareCount(s)
    BY <2>2, <2>6, SameShare
  <2>8. QueuesFit(t, limit, {})
    BY <1>2, <2>6, QueuedFits DEF Fits, slots, base, bonus
  <2> QED BY <2>2, <2>6, <2>7, <2>8 DEF Fits, t
<1> QED BY <1>1, <1>2

\* TryEraseSlotLocked.
LEMMA EraseFits ==
    ASSUME NEW s \in Scheduler, NEW q \in DOMAIN s.slots, Fits(s, {})
    PROVE  LET t == Erased(s, q)
           IN  /\ t \in Scheduler
               /\ DOMAIN t.slots \in {DOMAIN s.slots, DOMAIN s.slots \ {q}}
               /\ \A p \in DOMAIN t.slots : t.slots[p] = s.slots[p]
               /\ q \notin DOMAIN t.slots => /\ ~s.slots[q].attached /\ s.slots[q].pending = 0
                                             /\ s.slots[q].inFlight = 0
               /\ t.totalInFlight = s.totalInFlight
               /\ Fits(t, {})
<1> DEFINE t == Erased(s, q)
           slots == [p \in DOMAIN s.slots \ {q} |-> s.slots[p]]
           stays == s.slots[q].attached \/ s.slots[q].pending # 0 \/ s.slots[q].inFlight # 0
<1>1. CASE stays
  <2>1. t = s
    BY <1>1 DEF Erased
  <2> QED BY <2>1
<1>2. CASE ~stays
  <2>1. /\ DOMAIN s.slots \in SUBSET Query
        /\ \A p \in DOMAIN s.slots : s.slots[p] \in Slot
    BY SchedulerTypes
  <2>2. /\ DOMAIN slots = DOMAIN s.slots \ {q}
        /\ \A p \in DOMAIN slots : slots[p] = s.slots[p] /\ slots[p] \in Slot
    BY <2>1
  <2>3. slots \in AnySlots
    <3>1. slots = [p \in DOMAIN slots |-> slots[p]]
      OBVIOUS
    <3> HIDE DEF slots
    <3> QED BY <2>1, <2>2, <3>1, SlotsTyped
  <2>4. t = [s EXCEPT !.slots = slots]
    BY <1>2 DEF Erased, Restrict, Scheduler
  <2> HIDE DEF slots, t
  <2>5. /\ t \in Scheduler /\ t.slots = slots
        /\ t.lastShare = s.lastShare /\ t.totalInFlight = s.totalInFlight
        /\ t.baseQueue = s.baseQueue /\ t.bonusQueue = s.bonusQueue
    BY <2>3, <2>4 DEF Scheduler
  <2>6. QueryShareCount(s) = QueryShareCount(t)
    <3>1. ~IsVisible(s.slots[q])
      BY <1>2 DEF IsVisible
    <3>2. {p \in DOMAIN s.slots : IsVisible(s.slots[p])}
            = {p \in DOMAIN t.slots : IsVisible(t.slots[p])}
      BY <2>2, <2>5, <3>1
    <3> QED BY <3>2, SameVisible
  <2>7. QueuesFit(t, InFlightLimit(QueryShareCount(s)), {})
    <3> DEFINE limit == InFlightLimit(QueryShareCount(s))
    <3>1. QueuesFit(s, limit, {})
      BY DEF Fits
    <3> HIDE DEF limit
    <3>2. ~s.slots[q].queued
      BY <1>2, <3>1 DEF QueuesFit, CouldRun
    <3>3. \A p \in DOMAIN t.slots : /\ t.slots[p] = s.slots[p] /\ p \in DOMAIN s.slots
                                    /\ s.slots[p].queued => CouldRun(s.slots[p], limit)
                                    /\ ~IsRunnableCandidate(s.slots[p], limit)
      BY <2>2, <2>5, <3>1 DEF QueuesFit
    <3>4. \A p \in DOMAIN s.slots : s.slots[p].queued => p \in DOMAIN t.slots /\ t.slots[p].queued
      BY <2>2, <2>5, <3>2
    <3>5. QueuesFit(t, limit, {})
      BY <2>5, <3>1, <3>3, <3>4, FitKept
    <3> QED BY <3>5 DEF limit
  <2> QED BY <1>2, <2>2, <2>5, <2>6, <2>7 DEF Fits, t
<1> QED BY <1>1, <1>2

\* One slot is replaced.
LEMMA SlotPut ==
    ASSUME NEW s \in Scheduler, NEW q \in DOMAIN s.slots, NEW new \in Slot
    PROVE  LET f == [s.slots EXCEPT ![q] = new]
           IN  /\ f \in AnySlots /\ DOMAIN f = DOMAIN s.slots /\ f[q] = new
               /\ \A p \in DOMAIN s.slots : p # q => f[p] = s.slots[p]
<1> DEFINE f == [s.slots EXCEPT ![q] = new]
<1>1. /\ DOMAIN s.slots \in SUBSET Query
      /\ \A p \in DOMAIN s.slots : s.slots[p] \in Slot
  BY SchedulerTypes
<1>2. /\ DOMAIN f = DOMAIN s.slots /\ f[q] = new
      /\ \A p \in DOMAIN s.slots : p # q => f[p] = s.slots[p]
  OBVIOUS
<1>3. f = [p \in DOMAIN s.slots |-> f[p]]
  OBVIOUS
<1> HIDE DEF f
<1>4. f \in AnySlots
  BY <1>1, <1>2, <1>3, SlotsTyped
<1> QED BY <1>2, <1>4 DEF f

\* The queues still fit when one slot changes that is in no queue, or that keeps its
\* place and may still run.
LEMMA PutFits ==
    ASSUME NEW s \in Scheduler, NEW t, NEW q \in DOMAIN s.slots, NEW limit, NEW X, NEW Y,
           QueuesFit(s, limit, X), X \in SUBSET Y,
           t.baseQueue = s.baseQueue, t.bonusQueue = s.bonusQueue,
           DOMAIN t.slots = DOMAIN s.slots,
           \A p \in DOMAIN s.slots : p # q => t.slots[p] = s.slots[p],
           t.slots[q].queued <=> s.slots[q].queued,
           s.slots[q].queued => /\ t.slots[q].baseBudget = s.slots[q].baseBudget
                                /\ t.slots[q].bonusBudget = s.slots[q].bonusBudget
                                /\ t.slots[q].baseSeq = s.slots[q].baseSeq
                                /\ t.slots[q].bonusSeq = s.slots[q].bonusSeq
                                /\ t.slots[q].activationSeq = s.slots[q].activationSeq
                                /\ CouldRun(t.slots[q], limit),
           q \in Y \/ ~IsRunnableCandidate(t.slots[q], limit)
    PROVE  QueuesFit(t, limit, Y)
<1>1. \A p \in DOMAIN s.slots : s.slots[p].queued => p \in DOMAIN t.slots /\ t.slots[p].queued
  OBVIOUS
<1>2. ASSUME NEW p \in DOMAIN t.slots, t.slots[p].queued
      PROVE  /\ p \in DOMAIN s.slots /\ s.slots[p].queued
             /\ t.slots[p].baseBudget = s.slots[p].baseBudget
             /\ t.slots[p].bonusBudget = s.slots[p].bonusBudget
             /\ t.slots[p].baseSeq = s.slots[p].baseSeq
             /\ t.slots[p].bonusSeq = s.slots[p].bonusSeq
             /\ t.slots[p].activationSeq = s.slots[p].activationSeq
             /\ CouldRun(t.slots[p], limit)
  <2>1. CASE p = q
    BY <1>2, <2>1
  <2>2. CASE p # q
    BY <1>2, <2>2 DEF QueuesFit
  <2> QED BY <2>1, <2>2
<1>3. \A p \in DOMAIN t.slots \ Y : ~IsRunnableCandidate(t.slots[p], limit)
  BY DEF QueuesFit
<1> QED BY <1>1, <1>2, <1>3, FitKept

\* The share is the same when one slot changes that is as visible as before.
LEMMA PutShare ==
    ASSUME NEW s, NEW t, NEW q, DOMAIN t.slots = DOMAIN s.slots,
           \A p \in DOMAIN s.slots : p # q => t.slots[p] = s.slots[p],
           IsVisible(t.slots[q]) <=> IsVisible(s.slots[q])
    PROVE  QueryShareCount(t) = QueryShareCount(s)
<1>1. \A p \in DOMAIN s.slots : IsVisible(t.slots[p]) <=> IsVisible(s.slots[p])
  OBVIOUS
<1> QED BY <1>1, SameVisible

\* The head of a queue has waited longest, and what is left fits the others.
LEMMA HeadAndTail ==
    ASSUME NEW queue \in Seq(Query), NEW ids, NEW slots, NEW bonusPhase,
           Lists(queue, ids), InServiceOrder(slots, bonusPhase, queue), queue # << >>
    PROVE  /\ Head(queue) \in ids
           /\ \A p \in ids \ {Head(queue)} : RunnableQueryLess(slots, bonusPhase, Head(queue), p)
           /\ Tail(queue) \in Seq(Query)
           /\ Lists(Tail(queue), ids \ {Head(queue)})
           /\ InServiceOrder(slots, bonusPhase, Tail(queue))
<1> DEFINE n == Len(queue)
           first == Head(queue)
           rest == Tail(queue)
           Less(p, q) == RunnableQueryLess(slots, bonusPhase, p, q)
<1>1. n \in Nat \ {0} /\ first = queue[1]
  BY EmptySeq
<1>2. /\ rest \in Seq(Query) /\ Len(rest) = n - 1
      /\ \A i \in 1..(n - 1) : rest[i] = queue[i + 1]
  BY HeadTailProperties
<1>3. /\ \A i \in 1..n : queue[i] \in ids
      /\ \A q \in ids : \E i \in 1..n : queue[i] = q
      /\ \A i, j \in 1..n : queue[i] = queue[j] => i = j
      /\ \A i, j \in 1..n : i < j => Less(queue[i], queue[j])
  BY DEF Lists, InServiceOrder
<1> HIDE DEF n, first, rest, Less
<1>4. first \in ids
  BY <1>1, <1>3
<1>5. ASSUME NEW p \in ids \ {first} PROVE \E i \in 2..n : queue[i] = p /\ Less(first, p)
  <2>1. PICK i \in 1..n : queue[i] = p
    BY <1>3
  <2>2. i # 1 /\ 1 \in 1..n
    BY <1>1, <1>5, <2>1
  <2> QED BY <1>1, <1>3, <2>1, <2>2
<1>6. Lists(rest, ids \ {first})
  <2>1. \A i \in 1..(n - 1) : i + 1 \in 1..n /\ i + 1 # 1 /\ 1 \in 1..n
    BY <1>1
  <2>2. ASSUME NEW i \in 1..(n - 1) PROVE rest[i] \in ids \ {first}
    <3>1. i + 1 \in 1..n /\ i + 1 # 1 /\ 1 \in 1..n
      BY <2>1
    <3>2. queue[i + 1] \in ids /\ queue[i + 1] # queue[1]
      BY <1>3, <3>1
    <3> QED BY <1>1, <1>2, <3>2
  <2>3. ASSUME NEW p \in ids \ {first} PROVE \E i \in 1..(n - 1) : rest[i] = p
    <3>1. PICK i \in 2..n : queue[i] = p
      BY <1>5, <2>3
    <3>2. i - 1 \in 1..(n - 1) /\ (i - 1) + 1 = i
      BY <1>1
    <3> QED BY <1>2, <3>1, <3>2
  <2>4. \A i, j \in 1..(n - 1) : rest[i] = rest[j] => i = j
    BY <1>1, <1>2, <1>3, <2>1
  <2> QED BY <1>2, <2>2, <2>3, <2>4 DEF Lists
<1>7. InServiceOrder(slots, bonusPhase, rest)
  <2>1. ASSUME NEW i \in 1..(n - 1), NEW j \in 1..(n - 1), i < j PROVE Less(rest[i], rest[j])
    <3>1. i + 1 \in 1..n /\ j + 1 \in 1..n /\ i + 1 < j + 1
      BY <1>1, <2>1
    <3> QED BY <1>2, <1>3, <3>1
  <2> QED BY <1>2, <2>1 DEF InServiceOrder, Less
<1> QED BY <1>2, <1>4, <1>5, <1>6, <1>7 DEF first, rest, Less

\* The next query to be served is in a slot, may run and has budget; it is the first
\* of those that have base budget left, or else of those that have a bonus.
LEMMA NextServed ==
    ASSUME NEW s \in Scheduler, Fits(s, {}), HasRunnable(s)
    PROVE  LET q == NextRunnable(s)
               bonusPhase == s.slots[q].baseBudget = 0
           IN  /\ q \in DOMAIN s.slots /\ s.slots[q].queued
               /\ CouldRun(s.slots[q], InFlightLimit(QueryShareCount(s))) /\ Budget(s.slots[q]) # 0
               /\ BaseFirst(s) <=> s.slots[q].baseBudget # 0
               /\ \A p \in DOMAIN s.slots \ {q} :
                    CouldRun(s.slots[p], InFlightLimit(QueryShareCount(s))) =>
                      /\ bonusPhase => s.slots[p].baseBudget = 0
                      /\ Budget(s.slots[p]) # 0 /\ (s.slots[p].baseBudget = 0) = bonusPhase
                           => RunnableQueryLess(s.slots, bonusPhase, q, p)
<1> DEFINE limit == InFlightLimit(QueryShareCount(s))
           q == NextRunnable(s)
<1>1. /\ s.baseQueue \in Seq(Query) /\ s.bonusQueue \in Seq(Query)
      /\ \A p \in DOMAIN s.slots : s.slots[p] \in Slot
  BY SchedulerTypes
<1>2. QueuesFit(s, limit, {})
  BY DEF Fits
<1> HIDE DEF limit
<1>3. ASSUME NEW p \in DOMAIN s.slots
      PROVE  s.slots[p].queued <=> CouldRun(s.slots[p], limit) /\ Budget(s.slots[p]) # 0
  BY <1>2 DEF QueuesFit, IsRunnableCandidate
<1>4. /\ Lists(s.baseQueue, Waits(s.slots, FALSE)) /\ Lists(s.bonusQueue, Waits(s.slots, TRUE))
      /\ InServiceOrder(s.slots, FALSE, s.baseQueue) /\ InServiceOrder(s.slots, TRUE, s.bonusQueue)
  BY <1>2 DEF QueuesFit
<1>5. ASSUME NEW p \in DOMAIN s.slots
      PROVE  s.slots[p].baseBudget # 0 => Budget(s.slots[p]) # 0
  BY <1>1 DEF Budget, Slot
<1>6. CASE s.baseQueue # << >>
  <2>1. q = Head(s.baseQueue)
    BY <1>6 DEF NextRunnable, BaseFirst
  <2>2. /\ q \in Waits(s.slots, FALSE)
        /\ \A p \in Waits(s.slots, FALSE) \ {q} : RunnableQueryLess(s.slots, FALSE, q, p)
    <3> DEFINE queue == s.baseQueue
               ids == Waits(s.slots, FALSE)
               slots == s.slots
    <3>1. /\ queue \in Seq(Query) /\ Lists(queue, ids) /\ InServiceOrder(slots, FALSE, queue)
          /\ queue # << >> /\ q = Head(queue)
      BY <1>1, <1>4, <1>6, <2>1
    <3> HIDE DEF queue, ids, slots, q
    <3>2. /\ Head(queue) \in ids
          /\ \A p \in ids \ {Head(queue)} : RunnableQueryLess(slots, FALSE, Head(queue), p)
      BY <3>1, HeadAndTail
    <3>3. /\ q \in ids
          /\ \A p \in ids \ {q} : RunnableQueryLess(slots, FALSE, q, p)
      BY <3>1, <3>2
    <3> QED BY <3>3 DEF ids, slots
  <2> HIDE DEF q
  <2>3. q \in DOMAIN s.slots /\ s.slots[q].queued /\ s.slots[q].baseBudget # 0
    BY <2>2 DEF Waits
  <2>4. ASSUME NEW p \in DOMAIN s.slots \ {q}, CouldRun(s.slots[p], limit),
               Budget(s.slots[p]) # 0, s.slots[p].baseBudget # 0
        PROVE  RunnableQueryLess(s.slots, FALSE, q, p)
    BY <1>3, <2>2, <2>4 DEF Waits
  <2>5. (s.slots[q].baseBudget = 0) = FALSE
    BY <2>3
  <2> QED BY <1>3, <1>6, <2>3, <2>4, <2>5 DEF BaseFirst, limit, q
<1>7. CASE s.baseQueue = << >>
  <2>1. q = Head(s.bonusQueue) /\ s.bonusQueue # << >>
    BY <1>7 DEF NextRunnable, BaseFirst, HasRunnable
  <2>2. /\ q \in Waits(s.slots, TRUE)
        /\ \A p \in Waits(s.slots, TRUE) \ {q} : RunnableQueryLess(s.slots, TRUE, q, p)
    <3> DEFINE queue == s.bonusQueue
               ids == Waits(s.slots, TRUE)
               slots == s.slots
    <3>1. /\ queue \in Seq(Query) /\ Lists(queue, ids) /\ InServiceOrder(slots, TRUE, queue)
          /\ queue # << >> /\ q = Head(queue)
      BY <1>1, <1>4, <2>1
    <3> HIDE DEF queue, ids, slots, q
    <3>2. /\ Head(queue) \in ids
          /\ \A p \in ids \ {Head(queue)} : RunnableQueryLess(slots, TRUE, Head(queue), p)
      BY <3>1, HeadAndTail
    <3>3. /\ q \in ids
          /\ \A p \in ids \ {q} : RunnableQueryLess(slots, TRUE, q, p)
      BY <3>1, <3>2
    <3> QED BY <3>3 DEF ids, slots
  <2> HIDE DEF q
  <2>3. q \in DOMAIN s.slots /\ s.slots[q].queued /\ s.slots[q].baseBudget = 0
    BY <2>2 DEF Waits
  <2>4. ASSUME NEW p \in DOMAIN s.slots, CouldRun(s.slots[p], limit), s.slots[p].baseBudget # 0
        PROVE  FALSE
    <3>1. p \in Waits(s.slots, FALSE)
      BY <1>3, <1>5, <2>4 DEF Waits
    <3>2. \E i \in 1..Len(s.baseQueue) : s.baseQueue[i] = p
      BY <1>4, <3>1 DEF Lists
    <3>3. Len(s.baseQueue) = 0
      BY <1>7
    <3> QED BY <3>2, <3>3
  <2>5. ASSUME NEW p \in DOMAIN s.slots \ {q}, CouldRun(s.slots[p], limit),
               Budget(s.slots[p]) # 0, s.slots[p].baseBudget = 0
        PROVE  RunnableQueryLess(s.slots, TRUE, q, p)
    BY <1>3, <2>2, <2>5 DEF Waits
  <2>6. (s.slots[q].baseBudget = 0) = TRUE
    BY <2>3
  <2> QED BY <1>3, <1>7, <2>3, <2>4, <2>5, <2>6 DEF BaseFirst, limit, q
<1> QED BY <1>6, <1>7

\* PopRunnableQueryLocked.
LEMMA PoppedFits ==
    ASSUME NEW s \in Scheduler, Fits(s, {}), HasRunnable(s)
    PROVE  LET q == NextRunnable(s)
               t == Popped(s)
           IN  /\ t \in Scheduler
               /\ DOMAIN t.slots = DOMAIN s.slots
               /\ t.slots[q] = [s.slots[q] EXCEPT !.queued = FALSE]
               /\ \A p \in DOMAIN s.slots : p # q => t.slots[p] = s.slots[p]
               /\ t.totalInFlight = s.totalInFlight /\ t.nextDispatch = s.nextDispatch
               /\ Fits(t, {q})
<1> DEFINE limit == InFlightLimit(QueryShareCount(s))
           q == NextRunnable(s)
           t == Popped(s)
           new == [s.slots[q] EXCEPT !.queued = FALSE]
           slots == [s.slots EXCEPT ![q] = new]
           inBase == Waits(s.slots, FALSE)
           inBonus == Waits(s.slots, TRUE)
<1>1. /\ s.baseQueue \in Seq(Query) /\ s.bonusQueue \in Seq(Query)
      /\ \A p \in DOMAIN s.slots : s.slots[p] \in Slot
  BY SchedulerTypes
<1>2. QueuesFit(s, limit, {})
  BY DEF Fits
<1>3. q \in DOMAIN s.slots /\ (BaseFirst(s) <=> s.slots[q].baseBudget # 0)
  BY NextServed
<1>4. t = IF BaseFirst(s) THEN [s EXCEPT !.baseQueue = Tail(@), !.slots = slots]
                          ELSE [s EXCEPT !.bonusQueue = Tail(@), !.slots = slots]
  BY <1>3 DEF Popped, Scheduler
<1>5. q = Head(IF BaseFirst(s) THEN s.baseQueue ELSE s.bonusQueue)
  BY DEF NextRunnable
<1> HIDE DEF limit, q, t
<1>6. new \in Slot
  BY <1>1, <1>3 DEF Slot
<1>7. /\ slots \in AnySlots /\ DOMAIN slots = DOMAIN s.slots /\ slots[q] = new
      /\ \A p \in DOMAIN s.slots : p # q => slots[p] = s.slots[p]
  BY <1>3, <1>6, SlotPut
<1> HIDE DEF slots
<1>8. /\ new.queued = FALSE /\ SameTasks(new, s.slots[q])
      /\ new.baseBudget = s.slots[q].baseBudget
  <2> DEFINE old == s.slots[q]
  <2>1. old \in Slot
    BY <1>1, <1>3
  <2> HIDE DEF old
  <2>2. LET n == [old EXCEPT !.queued = FALSE]
        IN  n.queued = FALSE /\ SameTasks(n, old) /\ n.baseBudget = old.baseBudget
    BY <2>1 DEF Slot, SameTasks
  <2> QED BY <2>2 DEF old
<1> HIDE DEF new
<1>9. /\ Lists(s.baseQueue, inBase) /\ InServiceOrder(s.slots, FALSE, s.baseQueue)
      /\ Lists(s.bonusQueue, inBonus) /\ InServiceOrder(s.slots, TRUE, s.bonusQueue)
  BY <1>2 DEF QueuesFit
<1>a. /\ Waits(slots, FALSE) = inBase \ {q}
      /\ Waits(slots, TRUE) = inBonus \ {q}
      /\ BaseFirst(s) => q \notin inBonus
      /\ ~BaseFirst(s) => q \notin inBase
  BY <1>3, <1>7, <1>8 DEF Waits
<1>b. /\ t \in Scheduler /\ t.slots = slots /\ t.lastShare = s.lastShare
      /\ t.totalInFlight = s.totalInFlight /\ t.nextDispatch = s.nextDispatch
      /\ t.baseQueue \in Seq(Query) /\ Lists(t.baseQueue, inBase \ {q})
      /\ InServiceOrder(s.slots, FALSE, t.baseQueue)
      /\ t.bonusQueue \in Seq(Query) /\ Lists(t.bonusQueue, inBonus \ {q})
      /\ InServiceOrder(s.slots, TRUE, t.bonusQueue)
  <2>1. CASE BaseFirst(s)
    <3>1. s.baseQueue # << >> /\ q = Head(s.baseQueue)
      BY <1>5, <2>1 DEF BaseFirst
    <3>2. /\ Tail(s.baseQueue) \in Seq(Query) /\ Lists(Tail(s.baseQueue), inBase \ {q})
          /\ InServiceOrder(s.slots, FALSE, Tail(s.baseQueue))
      BY <1>1, <1>9, <3>1, HeadAndTail
    <3>3. inBonus \ {q} = inBonus
      BY <1>a, <2>1
    <3> HIDE DEF inBase, inBonus
    <3>4. /\ t \in Scheduler /\ t.slots = slots /\ t.lastShare = s.lastShare
          /\ t.totalInFlight = s.totalInFlight /\ t.nextDispatch = s.nextDispatch
          /\ t.baseQueue = Tail(s.baseQueue) /\ t.bonusQueue = s.bonusQueue
      BY <1>4, <1>7, <2>1, <3>2 DEF Scheduler
    <3> QED BY <1>1, <1>9, <3>2, <3>3, <3>4
  <2>2. CASE ~BaseFirst(s)
    <3>1. s.bonusQueue # << >> /\ q = Head(s.bonusQueue)
      BY <1>5, <2>2 DEF BaseFirst, HasRunnable
    <3>2. /\ Tail(s.bonusQueue) \in Seq(Query) /\ Lists(Tail(s.bonusQueue), inBonus \ {q})
          /\ InServiceOrder(s.slots, TRUE, Tail(s.bonusQueue))
      BY <1>1, <1>9, <3>1, HeadAndTail
    <3>3. inBase \ {q} = inBase
      BY <1>a, <2>2
    <3> HIDE DEF inBase, inBonus
    <3>4. /\ t \in Scheduler /\ t.slots = slots /\ t.lastShare = s.lastShare
          /\ t.totalInFlight = s.totalInFlight /\ t.nextDispatch = s.nextDispatch
          /\ t.bonusQueue = Tail(s.bonusQueue) /\ t.baseQueue = s.baseQueue
      BY <1>4, <1>7, <2>2, <3>2 DEF Scheduler
    <3> QED BY <1>1, <1>9, <3>2, <3>3, <3>4
  <2> QED BY <2>1, <2>2
<1>c. QueryShareCount(t) = QueryShareCount(s)
  <2>1. \A p \in DOMAIN s.slots : SameTasks(t.slots[p], s.slots[p])
    BY <1>7, <1>8, <1>b DEF SameTasks
  <2> QED BY <1>7, <1>b, <2>1, SameShare
<1>d. InServiceOrder(t.slots, FALSE, t.baseQueue) /\ InServiceOrder(t.slots, TRUE, t.bonusQueue)
  <2>1. /\ \A i \in 1..Len(t.baseQueue) : t.baseQueue[i] \in DOMAIN s.slots \ {q}
        /\ \A i \in 1..Len(t.bonusQueue) : t.bonusQueue[i] \in DOMAIN s.slots \ {q}
    BY <1>b DEF Lists, Waits
  <2>2. \A p \in DOMAIN s.slots \ {q} : t.slots[p] = s.slots[p]
    BY <1>7, <1>b
  <2>3. InServiceOrder(t.slots, FALSE, t.baseQueue)
    BY <1>b, <2>1, <2>2, SameOrder
  <2>4. InServiceOrder(t.slots, TRUE, t.bonusQueue)
    BY <1>b, <2>1, <2>2, SameOrder
  <2> QED BY <2>3, <2>4
<1>e. QueuesFit(t, limit, {q})
  <2>1. \A p \in DOMAIN t.slots : /\ p # q => t.slots[p] = s.slots[p]
                                  /\ p = q => ~t.slots[p].queued
    BY <1>7, <1>8, <1>b
  <2>2. /\ \A p \in DOMAIN t.slots : t.slots[p].queued =>
             CouldRun(t.slots[p], limit) /\ Budget(t.slots[p]) # 0
        /\ \A p \in DOMAIN t.slots \ {q} : ~IsRunnableCandidate(t.slots[p], limit)
    BY <1>2, <1>7, <1>b, <2>1 DEF QueuesFit
  <2> HIDE DEF inBase, inBonus
  <2> QED BY <1>a, <1>b, <1>d, <2>2 DEF QueuesFit
<1> QED BY <1>7, <1>b, <1>c, <1>e DEF Fits, limit, q, t, new

-----------------------------------------------------------------------------
(* The inductive invariant. *)

\* What the thread of a query has done with its slot.
SlotOfCaller(q) ==
    /\ caller[q] = "new" => q \notin DOMAIN Slots
    /\ caller[q] = "submitting" =>
         q \in DOMAIN Slots /\ Slots[q].attached /\ ~Slots[q].activated
    /\ caller[q] \in {"waiting", "unwinding"} =>
         q \in DOMAIN Slots /\ Slots[q].attached /\ Slots[q].activated

PoolOf(q) == pool[q].running + pool[q].finishing

SchedulerInv ==
    /\ sched \in Scheduler
    /\ Fits(sched, {})
    /\ sched.totalInFlight <= WorkerCount
    /\ locked \in BOOLEAN
    /\ pool \in [Query -> [running : Nat, finishing : Nat]]
    /\ caller \in [Query -> Stage]
    /\ failed \subseteq Query
    /\ IsFiniteSet(InPool) /\ InFlightCounted
    /\ WorkConserving
    /\ \A q \in Query : SlotOfCaller(q)

\* An operation writes one slot: the queues still fit the share last computed, and the
\* share is still up to date unless the query appears or disappears.
LEMMA PutOne ==
    ASSUME NEW s \in Scheduler, NEW t, NEW q \in DOMAIN s.slots, NEW new \in Slot, NEW X, NEW Y,
           Fits(s, X), X \in SUBSET Y,
           t.slots = [s.slots EXCEPT ![q] = new], t.lastShare = s.lastShare,
           t.baseQueue = s.baseQueue, t.bonusQueue = s.bonusQueue,
           new.queued <=> s.slots[q].queued,
           s.slots[q].queued => /\ new.baseBudget = s.slots[q].baseBudget
                                /\ new.bonusBudget = s.slots[q].bonusBudget
                                /\ new.baseSeq = s.slots[q].baseSeq
                                /\ new.bonusSeq = s.slots[q].bonusSeq
                                /\ new.activationSeq = s.slots[q].activationSeq
                                /\ CouldRun(new, InFlightLimit(QueryShareCount(s))),
           q \in Y \/ ~IsRunnableCandidate(new, InFlightLimit(QueryShareCount(s)))
    PROVE  /\ t.slots \in AnySlots /\ DOMAIN t.slots = DOMAIN s.slots /\ t.slots[q] = new
           /\ \A p \in DOMAIN s.slots : p # q => t.slots[p] = s.slots[p]
           /\ QueuesFit(t, InFlightLimit(t.lastShare), Y)
           /\ (IsVisible(new) <=> IsVisible(s.slots[q])) => Fits(t, Y)
<1> DEFINE limit == InFlightLimit(QueryShareCount(s))
           f == [s.slots EXCEPT ![q] = new]
<1>1. /\ f \in AnySlots /\ DOMAIN f = DOMAIN s.slots /\ f[q] = new
      /\ \A p \in DOMAIN s.slots : p # q => f[p] = s.slots[p]
  BY SlotPut
<1> HIDE DEF f
<1>2. t.slots = f /\ s.lastShare = QueryShareCount(s) /\ QueuesFit(s, limit, X)
  BY DEF Fits, f
<1>3. /\ q \in Y \/ ~IsRunnableCandidate(new, limit)
      /\ s.slots[q].queued => CouldRun(new, limit)
  OBVIOUS
<1> HIDE DEF limit
<1>4. QueuesFit(t, limit, Y)
  BY <1>1, <1>2, <1>3, PutFits
<1>5. (IsVisible(new) <=> IsVisible(s.slots[q])) => QueryShareCount(t) = QueryShareCount(s)
  BY <1>1, <1>2, PutShare
<1> QED BY <1>1, <1>2, <1>4, <1>5 DEF Fits, limit

\* The constructor of an executor adds a slot that nobody sees yet.
LEMMA AttachKeeps ==
    ASSUME SchedulerInv, NEW q \in Query, NEW priority \in Priority, AttachQuery(q, priority)
    PROVE  /\ sched' \in Scheduler /\ Fits(sched', {})
           /\ q \notin DOMAIN sched.slots /\ DOMAIN sched'.slots = DOMAIN sched.slots \cup {q}
           /\ sched'.slots[q] = FreshSlot(priority)
           /\ \A p \in DOMAIN sched.slots : sched'.slots[p] = sched.slots[p]
           /\ sched'.totalInFlight = sched.totalInFlight
<1> DEFINE fresh == FreshSlot(priority)
           slots == [p \in DOMAIN sched.slots \cup {q} |-> IF p = q THEN fresh ELSE sched.slots[p]]
           limit == InFlightLimit(QueryShareCount(sched))
<1>1. sched \in Scheduler /\ Fits(sched, {}) /\ q \notin DOMAIN sched.slots
  BY DEF SchedulerInv, SlotOfCaller, AttachQuery, Slots
<1>2. /\ DOMAIN sched.slots \in SUBSET Query
      /\ \A p \in DOMAIN sched.slots : sched.slots[p] \in Slot
  BY <1>1, SchedulerTypes
<1>3. fresh \in Slot /\ fresh.queued = FALSE /\ fresh.activated = FALSE /\ ~IsVisible(fresh)
  BY DEF FreshSlot, Slot, IsVisible
<1> HIDE DEF fresh
<1>4. /\ DOMAIN slots = DOMAIN sched.slots \cup {q} /\ slots[q] = fresh
      /\ \A p \in DOMAIN sched.slots : slots[p] = sched.slots[p]
  <2>1. /\ DOMAIN slots = DOMAIN sched.slots \cup {q}
        /\ \A p \in DOMAIN sched.slots \cup {q} :
             slots[p] = IF p = q THEN fresh ELSE sched.slots[p]
    OBVIOUS
  <2> HIDE DEF slots
  <2>2. \A p \in DOMAIN sched.slots : p # q
    BY <1>1
  <2> QED BY <2>1, <2>2
<1>5. sched' = [sched EXCEPT !.slots = slots]
  BY <1>1 DEF AttachQuery, Scheduler, fresh
<1>6. slots \in AnySlots
  <2>1. slots = [p \in DOMAIN sched.slots \cup {q} |-> slots[p]]
    OBVIOUS
  <2> HIDE DEF slots
  <2>2. \A p \in DOMAIN sched.slots \cup {q} : slots[p] \in Slot
    BY <1>2, <1>3, <1>4
  <2>3. DOMAIN sched.slots \cup {q} \in SUBSET Query
    BY <1>2
  <2> QED BY <2>1, <2>2, <2>3, SlotsTyped
<1> HIDE DEF slots
<1>7. /\ sched' \in Scheduler /\ sched'.slots = slots
      /\ sched'.lastShare = sched.lastShare /\ sched'.totalInFlight = sched.totalInFlight
      /\ sched'.baseQueue = sched.baseQueue /\ sched'.bonusQueue = sched.bonusQueue
  BY <1>1, <1>5, <1>6 DEF Scheduler
<1> DEFINE t == sched'
<1> HIDE DEF t
<1>8. QueryShareCount(t) = QueryShareCount(sched)
  <2>1. {p \in DOMAIN sched.slots : IsVisible(sched.slots[p])}
          = {p \in DOMAIN t.slots : IsVisible(t.slots[p])}
    BY <1>3, <1>4, <1>7 DEF t
  <2> QED BY <2>1, SameVisible
<1>9. QueuesFit(t, limit, {})
  <2>1. QueuesFit(sched, limit, {})
    BY <1>1 DEF Fits
  <2> HIDE DEF limit
  <2>2. /\ t.baseQueue = sched.baseQueue /\ t.bonusQueue = sched.bonusQueue
        /\ DOMAIN t.slots = DOMAIN sched.slots \cup {q} /\ t.slots[q] = fresh
        /\ \A p \in DOMAIN sched.slots : t.slots[p] = sched.slots[p]
    BY <1>4, <1>7 DEF t
  <2>3. ~IsRunnableCandidate(fresh, limit)
    BY <1>3 DEF IsRunnableCandidate, CouldRun
  <2>4. /\ \A p \in DOMAIN t.slots \ {} : ~IsRunnableCandidate(t.slots[p], limit)
        /\ \A p \in DOMAIN t.slots : t.slots[p].queued =>
             /\ p \in DOMAIN sched.slots /\ t.slots[p] = sched.slots[p]
             /\ CouldRun(t.slots[p], limit)
    BY <1>3, <2>1, <2>2, <2>3 DEF QueuesFit
  <2> QED BY <2>1, <2>2, <2>4, FitKept
<1>a. Fits(t, {})
  BY <1>1, <1>7, <1>8, <1>9 DEF Fits, t
<1> QED BY <1>1, <1>4, <1>7, <1>a DEF t, fresh

\* A task is added to a query that is not activated yet.
LEMMA SubmitKeeps ==
    ASSUME SchedulerInv, NEW q \in Query, Submit(q)
    PROVE  /\ sched' \in Scheduler /\ Fits(sched', {})
           /\ DOMAIN sched'.slots = DOMAIN sched.slots
           /\ \A p \in DOMAIN sched.slots :
                /\ sched'.slots[p].attached = sched.slots[p].attached
                /\ sched'.slots[p].activated = sched.slots[p].activated
                /\ sched'.slots[p].inFlight = sched.slots[p].inFlight
           /\ sched'.totalInFlight = sched.totalInFlight
<1> DEFINE old == sched.slots[q]
           begun == [old EXCEPT !.started = TRUE]
           started == [sched EXCEPT !.slots[q].started = TRUE]
           synced == Synced(started)
           mine == synced.slots[q]
           longer == [mine EXCEPT !.pending = @ + 1]
           given == [synced EXCEPT !.slots[q].pending = @ + 1]
           t == Enqueued(given, q)
<1>1. /\ sched \in Scheduler /\ Fits(sched, {}) /\ q \in DOMAIN sched.slots
      /\ old.attached /\ ~old.activated
  BY DEF SchedulerInv, SlotOfCaller, Submit, Slots
<1>2. sched' = t
  BY DEF Submit
<1>3. old \in Slot
  BY <1>1, SchedulerTypes
<1>4. ~old.queued
  BY <1>1 DEF Fits, QueuesFit, CouldRun
<1>5. started = [sched EXCEPT !.slots = [sched.slots EXCEPT ![q] = begun]]
  BY <1>1 DEF Scheduler
<1> HIDE DEF old, started, t
<1>6. /\ begun \in Slot /\ ~begun.queued /\ ~begun.activated /\ begun.attached
      /\ begun.inFlight = old.inFlight
  BY <1>1, <1>3, <1>4 DEF Slot
<1>7. ASSUME NEW l PROVE ~IsRunnableCandidate(begun, l)
  BY <1>6 DEF IsRunnableCandidate, CouldRun
<1> HIDE DEF begun
<1>8. /\ started.slots = [sched.slots EXCEPT ![q] = begun]
      /\ started.lastShare = sched.lastShare /\ started.totalInFlight = sched.totalInFlight
      /\ started.baseQueue = sched.baseQueue /\ started.bonusQueue = sched.bonusQueue
  BY <1>1, <1>5 DEF Scheduler
<1>9. /\ started.slots \in AnySlots /\ DOMAIN started.slots = DOMAIN sched.slots
      /\ started.slots[q] = begun
      /\ \A p \in DOMAIN sched.slots : p # q => started.slots[p] = sched.slots[p]
      /\ QueuesFit(started, InFlightLimit(started.lastShare), {})
  BY <1>1, <1>4, <1>6, <1>7, <1>8, PutOne DEF old
<1>a. started \in Scheduler
  BY <1>1, <1>5, <1>8, <1>9 DEF Scheduler
<1>b. /\ synced \in Scheduler
      /\ DOMAIN synced.slots = DOMAIN started.slots
      /\ \A p \in DOMAIN started.slots : SameTasks(synced.slots[p], started.slots[p])
      /\ synced.totalInFlight = started.totalInFlight
      /\ Fits(synced, {})
  BY <1>9, <1>a, SyncFits
<1>c. given = [synced EXCEPT !.slots = [synced.slots EXCEPT ![q] = longer]]
  BY <1>1, <1>9, <1>b DEF Scheduler
<1>d. mine \in Slot /\ mine.activated = FALSE /\ mine.attached = TRUE
  <2>1. mine \in Slot
    BY <1>1, <1>9, <1>b, SchedulerTypes
  <2>2. SameTasks(mine, begun)
    BY <1>1, <1>9, <1>b
  <2> HIDE DEF mine
  <2> QED BY <1>6, <2>1, <2>2 DEF SameTasks, Slot
<1>e. ~mine.queued
  BY <1>1, <1>9, <1>b, <1>d DEF Fits, QueuesFit, CouldRun
<1> HIDE DEF mine, given, synced
<1>f. /\ longer \in Slot /\ ~longer.queued /\ ~longer.activated
      /\ longer.attached = mine.attached /\ longer.activated = mine.activated
      /\ longer.started = mine.started
      /\ longer.inFlight = mine.inFlight
  BY <1>d, <1>e DEF Slot
<1>g. IsVisible(longer) <=> IsVisible(mine)
  BY <1>d, <1>f DEF IsVisible
<1> HIDE DEF longer
<1>h. /\ given.slots = [synced.slots EXCEPT ![q] = longer]
      /\ given.lastShare = synced.lastShare /\ given.totalInFlight = synced.totalInFlight
      /\ given.baseQueue = synced.baseQueue /\ given.bonusQueue = synced.bonusQueue
  BY <1>b, <1>c DEF Scheduler
<1>i. q \in DOMAIN synced.slots /\ mine = synced.slots[q]
  BY <1>1, <1>9, <1>b DEF mine
<1>j. /\ given.slots \in AnySlots /\ DOMAIN given.slots = DOMAIN synced.slots
      /\ given.slots[q] = longer
      /\ \A p \in DOMAIN synced.slots : p # q => given.slots[p] = synced.slots[p]
      /\ Fits(given, {q})
  BY <1>b, <1>e, <1>f, <1>g, <1>h, <1>i, PutOne
<1>k. given \in Scheduler
  BY <1>b, <1>c, <1>h, <1>j DEF Scheduler
<1>l. /\ t \in Scheduler
      /\ DOMAIN t.slots = DOMAIN given.slots
      /\ \A p \in DOMAIN given.slots : SameTasks(t.slots[p], given.slots[p])
      /\ t.totalInFlight = given.totalInFlight
      /\ Fits(t, {})
  BY <1>i, <1>j, <1>k, EnqueueFits DEF t
<1>m. ASSUME NEW p \in DOMAIN sched.slots
      PROVE  /\ t.slots[p].attached = sched.slots[p].attached
             /\ t.slots[p].activated = sched.slots[p].activated
             /\ t.slots[p].inFlight = sched.slots[p].inFlight
  <2>1. /\ SameTasks(t.slots[p], given.slots[p])
        /\ SameTasks(synced.slots[p], started.slots[p])
    BY <1>9, <1>b, <1>j, <1>l
  <2>2. CASE p # q
    BY <1>9, <1>b, <1>j, <2>1, <2>2 DEF SameTasks
  <2>3. CASE p = q
    <3>1. begun.attached = old.attached /\ begun.activated = old.activated
      BY <1>3 DEF begun, Slot
    <3>2. SameTasks(mine, begun) /\ SameTasks(t.slots[q], longer)
      BY <1>9, <1>b, <1>i, <1>j, <2>1, <2>3
    <3> QED BY <1>6, <1>f, <2>3, <3>1, <3>2 DEF SameTasks, old
  <2> QED BY <2>2, <2>3
<1> QED BY <1>2, <1>8, <1>9, <1>b, <1>h, <1>j, <1>l, <1>m

\* A new budget is a number and changes nothing else.
LEMMA AssignedSlot ==
    ASSUME NEW slot \in Slot, NEW share \in Nat \ {0}
    PROVE  LET new == Assigned(slot, share)
           IN  /\ new \in Slot /\ SameTasks(new, slot) /\ new.queued = slot.queued
               /\ new.baseBudget # 0
<1>1. BaseCap(share) \in Nat \ {0} /\ BonusCap(slot, share) \in Nat
  BY CapTypes
<1> QED BY <1>1 DEF Assigned, Slot, SameTasks

\* The query is activated and takes its place among those that may run.
LEMMA ActivateKeeps ==
    ASSUME SchedulerInv, NEW q \in Query, NEW stage, ActivateQuery(q, stage)
    PROVE  /\ sched' \in Scheduler /\ Fits(sched', {})
           /\ DOMAIN sched'.slots = DOMAIN sched.slots
           /\ \A p \in DOMAIN sched.slots :
                /\ sched'.slots[p].attached = sched.slots[p].attached
                /\ p # q => sched'.slots[p].activated = sched.slots[p].activated
                /\ sched'.slots[p].inFlight = sched.slots[p].inFlight
           /\ q \in DOMAIN sched.slots /\ sched'.slots[q].activated
           /\ sched'.totalInFlight = sched.totalInFlight
<1> DEFINE old == sched.slots[q]
           begun == [old EXCEPT !.activated = TRUE, !.activationSeq = sched.nextActivation]
           numbered == [sched EXCEPT !.slots[q].activated = TRUE,
                                     !.slots[q].activationSeq = sched.nextActivation,
                                     !.nextActivation = @ + 1]
           synced == Synced(numbered)
           mine == synced.slots[q]
           share == QueryShareCount(synced)
           paid == Assigned(mine, share)
           given == IF mine.pending # 0 /\ Budget(mine) = 0
                    THEN [synced EXCEPT !.slots[q] = paid] ELSE synced
           t == Enqueued(given, q)
<1>1. /\ sched \in Scheduler /\ Fits(sched, {}) /\ q \in DOMAIN sched.slots /\ ~old.activated
  BY DEF SchedulerInv, SlotOfCaller, ActivateQuery, Slots
<1>2. sched' = t
  BY DEF ActivateQuery, Activated
<1>3. old \in Slot /\ sched.nextActivation \in Nat
  BY <1>1, SchedulerTypes
<1>4. ~old.queued
  BY <1>1 DEF Fits, QueuesFit, CouldRun
<1>5. numbered = [sched EXCEPT !.slots = [sched.slots EXCEPT ![q] = begun],
                               !.nextActivation = sched.nextActivation + 1]
  BY <1>1 DEF Scheduler
<1> HIDE DEF old, numbered, t
<1>6. /\ begun \in Slot /\ ~begun.queued /\ begun.activated = TRUE
      /\ begun.attached = old.attached /\ begun.inFlight = old.inFlight
  BY <1>3, <1>4 DEF Slot
<1> HIDE DEF begun
<1>7. /\ numbered.slots = [sched.slots EXCEPT ![q] = begun]
      /\ numbered.lastShare = sched.lastShare /\ numbered.totalInFlight = sched.totalInFlight
      /\ numbered.baseQueue = sched.baseQueue /\ numbered.bonusQueue = sched.bonusQueue
  BY <1>1, <1>5 DEF Scheduler
<1>8. /\ numbered.slots \in AnySlots /\ DOMAIN numbered.slots = DOMAIN sched.slots
      /\ numbered.slots[q] = begun
      /\ \A p \in DOMAIN sched.slots : p # q => numbered.slots[p] = sched.slots[p]
      /\ QueuesFit(numbered, InFlightLimit(numbered.lastShare), {q})
  <2>1. /\ {} \in SUBSET {q} /\ q \in {q}
        /\ ~sched.slots[q].queued /\ (begun.queued <=> sched.slots[q].queued)
    BY <1>4, <1>6 DEF old
  <2> QED BY <1>1, <1>6, <1>7, <2>1, PutOne
<1>9. numbered \in Scheduler
  <2> DEFINE slots == [sched.slots EXCEPT ![q] = begun]
             next == sched.nextActivation + 1
  <2>1. slots \in AnySlots /\ next \in Nat
    BY <1>3, <1>7, <1>8
  <2>2. numbered = [sched EXCEPT !.slots = slots, !.nextActivation = next]
    BY <1>5
  <2> HIDE DEF slots, next
  <2> QED BY <1>1, <2>1, <2>2 DEF Scheduler
<1>a. /\ synced \in Scheduler
      /\ DOMAIN synced.slots = DOMAIN numbered.slots
      /\ \A p \in DOMAIN numbered.slots : SameTasks(synced.slots[p], numbered.slots[p])
      /\ synced.totalInFlight = numbered.totalInFlight
      /\ Fits(synced, {q})
  BY <1>8, <1>9, SyncFits
<1>b. q \in DOMAIN synced.slots /\ mine \in Slot /\ share \in Nat \ {0}
  BY <1>1, <1>8, <1>a, SchedulerTypes
<1>c. mine.queued => Budget(mine) # 0
  BY <1>a, <1>b DEF Fits, QueuesFit
<1>d. mine = synced.slots[q]
  OBVIOUS
<1> HIDE DEF mine, share, synced
<1>e. paid \in Slot /\ SameTasks(paid, mine) /\ (paid.queued <=> mine.queued)
  BY <1>b, AssignedSlot
<1>f. IsVisible(paid) <=> IsVisible(mine)
  BY <1>e DEF SameTasks, IsVisible
<1> HIDE DEF paid
<1>g. /\ given \in Scheduler /\ given.totalInFlight = synced.totalInFlight
      /\ DOMAIN given.slots = DOMAIN synced.slots
      /\ \A p \in DOMAIN synced.slots : SameTasks(given.slots[p], synced.slots[p])
      /\ Fits(given, {q})
  <2>1. CASE mine.pending # 0 /\ Budget(mine) = 0
    <3>1. given = [synced EXCEPT !.slots = [synced.slots EXCEPT ![q] = paid]]
      BY <1>a, <2>1 DEF Scheduler
    <3> HIDE DEF given
    <3>2. /\ given.slots = [synced.slots EXCEPT ![q] = paid]
          /\ given.lastShare = synced.lastShare /\ given.totalInFlight = synced.totalInFlight
          /\ given.baseQueue = synced.baseQueue /\ given.bonusQueue = synced.bonusQueue
      BY <1>a, <3>1 DEF Scheduler
    <3>3. ~mine.queued
      BY <1>c, <2>1
    <3>4. /\ given.slots \in AnySlots /\ DOMAIN given.slots = DOMAIN synced.slots
          /\ given.slots[q] = paid
          /\ \A p \in DOMAIN synced.slots : p # q => given.slots[p] = synced.slots[p]
          /\ Fits(given, {q})
      BY <1>a, <1>b, <1>d, <1>e, <1>f, <3>2, <3>3, PutOne
    <3>5. given \in Scheduler
      BY <1>a, <3>1, <3>2, <3>4 DEF Scheduler
    <3>6. \A p \in DOMAIN synced.slots : SameTasks(given.slots[p], synced.slots[p])
      BY <1>d, <1>e, <3>4 DEF SameTasks
    <3> QED BY <3>2, <3>4, <3>5, <3>6
  <2>2. CASE ~(mine.pending # 0 /\ Budget(mine) = 0)
    <3>1. given = synced
      BY <2>2
    <3> QED BY <1>a, <3>1 DEF SameTasks
  <2> QED BY <2>1, <2>2
<1> HIDE DEF given
<1>h. /\ t \in Scheduler
      /\ DOMAIN t.slots = DOMAIN given.slots
      /\ \A p \in DOMAIN given.slots : SameTasks(t.slots[p], given.slots[p])
      /\ t.totalInFlight = given.totalInFlight
      /\ Fits(t, {})
  BY <1>b, <1>g, EnqueueFits DEF t
<1>i. ASSUME NEW p \in DOMAIN sched.slots PROVE SameTasks(t.slots[p], numbered.slots[p])
  <2>1. /\ SameTasks(t.slots[p], given.slots[p])
        /\ SameTasks(given.slots[p], synced.slots[p])
        /\ SameTasks(synced.slots[p], numbered.slots[p])
    BY <1>8, <1>a, <1>g, <1>h
  <2> QED BY <2>1 DEF SameTasks
<1>j. ASSUME NEW p \in DOMAIN sched.slots
      PROVE  /\ t.slots[p].attached = sched.slots[p].attached
             /\ p # q => t.slots[p].activated = sched.slots[p].activated
             /\ t.slots[p].inFlight = sched.slots[p].inFlight
  BY <1>6, <1>8, <1>i DEF SameTasks, old
<1>k. t.slots[q].activated
  BY <1>1, <1>6, <1>8, <1>i DEF SameTasks
<1> QED BY <1>1, <1>2, <1>7, <1>8, <1>a, <1>g, <1>h, <1>j, <1>k

\* The query leaves; its slot stays while it has tasks.
LEMMA DetachKeeps ==
    ASSUME SchedulerInv, NEW q \in Query, DetachQuery(q)
    PROVE  /\ sched' \in Scheduler /\ Fits(sched', {})
           /\ DOMAIN sched'.slots \in {DOMAIN sched.slots, DOMAIN sched.slots \ {q}}
           /\ \A p \in DOMAIN sched'.slots :
                /\ p # q => sched'.slots[p].attached = sched.slots[p].attached
                /\ sched'.slots[p].activated = sched.slots[p].activated
                /\ sched'.slots[p].inFlight = sched.slots[p].inFlight
           /\ q \in DOMAIN sched.slots
           /\ q \notin DOMAIN sched'.slots => sched.slots[q].inFlight = 0
           /\ sched'.totalInFlight = sched.totalInFlight
<1> DEFINE old == sched.slots[q]
           limit == InFlightLimit(QueryShareCount(sched))
           left == [old EXCEPT !.attached = FALSE]
           leaving == [sched EXCEPT !.slots[q].attached = FALSE]
           synced == Synced(leaving)
           t == Erased(synced, q)
<1>1. /\ sched \in Scheduler /\ Fits(sched, {}) /\ q \in DOMAIN sched.slots
  BY DEF SchedulerInv, SlotOfCaller, DetachQuery, MayDetach, Slots
<1>2. sched' = t
  BY DEF DetachQuery
<1>3. old \in Slot
  BY <1>1, SchedulerTypes
<1>4. leaving = [sched EXCEPT !.slots = [sched.slots EXCEPT ![q] = left]]
  BY <1>1 DEF Scheduler
<1>5. /\ old.queued => CouldRun(old, limit)
      /\ ~IsRunnableCandidate(old, limit)
  BY <1>1 DEF Fits, QueuesFit
<1> HIDE DEF old, leaving, t, limit
<1>6. /\ left \in Slot /\ (left.queued <=> old.queued) /\ left.activated = old.activated
      /\ left.inFlight = old.inFlight /\ left.pending = old.pending
      /\ left.baseBudget = old.baseBudget /\ left.bonusBudget = old.bonusBudget
      /\ left.baseSeq = old.baseSeq /\ left.bonusSeq = old.bonusSeq
      /\ left.activationSeq = old.activationSeq
  BY <1>3 DEF Slot
<1> HIDE DEF left
<1>7. /\ old.queued => CouldRun(left, limit)
      /\ ~IsRunnableCandidate(left, limit)
  BY <1>5, <1>6 DEF CouldRun, IsRunnableCandidate, Budget
<1>8. /\ leaving.slots = [sched.slots EXCEPT ![q] = left]
      /\ leaving.lastShare = sched.lastShare /\ leaving.totalInFlight = sched.totalInFlight
      /\ leaving.baseQueue = sched.baseQueue /\ leaving.bonusQueue = sched.bonusQueue
  BY <1>1, <1>4 DEF Scheduler
<1>9. /\ leaving.slots \in AnySlots /\ DOMAIN leaving.slots = DOMAIN sched.slots
      /\ leaving.slots[q] = left
      /\ \A p \in DOMAIN sched.slots : p # q => leaving.slots[p] = sched.slots[p]
      /\ QueuesFit(leaving, InFlightLimit(leaving.lastShare), {})
  <2> DEFINE f == [sched.slots EXCEPT ![q] = left]
  <2>1. /\ f \in AnySlots /\ DOMAIN f = DOMAIN sched.slots /\ f[q] = left
        /\ \A p \in DOMAIN sched.slots : p # q => f[p] = sched.slots[p]
    BY <1>1, <1>6, SlotPut
  <2> HIDE DEF f
  <2>2. leaving.slots = f /\ leaving.lastShare = QueryShareCount(sched)
    BY <1>1, <1>8 DEF Fits, f
  <2>3. /\ left.queued <=> sched.slots[q].queued
        /\ sched.slots[q].queued => /\ left.baseBudget = sched.slots[q].baseBudget
                                    /\ left.bonusBudget = sched.slots[q].bonusBudget
                                    /\ left.baseSeq = sched.slots[q].baseSeq
                                    /\ left.bonusSeq = sched.slots[q].bonusSeq
                                    /\ left.activationSeq = sched.slots[q].activationSeq
                                    /\ CouldRun(left, limit)
    BY <1>6, <1>7 DEF old
  <2>4. QueuesFit(sched, limit, {})
    BY <1>1 DEF Fits, limit
  <2>5. QueuesFit(leaving, limit, {})
    BY <1>1, <1>7, <1>8, <2>1, <2>2, <2>3, <2>4, PutFits
  <2> QED BY <2>1, <2>2, <2>5 DEF limit
<1>a. leaving \in Scheduler
  BY <1>1, <1>4, <1>8, <1>9 DEF Scheduler
<1>b. /\ synced \in Scheduler
      /\ DOMAIN synced.slots = DOMAIN leaving.slots
      /\ \A p \in DOMAIN leaving.slots : SameTasks(synced.slots[p], leaving.slots[p])
      /\ synced.totalInFlight = leaving.totalInFlight
      /\ Fits(synced, {})
  BY <1>9, <1>a, SyncFits
<1>c. q \in DOMAIN synced.slots
  BY <1>1, <1>9, <1>b
<1> HIDE DEF synced
<1>d. /\ t \in Scheduler
      /\ DOMAIN t.slots \in {DOMAIN synced.slots, DOMAIN synced.slots \ {q}}
      /\ \A p \in DOMAIN t.slots : t.slots[p] = synced.slots[p]
      /\ q \notin DOMAIN t.slots => synced.slots[q].inFlight = 0
      /\ t.totalInFlight = synced.totalInFlight
      /\ Fits(t, {})
  BY <1>b, <1>c, EraseFits DEF t
<1>e. \A p \in DOMAIN sched.slots :
        /\ p # q => synced.slots[p].attached = sched.slots[p].attached
        /\ synced.slots[p].activated = sched.slots[p].activated
        /\ synced.slots[p].inFlight = sched.slots[p].inFlight
  BY <1>6, <1>9, <1>b DEF SameTasks, old
<1>f. \A p \in DOMAIN t.slots : p \in DOMAIN sched.slots
  BY <1>9, <1>b, <1>d
<1> QED BY <1>1, <1>2, <1>8, <1>9, <1>b, <1>d, <1>e, <1>f

\* A task that has ended gives its worker back, and goes with its slot when it was the
\* last of a query that has left.
LEMMA FinishKeeps ==
    ASSUME SchedulerInv, NEW q \in Query, OnTaskFinished(q)
    PROVE  /\ sched' \in Scheduler /\ Fits(sched', {})
           /\ DOMAIN sched'.slots \in {DOMAIN sched.slots, DOMAIN sched.slots \ {q}}
           /\ \A p \in DOMAIN sched'.slots :
                /\ sched'.slots[p].attached = sched.slots[p].attached
                /\ sched'.slots[p].activated = sched.slots[p].activated
                /\ p # q => sched'.slots[p].inFlight = sched.slots[p].inFlight
           /\ q \in DOMAIN sched.slots /\ sched.slots[q].inFlight > 0
           /\ q \in DOMAIN sched'.slots => sched'.slots[q].inFlight = sched.slots[q].inFlight - 1
           /\ q \notin DOMAIN sched'.slots =>
                sched.slots[q].inFlight = 1 /\ ~sched.slots[q].attached
           /\ sched'.totalInFlight = IF sched.totalInFlight > 0 THEN sched.totalInFlight - 1 ELSE 0
<1> DEFINE old == sched.slots[q]
           limit == InFlightLimit(QueryShareCount(sched))
           total == IF sched.totalInFlight > 0 THEN sched.totalInFlight - 1 ELSE 0
           freed == [sched EXCEPT !.totalInFlight = IF @ > 0 THEN @ - 1 ELSE 0]
           less == [old EXCEPT !.inFlight = IF @ > 0 THEN @ - 1 ELSE 0]
           given == [freed EXCEPT !.slots[q].inFlight = IF @ > 0 THEN @ - 1 ELSE 0]
           synced == Synced(given)
           queued == Enqueued(synced, q)
           t == Erased(queued, q)
<1>1. sched \in Scheduler /\ Fits(sched, {})
  BY DEF SchedulerInv
<1>2. q \in DOMAIN sched.slots /\ old.inFlight > 0
  <2>1. /\ pool[q].running \in Nat /\ pool[q].finishing \in Nat /\ pool[q].finishing > 0
    BY DEF SchedulerInv, OnTaskFinished
  <2>2. pool[q].running + pool[q].finishing = IF q \in DOMAIN Slots THEN Slots[q].inFlight ELSE 0
    BY DEF SchedulerInv, InFlightCounted
  <2> QED BY <2>1, <2>2 DEF Slots
<1>3. sched' = t
  BY <1>1, <1>2 DEF OnTaskFinished, TaskFinished, Scheduler
<1>4. old \in Slot /\ sched.totalInFlight \in Nat /\ limit \in Nat
  BY <1>1, <1>2, SchedulerTypes
<1>5. given = [sched EXCEPT !.slots = [sched.slots EXCEPT ![q] = less], !.totalInFlight = total]
  BY <1>1, <1>2 DEF Scheduler
<1>6. old.queued => CouldRun(old, limit)
  BY <1>1, <1>2 DEF Fits, QueuesFit
<1> HIDE DEF old, given, t, limit
<1>7. /\ less \in Slot /\ (less.queued <=> old.queued) /\ less.activated = old.activated
      /\ less.attached = old.attached
      /\ less.inFlight = old.inFlight - 1 /\ less.pending = old.pending
      /\ less.baseBudget = old.baseBudget /\ less.bonusBudget = old.bonusBudget
      /\ less.baseSeq = old.baseSeq /\ less.bonusSeq = old.bonusSeq
      /\ less.activationSeq = old.activationSeq
  BY <1>2, <1>4 DEF Slot
<1> HIDE DEF less
<1>8. old.queued => CouldRun(less, limit)
  <2>1. old.inFlight \in Nat
    BY <1>4 DEF Slot
  <2> QED BY <1>4, <1>6, <1>7, <2>1 DEF CouldRun
<1>9. total \in Nat
  BY <1>4
<1> HIDE DEF total
<1>a. /\ given.slots = [sched.slots EXCEPT ![q] = less]
      /\ given.lastShare = sched.lastShare /\ given.totalInFlight = total
      /\ given.baseQueue = sched.baseQueue /\ given.bonusQueue = sched.bonusQueue
  BY <1>1, <1>5 DEF Scheduler
<1>b. /\ given.slots \in AnySlots /\ DOMAIN given.slots = DOMAIN sched.slots
      /\ given.slots[q] = less
      /\ \A p \in DOMAIN sched.slots : p # q => given.slots[p] = sched.slots[p]
      /\ QueuesFit(given, InFlightLimit(given.lastShare), {q})
  BY <1>1, <1>2, <1>7, <1>8, <1>a, PutOne DEF old, limit
<1>c. given \in Scheduler
  BY <1>1, <1>5, <1>9, <1>a, <1>b DEF Scheduler
<1>d. /\ synced \in Scheduler
      /\ DOMAIN synced.slots = DOMAIN given.slots
      /\ \A p \in DOMAIN given.slots : SameTasks(synced.slots[p], given.slots[p])
      /\ synced.totalInFlight = given.totalInFlight
      /\ Fits(synced, {q})
  BY <1>b, <1>c, SyncFits
<1>e. q \in DOMAIN synced.slots
  BY <1>2, <1>b, <1>d
<1> HIDE DEF synced
<1>f. /\ queued \in Scheduler
      /\ DOMAIN queued.slots = DOMAIN synced.slots
      /\ \A p \in DOMAIN synced.slots : SameTasks(queued.slots[p], synced.slots[p])
      /\ queued.totalInFlight = synced.totalInFlight
      /\ Fits(queued, {})
  BY <1>d, <1>e, EnqueueFits
<1> HIDE DEF queued
<1>g. /\ t \in Scheduler
      /\ DOMAIN t.slots \in {DOMAIN queued.slots, DOMAIN queued.slots \ {q}}
      /\ \A p \in DOMAIN t.slots : t.slots[p] = queued.slots[p]
      /\ q \notin DOMAIN t.slots => ~queued.slots[q].attached /\ queued.slots[q].inFlight = 0
      /\ t.totalInFlight = queued.totalInFlight
      /\ Fits(t, {})
  BY <1>e, <1>f, EraseFits DEF t
<1>h. ASSUME NEW p \in DOMAIN sched.slots
      PROVE  /\ queued.slots[p].attached = sched.slots[p].attached
             /\ queued.slots[p].activated = sched.slots[p].activated
             /\ p # q => queued.slots[p].inFlight = sched.slots[p].inFlight
             /\ p = q => queued.slots[p].inFlight = sched.slots[p].inFlight - 1
  <2>1. /\ SameTasks(queued.slots[p], synced.slots[p])
        /\ SameTasks(synced.slots[p], given.slots[p])
    BY <1>b, <1>d, <1>f
  <2>2. SameTasks(queued.slots[p], given.slots[p])
    BY <2>1 DEF SameTasks
  <2> QED BY <1>7, <1>b, <2>2 DEF SameTasks, old
<1>i. \A p \in DOMAIN t.slots : p \in DOMAIN sched.slots
  BY <1>b, <1>d, <1>f, <1>g
<1>j. q \notin DOMAIN t.slots => old.inFlight = 1
  <2>1. old.inFlight \in Nat
    BY <1>4 DEF Slot
  <2>2. q \notin DOMAIN t.slots => old.inFlight - 1 = 0
    BY <1>2, <1>g, <1>h DEF old
  <2> QED BY <2>1, <2>2
<1>k. DOMAIN t.slots \in {DOMAIN sched.slots, DOMAIN sched.slots \ {q}}
  BY <1>b, <1>d, <1>f, <1>g
<1>l. t.totalInFlight = total
  BY <1>a, <1>d, <1>f, <1>g
<1> QED BY <1>2, <1>3, <1>g, <1>h, <1>i, <1>j, <1>k, <1>l DEF old, total

\* An empty queue lists nobody.
LEMMA EmptyLists ==
    ASSUME NEW ids, Lists(<< >>, ids)
    PROVE  ids = {}
<1>1. \A q \in ids : \E i \in 1..Len(<< >>) : TRUE
  BY DEF Lists
<1>2. 1..Len(<< >>) = {}
  OBVIOUS
<1> QED BY <1>1, <1>2

\* Empty queues are refilled with every query that may run; the loop is left when
\* there is none.
LEMMA RefillKeeps ==
    ASSUME SchedulerInv, RefillDispatchBudgets
    PROVE  /\ sched' \in Scheduler /\ Fits(sched', {})
           /\ DOMAIN sched'.slots = DOMAIN sched.slots
           /\ \A p \in DOMAIN sched.slots : SameTasks(sched'.slots[p], sched.slots[p])
           /\ sched'.totalInFlight = sched.totalInFlight
           /\ locked' \in BOOLEAN
           /\ ~locked' => \A p \in DOMAIN sched'.slots :
                            ~CouldRun(sched'.slots[p], InFlightLimit(QueryShareCount(sched')))
<1> DEFINE share == QueryShareCount(sched)
           limit == InFlightLimit(share)
           refill(slot) == IF CouldRun(slot, limit) /\ Budget(slot) = 0
                           THEN Assigned(slot, share) ELSE slot
           slots == [q \in DOMAIN sched.slots |-> refill(sched.slots[q])]
           c == [sched EXCEPT !.slots = slots]
           t == Collected(c, limit)
<1>1. /\ sched \in Scheduler /\ Fits(sched, {})
      /\ sched.baseQueue = << >> /\ sched.bonusQueue = << >>
  BY DEF SchedulerInv, RefillDispatchBudgets, HasRunnable
<1>2. /\ DOMAIN sched.slots \in SUBSET Query
      /\ \A p \in DOMAIN sched.slots : sched.slots[p] \in Slot
      /\ share \in Nat \ {0}
  BY <1>1, SchedulerTypes
<1>3. Synced(sched) = sched
  BY <1>1 DEF Synced, Fits
<1>4. Refilled(sched) = c
  BY <1>3 DEF Refilled
<1>5. ASSUME NEW q \in DOMAIN sched.slots
      PROVE  sched.slots[q].queued = FALSE
  <2>1. sched.slots[q].queued \in BOOLEAN
    BY <1>2 DEF Slot
  <2>2. ASSUME sched.slots[q].queued PROVE FALSE
    <3>1. q \in Waits(sched.slots, FALSE) \/ q \in Waits(sched.slots, TRUE)
      BY <2>2 DEF Waits
    <3>2. Lists(<< >>, Waits(sched.slots, FALSE)) /\ Lists(<< >>, Waits(sched.slots, TRUE))
      BY <1>1 DEF Fits, QueuesFit
    <3> QED BY <3>1, <3>2, EmptyLists
  <2> QED BY <2>1, <2>2
<1> HIDE DEF share, limit
<1>6. ASSUME NEW q \in DOMAIN sched.slots
      PROVE  /\ refill(sched.slots[q]) \in Slot
             /\ SameTasks(refill(sched.slots[q]), sched.slots[q])
             /\ refill(sched.slots[q]).queued = FALSE
             /\ CouldRun(refill(sched.slots[q]), limit) => Budget(refill(sched.slots[q])) # 0
  <2> DEFINE old == sched.slots[q]
             new == Assigned(old, share)
  <2>1. old \in Slot /\ old.queued = FALSE
    BY <1>2, <1>5
  <2> HIDE DEF old
  <2>2. CASE CouldRun(old, limit) /\ Budget(old) = 0
    <3>1. new \in Slot /\ SameTasks(new, old) /\ new.queued = FALSE /\ new.baseBudget # 0
      BY <1>2, <2>1, AssignedSlot
    <3>2. refill(old) = new
      BY <2>2
    <3> HIDE DEF new
    <3>3. Budget(new) # 0
      BY <3>1 DEF Budget, Slot
    <3> HIDE DEF refill
    <3> QED BY <3>1, <3>2, <3>3 DEF old
  <2>3. CASE ~(CouldRun(old, limit) /\ Budget(old) = 0)
    <3>1. refill(old) = old
      BY <2>3
    <3> HIDE DEF refill
    <3>2. SameTasks(old, old)
      BY DEF SameTasks
    <3> QED BY <2>1, <2>3, <3>1, <3>2 DEF old
  <2> QED BY <2>2, <2>3
<1> HIDE DEF refill
<1>7. /\ DOMAIN slots = DOMAIN sched.slots
      /\ \A p \in DOMAIN sched.slots :
           /\ slots[p] \in Slot /\ SameTasks(slots[p], sched.slots[p]) /\ slots[p].queued = FALSE
           /\ CouldRun(slots[p], limit) => Budget(slots[p]) # 0
  BY <1>6
<1>8. slots \in AnySlots
  <2>1. slots = [q \in DOMAIN sched.slots |-> slots[q]]
    OBVIOUS
  <2> HIDE DEF slots
  <2> QED BY <1>2, <1>7, <2>1, SlotsTyped
<1> HIDE DEF slots
<1>9. /\ c \in Scheduler /\ c.slots = slots /\ c.lastShare = sched.lastShare
      /\ c.totalInFlight = sched.totalInFlight
      /\ c.baseQueue = << >> /\ c.bonusQueue = << >>
  BY <1>1, <1>8 DEF Scheduler
<1> HIDE DEF c
<1>a. QueryShareCount(c) = share
  BY <1>7, <1>9, SameShare DEF share
<1>b. /\ sched' = t
      /\ locked' = (Candidates(c, limit) # {} /\ HasRunnable(t))
  <2>1. sched' = t
    BY <1>4, <1>a DEF RefillDispatchBudgets, limit
  <2>2. locked' = (Candidates(c, limit) # {} /\ HasRunnable(sched'))
    BY <1>4, <1>a DEF RefillDispatchBudgets, limit
  <2> QED BY <2>1, <2>2
<1>c. /\ t \in Scheduler
      /\ DOMAIN t.slots = DOMAIN c.slots
      /\ \A q \in DOMAIN c.slots :
           t.slots[q] = IF q \in Candidates(c, limit)
                        THEN [c.slots[q] EXCEPT !.queued = TRUE] ELSE c.slots[q]
      /\ t.lastShare = c.lastShare /\ t.totalInFlight = c.totalInFlight
      /\ QueuesFit(t, limit, {})
  BY <1>7, <1>9, CollectedFits
<1> HIDE DEF t
<1>d. ASSUME NEW q \in DOMAIN sched.slots PROVE SameTasks(t.slots[q], slots[q])
  <2> DEFINE old == slots[q]
             new == t.slots[q]
  <2>1. old \in Slot /\ (new = [old EXCEPT !.queued = TRUE] \/ new = old)
    BY <1>7, <1>9, <1>c
  <2> HIDE DEF old, new
  <2>2. SameTasks(new, old)
    BY <2>1 DEF Slot, SameTasks
  <2> QED BY <2>2 DEF old, new
<1>e. \A p \in DOMAIN sched.slots : SameTasks(t.slots[p], sched.slots[p])
  BY <1>7, <1>d DEF SameTasks
<1>f. QueryShareCount(t) = share
  BY <1>7, <1>9, <1>c, <1>e, SameShare DEF share
<1>g. ASSUME NEW p \in DOMAIN t.slots, CouldRun(t.slots[p], limit)
      PROVE  Candidates(c, limit) # {} /\ HasRunnable(t)
  <2>1. p \in DOMAIN slots /\ CouldRun(slots[p], limit)
    BY <1>7, <1>9, <1>c, <1>d, <1>g DEF SameTasks, CouldRun
  <2>2. p \in Candidates(c, limit)
    BY <1>7, <1>9, <2>1 DEF Candidates, IsRunnableCandidate
  <2>3. t.slots[p].queued
    <3> DEFINE old == slots[p]
    <3>1. old \in Slot /\ t.slots[p] = [old EXCEPT !.queued = TRUE]
      BY <1>7, <1>9, <1>c, <2>1, <2>2
    <3> HIDE DEF old
    <3> QED BY <3>1 DEF Slot
  <2>4. p \in Waits(t.slots, FALSE) \/ p \in Waits(t.slots, TRUE)
    BY <2>3 DEF Waits
  <2>5. Lists(t.baseQueue, Waits(t.slots, FALSE)) /\ Lists(t.bonusQueue, Waits(t.slots, TRUE))
    BY <1>c DEF QueuesFit
  <2>6. HasRunnable(t)
    BY <2>4, <2>5, EmptyLists DEF HasRunnable
  <2> QED BY <2>2, <2>6
<1>h. Fits(t, {})
  BY <1>1, <1>9, <1>c, <1>f DEF Fits, share, limit
<1>i. locked' \in BOOLEAN
  BY <1>b
<1>j. ~locked' => \A p \in DOMAIN t.slots : ~CouldRun(t.slots[p], limit)
  BY <1>b, <1>g
<1> QED BY <1>7, <1>9, <1>b, <1>c, <1>e, <1>f, <1>h, <1>i, <1>j DEF limit

\* The head of the queue can always be dispatched, and takes one task to the pool.
LEMMA DispatchKeeps ==
    ASSUME SchedulerInv, DispatchHead
    PROVE  LET q == NextRunnable(sched)
           IN  /\ sched' \in Scheduler /\ Fits(sched', {})
               /\ DOMAIN sched'.slots = DOMAIN sched.slots
               /\ \A p \in DOMAIN sched.slots :
                    /\ sched'.slots[p].attached = sched.slots[p].attached
                    /\ sched'.slots[p].activated = sched.slots[p].activated
                    /\ p # q => sched'.slots[p].inFlight = sched.slots[p].inFlight
               /\ q \in DOMAIN sched.slots
               /\ sched'.slots[q].inFlight = sched.slots[q].inFlight + 1
               /\ sched'.totalInFlight = sched.totalInFlight + 1
               /\ pool' = [pool EXCEPT ![q].running = @ + 1]
<1> DEFINE q == NextRunnable(sched)
           s == Popped(sched)
           old == sched.slots[q]
           mine == s.slots[q]
           paid == IF mine.baseBudget # 0
                   THEN [mine EXCEPT !.baseBudget = @ - 1, !.baseSeq = s.nextDispatch]
                   ELSE [mine EXCEPT !.bonusBudget = @ - 1, !.bonusSeq = s.nextDispatch]
           run == [paid EXCEPT !.pending = @ - 1, !.inFlight = @ + 1]
           total == s.totalInFlight + 1
           next == s.nextDispatch + 1
           charged == Charged(s, q)
           t == Enqueued(charged, q)
           limit == InFlightLimit(QueryShareCount(sched))
<1>1. sched \in Scheduler /\ Fits(sched, {}) /\ HasRunnable(sched)
  BY DEF SchedulerInv, DispatchHead
<1>2. /\ q \in DOMAIN sched.slots /\ CouldRun(old, limit) /\ Budget(old) # 0
  BY <1>1, NextServed
<1>3. /\ s \in Scheduler
      /\ DOMAIN s.slots = DOMAIN sched.slots
      /\ mine = [old EXCEPT !.queued = FALSE]
      /\ \A p \in DOMAIN sched.slots : p # q => s.slots[p] = sched.slots[p]
      /\ s.totalInFlight = sched.totalInFlight
      /\ Fits(s, {q})
  BY <1>1, PoppedFits
<1>4. old \in Slot
  BY <1>1, <1>2, SchedulerTypes
<1>5. charged = [s EXCEPT !.slots = [s.slots EXCEPT ![q] = run],
                          !.totalInFlight = total, !.nextDispatch = next]
  BY <1>2, <1>3 DEF Charged, Scheduler
<1>6. mine = s.slots[q] /\ q \in DOMAIN s.slots
  BY <1>2, <1>3
<1>7. /\ CanDispatch(s, q) => sched' = t /\ pool' = [pool EXCEPT ![q].running = @ + 1]
  BY DEF DispatchHead
<1>8. QueryShareCount(s) = QueryShareCount(sched)
  <2>1. SameTasks(mine, old)
    <3> HIDE DEF mine, old
    <3> QED BY <1>3, <1>4 DEF SameTasks, Slot
  <2>2. \A p \in DOMAIN sched.slots : SameTasks(s.slots[p], sched.slots[p])
    <3>1. \A p \in DOMAIN sched.slots : p # q => s.slots[p] = sched.slots[p]
      BY <1>3
    <3> HIDE DEF s, q
    <3> QED BY <2>1, <3>1 DEF SameTasks
  <2> HIDE DEF s
  <2> QED BY <1>3, <2>2, SameShare
<1>9. s.totalInFlight \in Nat /\ s.nextDispatch \in Nat
  BY <1>3, SchedulerTypes
<1>a. total \in Nat /\ next \in Nat /\ total = sched.totalInFlight + 1
  BY <1>3, <1>9
<1> HIDE DEF q, s, old, mine, charged, t, total, next
<1>b. /\ mine \in Slot /\ mine.queued = FALSE
      /\ mine.activated = old.activated /\ mine.attached = old.attached
      /\ mine.pending = old.pending /\ mine.inFlight = old.inFlight
      /\ mine.baseBudget = old.baseBudget /\ mine.bonusBudget = old.bonusBudget
  BY <1>3, <1>4 DEF Slot
<1>c. /\ mine.activated /\ mine.pending # 0 /\ mine.inFlight < limit /\ Budget(mine) # 0
  BY <1>2, <1>b DEF CouldRun, Budget
<1>d. CanDispatch(s, q)
  BY <1>6, <1>8, <1>c DEF CanDispatch, limit
<1>e. /\ run \in Slot /\ run.queued = FALSE
      /\ run.activated = mine.activated /\ run.attached = mine.attached
      /\ run.inFlight = mine.inFlight + 1
  <2>1. mine.baseBudget \in Nat /\ mine.bonusBudget \in Nat /\ mine.pending \in Nat
    BY <1>b DEF Slot
  <2>2. mine.baseBudget # 0 \/ mine.bonusBudget # 0
    BY <1>c, <2>1 DEF Budget
  <2>3. /\ paid \in Slot /\ paid.queued = FALSE
        /\ paid.activated = mine.activated /\ paid.attached = mine.attached
        /\ paid.pending = mine.pending /\ paid.inFlight = mine.inFlight
    <3>1. CASE mine.baseBudget # 0
      <4> DEFINE left == mine.baseBudget - 1
                 served == s.nextDispatch
      <4>1. left \in Nat /\ served \in Nat
        BY <1>9, <2>1, <3>1
      <4>2. paid = [mine EXCEPT !.baseBudget = left, !.baseSeq = served]
        BY <3>1
      <4> HIDE DEF left, served, paid
      <4> QED BY <1>b, <4>1, <4>2 DEF Slot
    <3>2. CASE mine.baseBudget = 0
      <4> DEFINE left == mine.bonusBudget - 1
                 served == s.nextDispatch
      <4>1. left \in Nat /\ served \in Nat
        BY <1>9, <2>1, <2>2, <3>2
      <4>2. paid = [mine EXCEPT !.bonusBudget = left, !.bonusSeq = served]
        BY <3>2
      <4> HIDE DEF left, served, paid
      <4> QED BY <1>b, <4>1, <4>2 DEF Slot
    <3> QED BY <3>1, <3>2
  <2> HIDE DEF paid
  <2> DEFINE waiting == paid.pending - 1
             flying == paid.inFlight + 1
  <2>4. waiting \in Nat
    BY <1>c, <2>1, <2>3
  <2>5. flying \in Nat /\ flying = mine.inFlight + 1
    BY <2>3 DEF Slot
  <2>6. run = [paid EXCEPT !.pending = waiting, !.inFlight = flying]
    OBVIOUS
  <2> HIDE DEF waiting, flying, run
  <2> QED BY <2>3, <2>4, <2>5, <2>6 DEF Slot
<1>f. IsVisible(run) <=> IsVisible(mine)
  <2>1. mine.inFlight \in Nat
    BY <1>b DEF Slot
  <2>2. run.inFlight # 0
    BY <1>e, <2>1
  <2> HIDE DEF run
  <2> QED BY <1>c, <1>e, <2>2 DEF IsVisible
<1> HIDE DEF run
<1>g. /\ charged.slots = [s.slots EXCEPT ![q] = run]
      /\ charged.lastShare = s.lastShare /\ charged.totalInFlight = total
      /\ charged.baseQueue = s.baseQueue /\ charged.bonusQueue = s.bonusQueue
  BY <1>3, <1>5 DEF Scheduler
<1>h. /\ charged.slots \in AnySlots /\ DOMAIN charged.slots = DOMAIN s.slots
      /\ charged.slots[q] = run
      /\ \A p \in DOMAIN s.slots : p # q => charged.slots[p] = s.slots[p]
      /\ Fits(charged, {q})
  <2> DEFINE f == [s.slots EXCEPT ![q] = run]
  <2>1. /\ f \in AnySlots /\ DOMAIN f = DOMAIN s.slots /\ f[q] = run
        /\ \A p \in DOMAIN s.slots : p # q => f[p] = s.slots[p]
    BY <1>3, <1>6, <1>e, SlotPut
  <2> HIDE DEF f
  <2>2. charged.slots = f
    BY <1>g DEF f
  <2>3. /\ ~s.slots[q].queued /\ ~charged.slots[q].queued
        /\ (IsVisible(charged.slots[q]) <=> IsVisible(s.slots[q]))
    BY <1>6, <1>b, <1>e, <1>f, <2>1, <2>2
  <2>4. QueryShareCount(charged) = QueryShareCount(s)
    BY <2>1, <2>2, <2>3, PutShare
  <2>5. QueuesFit(charged, InFlightLimit(QueryShareCount(s)), {q})
    <3> DEFINE l == InFlightLimit(QueryShareCount(s))
    <3>1. QueuesFit(s, l, {q})
      BY <1>3 DEF Fits
    <3> HIDE DEF l
    <3>2. QueuesFit(charged, l, {q})
      BY <1>3, <1>6, <1>g, <2>1, <2>2, <2>3, <3>1, PutFits
    <3> QED BY <3>2 DEF l
  <2> QED BY <1>3, <1>g, <2>1, <2>2, <2>4, <2>5 DEF Fits
<1>i. charged \in Scheduler
  <2> DEFINE slots == [s.slots EXCEPT ![q] = run]
  <2>1. slots \in AnySlots
    BY <1>g, <1>h
  <2>2. charged = [s EXCEPT !.slots = slots, !.totalInFlight = total, !.nextDispatch = next]
    BY <1>5
  <2> HIDE DEF slots
  <2> QED BY <1>3, <1>a, <2>1, <2>2 DEF Scheduler
<1>j. /\ t \in Scheduler
      /\ DOMAIN t.slots = DOMAIN charged.slots
      /\ \A p \in DOMAIN charged.slots : SameTasks(t.slots[p], charged.slots[p])
      /\ t.totalInFlight = charged.totalInFlight
      /\ Fits(t, {})
  BY <1>6, <1>h, <1>i, EnqueueFits DEF t
<1>k. ASSUME NEW p \in DOMAIN sched.slots
      PROVE  /\ t.slots[p].attached = sched.slots[p].attached
             /\ t.slots[p].activated = sched.slots[p].activated
             /\ p # q => t.slots[p].inFlight = sched.slots[p].inFlight
  <2>1. SameTasks(t.slots[p], charged.slots[p])
    BY <1>3, <1>h, <1>j
  <2>2. CASE p # q
    BY <1>3, <1>h, <2>1, <2>2 DEF SameTasks
  <2>3. CASE p = q
    BY <1>b, <1>e, <1>h, <2>1, <2>3 DEF SameTasks, old
  <2> QED BY <2>2, <2>3
<1>l. t.slots[q].inFlight = sched.slots[q].inFlight + 1
  BY <1>6, <1>b, <1>e, <1>h, <1>j DEF SameTasks, old
<1>m. sched' = t /\ pool' = [pool EXCEPT ![q].running = @ + 1]
  BY <1>7, <1>d
<1> QED BY <1>2, <1>3, <1>a, <1>g, <1>h, <1>j, <1>k, <1>l, <1>m DEF q

-----------------------------------------------------------------------------
(* The tasks in the pool. *)

\* f[q] things of each query, numbered.
Held(f) == UNION {{q} \X (1..f[q]) : q \in Query}

Tasks == [q \in Query |-> PoolOf(q)]

\* One more of a query is one more in all.
LEMMA HeldMore ==
    ASSUME NEW f \in [Query -> Nat], NEW g \in [Query -> Nat], NEW q \in Query,
           \A p \in Query : p # q => g[p] = f[p], g[q] = f[q] + 1
    PROVE  /\ IsFiniteSet(Held(f)) <=> IsFiniteSet(Held(g))
           /\ IsFiniteSet(Held(f)) => Cardinality(Held(g)) = Cardinality(Held(f)) + 1
<1> DEFINE x == <<q, g[q]>>
<1>1. /\ \A y : y \in Held(f) <=> \E p \in Query : \E i \in 1..f[p] : y = <<p, i>>
      /\ \A y : y \in Held(g) <=> \E p \in Query : \E i \in 1..g[p] : y = <<p, i>>
  BY DEF Held
<1>2. /\ \A p \in Query : 1..f[p] \in SUBSET (1..g[p])
      /\ 1..g[q] = (1..f[q]) \cup {g[q]} /\ g[q] \notin 1..f[q]
  <2>1. \A p \in Query : f[p] \in Nat /\ g[p] \in Nat /\ f[p] <= g[p]
    OBVIOUS
  <2> QED BY <2>1
<1>3. Held(g) = Held(f) \cup {x}
  <2>1. ASSUME NEW y \in Held(g) PROVE y \in Held(f) \cup {x}
    <3>1. PICK p \in Query : \E i \in 1..g[p] : y = <<p, i>>
      BY <1>1
    <3>2. PICK i \in 1..g[p] : y = <<p, i>>
      BY <3>1
    <3>3. CASE p = q /\ i = g[q]
      BY <3>2, <3>3
    <3>4. CASE ~(p = q /\ i = g[q])
      <4>1. i \in 1..f[p]
        BY <1>2, <3>2, <3>4
      <4> QED BY <1>1, <3>2, <4>1
    <3> QED BY <3>3, <3>4
  <2>2. ASSUME NEW y \in Held(f) PROVE y \in Held(g)
    BY <1>1, <1>2, <2>2
  <2>3. x \in Held(g)
    BY <1>1, <1>2
  <2> QED BY <2>1, <2>2, <2>3
<1>4. x \notin Held(f)
  BY <1>1, <1>2
<1> HIDE DEF x
<1>5. IsFiniteSet(Held(f)) => IsFiniteSet(Held(g))
  BY <1>3, FS_AddElement
<1>6. IsFiniteSet(Held(g)) => IsFiniteSet(Held(f))
  <2>1. Held(f) \in SUBSET Held(g)
    BY <1>3
  <2> QED BY <2>1, FS_Subset
<1>7. IsFiniteSet(Held(f)) => Cardinality(Held(g)) = Cardinality(Held(f)) + 1
  BY <1>3, <1>4, FS_AddElement
<1> QED BY <1>5, <1>6, <1>7

\* The tasks in the pool are those of each query.
LEMMA InPoolHeld ==
    InPool = Held(Tasks)
BY DEF InPool, Held, Tasks, PoolOf

\* The counts stay right when neither the pool nor the slots move a task.
LEMMA CountKept ==
    ASSUME SchedulerInv, \A q \in Query : PoolOf(q)' = PoolOf(q),
           \A q \in Query : (IF q \in DOMAIN sched'.slots THEN sched'.slots[q].inFlight ELSE 0)
                              = (IF q \in DOMAIN sched.slots THEN sched.slots[q].inFlight ELSE 0),
           sched'.totalInFlight = sched.totalInFlight
    PROVE  IsFiniteSet(InPool') /\ InFlightCounted'
<1>1. InPool' = InPool
  BY DEF InPool, PoolOf
<1>2. IsFiniteSet(InPool) /\ InFlightCounted
  BY DEF SchedulerInv
<1>3. \A q \in Query : pool'[q].running + pool'[q].finishing = pool[q].running + pool[q].finishing
  BY DEF PoolOf
<1> QED BY <1>1, <1>2, <1>3 DEF InFlightCounted, Slots

\* The counts stay right when a task enters the pool.
LEMMA CountMore ==
    ASSUME SchedulerInv, NEW q \in Query, pool' = [pool EXCEPT ![q].running = @ + 1],
           DOMAIN sched'.slots = DOMAIN sched.slots, q \in DOMAIN sched.slots,
           \A p \in DOMAIN sched.slots : p # q => sched'.slots[p].inFlight = sched.slots[p].inFlight,
           sched'.slots[q].inFlight = sched.slots[q].inFlight + 1,
           sched'.totalInFlight = sched.totalInFlight + 1
    PROVE  IsFiniteSet(InPool') /\ InFlightCounted'
<1>1. /\ pool \in [Query -> [running : Nat, finishing : Nat]]
      /\ IsFiniteSet(InPool) /\ InFlightCounted
  BY DEF SchedulerInv
<1>2. /\ pool' \in [Query -> [running : Nat, finishing : Nat]]
      /\ pool'[q].running + pool'[q].finishing = pool[q].running + pool[q].finishing + 1
      /\ \A p \in Query : p # q => pool'[p] = pool[p]
  BY <1>1
<1>3. /\ Tasks \in [Query -> Nat] /\ Tasks' \in [Query -> Nat]
      /\ \A p \in Query : p # q => Tasks'[p] = Tasks[p]
      /\ Tasks'[q] = Tasks[q] + 1
  BY <1>1, <1>2 DEF Tasks, PoolOf
<1>4. InPool = Held(Tasks)
  BY InPoolHeld
<1>5. InPool' = Held(Tasks')
  BY DEF InPool, Held, Tasks, PoolOf
<1>6. IsFiniteSet(InPool') /\ Cardinality(InPool') = Cardinality(InPool) + 1
  <2> DEFINE f == Tasks
             g == Tasks'
  <2> HIDE DEF f, g
  <2>1. f \in [Query -> Nat] /\ g \in [Query -> Nat] /\ g[q] = f[q] + 1
        /\ \A p \in Query : p # q => g[p] = f[p]
    BY <1>3 DEF f, g
  <2>2. IsFiniteSet(Held(f)) => IsFiniteSet(Held(g)) /\ Cardinality(Held(g)) = Cardinality(Held(f)) + 1
    BY <2>1, HeldMore
  <2> QED BY <1>1, <1>4, <1>5, <2>2 DEF f, g
<1>7. ASSUME NEW p \in Query
      PROVE  pool'[p].running + pool'[p].finishing
               = IF p \in DOMAIN sched'.slots THEN sched'.slots[p].inFlight ELSE 0
  <2>1. pool[p].running + pool[p].finishing
          = IF p \in DOMAIN sched.slots THEN sched.slots[p].inFlight ELSE 0
    BY <1>1 DEF InFlightCounted, Slots
  <2>2. CASE p = q
    BY <1>2, <2>1, <2>2
  <2>3. CASE p # q
    BY <1>2, <2>1, <2>3
  <2> QED BY <2>2, <2>3
<1> QED BY <1>1, <1>6, <1>7 DEF InFlightCounted, Slots

\* The counts stay right when a task leaves the pool.
LEMMA CountLess ==
    ASSUME SchedulerInv, NEW q \in Query, pool[q].finishing > 0,
           pool' = [pool EXCEPT ![q].finishing = @ - 1],
           \A p \in Query \ {q} :
             (IF p \in DOMAIN sched'.slots THEN sched'.slots[p].inFlight ELSE 0)
               = (IF p \in DOMAIN sched.slots THEN sched.slots[p].inFlight ELSE 0),
           (IF q \in DOMAIN sched'.slots THEN sched'.slots[q].inFlight ELSE 0)
             = sched.slots[q].inFlight - 1,
           q \in DOMAIN sched.slots,
           sched'.totalInFlight = IF sched.totalInFlight > 0 THEN sched.totalInFlight - 1 ELSE 0
    PROVE  IsFiniteSet(InPool') /\ InFlightCounted'
<1>1. /\ pool \in [Query -> [running : Nat, finishing : Nat]]
      /\ IsFiniteSet(InPool) /\ InFlightCounted
  BY DEF SchedulerInv
<1>2. /\ pool' \in [Query -> [running : Nat, finishing : Nat]]
      /\ pool'[q].running + pool'[q].finishing = pool[q].running + pool[q].finishing - 1
      /\ \A p \in Query : p # q => pool'[p] = pool[p]
  BY <1>1
<1>3. /\ Tasks \in [Query -> Nat] /\ Tasks' \in [Query -> Nat]
      /\ \A p \in Query : p # q => Tasks[p] = Tasks'[p]
      /\ Tasks[q] = Tasks'[q] + 1
  BY <1>1, <1>2 DEF Tasks, PoolOf
<1>4. InPool = Held(Tasks)
  BY InPoolHeld
<1>5. InPool' = Held(Tasks')
  BY DEF InPool, Held, Tasks, PoolOf
<1>6. IsFiniteSet(InPool') /\ Cardinality(InPool) = Cardinality(InPool') + 1
  <2> DEFINE f == Tasks'
             g == Tasks
  <2> HIDE DEF f, g
  <2>1. f \in [Query -> Nat] /\ g \in [Query -> Nat] /\ g[q] = f[q] + 1
        /\ \A p \in Query : p # q => g[p] = f[p]
    BY <1>3 DEF f, g
  <2>2. /\ IsFiniteSet(Held(f)) <=> IsFiniteSet(Held(g))
        /\ IsFiniteSet(Held(f)) => Cardinality(Held(g)) = Cardinality(Held(f)) + 1
    BY <2>1, HeldMore
  <2> QED BY <1>1, <1>4, <1>5, <2>2 DEF f, g
<1>7. sched'.totalInFlight = Cardinality(InPool')
  <2>1. Cardinality(InPool') \in Nat /\ sched.totalInFlight = Cardinality(InPool') + 1
    BY <1>1, <1>6, FS_CardinalityType DEF InFlightCounted
  <2> QED BY <2>1
<1>8. ASSUME NEW p \in Query
      PROVE  pool'[p].running + pool'[p].finishing
               = IF p \in DOMAIN sched'.slots THEN sched'.slots[p].inFlight ELSE 0
  <2>1. pool[p].running + pool[p].finishing
          = IF p \in DOMAIN sched.slots THEN sched.slots[p].inFlight ELSE 0
    BY <1>1 DEF InFlightCounted, Slots
  <2>2. CASE p = q
    <3>1. pool[q].running + pool[q].finishing = sched.slots[q].inFlight
      BY <2>1, <2>2
    <3>2. pool'[q].running + pool'[q].finishing = sched.slots[q].inFlight - 1
      <4>1. /\ pool[q].running \in Nat /\ pool[q].finishing \in Nat
            /\ pool'[q].running \in Nat /\ pool'[q].finishing \in Nat
        BY <1>1, <1>2
      <4> QED BY <1>2, <3>1, <4>1
    <3> QED BY <2>2, <3>2
  <2>3. CASE p # q
    BY <1>2, <2>1, <2>3
  <2> QED BY <2>2, <2>3
<1> QED BY <1>6, <1>7, <1>8 DEF InFlightCounted, Slots

-----------------------------------------------------------------------------
(* The invariant is inductive. *)

\* It holds before any query.
LEMMA InitScheduler ==
    ASSUME Init
    PROVE  SchedulerInv
<1> DEFINE none == << >>
<1>1. /\ sched = [slots |-> none, baseQueue |-> none, bonusQueue |-> none,
                  lastShare |-> 1, totalInFlight |-> 0, nextActivation |-> 1, nextDispatch |-> 1]
      /\ locked = FALSE /\ failed = {}
      /\ pool = [q \in Query |-> [running |-> 0, finishing |-> 0]]
      /\ caller = [q \in Query |-> "new"]
  BY DEF Init
<1>2. DOMAIN none = {} /\ none \in Seq(Query) /\ Len(none) = 0
  OBVIOUS
<1>3. none \in AnySlots
  <2>1. {} \in SUBSET Query /\ none = [q \in {} |-> none[q]]
    BY <1>2
  <2> HIDE DEF none
  <2> QED BY <2>1, SlotsTyped
<1> HIDE DEF none
<1>4. /\ sched \in Scheduler /\ DOMAIN sched.slots = {}
      /\ sched.baseQueue = none /\ sched.bonusQueue = none
      /\ sched.lastShare = 1 /\ sched.totalInFlight = 0
  BY <1>1, <1>2, <1>3 DEF Scheduler
<1>5. QueryShareCount(sched) = 1
  <2>1. {q \in DOMAIN sched.slots : IsVisible(sched.slots[q])} = {}
    BY <1>4
  <2>2. Cardinality({}) = 0
    BY FS_EmptySet
  <2>3. QueryShareCount(sched) = Max({1, 0})
    BY <2>1, <2>2 DEF QueryShareCount
  <2> QED BY <2>3, MaxWithOne
<1>6. Fits(sched, {})
  <2>1. Waits(sched.slots, FALSE) = {} /\ Waits(sched.slots, TRUE) = {}
    BY <1>4 DEF Waits
  <2>2. /\ Lists(sched.baseQueue, {}) /\ Lists(sched.bonusQueue, {})
        /\ InServiceOrder(sched.slots, FALSE, sched.baseQueue)
        /\ InServiceOrder(sched.slots, TRUE, sched.bonusQueue)
    <3>1. 1..Len(sched.baseQueue) = {} /\ 1..Len(sched.bonusQueue) = {}
      BY <1>2, <1>4
    <3> QED BY <3>1 DEF Lists, InServiceOrder
  <2> QED BY <1>4, <1>5, <2>1, <2>2 DEF Fits, QueuesFit
<1>7. InPool = {}
  BY <1>1 DEF InPool
<1>8. IsFiniteSet(InPool) /\ InFlightCounted
  BY <1>1, <1>4, <1>7, FS_EmptySet DEF InFlightCounted, Slots
<1>9. /\ pool \in [Query -> [running : Nat, finishing : Nat]]
      /\ caller \in [Query -> Stage] /\ failed \subseteq Query /\ locked \in BOOLEAN
  BY <1>1 DEF Stage
<1>a. WorkConserving /\ \A q \in Query : SlotOfCaller(q)
  BY <1>1, <1>4 DEF WorkConserving, SlotOfCaller, Slots
<1>b. sched.totalInFlight <= WorkerCount
  BY <1>4, SchedulerAssumption
<1> QED BY <1>4, <1>6, <1>8, <1>9, <1>a, <1>b DEF SchedulerInv

\* Every operation, every task that ends and every turn of the loop keeps it.
LEMMA NextScheduler ==
    ASSUME SchedulerInv, [Next]_vars
    PROVE  SchedulerInv'
<1>0. /\ sched \in Scheduler /\ sched.totalInFlight <= WorkerCount
      /\ pool \in [Query -> [running : Nat, finishing : Nat]]
      /\ caller \in [Query -> Stage] /\ failed \subseteq Query /\ locked \in BOOLEAN
      /\ WorkConserving /\ Fits(sched, {})
      /\ IsFiniteSet(InPool) /\ InFlightCounted
      /\ \A q \in Query : SlotOfCaller(q)
  BY DEF SchedulerInv
<1>a. sched.totalInFlight \in Nat /\ WorkerCount \in Nat
  BY <1>0, SchedulerTypes, SchedulerAssumption
<1>1. ASSUME NEW q \in Query, NEW priority \in Priority, AttachQuery(q, priority)
      PROVE  SchedulerInv'
  <2>1. /\ sched' \in Scheduler /\ Fits(sched', {})
        /\ q \notin DOMAIN sched.slots /\ DOMAIN sched'.slots = DOMAIN sched.slots \cup {q}
        /\ sched'.slots[q] = FreshSlot(priority)
        /\ \A p \in DOMAIN sched.slots : sched'.slots[p] = sched.slots[p]
        /\ sched'.totalInFlight = sched.totalInFlight
    BY <1>1, AttachKeeps
  <2>2. /\ ~locked /\ caller[q] = "new" /\ caller' = [caller EXCEPT ![q] = "submitting"]
        /\ UNCHANGED <<locked, pool, failed>>
    BY <1>1 DEF AttachQuery
  <2>3. /\ sched'.slots[q].inFlight = 0 /\ sched'.slots[q].attached
        /\ ~sched'.slots[q].activated
    BY <2>1 DEF FreshSlot
  <2>4. IsFiniteSet(InPool') /\ InFlightCounted'
    <3>1. \A p \in Query : PoolOf(p)' = PoolOf(p)
      BY <2>2 DEF PoolOf
    <3>2. \A p \in Query : (IF p \in DOMAIN sched'.slots THEN sched'.slots[p].inFlight ELSE 0)
                             = (IF p \in DOMAIN sched.slots THEN sched.slots[p].inFlight ELSE 0)
      BY <2>1, <2>3
    <3> QED BY <2>1, <3>1, <3>2, CountKept
  <2>5. WorkConserving'
    <3>1. QueryShareCount(sched') = QueryShareCount(sched)
      <4>1. ~IsVisible(sched'.slots[q])
        BY <2>1 DEF FreshSlot, IsVisible
      <4>2. {p \in DOMAIN sched'.slots : IsVisible(sched'.slots[p])}
              = {p \in DOMAIN sched.slots : IsVisible(sched.slots[p])}
        BY <2>1, <4>1
      <4> QED BY <4>2 DEF QueryShareCount
    <3>2. ASSUME sched.totalInFlight < WorkerCount, NEW p \in DOMAIN sched'.slots
          PROVE  ~CouldRun(sched'.slots[p], InFlightLimit(QueryShareCount(sched)))
      <4>1. CASE p = q
        BY <2>3, <4>1 DEF CouldRun
      <4>2. CASE p # q
        BY <1>0, <2>1, <2>2, <3>2, <4>2 DEF WorkConserving, Slots, Limit
      <4> QED BY <4>1, <4>2
    <3> QED BY <2>1, <3>1, <3>2 DEF WorkConserving, Slots, Limit
  <2>6. ASSUME NEW p \in Query PROVE SlotOfCaller(p)'
    <3>1. CASE p = q
      BY <1>0, <2>1, <2>2, <2>3, <3>1 DEF SlotOfCaller, Slots
    <3>2. CASE p # q
      BY <1>0, <2>1, <2>2, <3>2 DEF SlotOfCaller, Slots
    <3> QED BY <3>1, <3>2
  <2>7. caller' \in [Query -> Stage]
    BY <1>0, <2>2 DEF Stage
  <2> QED BY <1>0, <2>1, <2>2, <2>4, <2>5, <2>6, <2>7 DEF SchedulerInv
<1>2. ASSUME NEW q \in Query, Submit(q)
      PROVE  SchedulerInv'
  <2>1. /\ sched' \in Scheduler /\ Fits(sched', {})
        /\ DOMAIN sched'.slots = DOMAIN sched.slots
        /\ \A p \in DOMAIN sched.slots :
             /\ sched'.slots[p].attached = sched.slots[p].attached
             /\ sched'.slots[p].activated = sched.slots[p].activated
             /\ sched'.slots[p].inFlight = sched.slots[p].inFlight
        /\ sched'.totalInFlight = sched.totalInFlight
    BY <1>2, SubmitKeeps
  <2>2. locked' = TRUE /\ UNCHANGED <<pool, caller, failed>>
    BY <1>2 DEF Submit
  <2>3. IsFiniteSet(InPool') /\ InFlightCounted'
    <3>1. \A p \in Query : PoolOf(p)' = PoolOf(p)
      BY <2>2 DEF PoolOf
    <3> QED BY <2>1, <3>1, CountKept
  <2>4. ASSUME NEW p \in Query PROVE SlotOfCaller(p)'
    BY <1>0, <2>1, <2>2 DEF SlotOfCaller, Slots
  <2> QED BY <1>0, <2>1, <2>2, <2>3, <2>4 DEF SchedulerInv, WorkConserving
<1>3. ASSUME NEW q \in Query, NEW stage \in {"waiting", "unwinding"}, ActivateQuery(q, stage)
      PROVE  SchedulerInv'
  <2>1. /\ sched' \in Scheduler /\ Fits(sched', {})
        /\ DOMAIN sched'.slots = DOMAIN sched.slots
        /\ \A p \in DOMAIN sched.slots :
             /\ sched'.slots[p].attached = sched.slots[p].attached
             /\ p # q => sched'.slots[p].activated = sched.slots[p].activated
             /\ sched'.slots[p].inFlight = sched.slots[p].inFlight
        /\ q \in DOMAIN sched.slots /\ sched'.slots[q].activated
        /\ sched'.totalInFlight = sched.totalInFlight
    BY <1>3, ActivateKeeps
  <2>2. /\ locked' = TRUE /\ UNCHANGED <<pool, failed>>
        /\ caller[q] = "submitting" /\ caller' = [caller EXCEPT ![q] = stage]
    BY <1>3 DEF ActivateQuery
  <2>3. IsFiniteSet(InPool') /\ InFlightCounted'
    <3>1. \A p \in Query : PoolOf(p)' = PoolOf(p)
      BY <2>2 DEF PoolOf
    <3> QED BY <2>1, <3>1, CountKept
  <2>4. ASSUME NEW p \in Query PROVE SlotOfCaller(p)'
    <3>1. CASE p = q
      BY <1>0, <1>3, <2>1, <2>2, <3>1 DEF SlotOfCaller, Slots
    <3>2. CASE p # q
      BY <1>0, <2>1, <2>2, <3>2 DEF SlotOfCaller, Slots
    <3> QED BY <3>1, <3>2
  <2>5. caller' \in [Query -> Stage]
    BY <1>0, <1>3, <2>2 DEF Stage
  <2> QED BY <1>0, <2>1, <2>2, <2>3, <2>4, <2>5 DEF SchedulerInv, WorkConserving
<1>4. ASSUME NEW q \in Query, DetachQuery(q)
      PROVE  SchedulerInv'
  <2>1. /\ sched' \in Scheduler /\ Fits(sched', {})
        /\ DOMAIN sched'.slots \in {DOMAIN sched.slots, DOMAIN sched.slots \ {q}}
        /\ \A p \in DOMAIN sched'.slots :
             /\ p # q => sched'.slots[p].attached = sched.slots[p].attached
             /\ sched'.slots[p].activated = sched.slots[p].activated
             /\ sched'.slots[p].inFlight = sched.slots[p].inFlight
        /\ q \in DOMAIN sched.slots
        /\ q \notin DOMAIN sched'.slots => sched.slots[q].inFlight = 0
        /\ sched'.totalInFlight = sched.totalInFlight
    BY <1>4, DetachKeeps
  <2>2. /\ locked' = TRUE /\ UNCHANGED <<pool, failed>>
        /\ caller' = [caller EXCEPT ![q] = "gone"]
    BY <1>4 DEF DetachQuery
  <2>3. IsFiniteSet(InPool') /\ InFlightCounted'
    <3>1. \A p \in Query : PoolOf(p)' = PoolOf(p)
      BY <2>2 DEF PoolOf
    <3>2. ASSUME NEW p \in Query
          PROVE  (IF p \in DOMAIN sched'.slots THEN sched'.slots[p].inFlight ELSE 0)
                   = (IF p \in DOMAIN sched.slots THEN sched.slots[p].inFlight ELSE 0)
      <4>1. CASE p \in DOMAIN sched'.slots
        BY <2>1, <4>1
      <4>2. CASE p \notin DOMAIN sched'.slots
        BY <2>1, <4>2
      <4> QED BY <4>1, <4>2
    <3> QED BY <2>1, <3>1, <3>2, CountKept
  <2>4. ASSUME NEW p \in Query PROVE SlotOfCaller(p)'
    <3>1. CASE p = q
      BY <1>0, <2>2, <3>1 DEF SlotOfCaller
    <3>2. CASE p # q
      BY <1>0, <2>1, <2>2, <3>2 DEF SlotOfCaller, Slots
    <3> QED BY <3>1, <3>2
  <2>5. caller' \in [Query -> Stage]
    BY <1>0, <2>2 DEF Stage
  <2> QED BY <1>0, <2>1, <2>2, <2>3, <2>4, <2>5 DEF SchedulerInv, WorkConserving
<1>5. ASSUME NEW q \in Query, NEW throws \in BOOLEAN, EndTask(q, throws)
      PROVE  SchedulerInv'
  <2>1. /\ pool[q].running > 0 /\ UNCHANGED <<sched, locked, caller>>
        /\ pool' = [pool EXCEPT ![q].running = @ - 1, ![q].finishing = @ + 1]
        /\ failed' \subseteq Query
    BY <1>0, <1>5 DEF EndTask
  <2>2. /\ pool' \in [Query -> [running : Nat, finishing : Nat]]
        /\ \A p \in Query : PoolOf(p)' = PoolOf(p)
    <3>1. ASSUME NEW p \in Query
          PROVE  /\ pool'[p] \in [running : Nat, finishing : Nat]
                 /\ pool'[p].running + pool'[p].finishing = pool[p].running + pool[p].finishing
      <4>1. pool[p] \in [running : Nat, finishing : Nat]
        BY <1>0
      <4>2. CASE p = q
        <5>1. pool'[q] = [running |-> pool[q].running - 1, finishing |-> pool[q].finishing + 1]
          BY <1>0, <2>1
        <5> QED BY <2>1, <4>1, <4>2, <5>1
      <4>3. CASE p # q
        BY <1>0, <2>1, <4>1, <4>3
      <4> QED BY <4>2, <4>3
    <3>2. pool' = [p \in Query |-> pool'[p]]
      BY <1>0, <2>1
    <3> QED BY <3>1, <3>2 DEF PoolOf
  <2>3. IsFiniteSet(InPool') /\ InFlightCounted'
    BY <2>1, <2>2, CountKept
  <2>4. WorkConserving' /\ \A p \in Query : SlotOfCaller(p)'
    BY <1>0, <2>1 DEF WorkConserving, SlotOfCaller, Slots, Limit
  <2> QED BY <1>0, <2>1, <2>2, <2>3, <2>4 DEF SchedulerInv
<1>6. ASSUME NEW q \in Query, OnTaskFinished(q)
      PROVE  SchedulerInv'
  <2>1. /\ sched' \in Scheduler /\ Fits(sched', {})
        /\ DOMAIN sched'.slots \in {DOMAIN sched.slots, DOMAIN sched.slots \ {q}}
        /\ \A p \in DOMAIN sched'.slots :
             /\ sched'.slots[p].attached = sched.slots[p].attached
             /\ sched'.slots[p].activated = sched.slots[p].activated
             /\ p # q => sched'.slots[p].inFlight = sched.slots[p].inFlight
        /\ q \in DOMAIN sched.slots /\ sched.slots[q].inFlight > 0
        /\ q \in DOMAIN sched'.slots => sched'.slots[q].inFlight = sched.slots[q].inFlight - 1
        /\ q \notin DOMAIN sched'.slots =>
             sched.slots[q].inFlight = 1 /\ ~sched.slots[q].attached
        /\ sched'.totalInFlight = IF sched.totalInFlight > 0 THEN sched.totalInFlight - 1 ELSE 0
    BY <1>6, FinishKeeps
  <2>2. /\ locked' = TRUE /\ UNCHANGED <<caller, failed>>
        /\ pool[q].finishing > 0 /\ pool' = [pool EXCEPT ![q].finishing = @ - 1]
    BY <1>6 DEF OnTaskFinished
  <2>3. pool' \in [Query -> [running : Nat, finishing : Nat]]
    BY <1>0, <2>2
  <2>4. IsFiniteSet(InPool') /\ InFlightCounted'
    <3>1. \A p \in Query \ {q} :
            (IF p \in DOMAIN sched'.slots THEN sched'.slots[p].inFlight ELSE 0)
              = (IF p \in DOMAIN sched.slots THEN sched.slots[p].inFlight ELSE 0)
      BY <2>1
    <3>2. (IF q \in DOMAIN sched'.slots THEN sched'.slots[q].inFlight ELSE 0)
            = sched.slots[q].inFlight - 1
      BY <2>1
    <3> QED BY <2>1, <2>2, <3>1, <3>2, CountLess
  <2>5. ASSUME NEW p \in Query PROVE SlotOfCaller(p)'
    <3>1. CASE p \in DOMAIN sched'.slots
      BY <1>0, <2>1, <2>2, <3>1 DEF SlotOfCaller, Slots
    <3>2. CASE p \notin DOMAIN sched'.slots
      BY <1>0, <2>1, <2>2, <3>2 DEF SlotOfCaller, Slots
    <3> QED BY <3>1, <3>2
  <2>6. sched'.totalInFlight <= WorkerCount
    BY <1>0, <1>a, <2>1
  <2> QED BY <1>0, <2>1, <2>2, <2>3, <2>4, <2>5, <2>6 DEF SchedulerInv, WorkConserving
<1>7. ASSUME StopDispatch
      PROVE  SchedulerInv'
  <2>1. locked' = FALSE /\ UNCHANGED <<sched, pool, caller, failed>>
        /\ sched.totalInFlight >= WorkerCount
    BY <1>7 DEF StopDispatch
  <2>2. InPool' = InPool /\ InFlightCounted'
    BY <1>0, <2>1 DEF InPool, InFlightCounted, Slots
  <2>3. WorkConserving'
    BY <1>a, <2>1 DEF WorkConserving
  <2>4. \A p \in Query : SlotOfCaller(p)'
    BY <1>0, <2>1 DEF SlotOfCaller, Slots
  <2> QED BY <1>0, <2>1, <2>2, <2>3, <2>4 DEF SchedulerInv
<1>8. ASSUME RefillDispatchBudgets
      PROVE  SchedulerInv'
  <2>1. /\ sched' \in Scheduler /\ Fits(sched', {})
        /\ DOMAIN sched'.slots = DOMAIN sched.slots
        /\ \A p \in DOMAIN sched.slots : SameTasks(sched'.slots[p], sched.slots[p])
        /\ sched'.totalInFlight = sched.totalInFlight
        /\ locked' \in BOOLEAN
        /\ ~locked' => \A p \in DOMAIN sched'.slots :
                         ~CouldRun(sched'.slots[p], InFlightLimit(QueryShareCount(sched')))
    BY <1>8, RefillKeeps
  <2>2. UNCHANGED <<pool, caller, failed>>
    BY <1>8 DEF RefillDispatchBudgets
  <2>3. IsFiniteSet(InPool') /\ InFlightCounted'
    <3>1. \A p \in Query : PoolOf(p)' = PoolOf(p)
      BY <2>2 DEF PoolOf
    <3>2. \A p \in DOMAIN sched.slots : sched'.slots[p].inFlight = sched.slots[p].inFlight
      BY <2>1 DEF SameTasks
    <3> QED BY <2>1, <3>1, <3>2, CountKept
  <2>4. WorkConserving'
    BY <2>1 DEF WorkConserving, Slots, Limit
  <2>5. \A p \in Query : SlotOfCaller(p)'
    BY <1>0, <2>1, <2>2 DEF SlotOfCaller, Slots, SameTasks
  <2> QED BY <1>0, <2>1, <2>2, <2>3, <2>4, <2>5 DEF SchedulerInv
<1>9. ASSUME DispatchHead
      PROVE  SchedulerInv'
  <2> DEFINE q == NextRunnable(sched)
  <2>1. /\ sched' \in Scheduler /\ Fits(sched', {})
        /\ DOMAIN sched'.slots = DOMAIN sched.slots
        /\ \A p \in DOMAIN sched.slots :
             /\ sched'.slots[p].attached = sched.slots[p].attached
             /\ sched'.slots[p].activated = sched.slots[p].activated
             /\ p # q => sched'.slots[p].inFlight = sched.slots[p].inFlight
        /\ q \in DOMAIN sched.slots
        /\ sched'.slots[q].inFlight = sched.slots[q].inFlight + 1
        /\ sched'.totalInFlight = sched.totalInFlight + 1
        /\ pool' = [pool EXCEPT ![q].running = @ + 1]
    BY <1>9, DispatchKeeps
  <2>2. /\ locked /\ sched.totalInFlight < WorkerCount /\ UNCHANGED <<locked, caller, failed>>
    BY <1>9 DEF DispatchHead
  <2>3. q \in Query
    BY <1>0, <2>1, SchedulerTypes
  <2> HIDE DEF q
  <2>4. pool' \in [Query -> [running : Nat, finishing : Nat]]
    BY <1>0, <2>1, <2>3
  <2>5. IsFiniteSet(InPool') /\ InFlightCounted'
    BY <2>1, <2>3, CountMore
  <2>6. \A p \in Query : SlotOfCaller(p)'
    BY <1>0, <2>1, <2>2 DEF SlotOfCaller, Slots
  <2>7. sched'.totalInFlight <= WorkerCount
    BY <1>a, <2>1, <2>2
  <2> QED BY <1>0, <2>1, <2>2, <2>4, <2>5, <2>6, <2>7 DEF SchedulerInv, WorkConserving
<1>b. CASE UNCHANGED vars
  <2>1. InPool' = InPool /\ InFlightCounted' /\ WorkConserving'
    BY <1>0, <1>b DEF vars, InPool, InFlightCounted, WorkConserving, Slots, Limit
  <2>2. \A p \in Query : SlotOfCaller(p)'
    BY <1>0, <1>b DEF vars, SlotOfCaller, Slots
  <2> QED BY <1>0, <1>b, <2>1, <2>2 DEF vars, SchedulerInv
<1> QED BY <1>1, <1>2, <1>3, <1>4, <1>5, <1>6, <1>7, <1>8, <1>9, <1>b DEF Next, DispatchReadyTasks

\* It holds in every state.
LEMMA SchedulerInvariant ==
    Spec => []SchedulerInv
BY InitScheduler, NextScheduler, PTL DEF Spec

-----------------------------------------------------------------------------
(* What the invariant says of the scheduler. *)

\* How often a query is in a queue that lists these queries.
LEMMA TimesListed ==
    ASSUME NEW queue \in Seq(Query), NEW ids, Lists(queue, ids), NEW q
    PROVE  Times(queue, q) = IF q \in ids THEN 1 ELSE 0
<1> DEFINE places == {i \in DOMAIN queue : queue[i] = q}
<1>1. DOMAIN queue = 1..Len(queue)
  OBVIOUS
<1>2. CASE q \in ids
  <2>1. PICK i \in 1..Len(queue) : queue[i] = q
    BY <1>2 DEF Lists
  <2>2. places = {i}
    BY <1>1, <2>1 DEF Lists
  <2>3. Cardinality({i}) = 1
    BY FS_Singleton
  <2> QED BY <1>2, <2>2, <2>3 DEF Times
<1>3. CASE q \notin ids
  <2>1. places = {}
    BY <1>1, <1>3 DEF Lists
  <2> QED BY <1>3, <2>1, FS_EmptySet DEF Times
<1> QED BY <1>2, <1>3

\* The queues hold each query that may run once, in the one its budgets call for.
LEMMA FitMeansExact ==
    ASSUME SchedulerInv
    PROVE  QueuesExact
<1> DEFINE limit == InFlightLimit(QueryShareCount(sched))
           inBase == Waits(sched.slots, FALSE)
           inBonus == Waits(sched.slots, TRUE)
<1>1. sched \in Scheduler /\ QueuesFit(sched, limit, {})
  BY DEF SchedulerInv, Fits
<1>2. /\ \A p \in DOMAIN sched.slots : sched.slots[p] \in Slot
      /\ sched.baseQueue \in Seq(Query) /\ sched.bonusQueue \in Seq(Query)
  BY <1>1, SchedulerTypes
<1> HIDE DEF limit
<1>3. ASSUME NEW q \in Query
      PROVE  /\ Times(sched.baseQueue, q) = IF q \in inBase THEN 1 ELSE 0
             /\ Times(sched.bonusQueue, q) = IF q \in inBonus THEN 1 ELSE 0
  <2>1. Lists(sched.baseQueue, inBase) /\ Lists(sched.bonusQueue, inBonus)
    BY <1>1 DEF QueuesFit
  <2> HIDE DEF inBase, inBonus
  <2> QED BY <1>2, <2>1, TimesListed
<1>4. ASSUME NEW q \in DOMAIN sched.slots
      PROVE  /\ sched.slots[q].queued => CouldRun(sched.slots[q], limit)
             /\ sched.slots[q].queued => Budget(sched.slots[q]) # 0
             /\ ~IsRunnableCandidate(sched.slots[q], limit)
             /\ q \in inBase <=> sched.slots[q].queued /\ sched.slots[q].baseBudget # 0
             /\ q \in inBonus <=> sched.slots[q].queued /\ sched.slots[q].baseBudget = 0
  BY <1>1 DEF QueuesFit, Waits
<1>5. \A q : q \notin DOMAIN sched.slots => q \notin inBase /\ q \notin inBonus
  BY DEF Waits
<1>6. ASSUME NEW q \in DOMAIN sched.slots, sched.slots[q].queued, sched.slots[q].baseBudget = 0
      PROVE  sched.slots[q].bonusBudget # 0
  <2>1. sched.slots[q].bonusBudget \in Nat /\ Budget(sched.slots[q]) # 0
    BY <1>2, <1>4, <1>6 DEF Slot
  <2> QED BY <1>6, <2>1 DEF Budget
<1>7. Limit = limit
  BY DEF Limit, limit
<1> HIDE DEF inBase, inBonus
<1> QED BY <1>3, <1>4, <1>5, <1>6, <1>7 DEF QueuesExact, Slots

\* The scheduler's bookkeeping is exact: in-flight counts, marks, budgets and queues
\* agree with the pool and with what may run, the total never exceeds the workers,
\* and no worker is left idle while a query below its share has a task waiting.
THEOREM BookkeepingIsExact ==
    Spec => []SlotsExact
<1>1. ASSUME SchedulerInv PROVE SlotsExact
  <2>1. /\ sched \in Scheduler /\ sched.totalInFlight <= WorkerCount
        /\ sched.lastShare = QueryShareCount(sched)
        /\ locked \in BOOLEAN /\ pool \in [Query -> [running : Nat, finishing : Nat]]
        /\ caller \in [Query -> Stage] /\ failed \subseteq Query
        /\ InFlightCounted /\ WorkConserving
    BY <1>1 DEF SchedulerInv, Fits
  <2>2. /\ DOMAIN sched.slots \in SUBSET Query /\ sched.slots \in [DOMAIN sched.slots -> Slot]
        /\ sched.baseQueue \in Seq(Query) /\ sched.bonusQueue \in Seq(Query)
        /\ sched.totalInFlight \in Nat
        /\ sched.nextActivation \in Nat /\ sched.nextDispatch \in Nat
        /\ QueryShareCount(sched) \in 1..Max({1, NumQueries})
    BY <2>1, SchedulerTypes
  <2>3. sched.totalInFlight \in 0..WorkerCount
    BY <2>1, <2>2, SchedulerAssumption
  <2>4. TypeOK
    BY <2>1, <2>2, <2>3 DEF TypeOK, Slots
  <2> QED BY <1>1, <2>1, <2>4, FitMeansExact DEF SlotsExact
<1> QED BY <1>1, SchedulerInvariant, PTL

\* A worker goes to a bonus only when no query that may run has base budget left, and
\* within a phase to the one that has waited longest since it was last served.
THEOREM ServiceIsInOrder ==
    Spec => ServedInOrder
<1> DEFINE Fair(q) ==
             DispatchOf(q)
               => LET bonusPhase == Slots[q].baseBudget = 0
                  IN  \A p \in {r \in DOMAIN Slots \ {q} : CouldRun(Slots[r], Limit)} :
                        /\ bonusPhase => Slots[p].baseBudget = 0
                        /\ Budget(Slots[p]) # 0 /\ (Slots[p].baseBudget = 0) = bonusPhase
                             => RunnableQueryLess(Slots, bonusPhase, q, p)
<1>1. ASSUME SchedulerInv, [Next]_vars, NEW q \in Query, DispatchOf(q)
      PROVE  DispatchHead /\ q = NextRunnable(sched)
  <2>1. pool \in [Query -> [running : Nat, finishing : Nat]]
    BY <1>1 DEF SchedulerInv
  <2>2. pool[q].running \in Nat /\ pool'[q].running = pool[q].running + 1
    BY <1>1, <2>1 DEF DispatchOf
  <2>3. ~UNCHANGED pool
    BY <2>2
  <2>4. ASSUME NEW p \in Query, NEW throws \in BOOLEAN, EndTask(p, throws)
        PROVE  FALSE
    <3>1. pool[p].running > 0 /\ pool[p].running \in Nat
      BY <2>1, <2>4 DEF EndTask
    <3>2. pool'[q].running \in {pool[q].running, pool[q].running - 1}
      BY <2>1, <2>4 DEF EndTask
    <3> QED BY <2>2, <3>1, <3>2
  <2>5. ASSUME NEW p \in Query, OnTaskFinished(p)
        PROVE  FALSE
    <3>1. pool'[q].running = pool[q].running
      BY <2>1, <2>5 DEF OnTaskFinished
    <3> QED BY <2>2, <3>1
  <2>6. DispatchHead
    BY <1>1, <2>3, <2>4, <2>5
       DEF Next, vars, AttachQuery, Submit, ActivateQuery, DetachQuery,
           DispatchReadyTasks, StopDispatch, RefillDispatchBudgets
  <2>7. pool' = [pool EXCEPT ![NextRunnable(sched)].running = @ + 1]
    BY <1>1, <2>6, DispatchKeeps
  <2>8. q = NextRunnable(sched)
    BY <2>1, <2>2, <2>7
  <2> QED BY <2>6, <2>8
<1>2. ASSUME SchedulerInv, [Next]_vars, NEW q \in Query PROVE Fair(q)
  <2> SUFFICES ASSUME DispatchOf(q)
               PROVE  LET bonusPhase == Slots[q].baseBudget = 0
                      IN  \A p \in {r \in DOMAIN Slots \ {q} : CouldRun(Slots[r], Limit)} :
                            /\ bonusPhase => Slots[p].baseBudget = 0
                            /\ Budget(Slots[p]) # 0 /\ (Slots[p].baseBudget = 0) = bonusPhase
                                 => RunnableQueryLess(Slots, bonusPhase, q, p)
    OBVIOUS
  <2>1. DispatchHead /\ q = NextRunnable(sched)
    BY <1>1, <1>2
  <2>2. sched \in Scheduler /\ Fits(sched, {}) /\ HasRunnable(sched)
    BY <1>2, <2>1 DEF SchedulerInv, DispatchHead
  <2>3. LET bonusPhase == sched.slots[q].baseBudget = 0
        IN  \A p \in DOMAIN sched.slots \ {q} :
              CouldRun(sched.slots[p], InFlightLimit(QueryShareCount(sched))) =>
                /\ bonusPhase => sched.slots[p].baseBudget = 0
                /\ Budget(sched.slots[p]) # 0 /\ (sched.slots[p].baseBudget = 0) = bonusPhase
                     => RunnableQueryLess(sched.slots, bonusPhase, q, p)
    BY <2>1, <2>2, NextServed
  <2> QED BY <2>3 DEF Slots, Limit
<1>3. SchedulerInv /\ [Next]_vars => [\A q \in Query : Fair(q)]_vars
  BY <1>2
<1>4. Spec => [][\A q \in Query : Fair(q)]_vars
  <2> HIDE DEF Fair
  <2> QED BY <1>3, SchedulerInvariant, PTL DEF Spec
<1> QED BY <1>4 DEF ServedInOrder

=============================================================================
