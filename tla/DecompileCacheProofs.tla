----------------------- MODULE DecompileCacheProofs -----------------------
(* The index of the decompiler cache never dangles and every answer is the   *)
(* text of the descriptor that was asked for, for any number of threads,     *)
(* descriptors, list nodes and capacities.                                   *)
EXTENDS DecompileCache, FiniteSetTheorems, TLAPS

\* List nodes have distinct addresses (the allocator never hands out a live one).
NodesDistinct ==
    \A i, j \in 1..Len(cache_list) :
        cache_list[i].node = cache_list[j].node => i = j

\* What a call in progress knows: it still has a descriptor to answer for,
\* and a text about to be inserted is the text of that located descriptor.
CallsInProgress ==
    \A t \in Threads :
        /\ pc[t] = "idle" => out[t] = <<>> /\ asked[t] = <<>>
        /\ pc[t] \in {"lookup", "pipeline", "insert"} => Len(out[t]) < Len(asked[t])
        /\ pc[t] = "insert" => /\ text[t] \in Texts
                               /\ text[t].key = Key(t)
                               /\ Key(t) \in Located

\* Only located methods are cached, each with its own text.
EntriesAboutTheirKey ==
    \A i \in 1..Len(cache_list) :
        /\ cache_list[i].text.key = cache_list[i].key
        /\ cache_list[i].key \in Located

\* The inductive invariant.
CacheInv == TypeOK /\ NodesDistinct /\ IndexSound
            /\ CallsInProgress /\ EntriesAboutTheirKey /\ AnswersMatch

-----------------------------------------------------------------------------
\* splice(begin, list, it) permutes the list: same length, same nodes.
LEMMA SpliceFacts ==
    ASSUME NEW S, NEW s \in Seq(S), NEW i \in 1..Len(s)
    PROVE  LET r == SpliceToFront(s, i) IN
           /\ r \in Seq(S) /\ Len(r) = Len(s)
           /\ \A j \in 1..Len(s) : \E m \in 1..Len(s) : r[j] = s[m]
           /\ \A m \in 1..Len(s) : \E j \in 1..Len(s) : r[j] = s[m]
<1> DEFINE r == SpliceToFront(s, i)
<1>1. r \in Seq(S) /\ Len(r) = Len(s)
  BY DEF SpliceToFront
<1>2. \A j \in 1..Len(s) : \E m \in 1..Len(s) : r[j] = s[m]
  <2> TAKE j \in 1..Len(s)
  <2>1. CASE j = 1
    BY <2>1 DEF SpliceToFront
  <2>2. CASE j # 1 /\ j <= i
    <3>1. j - 1 \in 1..Len(s) /\ r[j] = s[j-1]
      BY <2>2 DEF SpliceToFront
    <3> QED BY <3>1
  <2>3. CASE j # 1 /\ ~(j <= i)
    BY <2>3 DEF SpliceToFront
  <2> QED BY <2>1, <2>2, <2>3
<1>3. \A m \in 1..Len(s) : \E j \in 1..Len(s) : r[j] = s[m]
  <2> TAKE m \in 1..Len(s)
  <2>1. CASE m = i
    <3>1. 1 \in 1..Len(s) /\ r[1] = s[m]
      BY <2>1 DEF SpliceToFront
    <3> QED BY <3>1
  <2>2. CASE m < i
    <3>1. m + 1 \in 1..Len(s) /\ r[m+1] = s[m]
      BY <2>2 DEF SpliceToFront
    <3> QED BY <3>1
  <2>3. CASE m > i
    <3>1. r[m] = s[m]
      BY <2>3 DEF SpliceToFront
    <3> QED BY <3>1
  <2> QED BY <2>1, <2>2, <2>3
<1> QED BY <1>1, <1>2, <1>3

\* ... and it keeps list nodes distinct.
LEMMA SpliceDistinct ==
    ASSUME NEW s \in Seq(Entries), NEW i \in 1..Len(s),
           \A p, q \in 1..Len(s) : s[p].node = s[q].node => p = q
    PROVE  \A p, q \in 1..Len(s) :
              SpliceToFront(s, i)[p].node = SpliceToFront(s, i)[q].node => p = q
<1> DEFINE from(j) == IF j = 1 THEN i ELSE IF j <= i THEN j - 1 ELSE j
<1>1. \A j \in 1..Len(s) : /\ from(j) \in 1..Len(s)
                           /\ SpliceToFront(s, i)[j] = s[from(j)]
  BY DEF SpliceToFront
<1>2. \A p, q \in 1..Len(s) : from(p) = from(q) => p = q
  OBVIOUS
<1> SUFFICES ASSUME NEW p \in 1..Len(s), NEW q \in 1..Len(s),
                    SpliceToFront(s, i)[p].node = SpliceToFront(s, i)[q].node
             PROVE  p = q
  OBVIOUS
<1>3. from(p) \in 1..Len(s) /\ from(q) \in 1..Len(s)
  BY <1>1
<1>4. s[from(p)].node = s[from(q)].node
  BY <1>1
<1> HIDE DEF from
<1>5. from(p) = from(q)
  BY <1>3, <1>4
<1> QED BY <1>2, <1>5

\* The list the eviction loop leaves is a prefix of the one it was given.
LEMMA EvictFacts ==
    ASSUME NEW S, NEW s \in Seq(S), NEW cap \in Nat
    PROVE  /\ KeptLen(s, cap) \in 0..Len(s)
           /\ EvictList(s, cap) \in Seq(S)
           /\ Len(EvictList(s, cap)) = KeptLen(s, cap)
           /\ \A j \in 1..KeptLen(s, cap) : EvictList(s, cap)[j] = s[j]
<1>1. KeptLen(s, cap) \in 0..Len(s)
  BY DEF KeptLen
<1>2. QED
  BY <1>1 DEF EvictList

-----------------------------------------------------------------------------
\* The steps that leave the cache alone preserve what is said about it.
LEMMA SharedUnchanged ==
    ASSUME CacheInv, UNCHANGED shared
    PROVE  (NodesDistinct /\ IndexSound /\ EntriesAboutTheirKey)'
BY DEF CacheInv, shared, NodesDistinct, IndexSound, EntriesAboutTheirKey

\* Steps that move no call preserve what is said about the calls.
LEMMA CallsUnchanged ==
    ASSUME CacheInv, UNCHANGED <<pc, mode, asked, text, out>>
    PROVE  (CallTypeOK /\ CallsInProgress /\ AnswersMatch)'
<1>1. CallTypeOK'
  BY DEF CacheInv, TypeOK, CallTypeOK
<1>2. CallsInProgress'
  BY DEF CacheInv, CallsInProgress, Key
<1>3. AnswersMatch'
  BY DEF CacheInv, AnswersMatch
<1>4. QED
  BY <1>1, <1>2, <1>3

\* An answer about the descriptor at hand keeps the calls in order.
LEMMA GiveAnswerInv ==
    ASSUME CacheInv, NEW t \in Threads, NEW a \in [key : Keys, kind : Kinds],
           pc[t] \in {"lookup", "pipeline", "insert"},
           a.key = Key(t), a.kind = "empty" <=> Key(t) \notin Located,
           GiveAnswer(t, a)
    PROVE  (CallTypeOK /\ CallsInProgress /\ AnswersMatch)'
<1> USE DEF CacheInv, TypeOK, CallTypeOK
<1>1. asked' = asked /\ mode' = mode
  BY DEF GiveAnswer
<1>2. Len(out[t]) < Len(asked[t]) /\ asked[t] \in Seq(Keys)
  BY DEF CallsInProgress
<1>3. \A u \in Threads : u # t => out'[u] = out[u] /\ pc'[u] = pc[u] /\ text'[u] = text[u]
  BY DEF GiveAnswer
<1>4. /\ out'[t] = Append(out[t], a)
      /\ pc'[t] = IF Len(out[t]) + 1 = Len(asked[t]) THEN "done" ELSE "lookup"
  BY DEF GiveAnswer
<1>5. out[t] \in Seq([key : Keys, kind : Kinds])
  OBVIOUS
<1>6. Len(out'[t]) = Len(out[t]) + 1
  BY <1>4, <1>5
<1>7. CallsInProgress'
  <2> SUFFICES ASSUME NEW u \in Threads
               PROVE  /\ pc'[u] = "idle" => out'[u] = <<>> /\ asked'[u] = <<>>
                      /\ pc'[u] \in {"lookup", "pipeline", "insert"}
                            => Len(out'[u]) < Len(asked'[u])
                      /\ pc'[u] = "insert" => /\ text'[u] \in Texts
                                              /\ text'[u].key = Key(u)'
                                              /\ Key(u)' \in Located
    BY DEF CallsInProgress
  <2>1. CASE u = t
    BY <2>1, <1>1, <1>2, <1>4, <1>6
  <2>2. CASE u # t
    BY <2>2, <1>1, <1>3 DEF CallsInProgress, Key
  <2> QED BY <2>1, <2>2
<1>8. AnswersMatch'
  <2> SUFFICES ASSUME NEW u \in Threads
               PROVE  /\ pc'[u] = "done" => Len(out'[u]) = Len(asked'[u])
                      /\ \A i \in 1..Len(out'[u]) :
                            /\ i <= Len(asked'[u])
                            /\ out'[u][i].key = asked'[u][i]
                            /\ out'[u][i].kind = "empty" <=> asked'[u][i] \notin Located
    BY DEF AnswersMatch
  <2>1. CASE u = t
    <3>1. pc'[t] = "done" => Len(out'[t]) = Len(asked'[t])
      BY <1>1, <1>2, <1>4, <1>6
    <3>2. ASSUME NEW i \in 1..Len(out'[t])
          PROVE  /\ i <= Len(asked[t])
                 /\ out'[t][i].key = asked[t][i]
                 /\ out'[t][i].kind = "empty" <=> asked[t][i] \notin Located
      <4>1. CASE i = Len(out[t]) + 1
        <5>1. out'[t][i] = a
          BY <4>1, <1>4, <1>5
        <5> QED BY <4>1, <5>1, <1>2, <1>5 DEF Key
      <4>2. CASE i # Len(out[t]) + 1
        <5>1. i \in 1..Len(out[t]) /\ out'[t][i] = out[t][i]
          BY <4>2, <1>4, <1>5, <1>6
        <5> QED BY <5>1 DEF AnswersMatch
      <4> QED BY <4>1, <4>2
    <3> QED BY <2>1, <1>1, <3>1, <3>2
  <2>2. CASE u # t
    BY <2>2, <1>1, <1>3 DEF AnswersMatch
  <2> QED BY <2>1, <2>2
<1>9. CallTypeOK'
  <2>1. out' \in [Threads -> Seq([key : Keys, kind : Kinds])]
    <3> DEFINE A == [key : Keys, kind : Kinds]
    <3>1. Append(out[t], a) \in Seq(A)
      BY <1>5
    <3> HIDE DEF A
    <3> QED BY <3>1 DEF GiveAnswer, A
  <2>2. text' \in [Threads -> Texts \cup {<<>>}]
    BY DEF GiveAnswer
  <2>3. pc' \in [Threads -> {"idle", "lookup", "pipeline", "insert", "done"}]
    BY DEF GiveAnswer
  <2> QED BY <1>1, <2>1, <2>2, <2>3
<1>10. QED
  BY <1>7, <1>8, <1>9

\* A cache hit, on the fast path or after losing the insertion race.
LEMMA ReturnCachedInv ==
    ASSUME CacheInv, NEW t \in Threads, pc[t] \in {"lookup", "insert"},
           ReturnCached(t)
    PROVE  CacheInv'
<1> DEFINE i == Pos(Key(t))
           r == SpliceToFront(cache_list, i)
<1>1. Key(t) \in DOMAIN cache_index
  BY DEF ReturnCached
<1>2. i \in 1..Len(cache_list) /\ cache_list[i].node = cache_index[Key(t)]
  BY <1>1 DEF CacheInv, IndexSound, Pos
<1>3. cache_list[i].key = Key(t)
  <2>1. PICK j \in 1..Len(cache_list) : /\ cache_list[j].node = cache_index[Key(t)]
                                        /\ cache_list[j].key = Key(t)
    BY <1>1 DEF CacheInv, IndexSound
  <2> QED BY <1>2, <2>1 DEF CacheInv, NodesDistinct
<1>4. cache_list \in Seq(Entries)
  BY DEF CacheInv, TypeOK, CacheTypeOK
<1>5. /\ cache_list' = r /\ UNCHANGED <<cache_index, cache_capacity, failures>>
      /\ GiveAnswer(t, cache_list[i].text)
  BY DEF ReturnCached
<1>6. /\ r \in Seq(Entries) /\ Len(r) = Len(cache_list)
      /\ \A j \in 1..Len(cache_list) : \E m \in 1..Len(cache_list) : r[j] = cache_list[m]
      /\ \A m \in 1..Len(cache_list) : \E j \in 1..Len(cache_list) : r[j] = cache_list[m]
  BY <1>2, <1>4, SpliceFacts
<1>7. \A p, q \in 1..Len(cache_list) : r[p].node = r[q].node => p = q
  BY <1>2, <1>4, SpliceDistinct DEF CacheInv, NodesDistinct
<1>8. cache_list[i].text \in Texts /\ cache_list[i].text.key = Key(t)
      /\ Key(t) \in Located
  <2>1. cache_list[i] \in Entries
    BY <1>2, <1>4
  <2>2. cache_list[i].text \in Texts
    BY <2>1 DEF Entries
  <2> QED BY <1>2, <1>3, <2>2 DEF CacheInv, EntriesAboutTheirKey
<1>9. (CallTypeOK /\ CallsInProgress /\ AnswersMatch)'
  BY <1>5, <1>8, GiveAnswerInv DEF Texts, Kinds
<1> HIDE DEF i, r
<1>10. CacheTypeOK'
  BY <1>5, <1>6 DEF CacheInv, TypeOK, CacheTypeOK
<1>11. NodesDistinct'
  BY <1>5, <1>6, <1>7 DEF NodesDistinct
<1>12. IndexSound'
  <2> SUFFICES ASSUME NEW k \in DOMAIN cache_index
               PROVE  \E j \in 1..Len(r) : r[j].node = cache_index[k] /\ r[j].key = k
    BY <1>5 DEF IndexSound
  <2>1. PICK m \in 1..Len(cache_list) : /\ cache_list[m].node = cache_index[k]
                                        /\ cache_list[m].key = k
    BY DEF CacheInv, IndexSound
  <2>2. PICK j \in 1..Len(cache_list) : r[j] = cache_list[m]
    BY <1>6
  <2> QED BY <1>6, <2>1, <2>2
<1>13. EntriesAboutTheirKey'
  <2> SUFFICES ASSUME NEW j \in 1..Len(cache_list)
               PROVE  r[j].text.key = r[j].key /\ r[j].key \in Located
    BY <1>5, <1>6 DEF EntriesAboutTheirKey
  <2>1. PICK m \in 1..Len(cache_list) : r[j] = cache_list[m]
    BY <1>6
  <2> QED BY <2>1 DEF CacheInv, EntriesAboutTheirKey
<1>14. QED
  BY <1>9, <1>10, <1>11, <1>12, <1>13 DEF CacheInv, TypeOK

\* Evicting from a sound list and index leaves a sound list and index.
LEMMA EvictInv ==
    ASSUME NEW s \in Seq(Entries), NEW f, NEW cap \in Nat,
           \A k \in DOMAIN f : \E i \in 1..Len(s) : s[i].node = f[k] /\ s[i].key = k,
           \A p, q \in 1..Len(s) : s[p].node = s[q].node => p = q,
           \A i \in 1..Len(s) : s[i].text.key = s[i].key /\ s[i].key \in Located,
           \A k \in DOMAIN f : k \in Keys /\ f[k] \in Nodes,
           cache_list' = EvictList(s, cap), cache_index' = EvictIndex(f, s, cap)
    PROVE  /\ cache_list' \in Seq(Entries)
           /\ DOMAIN cache_index' \subseteq Keys
           /\ \A k \in DOMAIN cache_index' : cache_index'[k] \in Nodes
           /\ (NodesDistinct /\ IndexSound /\ EntriesAboutTheirKey)'
<1> DEFINE n == KeptLen(s, cap)
<1>1. /\ n \in 0..Len(s) /\ cache_list' \in Seq(Entries) /\ Len(cache_list') = n
      /\ \A j \in 1..n : cache_list'[j] = s[j]
  BY EvictFacts
<1>2. /\ DOMAIN cache_index' = DOMAIN f \ {s[i].key : i \in (n+1)..Len(s)}
      /\ \A k \in DOMAIN cache_index' : cache_index'[k] = f[k]
  BY DEF EvictIndex
<1> HIDE DEF n
<1>3. NodesDistinct'
  BY <1>1 DEF NodesDistinct
<1>4. EntriesAboutTheirKey'
  BY <1>1 DEF EntriesAboutTheirKey
<1>5. IndexSound'
  <2> SUFFICES ASSUME NEW k \in DOMAIN cache_index'
               PROVE  \E i \in 1..Len(cache_list') :
                         cache_list'[i].node = cache_index'[k] /\ cache_list'[i].key = k
    BY DEF IndexSound
  <2>1. PICK i \in 1..Len(s) : s[i].node = f[k] /\ s[i].key = k
    BY <1>2
  <2>2. i \notin (n+1)..Len(s)
    BY <1>2, <2>1
  <2>3. i \in 1..n
    BY <1>1, <2>2
  <2> QED BY <1>1, <1>2, <2>1, <2>3
<1>6. QED
  BY <1>1, <1>2, <1>3, <1>4, <1>5

\* A new node in front of a sound list, with or without its index entry.
LEMMA PushFrontFacts ==
    ASSUME CacheInv, NEW t \in Threads, pc[t] = "insert", NEW n \in Nodes \ ListNodes
    PROVE  LET s == <<[node |-> n, key |-> Key(t), text |-> text[t]]>> \o cache_list IN
           /\ s \in Seq(Entries) /\ Len(s) = Len(cache_list) + 1
           /\ s[1] = [node |-> n, key |-> Key(t), text |-> text[t]]
           /\ \A i \in 1..Len(cache_list) : s[i+1] = cache_list[i]
           /\ \A p, q \in 1..Len(s) : s[p].node = s[q].node => p = q
           /\ \A i \in 1..Len(s) : s[i].text.key = s[i].key /\ s[i].key \in Located
<1> DEFINE e == [node |-> n, key |-> Key(t), text |-> text[t]]
           s == <<e>> \o cache_list
<1>1. cache_list \in Seq(Entries)
  BY DEF CacheInv, TypeOK, CacheTypeOK
<1>2. text[t] \in Texts /\ text[t].key = Key(t) /\ Key(t) \in Located
  BY DEF CacheInv, CallsInProgress
<1>3. e \in Entries
  BY <1>2, ConstantsAssumption DEF Entries
<1> HIDE DEF e
<1>4. /\ s \in Seq(Entries) /\ Len(s) = Len(cache_list) + 1 /\ s[1] = e
      /\ \A i \in 1..Len(cache_list) : s[i+1] = cache_list[i]
  BY <1>1, <1>3
<1>5. \A p \in 2..Len(s) : p - 1 \in 1..Len(cache_list) /\ s[p] = cache_list[p-1]
  BY <1>1, <1>4
<1>6. \A i \in 1..Len(cache_list) : cache_list[i].node # n
  BY DEF ListNodes
<1> HIDE DEF s
<1>7. e.node = n /\ e.key = Key(t) /\ e.text = text[t]
  BY DEF e
<1>8. ASSUME NEW p \in 1..Len(s), NEW q \in 1..Len(s), s[p].node = s[q].node
      PROVE  p = q
  <2>1. CASE p = 1 /\ q = 1
    BY <2>1
  <2>2. CASE p = 1 /\ q \in 2..Len(s)
    BY <2>2, <1>4, <1>5, <1>6, <1>7, <1>8
  <2>3. CASE q = 1 /\ p \in 2..Len(s)
    BY <2>3, <1>4, <1>5, <1>6, <1>7, <1>8
  <2>4. CASE p \in 2..Len(s) /\ q \in 2..Len(s)
    <3>1. p - 1 = q - 1
      BY <2>4, <1>5, <1>8 DEF CacheInv, NodesDistinct
    <3> QED BY <3>1
  <2> QED BY <1>1, <1>4, <2>1, <2>2, <2>3, <2>4
<1>9. ASSUME NEW i \in 1..Len(s)
      PROVE  s[i].text.key = s[i].key /\ s[i].key \in Located
  <2>1. CASE i = 1
    BY <2>1, <1>2, <1>4, <1>7
  <2>2. CASE i \in 2..Len(s)
    BY <2>2, <1>5 DEF CacheInv, EntriesAboutTheirKey
  <2> QED BY <1>1, <1>4, <2>1, <2>2
<1>10. QED
  BY <1>4, <1>8, <1>9 DEF s, e

\* The inserting thread answers with the text its pipeline produced.
LEMMA InsertInv ==
    ASSUME CacheInv, NEW t \in Threads, Insert(t)
    PROVE  CacheInv'
<1>1. PICK n \in Nodes \ ListNodes :
        LET s == <<[node |-> n, key |-> Key(t), text |-> text[t]]>> \o cache_list
            f == [k \in DOMAIN cache_index \cup {Key(t)} |->
                     IF k = Key(t) THEN n ELSE cache_index[k]]
        IN  /\ cache_list' = EvictList(s, cache_capacity)
            /\ cache_index' = EvictIndex(f, s, cache_capacity)
  BY DEF Insert
<1> DEFINE s == <<[node |-> n, key |-> Key(t), text |-> text[t]]>> \o cache_list
           f == [k \in DOMAIN cache_index \cup {Key(t)} |->
                    IF k = Key(t) THEN n ELSE cache_index[k]]
<1>2. pc[t] = "insert" /\ UNCHANGED <<cache_capacity, failures>> /\ GiveAnswer(t, text[t])
  BY DEF Insert
<1>3. text[t] \in Texts /\ text[t].key = Key(t) /\ Key(t) \in Located
  BY <1>2 DEF CacheInv, CallsInProgress
<1>4. (CallTypeOK /\ CallsInProgress /\ AnswersMatch)'
  BY <1>2, <1>3, GiveAnswerInv DEF Texts, Kinds
<1>5. /\ s \in Seq(Entries) /\ Len(s) = Len(cache_list) + 1
      /\ s[1].node = n /\ s[1].key = Key(t)
      /\ \A i \in 1..Len(cache_list) : s[i+1] = cache_list[i]
      /\ \A p, q \in 1..Len(s) : s[p].node = s[q].node => p = q
      /\ \A i \in 1..Len(s) : s[i].text.key = s[i].key /\ s[i].key \in Located
  BY <1>2, PushFrontFacts
<1>6. DOMAIN f = DOMAIN cache_index \cup {Key(t)} /\ f[Key(t)] = n
      /\ \A k \in DOMAIN cache_index : k # Key(t) => f[k] = cache_index[k]
  OBVIOUS
<1>7. cache_list' = EvictList(s, cache_capacity) /\ cache_index' = EvictIndex(f, s, cache_capacity)
  BY <1>1
<1> HIDE DEF s, f
<1>8. \A k \in DOMAIN f : k \in Keys /\ f[k] \in Nodes
  BY <1>3, <1>6, ConstantsAssumption DEF CacheInv, TypeOK, CacheTypeOK
<1>9. ASSUME NEW k \in DOMAIN f
      PROVE  \E i \in 1..Len(s) : s[i].node = f[k] /\ s[i].key = k
  <2>1. CASE k = Key(t)
    <3>1. 1 \in 1..Len(s)
      BY <1>5 DEF CacheInv, TypeOK, CacheTypeOK
    <3> QED BY <2>1, <3>1, <1>5, <1>6
  <2>2. CASE k # Key(t)
    <3>1. PICK i \in 1..Len(cache_list) : cache_list[i].node = cache_index[k] /\ cache_list[i].key = k
      BY <2>2, <1>6 DEF CacheInv, IndexSound
    <3>2. i + 1 \in 1..Len(s)
      BY <1>5 DEF CacheInv, TypeOK, CacheTypeOK
    <3> QED BY <2>2, <3>1, <3>2, <1>5, <1>6
  <2> QED BY <2>1, <2>2
<1>10. cache_capacity \in Nat
  BY ConstantsAssumption DEF CacheInv, TypeOK, CacheTypeOK
<1>11. /\ cache_list' \in Seq(Entries)
       /\ DOMAIN cache_index' \subseteq Keys
       /\ \A k \in DOMAIN cache_index' : cache_index'[k] \in Nodes
       /\ (NodesDistinct /\ IndexSound /\ EntriesAboutTheirKey)'
  BY <1>5, <1>7, <1>8, <1>9, <1>10, EvictInv
<1>12. QED
  BY <1>2, <1>4, <1>11 DEF CacheInv, TypeOK, CacheTypeOK

\* A failed index allocation leaves an unindexed node, never a bad entry.
LEMMA InsertFailsInv ==
    ASSUME CacheInv, NEW t \in Threads, InsertFails(t)
    PROVE  CacheInv'
<1>1. PICK n \in Nodes \ ListNodes :
        cache_list' = <<[node |-> n, key |-> Key(t), text |-> text[t]]>> \o cache_list
  BY DEF InsertFails
<1>2. /\ pc[t] = "insert" /\ UNCHANGED <<cache_index, cache_capacity>>
      /\ failures < MaxFailures /\ failures' = failures + 1
      /\ GiveAnswer(t, Answer(Key(t), "threw"))
  BY DEF InsertFails
<1>3. Key(t) \in Located
  BY <1>2 DEF CacheInv, CallsInProgress
<1>4. (CallTypeOK /\ CallsInProgress /\ AnswersMatch)'
  BY <1>2, <1>3, GiveAnswerInv, ConstantsAssumption DEF Answer, Kinds
<1>5. /\ cache_list' \in Seq(Entries) /\ Len(cache_list') = Len(cache_list) + 1
      /\ \A i \in 1..Len(cache_list) : cache_list'[i+1] = cache_list[i]
      /\ \A p, q \in 1..Len(cache_list') : cache_list'[p].node = cache_list'[q].node => p = q
      /\ \A i \in 1..Len(cache_list') :
            cache_list'[i].text.key = cache_list'[i].key /\ cache_list'[i].key \in Located
  BY <1>1, <1>2, PushFrontFacts
<1>6. IndexSound'
  <2> SUFFICES ASSUME NEW k \in DOMAIN cache_index
               PROVE  \E j \in 1..Len(cache_list') :
                         cache_list'[j].node = cache_index[k] /\ cache_list'[j].key = k
    BY <1>2 DEF IndexSound
  <2>1. PICK i \in 1..Len(cache_list) : /\ cache_list[i].node = cache_index[k]
                                        /\ cache_list[i].key = k
    BY DEF CacheInv, IndexSound
  <2>2. i + 1 \in 1..Len(cache_list')
    BY <1>5 DEF CacheInv, TypeOK, CacheTypeOK
  <2> QED BY <1>5, <2>1, <2>2
<1>7. (NodesDistinct /\ EntriesAboutTheirKey)'
  BY <1>5 DEF NodesDistinct, EntriesAboutTheirKey
<1>8. CacheTypeOK'
  BY <1>2, <1>5, ConstantsAssumption DEF CacheInv, TypeOK, CacheTypeOK
<1>9. QED
  BY <1>4, <1>6, <1>7, <1>8 DEF CacheInv, TypeOK

\* A thread that starts a call, misses or gets its text touches no shared state.
LEMMA CallStepInv ==
    ASSUME CacheInv, NEW t \in Threads,
           \/ \E k \in Keys : CallMethod(t, k) \/ CallWithPcMap(t, k)
           \/ \E ks \in Classes : CallClass(t, ks)
           \/ Miss(t) \/ NotLocated(t) \/ RunPipeline(t) \/ Return(t)
    PROVE  CacheInv'
<1>1. UNCHANGED shared
  BY DEF CallMethod, CallWithPcMap, CallClass, Miss, NotLocated, RunPipeline, Return
<1>2. CacheTypeOK'
  BY <1>1 DEF CacheInv, TypeOK, CacheTypeOK, shared
<1>3. SUFFICES (CallTypeOK /\ CallsInProgress /\ AnswersMatch)'
  BY <1>1, <1>2, SharedUnchanged DEF CacheInv, TypeOK
<1>4. ASSUME NEW ks \in Seq(Keys) \ {<<>>}, NEW m \in {"method", "class", "pcmap"},
             NEW w \in {"lookup", "pipeline"}, pc[t] = "idle",
             mode' = [mode EXCEPT ![t] = m], asked' = [asked EXCEPT ![t] = ks],
             pc' = [pc EXCEPT ![t] = w], UNCHANGED <<text, out>>
      PROVE  (CallTypeOK /\ CallsInProgress /\ AnswersMatch)'
  <2>1. out[t] = <<>> /\ Len(ks) > 0
    BY <1>4 DEF CacheInv, CallsInProgress
  <2>2. CallTypeOK'
    BY <1>4 DEF CacheInv, TypeOK, CallTypeOK
  <2>3. CallsInProgress'
    BY <1>4, <2>1 DEF CacheInv, TypeOK, CallTypeOK, CallsInProgress, Key
  <2>4. AnswersMatch'
    BY <1>4, <2>1 DEF CacheInv, TypeOK, CallTypeOK, AnswersMatch
  <2> QED BY <2>2, <2>3, <2>4
<1>5. CASE \E k \in Keys : CallMethod(t, k) \/ CallWithPcMap(t, k)
  <2>1. PICK k \in Keys : CallMethod(t, k) \/ CallWithPcMap(t, k)
    BY <1>5
  <2>2. <<k>> \in Seq(Keys) \ {<<>>}
    OBVIOUS
  <2> QED BY <2>1, <2>2, <1>4 DEF CallMethod, CallWithPcMap
<1>6. CASE \E ks \in Classes : CallClass(t, ks)
  <2>1. PICK ks \in Classes : CallClass(t, ks)
    BY <1>6
  <2>2. ks \in Seq(Keys) \ {<<>>}
    BY ConstantsAssumption
  <2> QED BY <2>1, <2>2, <1>4 DEF CallClass
<1>7. CASE Miss(t)
  <2>1. CallTypeOK'
    BY <1>7 DEF CacheInv, TypeOK, CallTypeOK, Miss
  <2>2. CallsInProgress'
    BY <1>7 DEF CacheInv, TypeOK, CallTypeOK, CallsInProgress, Miss, Key
  <2>3. AnswersMatch'
    BY <1>7 DEF CacheInv, TypeOK, CallTypeOK, AnswersMatch, Miss
  <2> QED BY <2>1, <2>2, <2>3
<1>8. CASE NotLocated(t)
  <2>1. Key(t) \in Keys
    BY <1>8 DEF NotLocated, CacheInv, TypeOK, CallTypeOK, CallsInProgress, Key
  <2> QED BY <1>8, <2>1, GiveAnswerInv DEF NotLocated, Answer, Kinds
<1>9. CASE RunPipeline(t)
  <2>1. PICK kind \in {"java", "error"} :
          IF mode[t] = "pcmap"
          THEN GiveAnswer(t, Answer(Key(t), kind))
          ELSE /\ text' = [text EXCEPT ![t] = Answer(Key(t), kind)]
               /\ pc' = [pc EXCEPT ![t] = "insert"]
               /\ UNCHANGED <<mode, asked, out>>
    BY <1>9 DEF RunPipeline, PipelineOutcomes
  <2>2. pc[t] = "pipeline" /\ Key(t) \in Located
    BY <1>9 DEF RunPipeline
  <2>3. CASE mode[t] = "pcmap"
    BY <2>1, <2>2, <2>3, GiveAnswerInv, ConstantsAssumption DEF Answer, Kinds
  <2>4. CASE mode[t] # "pcmap"
    <3>1. Answer(Key(t), kind) \in Texts /\ Answer(Key(t), kind).key = Key(t)
      BY <2>1, <2>2, ConstantsAssumption DEF Answer, Texts
    <3>2. CallTypeOK'
      BY <2>1, <2>4, <3>1 DEF CacheInv, TypeOK, CallTypeOK
    <3>3. AnswersMatch'
      BY <2>1, <2>4 DEF CacheInv, TypeOK, CallTypeOK, AnswersMatch
    <3>4. CallsInProgress'
      BY <2>1, <2>2, <2>4, <3>1
         DEF CacheInv, TypeOK, CallTypeOK, CallsInProgress, Key
    <3> QED BY <3>2, <3>3, <3>4
  <2> QED BY <2>3, <2>4
<1>10. CASE Return(t)
  <2>1. CallTypeOK'
    <3> DEFINE A == [key : Keys, kind : Kinds]
    <3>1. out \in [Threads -> Seq(A)]
      BY DEF CacheInv, TypeOK, CallTypeOK
    <3> HIDE DEF A
    <3>2. out' \in [Threads -> Seq(A)]
      BY <1>10, <3>1 DEF Return
    <3>3. asked' \in [Threads -> Seq(Keys)]
      BY <1>10 DEF Return, CacheInv, TypeOK, CallTypeOK
    <3>4. pc' \in [Threads -> {"idle", "lookup", "pipeline", "insert", "done"}]
      BY <1>10 DEF Return, CacheInv, TypeOK, CallTypeOK
    <3> QED BY <1>10, <3>2, <3>3, <3>4 DEF A, Return, CacheInv, TypeOK, CallTypeOK
  <2>2. CallsInProgress'
    BY <1>10 DEF CacheInv, TypeOK, CallTypeOK, CallsInProgress, Return, Key
  <2>3. AnswersMatch'
    BY <1>10 DEF CacheInv, TypeOK, CallTypeOK, AnswersMatch, Return
  <2> QED BY <2>1, <2>2, <2>3
<1>11. QED
  BY <1>5, <1>6, <1>7, <1>8, <1>9, <1>10

\* Lowering, raising or lifting the capacity.
LEMMA SetCacheCapacityInv ==
    ASSUME CacheInv, NEW cap \in Capacities, SetCacheCapacity(cap)
    PROVE  CacheInv'
<1>1. /\ cache_list' = EvictList(cache_list, cap)
      /\ cache_index' = EvictIndex(cache_index, cache_list, cap)
      /\ cache_capacity' = cap /\ failures' = failures
      /\ UNCHANGED <<pc, mode, asked, text, out>>
  BY DEF SetCacheCapacity
<1>2. cap \in Nat
  BY ConstantsAssumption
<1>3. /\ cache_list' \in Seq(Entries)
      /\ DOMAIN cache_index' \subseteq Keys
      /\ \A k \in DOMAIN cache_index' : cache_index'[k] \in Nodes
      /\ (NodesDistinct /\ IndexSound /\ EntriesAboutTheirKey)'
  <2>1. cache_list \in Seq(Entries) /\ \A k \in DOMAIN cache_index : k \in Keys /\ cache_index[k] \in Nodes
    BY DEF CacheInv, TypeOK, CacheTypeOK
  <2>2. \A k \in DOMAIN cache_index : \E i \in 1..Len(cache_list) :
           cache_list[i].node = cache_index[k] /\ cache_list[i].key = k
    BY DEF CacheInv, IndexSound
  <2>3. \A p, q \in 1..Len(cache_list) : cache_list[p].node = cache_list[q].node => p = q
    BY DEF CacheInv, NodesDistinct
  <2>4. \A i \in 1..Len(cache_list) :
           cache_list[i].text.key = cache_list[i].key /\ cache_list[i].key \in Located
    BY DEF CacheInv, EntriesAboutTheirKey
  <2> QED BY <1>1, <1>2, <2>1, <2>2, <2>3, <2>4, EvictInv
<1>4. (CallTypeOK /\ CallsInProgress /\ AnswersMatch)'
  BY <1>1, CallsUnchanged
<1>5. QED
  BY <1>1, <1>3, <1>4 DEF CacheInv, TypeOK, CacheTypeOK

-----------------------------------------------------------------------------
\* The empty cache of a new Decompiler satisfies the invariant.
LEMMA InitInv == Init => CacheInv
BY ConstantsAssumption
   DEF Init, CacheInv, TypeOK, CacheTypeOK, CallTypeOK, NodesDistinct, IndexSound,
       CallsInProgress, EntriesAboutTheirKey, AnswersMatch

\* Every step of the facade, by any thread, preserves the invariant.
LEMMA NextInv == CacheInv /\ [Next]_vars => CacheInv'
<1> SUFFICES ASSUME CacheInv, [Next]_vars PROVE CacheInv'
  OBVIOUS
<1>1. CASE UNCHANGED vars
  <2>1. UNCHANGED shared /\ UNCHANGED <<pc, mode, asked, text, out>>
    BY <1>1 DEF vars
  <2>2. CacheTypeOK'
    BY <2>1 DEF CacheInv, TypeOK, CacheTypeOK, shared
  <2> QED BY <2>1, <2>2, SharedUnchanged, CallsUnchanged DEF CacheInv, TypeOK
<1>2. ASSUME NEW t \in Threads, Hit(t) \/ InsertRace(t)
      PROVE  CacheInv'
  BY <1>2, ReturnCachedInv DEF Hit, InsertRace
<1>3. ASSUME NEW t \in Threads, Insert(t)
      PROVE  CacheInv'
  BY <1>3, InsertInv
<1>4. ASSUME NEW t \in Threads, InsertFails(t)
      PROVE  CacheInv'
  BY <1>4, InsertFailsInv
<1>5. ASSUME NEW t \in Threads,
             \/ \E k \in Keys : CallMethod(t, k) \/ CallWithPcMap(t, k)
             \/ \E ks \in Classes : CallClass(t, ks)
             \/ Miss(t) \/ NotLocated(t) \/ RunPipeline(t) \/ Return(t)
      PROVE  CacheInv'
  BY <1>5, CallStepInv
<1>6. CASE ClearCache
  <2>1. (CallTypeOK /\ CallsInProgress /\ AnswersMatch)'
    BY <1>6, CallsUnchanged DEF ClearCache
  <2>2. (CacheTypeOK /\ NodesDistinct /\ IndexSound /\ EntriesAboutTheirKey)'
    BY <1>6 DEF ClearCache, CacheInv, TypeOK, CacheTypeOK, NodesDistinct,
       IndexSound, EntriesAboutTheirKey
  <2> QED BY <2>1, <2>2 DEF CacheInv, TypeOK
<1>7. ASSUME NEW cap \in Capacities, SetCacheCapacity(cap)
      PROVE  CacheInv'
  BY <1>7, SetCacheCapacityInv
<1>8. QED
  BY <1>1, <1>2, <1>3, <1>4, <1>5, <1>6, <1>7 DEF Next, Step

\* Type correctness of the facade's state in every reachable state.
THEOREM TypeCorrect == Spec => []TypeOK
<1>1. CacheInv => TypeOK
  BY DEF CacheInv
<1>2. QED
  BY InitInv, NextInv, <1>1, PTL DEF Spec

\* No iterator or string_view of cache_index_ ever outlives its list node,
\* failed insertions included.
THEOREM IndexNeverDangles == Spec => []IndexSound
<1>1. CacheInv => IndexSound
  BY DEF CacheInv
<1>2. QED
  BY InitInv, NextInv, <1>1, PTL DEF Spec

\* Every answer of a method or class decompilation is about the descriptor in
\* its place, and only unlocated descriptors come back empty.
THEOREM AnswersAreRight == Spec => []AnswersMatch
<1>1. CacheInv => AnswersMatch
  BY DEF CacheInv
<1>2. QED
  BY InitInv, NextInv, <1>1, PTL DEF Spec

-----------------------------------------------------------------------------
(* The order of the list and the size of the index. *)

\* A descriptor is in the history of uses once.
UsedOnce ==
    /\ lastUse \in Seq(Keys)
    /\ \A i, j \in 1..Len(lastUse) : lastUse[i] = lastUse[j] => i = j

\* While no insertion has failed the list is the front of the history, and the
\* index knows the descriptors of the list.
ListIsRecent ==
    failures = 0 =>
        /\ Len(cache_list) <= Len(lastUse)
        /\ \A i \in 1..Len(cache_list) : cache_list[i].key = lastUse[i]
        /\ DOMAIN cache_index = {cache_list[i].key : i \in 1..Len(cache_list)}

\* The index has room for what it holds.
IndexFits ==
    cache_capacity # 0 => Cardinality(DOMAIN cache_index) <= cache_capacity

LruInv == UsedOnce /\ ListIsRecent /\ IndexFits

\* A list has at most as many keys as nodes, and as many if they are distinct.
LEMMA KeyCount ==
    ASSUME NEW s \in Seq(Entries)
    PROVE  LET K == {s[i].key : i \in 1..Len(s)}
           IN  /\ IsFiniteSet(K) /\ Cardinality(K) <= Len(s)
               /\ (\A i, j \in 1..Len(s) : s[i].key = s[j].key => i = j) => Cardinality(K) = Len(s)
<1> DEFINE K == {s[i].key : i \in 1..Len(s)}
           f == [i \in 1..Len(s) |-> s[i].key]
<1>1. IsFiniteSet(1..Len(s)) /\ Cardinality(1..Len(s)) = Len(s)
  <2>1. Len(s) \in Nat
    OBVIOUS
  <2> QED BY <2>1, FS_Interval
<1>2. f \in Surjection(1..Len(s), K)
  BY DEF Surjection
<1>3. (\A i, j \in 1..Len(s) : s[i].key = s[j].key => i = j) => f \in Injection(1..Len(s), K)
  BY DEF Injection, IsInjective
<1> HIDE DEF f, K
<1>4. /\ IsFiniteSet(K) /\ Cardinality(K) <= Cardinality(1..Len(s))
      /\ Cardinality(K) = Cardinality(1..Len(s)) <=> f \in Injection(1..Len(s), K)
  BY <1>1, <1>2, FS_Surjection
<1> QED BY <1>1, <1>3, <1>4 DEF K

\* An index whose descriptors are all in a list is no larger than the list.
LEMMA IndexSmallerThanList ==
    ASSUME NEW s \in Seq(Entries), NEW f,
           \A k \in DOMAIN f : \E i \in 1..Len(s) : s[i].key = k
    PROVE  IsFiniteSet(DOMAIN f) /\ Cardinality(DOMAIN f) <= Len(s)
<1> DEFINE K == {s[i].key : i \in 1..Len(s)}
<1>1. IsFiniteSet(K) /\ Cardinality(K) <= Len(s)
  BY KeyCount
<1>2. DOMAIN f \subseteq K
  OBVIOUS
<1> HIDE DEF K
<1>3. IsFiniteSet(DOMAIN f) /\ Cardinality(DOMAIN f) <= Cardinality(K)
  BY <1>1, <1>2, FS_Subset
<1>4. Cardinality(K) \in Nat /\ Cardinality(DOMAIN f) \in Nat /\ Len(s) \in Nat
  BY <1>1, <1>3, FS_CardinalityType
<1> QED BY <1>1, <1>3, <1>4

\* Using a descriptor puts it in front of the history.
LEMMA TouchFacts ==
    ASSUME UsedOnce, NEW k \in Keys
    PROVE  /\ Touch(k) \in Seq(Keys) /\ Len(Touch(k)) >= Len(lastUse)
           /\ \A i, j \in 1..Len(Touch(k)) : Touch(k)[i] = Touch(k)[j] => i = j
           /\ Len(Touch(k)) >= 1 /\ Touch(k)[1] = k
           /\ \E at \in 1..(Len(lastUse) + 1) :
                /\ at <= Len(lastUse) => lastUse[at] = k
                /\ at = Len(lastUse) + 1 => \A i \in 1..Len(lastUse) : lastUse[i] # k
                /\ at <= Len(Touch(k))
                /\ \A j \in 2..Len(Touch(k)) :
                     Touch(k)[j] = IF j <= at THEN lastUse[j - 1] ELSE lastUse[j]
<1> DEFINE n == Len(lastUse)
           at == IF \E i \in 1..n : lastUse[i] = k THEN CHOOSE i \in 1..n : lastUse[i] = k
                                                  ELSE n + 1
           m == IF at > n THEN at ELSE n
           r == [j \in 1..m |->
                    IF j = 1 THEN k ELSE IF j <= at THEN lastUse[j - 1] ELSE lastUse[j]]
           from(j) == IF j = 1 THEN at ELSE IF j <= at THEN j - 1 ELSE j
<1>1. n \in Nat /\ \A i \in 1..n : lastUse[i] \in Keys
  BY DEF UsedOnce
<1>2. /\ at \in 1..(n + 1)
      /\ at <= n => lastUse[at] = k
      /\ at = n + 1 => \A i \in 1..n : lastUse[i] # k
  BY <1>1
<1>3. Touch(k) = r
  BY DEF Touch
<1> HIDE DEF at
<1>4. /\ m \in Nat /\ m >= 1 /\ m >= n /\ at <= m
      /\ at <= n => m = n
      /\ at = n + 1 => m = n + 1
  <2> HIDE DEF n
  <2> QED BY <1>1, <1>2
<1>5. /\ \A j \in 1..m : /\ from(j) \in 1..m
                         /\ from(j) # at => from(j) \in 1..n
                         /\ from(j) = at <=> j = 1
      /\ \A i, j \in 1..m : from(i) = from(j) => i = j
  <2> HIDE DEF n, m
  <2>1. at \in Int /\ n \in Nat /\ m \in Nat /\ at >= 1 /\ at <= n + 1
    BY <1>1, <1>2, <1>4
  <2>2. ASSUME NEW j \in 1..m
        PROVE  /\ from(j) \in 1..m
               /\ from(j) # at => from(j) \in 1..n
               /\ from(j) = at <=> j = 1
    BY <1>4, <2>1
  <2>3. ASSUME NEW i \in 1..m, NEW j \in 1..m, from(i) = from(j) PROVE i = j
    BY <2>1, <2>3
  <2> QED BY <2>2, <2>3
<1>6. /\ DOMAIN r = 1..m /\ r[1] = k
      /\ \A j \in 2..m : r[j] = IF j <= at THEN lastUse[j - 1] ELSE lastUse[j]
      /\ \A j \in 1..m : r[j] = IF from(j) = at THEN k ELSE lastUse[from(j)]
  BY <1>4, <1>5
<1> HIDE DEF m
<1>7. \A j \in 1..m : r[j] \in Keys
  BY <1>1, <1>5, <1>6
<1>8. r \in Seq(Keys) /\ Len(r) = m
  BY <1>4, <1>6, <1>7
<1>9. ASSUME NEW i \in 1..m, NEW j \in 1..m, r[i] = r[j] PROVE i = j
  <2>1. CASE from(i) = at /\ from(j) = at
    BY <1>5, <2>1
  <2>2. CASE from(i) # at /\ from(j) # at
    BY <1>5, <1>6, <1>9, <2>2 DEF UsedOnce
  <2>3. ASSUME NEW p \in 1..m, from(p) # at PROVE r[p] # k
    <3>1. from(p) \in 1..n /\ r[p] = lastUse[from(p)]
      BY <1>5, <1>6, <2>3
    <3>2. CASE at <= n
      <4>1. at \in 1..n /\ lastUse[at] = k
        BY <1>1, <1>2, <3>2
      <4> QED BY <2>3, <3>1, <4>1 DEF UsedOnce
    <3>3. CASE at = n + 1
      BY <1>2, <3>1, <3>3
    <3> QED BY <1>1, <1>2, <3>2, <3>3
  <2>4. ASSUME NEW p \in 1..m, from(p) = at PROVE r[p] = k
    BY <1>6, <2>4
  <2> QED BY <1>9, <2>1, <2>2, <2>3, <2>4
<1> HIDE DEF r, from, n
<1>10. /\ r \in Seq(Keys) /\ Len(r) >= n /\ Len(r) >= 1 /\ r[1] = k /\ at <= Len(r)
       /\ \A i, j \in 1..Len(r) : r[i] = r[j] => i = j
       /\ \A j \in 2..Len(r) : r[j] = IF j <= at THEN lastUse[j - 1] ELSE lastUse[j]
  BY <1>4, <1>6, <1>8, <1>9
<1> QED BY <1>2, <1>3, <1>10 DEF n

\* A hit moves its entry to the front of the list and of the history.
LEMMA ReturnCachedLru ==
    ASSUME CacheInv, LruInv, NEW t \in Threads, pc[t] \in {"lookup", "insert"}, ReturnCached(t)
    PROVE  LruInv'
<1> DEFINE k == Key(t)
           i == Pos(k)
           h == Touch(k)
<1>1. /\ k \in DOMAIN cache_index /\ k \in Keys /\ cache_list \in Seq(Entries)
      /\ i \in 1..Len(cache_list) /\ cache_list[i].key = k
  <2>1. k \in DOMAIN cache_index
    BY DEF ReturnCached
  <2>2. k \in Keys /\ cache_list \in Seq(Entries)
    BY <2>1 DEF CacheInv, TypeOK, CacheTypeOK
  <2>3. PICK j \in 1..Len(cache_list) : cache_list[j].node = cache_index[k] /\ cache_list[j].key = k
    BY <2>1 DEF CacheInv, IndexSound
  <2>4. i \in 1..Len(cache_list) /\ cache_list[i].node = cache_index[k]
    BY <2>3 DEF Pos
  <2> QED BY <2>1, <2>2, <2>3, <2>4 DEF CacheInv, NodesDistinct
<1>2. /\ cache_list' = SpliceToFront(cache_list, i) /\ lastUse' = h
      /\ UNCHANGED <<cache_index, cache_capacity, failures>>
  BY DEF ReturnCached
<1>3. UsedOnce
  BY DEF LruInv
<1> HIDE DEF k, i
<1>4. PICK at \in 1..(Len(lastUse) + 1) :
        /\ at <= Len(lastUse) => lastUse[at] = k
        /\ at = Len(lastUse) + 1 => \A j \in 1..Len(lastUse) : lastUse[j] # k
        /\ at <= Len(h)
        /\ \A j \in 2..Len(h) : h[j] = IF j <= at THEN lastUse[j - 1] ELSE lastUse[j]
  BY <1>1, <1>3, TouchFacts
<1>5. /\ h \in Seq(Keys) /\ Len(h) >= Len(lastUse) /\ h[1] = k
      /\ \A p, q \in 1..Len(h) : h[p] = h[q] => p = q
  BY <1>1, <1>3, TouchFacts
<1> HIDE DEF h
<1>6. UsedOnce'
  BY <1>2, <1>5 DEF UsedOnce
<1>7. IndexFits'
  BY <1>2 DEF LruInv, IndexFits
<1>8. ASSUME failures = 0
      PROVE  /\ Len(cache_list') <= Len(lastUse')
             /\ \A j \in 1..Len(cache_list') : cache_list'[j].key = lastUse'[j]
             /\ DOMAIN cache_index = {cache_list'[j].key : j \in 1..Len(cache_list')}
  <2> DEFINE r == SpliceToFront(cache_list, i)
             n == Len(cache_list)
  <2>1. /\ n <= Len(lastUse)
        /\ \A j \in 1..n : cache_list[j].key = lastUse[j]
        /\ DOMAIN cache_index = {cache_list[j].key : j \in 1..n}
    BY <1>8 DEF LruInv, ListIsRecent
  <2>2. /\ Len(r) = n /\ n \in Nat
        /\ \A j \in 1..n : r[j] = IF j = 1 THEN cache_list[i]
                                  ELSE IF j <= i THEN cache_list[j - 1] ELSE cache_list[j]
    BY <1>1 DEF SpliceToFront
  <2> HIDE DEF r
  <2>2a. {cache_list[j].key : j \in 1..n} = {r[j].key : j \in 1..n}
    <3>1. /\ \A j \in 1..n : \E m \in 1..n : r[j] = cache_list[m]
          /\ \A m \in 1..n : \E j \in 1..n : r[j] = cache_list[m]
      BY <1>1, SpliceFacts DEF r
    <3>2. ASSUME NEW j \in 1..n PROVE cache_list[j].key \in {r[m].key : m \in 1..n}
      BY <3>1
    <3>3. ASSUME NEW j \in 1..n PROVE r[j].key \in {cache_list[m].key : m \in 1..n}
      BY <3>1
    <3> HIDE DEF n
    <3> QED BY <3>2, <3>3
  <2>3. at = i
    <3>1. i \in 1..Len(lastUse) /\ lastUse[i] = k
      <4>1. Len(lastUse) \in Nat
        BY <1>3 DEF UsedOnce
      <4> QED BY <1>1, <2>1, <2>2, <4>1
    <3>2. CASE at \in 1..Len(lastUse)
      <4>1. lastUse[at] = k
        BY <1>4, <3>2
      <4> QED BY <1>3, <3>1, <3>2, <4>1 DEF UsedOnce
    <3>3. CASE at = Len(lastUse) + 1
      BY <1>4, <3>1, <3>3
    <3>4. Len(lastUse) \in Nat
      BY <1>3 DEF UsedOnce
    <3> QED BY <1>4, <3>2, <3>3, <3>4
  <2>4. Len(h) \in Nat /\ Len(lastUse) \in Nat
    BY <1>3, <1>5 DEF UsedOnce
  <2> HIDE DEF n
  <2>5. ASSUME NEW j \in 1..n PROVE r[j].key = h[j]
    <3>1. CASE j = 1
      BY <1>1, <1>5, <2>2, <3>1
    <3>2. CASE j # 1 /\ j <= i
      <4>1. j - 1 \in 1..n /\ j \in 2..Len(h)
        <5>1. n <= Len(h) /\ i \in 1..n
          BY <1>1, <1>5, <2>1, <2>2, <2>4 DEF n
        <5> QED BY <2>2, <2>4, <3>2, <5>1
      <4> QED BY <1>4, <2>1, <2>2, <2>3, <3>2, <4>1
    <3>3. CASE j # 1 /\ ~(j <= i)
      <4>1. j \in 2..Len(h)
        <5>1. n <= Len(h) /\ i \in 1..n
          BY <1>1, <1>5, <2>1, <2>2, <2>4 DEF n
        <5> QED BY <2>2, <2>4, <3>3, <5>1
      <4> QED BY <1>4, <2>1, <2>2, <2>3, <3>3, <4>1
    <3> QED BY <3>1, <3>2, <3>3
  <2>6. n <= Len(h)
    BY <1>5, <2>1, <2>2, <2>4
  <2>7. Len(cache_list') = n /\ cache_list' = r
    BY <1>2, <2>2 DEF r
  <2>8. DOMAIN cache_index = {r[j].key : j \in 1..n}
    BY <2>1, <2>2a
  <2> QED BY <1>2, <2>5, <2>6, <2>7, <2>8
<1> QED BY <1>2, <1>6, <1>7, <1>8 DEF LruInv, ListIsRecent

\* What the eviction loop leaves of a list whose keys are distinct, and of an
\* index that knows exactly those.
LEMMA EvictKeepsIndex ==
    ASSUME NEW s \in Seq(Entries), NEW f, NEW cap \in Nat,
           \A i, j \in 1..Len(s) : s[i].key = s[j].key => i = j,
           DOMAIN f = {s[i].key : i \in 1..Len(s)}
    PROVE  LET e == EvictList(s, cap)
           IN  DOMAIN EvictIndex(f, s, cap) = {e[i].key : i \in 1..Len(e)}
<1> DEFINE n == KeptLen(s, cap)
           e == EvictList(s, cap)
<1>1. /\ n \in 0..Len(s) /\ Len(e) = n /\ Len(s) \in Nat
      /\ \A j \in 1..n : e[j] = s[j]
  <2>1. Len(s) \in Nat
    OBVIOUS
  <2> HIDE DEF n, e
  <2> QED BY <2>1, EvictFacts DEF n, e
<1>2. DOMAIN EvictIndex(f, s, cap) = DOMAIN f \ {s[i].key : i \in (n + 1)..Len(s)}
  BY DEF EvictIndex
<1> HIDE DEF n, e
<1>3. ASSUME NEW x \in DOMAIN f, x \notin {s[i].key : i \in (n + 1)..Len(s)}
      PROVE  x \in {e[i].key : i \in 1..Len(e)}
  <2>1. PICK i \in 1..Len(s) : x = s[i].key
    OBVIOUS
  <2>2. i \in 1..n
    BY <1>1, <1>3, <2>1
  <2> QED BY <1>1, <2>1, <2>2
<1>4. ASSUME NEW i \in 1..n
      PROVE  e[i].key \in DOMAIN f /\ e[i].key \notin {s[j].key : j \in (n + 1)..Len(s)}
  <2>1. i \in 1..Len(s) /\ e[i] = s[i]
    BY <1>1
  <2>2. ASSUME NEW j \in (n + 1)..Len(s) PROVE s[j].key # s[i].key
    <3>1. j \in 1..Len(s) /\ j # i
      BY <1>1
    <3> QED BY <2>1, <3>1
  <2> QED BY <2>1, <2>2
<1> QED BY <1>1, <1>2, <1>3, <1>4 DEF e

\* An insertion uses its descriptor and evicts from the end.
LEMMA InsertLru ==
    ASSUME CacheInv, LruInv, CacheInv', NEW t \in Threads, Insert(t)
    PROVE  LruInv'
<1> DEFINE k == Key(t)
           h == Touch(k)
<1>1. PICK n \in Nodes \ ListNodes :
        LET s == <<[node |-> n, key |-> Key(t), text |-> text[t]]>> \o cache_list
            f == [x \in DOMAIN cache_index \cup {Key(t)} |->
                     IF x = Key(t) THEN n ELSE cache_index[x]]
        IN  /\ cache_list' = EvictList(s, cache_capacity)
            /\ cache_index' = EvictIndex(f, s, cache_capacity)
  BY DEF Insert
<1> DEFINE s == <<[node |-> n, key |-> Key(t), text |-> text[t]]>> \o cache_list
           f == [x \in DOMAIN cache_index \cup {Key(t)} |->
                    IF x = Key(t) THEN n ELSE cache_index[x]]
<1>2. /\ pc[t] = "insert" /\ k \notin DOMAIN cache_index /\ lastUse' = h
      /\ UNCHANGED <<cache_capacity, failures>>
  BY DEF Insert
<1>3. k \in Keys /\ cache_capacity \in Nat /\ UsedOnce
  BY <1>2, ConstantsAssumption
     DEF CacheInv, CallsInProgress, TypeOK, CacheTypeOK, LruInv
<1>4. /\ s \in Seq(Entries) /\ Len(s) = Len(cache_list) + 1 /\ s[1].key = k
      /\ \A i \in 1..Len(cache_list) : s[i+1] = cache_list[i]
  BY <1>2, PushFrontFacts
<1>5. DOMAIN f = DOMAIN cache_index \cup {k}
  OBVIOUS
<1>6. cache_list' = EvictList(s, cache_capacity) /\ cache_index' = EvictIndex(f, s, cache_capacity)
  BY <1>1
<1> HIDE DEF s, f, k
<1>7. PICK at \in 1..(Len(lastUse) + 1) :
        /\ at <= Len(lastUse) => lastUse[at] = k
        /\ at = Len(lastUse) + 1 => \A j \in 1..Len(lastUse) : lastUse[j] # k
        /\ at <= Len(h)
        /\ \A j \in 2..Len(h) : h[j] = IF j <= at THEN lastUse[j - 1] ELSE lastUse[j]
  BY <1>3, TouchFacts
<1>8. /\ h \in Seq(Keys) /\ Len(h) >= Len(lastUse) /\ h[1] = k
      /\ \A p, q \in 1..Len(h) : h[p] = h[q] => p = q
  BY <1>3, TouchFacts
<1> HIDE DEF h
<1>9. UsedOnce'
  BY <1>2, <1>8 DEF UsedOnce
<1> DEFINE kept == KeptLen(s, cache_capacity)
<1>10. /\ kept \in 0..Len(s) /\ Len(cache_list') = kept
       /\ \A j \in 1..kept : cache_list'[j] = s[j]
       /\ cache_capacity # 0 => kept <= cache_capacity
  <2>1. cache_capacity # 0 => kept <= cache_capacity
    BY <1>3, <1>4 DEF KeptLen
  <2> HIDE DEF kept
  <2> QED BY <1>3, <1>4, <1>6, <2>1, EvictFacts DEF kept
<1> HIDE DEF kept
<1>11. IndexFits'
  <2>1. IsFiniteSet(DOMAIN cache_index') /\ Cardinality(DOMAIN cache_index') <= Len(cache_list')
    <3>1. cache_list' \in Seq(Entries)
      BY DEF CacheInv, TypeOK, CacheTypeOK
    <3>2. \A x \in DOMAIN cache_index' : \E i \in 1..Len(cache_list') : cache_list'[i].key = x
      BY DEF CacheInv, IndexSound
    <3> QED BY <3>1, <3>2, IndexSmallerThanList
  <2>2. Cardinality(DOMAIN cache_index') \in Nat
    BY <2>1, FS_CardinalityType
  <2> QED BY <1>2, <1>3, <1>4, <1>10, <2>1, <2>2 DEF IndexFits
<1>12. ASSUME failures = 0
       PROVE  /\ Len(cache_list') <= Len(lastUse')
              /\ \A j \in 1..Len(cache_list') : cache_list'[j].key = lastUse'[j]
              /\ DOMAIN cache_index' = {cache_list'[j].key : j \in 1..Len(cache_list')}
  <2> DEFINE m == Len(cache_list)
  <2>1. /\ m <= Len(lastUse)
        /\ \A j \in 1..m : cache_list[j].key = lastUse[j]
        /\ DOMAIN cache_index = {cache_list[j].key : j \in 1..m}
    BY <1>12 DEF LruInv, ListIsRecent
  <2>2. m \in Nat /\ Len(h) \in Nat /\ Len(lastUse) \in Nat /\ at \in Nat
    BY <1>3, <1>8 DEF UsedOnce, CacheInv, TypeOK, CacheTypeOK
  <2>3. at > m
    <3>1. ASSUME NEW j \in 1..m PROVE lastUse[j] # k
      BY <1>2, <2>1
    <3> HIDE DEF m
    <3>2. at <= m => at \in 1..m /\ at <= Len(lastUse)
      BY <2>1, <2>2
    <3> QED BY <1>7, <2>2, <3>1, <3>2
  <2> HIDE DEF m
  <2>4. Len(s) = m + 1 /\ m + 1 <= Len(h)
    BY <1>4, <1>7, <2>2, <2>3 DEF m
  <2>5. ASSUME NEW j \in 1..Len(s) PROVE s[j].key = h[j]
    <3>1. CASE j = 1
      BY <1>4, <1>8, <3>1
    <3>2. CASE j # 1
      <4>1. j - 1 \in 1..m /\ j \in 2..Len(h) /\ j <= at /\ (j - 1) + 1 = j
        BY <2>2, <2>3, <2>4, <3>2
      <4>2. s[j] = cache_list[j - 1]
        BY <1>4, <4>1 DEF m
      <4> QED BY <1>7, <2>1, <4>1, <4>2
    <3> QED BY <3>1, <3>2
  <2>6. \A i, j \in 1..Len(s) : s[i].key = s[j].key => i = j
    <3> SUFFICES ASSUME NEW i \in 1..Len(s), NEW j \in 1..Len(s), s[i].key = s[j].key PROVE i = j
      OBVIOUS
    <3>1. i \in 1..Len(h) /\ j \in 1..Len(h) /\ h[i] = h[j]
      BY <2>2, <2>4, <2>5
    <3> QED BY <1>8, <3>1
  <2>7. DOMAIN f = {s[i].key : i \in 1..Len(s)}
    <3>1. ASSUME NEW x \in DOMAIN f PROVE \E i \in 1..Len(s) : x = s[i].key
      <4>1. CASE x = k
        <5>1. 1 \in 1..Len(s)
          BY <2>2, <2>4
        <5> QED BY <1>4, <4>1, <5>1
      <4>2. CASE x \in DOMAIN cache_index
        <5>1. PICK i \in 1..m : x = cache_list[i].key
          BY <2>1, <4>2
        <5>2. i + 1 \in 1..Len(s) /\ s[i + 1] = cache_list[i]
          BY <1>4, <2>2, <2>4 DEF m
        <5> QED BY <5>1, <5>2
      <4> QED BY <1>5, <3>1, <4>1, <4>2
    <3>2. ASSUME NEW i \in 1..Len(s) PROVE s[i].key \in DOMAIN f
      <4>1. CASE i = 1
        BY <1>4, <1>5, <4>1
      <4>2. CASE i # 1
        <5>1. i - 1 \in 1..m /\ (i - 1) + 1 = i
          BY <2>2, <2>4, <4>2
        <5>2. s[i] = cache_list[i - 1]
          BY <1>4, <5>1 DEF m
        <5> QED BY <1>5, <2>1, <5>1, <5>2
      <4> QED BY <4>1, <4>2
    <3> QED BY <3>1, <3>2
  <2>8. DOMAIN cache_index' = {cache_list'[j].key : j \in 1..Len(cache_list')}
    <3> DEFINE e == EvictList(s, cache_capacity)
    <3>1. DOMAIN EvictIndex(f, s, cache_capacity) = {e[j].key : j \in 1..Len(e)}
      <4>1. s \in Seq(Entries) /\ cache_capacity \in Nat
        BY <1>3, <1>4
      <4> QED BY <2>6, <2>7, <4>1, EvictKeepsIndex
    <3> QED BY <1>6, <3>1
  <2>9. kept <= Len(h) /\ \A j \in 1..kept : cache_list'[j].key = h[j]
    <3>1. kept \in Nat /\ kept <= Len(s) /\ Len(s) \in Nat
      BY <1>10, <2>2, <2>4
    <3> QED BY <1>10, <2>2, <2>4, <2>5, <3>1
  <2> QED BY <1>2, <1>10, <2>8, <2>9
<1> QED BY <1>2, <1>9, <1>11, <1>12 DEF LruInv, ListIsRecent

\* A new capacity evicts from the end.
LEMMA SetCacheCapacityLru ==
    ASSUME CacheInv, LruInv, CacheInv', NEW cap \in Capacities, SetCacheCapacity(cap)
    PROVE  LruInv'
<1> DEFINE s == cache_list
           f == cache_index
           kept == KeptLen(s, cap)
<1>1. /\ cache_list' = EvictList(s, cap) /\ cache_index' = EvictIndex(f, s, cap)
      /\ cache_capacity' = cap /\ failures' = failures /\ lastUse' = lastUse
  BY DEF SetCacheCapacity
<1>2. cap \in Nat /\ s \in Seq(Entries) /\ Len(s) \in Nat
  BY ConstantsAssumption DEF CacheInv, TypeOK, CacheTypeOK
<1>3. UsedOnce'
  BY <1>1 DEF LruInv, UsedOnce
<1>4. /\ kept \in 0..Len(s) /\ Len(cache_list') = kept
      /\ \A j \in 1..kept : cache_list'[j] = s[j]
      /\ cap # 0 => kept <= cap
  <2>1. cap # 0 => kept <= cap
    BY <1>2 DEF KeptLen
  <2> HIDE DEF kept
  <2> QED BY <1>1, <1>2, <2>1, EvictFacts DEF kept
<1> HIDE DEF kept
<1>5. IndexFits'
  <2>1. IsFiniteSet(DOMAIN cache_index') /\ Cardinality(DOMAIN cache_index') <= Len(cache_list')
    <3>1. cache_list' \in Seq(Entries)
      BY DEF CacheInv, TypeOK, CacheTypeOK
    <3>2. \A x \in DOMAIN cache_index' : \E i \in 1..Len(cache_list') : cache_list'[i].key = x
      BY DEF CacheInv, IndexSound
    <3> QED BY <3>1, <3>2, IndexSmallerThanList
  <2>2. Cardinality(DOMAIN cache_index') \in Nat
    BY <2>1, FS_CardinalityType
  <2> QED BY <1>1, <1>2, <1>4, <2>1, <2>2 DEF IndexFits
<1>6. ASSUME failures = 0
      PROVE  /\ Len(cache_list') <= Len(lastUse')
             /\ \A j \in 1..Len(cache_list') : cache_list'[j].key = lastUse'[j]
             /\ DOMAIN cache_index' = {cache_list'[j].key : j \in 1..Len(cache_list')}
  <2>1. /\ Len(s) <= Len(lastUse) /\ Len(lastUse) \in Nat
        /\ \A j \in 1..Len(s) : s[j].key = lastUse[j]
        /\ DOMAIN f = {s[j].key : j \in 1..Len(s)}
    BY <1>6 DEF LruInv, ListIsRecent, UsedOnce
  <2>2. \A i, j \in 1..Len(s) : s[i].key = s[j].key => i = j
    <3> SUFFICES ASSUME NEW i \in 1..Len(s), NEW j \in 1..Len(s), s[i].key = s[j].key PROVE i = j
      OBVIOUS
    <3>1. i \in 1..Len(lastUse) /\ j \in 1..Len(lastUse) /\ lastUse[i] = lastUse[j]
      BY <1>2, <2>1
    <3> QED BY <3>1 DEF LruInv, UsedOnce
  <2> HIDE DEF s, f
  <2>3. DOMAIN cache_index' = {cache_list'[j].key : j \in 1..Len(cache_list')}
    <3> DEFINE e == EvictList(s, cap)
    <3>1. DOMAIN EvictIndex(f, s, cap) = {e[j].key : j \in 1..Len(e)}
      <4>1. s \in Seq(Entries) /\ cap \in Nat /\ DOMAIN f = {s[j].key : j \in 1..Len(s)}
        BY <1>2, <2>1
      <4> QED BY <2>2, <4>1, EvictKeepsIndex
    <3> QED BY <1>1, <3>1
  <2>4. kept <= Len(lastUse) /\ \A j \in 1..kept : cache_list'[j].key = lastUse[j]
    <3>1. kept \in Nat /\ kept <= Len(s)
      BY <1>2, <1>4
    <3> QED BY <1>2, <1>4, <2>1, <3>1
  <2> QED BY <1>1, <1>4, <2>3, <2>4
<1> QED BY <1>1, <1>3, <1>5, <1>6 DEF LruInv, ListIsRecent

\* Every step keeps the order and the size.
LEMMA NextLru == CacheInv /\ CacheInv' /\ LruInv /\ [Next]_vars => LruInv'
<1> SUFFICES ASSUME CacheInv, CacheInv', LruInv, [Next]_vars PROVE LruInv'
  OBVIOUS
<1>1. ASSUME UNCHANGED shared PROVE LruInv'
  BY <1>1 DEF shared, LruInv, UsedOnce, ListIsRecent, IndexFits
<1>2. ASSUME NEW t \in Threads, Hit(t) \/ InsertRace(t) PROVE LruInv'
  BY <1>2, ReturnCachedLru DEF Hit, InsertRace
<1>3. ASSUME NEW t \in Threads, Insert(t) PROVE LruInv'
  BY <1>3, InsertLru
<1>4. ASSUME NEW t \in Threads, InsertFails(t) PROVE LruInv'
  <2>1. /\ failures' = failures + 1 /\ failures \in Nat
        /\ UNCHANGED <<cache_index, cache_capacity, lastUse>>
    BY <1>4, ConstantsAssumption DEF InsertFails, CacheInv, TypeOK, CacheTypeOK
  <2>2. failures' # 0
    BY <2>1
  <2> QED BY <2>1, <2>2 DEF LruInv, UsedOnce, ListIsRecent, IndexFits
<1>5. ASSUME NEW t \in Threads,
             \/ \E k \in Keys : CallMethod(t, k) \/ CallWithPcMap(t, k)
             \/ \E ks \in Classes : CallClass(t, ks)
             \/ Miss(t) \/ NotLocated(t) \/ RunPipeline(t) \/ Return(t)
      PROVE  LruInv'
  BY <1>1, <1>5 DEF CallMethod, CallWithPcMap, CallClass, Miss, NotLocated, RunPipeline, Return
<1>6. CASE ClearCache
  <2>1. cache_list' = <<>> /\ cache_index' = <<>> /\ lastUse' = <<>>
        /\ UNCHANGED <<cache_capacity, failures>>
    BY <1>6 DEF ClearCache
  <2>2. UsedOnce'
    BY <2>1 DEF UsedOnce
  <2>3. DOMAIN cache_index' = {} /\ Len(cache_list') = 0 /\ Len(lastUse') = 0
    BY <2>1
  <2>4. ListIsRecent'
    BY <2>3 DEF ListIsRecent
  <2>5. IndexFits'
    <3>1. cache_capacity' \in Nat
      BY ConstantsAssumption DEF CacheInv, TypeOK, CacheTypeOK
    <3> QED BY <2>3, <3>1, FS_EmptySet DEF IndexFits
  <2> QED BY <2>2, <2>4, <2>5 DEF LruInv
<1>7. ASSUME NEW cap \in Capacities, SetCacheCapacity(cap) PROVE LruInv'
  BY <1>7, SetCacheCapacityLru
<1>8. CASE UNCHANGED vars
  BY <1>1, <1>8 DEF vars
<1> QED BY <1>2, <1>3, <1>4, <1>5, <1>6, <1>7, <1>8 DEF Next, Step

\* The facade is an LRU cache in every behaviour: the index never holds more
\* than the capacity, and the list is the front of the history of uses, each of
\* its entries within a lookup's reach, until an insertion runs out of memory.
THEOREM CacheStaysLru == Spec => []CacheIsLru
<1>1. Init => LruInv
  <2> SUFFICES ASSUME Init PROVE LruInv
    OBVIOUS
  <2>1. UsedOnce /\ ListIsRecent
    BY DEF Init, UsedOnce, ListIsRecent
  <2>2. DOMAIN cache_index = {} /\ cache_capacity \in Nat
    BY ConstantsAssumption DEF Init
  <2>3. IndexFits
    BY <2>2, FS_EmptySet DEF IndexFits
  <2> QED BY <2>1, <2>3 DEF LruInv
<1>2. CacheInv /\ LruInv => CacheIsLru
  <2> SUFFICES ASSUME CacheInv, LruInv PROVE CacheIsLru
    OBVIOUS
  <2>1. cache_list \in Seq(Entries)
    BY DEF CacheInv, TypeOK, CacheTypeOK
  <2>2. ASSUME failures = 0 PROVE Cardinality(DOMAIN cache_index) = Len(cache_list)
    <3>1. \A i, j \in 1..Len(cache_list) : cache_list[i].key = cache_list[j].key => i = j
      <4> SUFFICES ASSUME NEW i \in 1..Len(cache_list), NEW j \in 1..Len(cache_list),
                          cache_list[i].key = cache_list[j].key
                   PROVE  i = j
        OBVIOUS
      <4>1. i \in 1..Len(lastUse) /\ j \in 1..Len(lastUse) /\ lastUse[i] = lastUse[j]
        <5>1. Len(lastUse) \in Nat /\ Len(cache_list) \in Nat /\ Len(cache_list) <= Len(lastUse)
          BY <2>1, <2>2 DEF LruInv, UsedOnce, ListIsRecent
        <5> QED BY <2>2, <5>1 DEF LruInv, ListIsRecent
      <4> QED BY <4>1 DEF LruInv, UsedOnce
    <3> QED BY <2>1, <2>2, <3>1, KeyCount DEF LruInv, ListIsRecent
  <2> QED BY <2>2 DEF LruInv, ListIsRecent, IndexFits, CacheIsLru
<1> QED BY <1>1, <1>2, InitInv, NextInv, NextLru, PTL DEF Spec
===========================================================================
