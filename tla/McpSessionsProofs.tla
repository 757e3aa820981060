------------------------- MODULE McpSessionsProofs -------------------------
(* The note of a lenient session: exact on a path whose calls do not         *)
(* overlap, on the answer of a strict session only where a file has changed  *)
(* under a client that pipelines.  A client that waits for its answers reads *)
(* it on every answer of a lenient session, meets no KeyError and has its    *)
(* least recently used path evicted.  For any threads, paths, changes of     *)
(* files and sizes.                                                          *)
EXTENDS McpSessions, SequenceTheorems, FiniteSetTheorems, TLAPS

\* Where a call has the handle it will answer from.
WithHandle == {"insert", "record", "check", "evict", "forget", "execute", "annotate"}

\* What a call in progress knows.
CallsKnow ==
    \A t \in Threads :
        /\ pc[t] \notin {"done", "lookup"} => path[t] \in Paths
        /\ pc[t] \in WithHandle => dk[t] \in Handles /\ dk[t].path = path[t]
        /\ pc[t] = "open_lenient" /\ strict[t] > 0 => dk[t] = Handle(path[t], "strict")
        /\ pc[t] = "forget" => evicted[t] \in Paths
        /\ pc[t] # "done" => answer[t] = Waiting

\* How open_strict_then_lenient opens a file that does not change meanwhile.
ModeOf(c) == IF StrictSuffices(c) \/ ~TakeLenient(c.strict, c) THEN "strict" ELSE "lenient"

\* While the file of a path does not change, all its handles are alike.
SameFiles ==
    /\ \A i \in 1..Len(dk_cache) : dk_cache[i].path \notin changed =>
         dk_cache[i].mode = ModeOf(disk[dk_cache[i].path])
    /\ \A p \in lenient_note \ changed : ModeOf(disk[p]) = "lenient"
    /\ \A t \in Threads : path[t] \notin changed =>
         /\ pc[t] \in WithHandle => dk[t].mode = ModeOf(disk[path[t]])
         /\ pc[t] = "open_lenient" => /\ strict[t] = disk[path[t]].strict
                                      /\ ~StrictSuffices(disk[path[t]])

\* A client that waits has one call in progress.
OneCall ==
    client = "waits" => \A t, u \in Threads : pc[t] # "done" /\ pc[u] # "done" => t = u

CachedPaths == {dk_cache[i].path : i \in 1..Len(dk_cache)}
LenientPaths == {p \in Paths : \E i \in 1..Len(dk_cache) : dk_cache[i] = Handle(p, "lenient")}

\* What its call knows of the cache.
SerialCache ==
    client = "waits" =>
        \A t \in Threads :
            /\ pc[t] \in {"touch", "fetch"} => path[t] \in CachedPaths
            /\ pc[t] \in {"open_strict", "open_lenient", "insert"} => path[t] \notin CachedPaths
            /\ pc[t] \in {"record", "check", "evict", "forget"} =>
                 dk_cache # <<>> /\ dk_cache[Len(dk_cache)] = dk[t]
            /\ pc[t] = "evict" => Len(dk_cache) > 1
            /\ pc[t] = "forget" => evicted[t] \notin CachedPaths
            /\ pc[t] \in {"execute", "annotate"} =>
                 \E i \in 1..Len(dk_cache) : dk_cache[i] = dk[t]

\* The notes are those of the lenient handles in the cache, but for a path whose
\* note is about to be updated.
NotesMatch ==
    client = "waits" =>
        \A p \in Paths : \/ p \in lenient_note <=> p \in LenientPaths
                         \/ \E t \in Threads : \/ pc[t] = "record" /\ path[t] = p
                                               \/ pc[t] = "forget" /\ evicted[t] = p

\* The cache is in the order in which its paths were last asked for, but for the
\* one a call has just found in it.
SerialOrder ==
    client = "waits" =>
        /\ \A p \in Paths : last_use[p] <= calls
        /\ \A t \in Threads :
             /\ pc[t] = "lookup" => \A p \in Paths : last_use[p] < calls
             /\ pc[t] \notin {"done", "lookup"} =>
                  /\ last_use[path[t]] = calls
                  /\ \A p \in Paths : p # path[t] => last_use[p] < calls
        /\ \A i, j \in 1..Len(dk_cache) : i < j =>
             \/ last_use[dk_cache[i].path] < last_use[dk_cache[j].path]
             \/ \E t \in Threads : pc[t] = "touch" /\ path[t] = dk_cache[i].path

McpInv ==
    /\ Typed /\ OnePerPath /\ CacheBounded /\ CallsKnow /\ SameFiles
    /\ OneCall /\ SerialCache /\ NotesMatch /\ SerialOrder /\ NoteIsTrue /\ SerialAnswers
-----------------------------------------------------------------------------
(* What move_to_end does to the queue. *)

\* The handle at position i goes to the end, those behind it move up.
LEMMA MovedToEnd ==
    ASSUME dk_cache \in Seq(Handles), NEW i \in 1..Len(dk_cache)
    PROVE  LET r == Append(Erased(i), dk_cache[i])
               n == Len(dk_cache)
           IN  /\ r \in Seq(Handles) /\ Len(r) = n
               /\ \A j \in 1..n : r[j] = IF j < i THEN dk_cache[j] ELSE IF j = n THEN dk_cache[i]
                                         ELSE dk_cache[j + 1]
<1> DEFINE n == Len(dk_cache)
           front == SubSeq(dk_cache, 1, i - 1)
           back == SubSeq(dk_cache, i + 1, n)
           rest == front \o back
           r == Append(rest, dk_cache[i])
<1>1. n \in Nat /\ i \in 1..n /\ \A j \in 1..n : dk_cache[j] \in Handles
  OBVIOUS
<1>2. /\ front \in Seq(Handles) /\ Len(front) = i - 1
      /\ \A j \in 1..(i - 1) : front[j] = dk_cache[j]
  BY <1>1, SubSeqProperties
<1>3. /\ back \in Seq(Handles) /\ Len(back) = n - i
      /\ \A j \in 1..(n - i) : back[j] = dk_cache[i + j]
  BY <1>1, SubSeqProperties
<1>4. Erased(i) = rest
  BY DEF Erased
<1> HIDE DEF front, back, n, Handles
<1>5. /\ rest \in Seq(Handles) /\ Len(rest) = n - 1
      /\ \A j \in 1..(n - 1) : rest[j] = IF j <= i - 1 THEN front[j] ELSE back[j - (i - 1)]
  <2>1. /\ rest \in Seq(Handles) /\ Len(rest) = Len(front) + Len(back)
        /\ \A j \in 1..(Len(front) + Len(back)) :
             rest[j] = IF j <= Len(front) THEN front[j] ELSE back[j - Len(front)]
    BY <1>2, <1>3, ConcatProperties
  <2>2. Len(front) = i - 1 /\ Len(front) + Len(back) = n - 1
    BY <1>1, <1>2, <1>3
  <2> QED BY <2>1, <2>2
<1> HIDE DEF rest
<1>6. /\ r \in Seq(Handles) /\ Len(r) = n /\ r[n] = dk_cache[i]
      /\ \A j \in 1..(n - 1) : r[j] = rest[j]
  BY <1>1, <1>5
<1> HIDE DEF r
<1>7. ASSUME NEW j \in 1..n
      PROVE  r[j] = IF j < i THEN dk_cache[j] ELSE IF j = n THEN dk_cache[i] ELSE dk_cache[j + 1]
  <2>1. CASE j < i
    <3>1. j \in 1..(n - 1) /\ j \in 1..(i - 1) /\ j <= i - 1
      BY <1>1, <2>1
    <3> QED BY <1>2, <1>5, <1>6, <2>1, <3>1
  <2>2. CASE ~(j < i) /\ j = n
    BY <1>6, <2>2
  <2>3. CASE ~(j < i) /\ j # n
    <3>1. /\ j \in 1..(n - 1) /\ ~(j <= i - 1) /\ j - (i - 1) \in 1..(n - i)
          /\ i + (j - (i - 1)) = j + 1
      BY <1>1, <2>3
    <3>2. rest[j] = back[j - (i - 1)] /\ back[j - (i - 1)] = dk_cache[i + (j - (i - 1))]
      BY <1>3, <1>5, <3>1
    <3> QED BY <1>6, <2>3, <3>1, <3>2
  <2> QED BY <2>1, <2>2, <2>3
<1> QED BY <1>4, <1>6, <1>7 DEF n, r

\* Every position of the old queue has one in the new.
LEMMA MovedCovers ==
    ASSUME Len(dk_cache) \in Nat,
           \E i \in 1..Len(dk_cache) :
             \A j \in 1..Len(dk_cache) :
               dk_cache'[j] = IF j < i THEN dk_cache[j] ELSE IF j = Len(dk_cache) THEN dk_cache[i]
                              ELSE dk_cache[j + 1]
    PROVE  /\ \A m \in 1..Len(dk_cache) : \E j \in 1..Len(dk_cache) : dk_cache'[j] = dk_cache[m]
           /\ \A j \in 1..Len(dk_cache) : \E m \in 1..Len(dk_cache) : dk_cache'[j] = dk_cache[m]
<1> DEFINE n == Len(dk_cache)
           s == dk_cache
           r == dk_cache'
<1>0. PICK i \in 1..n :
        \A j \in 1..n : r[j] = IF j < i THEN s[j] ELSE IF j = n THEN s[i] ELSE s[j + 1]
  OBVIOUS
<1>a. n \in Nat
  OBVIOUS
<1> HIDE DEF n, s, r
<1>1. ASSUME NEW m \in 1..n PROVE \E j \in 1..n : r[j] = s[m]
  <2>1. CASE m < i
    BY <1>0, <2>1
  <2>2. CASE m = i
    <3>1. n \in 1..n /\ ~(n < i) /\ r[n] = s[i]
      BY <1>0, <1>a
    <3> QED BY <2>2, <3>1
  <2>3. CASE m > i
    <3>1. m - 1 \in 1..n /\ ~(m - 1 < i) /\ m - 1 # n /\ (m - 1) + 1 = m
      BY <1>a, <2>3
    <3>2. r[m - 1] = s[m]
      BY <1>0, <3>1
    <3> QED BY <3>1, <3>2
  <2> QED BY <1>a, <2>1, <2>2, <2>3
<1>2. ASSUME NEW j \in 1..n PROVE \E m \in 1..n : r[j] = s[m]
  <2>1. CASE j < i
    BY <1>0, <2>1
  <2>2. CASE ~(j < i) /\ j = n
    BY <1>0, <2>2
  <2>3. CASE ~(j < i) /\ j # n
    <3>1. j + 1 \in 1..n /\ r[j] = s[j + 1]
      BY <1>0, <1>a, <2>3
    <3> QED BY <3>1
  <2> QED BY <2>1, <2>2, <2>3
<1> QED BY <1>1, <1>2 DEF n, s, r

\* A cached path counts as lenient when its handle is.
LEMMA LenientAt ==
    ASSUME Typed, OnePerPath, NEW i \in 1..Len(dk_cache)
    PROVE  dk_cache[i].path \in LenientPaths <=> dk_cache[i].mode = "lenient"
<1>1. dk_cache[i] \in Handles /\ dk_cache[i].path \in Paths
  <2>1. dk_cache[i] \in Handles
    BY DEF Typed
  <2> QED BY <2>1 DEF Handles
<1>2. ASSUME dk_cache[i].mode = "lenient" PROVE dk_cache[i] = Handle(dk_cache[i].path, "lenient")
  BY <1>1, <1>2 DEF Handles, Handle
<1>3. ASSUME dk_cache[i].path \in LenientPaths PROVE dk_cache[i].mode = "lenient"
  <2>1. PICK j \in 1..Len(dk_cache) : dk_cache[j] = Handle(dk_cache[i].path, "lenient")
    BY <1>3 DEF LenientPaths
  <2>2. dk_cache[j].path = dk_cache[i].path /\ dk_cache[j].mode = "lenient"
    BY <2>1 DEF Handle
  <2> QED BY <2>2 DEF OnePerPath
<1> QED BY <1>1, <1>2, <1>3 DEF LenientPaths

-----------------------------------------------------------------------------
\* The histories stay among the paths.
LEMMA HistoryTyped ==
    ASSUME Typed, [Next]_vars
    PROVE  changed' \subseteq Paths /\ shared_by' \subseteq Paths
<1>0. changed \subseteq Paths /\ shared_by \subseteq Paths
  BY DEF Typed
<1>1. CASE UNCHANGED vars
  BY <1>0, <1>1 DEF vars, history
<1>2. ASSUME NEW p \in Paths, NEW c \in Contents, Write(p, c)
      PROVE  changed' \subseteq Paths /\ shared_by' \subseteq Paths
  BY <1>0, <1>2 DEF Write
<1>3. ASSUME NEW t \in Threads, NEW p \in Paths \cup {NoPath}, Call(t, p)
      PROVE  changed' \subseteq Paths /\ shared_by' \subseteq Paths
  BY <1>0, <1>3 DEF Call
<1>4. ASSUME NEW t \in Threads, Evict(t)
      PROVE  changed' \subseteq Paths /\ shared_by' \subseteq Paths
  BY <1>0, <1>4 DEF Evict
<1>5. ASSUME NEW t \in Threads, Step(t), ~Evict(t)
      PROVE  changed' \subseteq Paths /\ shared_by' \subseteq Paths
  BY <1>0, <1>5 DEF Step, Refuse, Lookup, Touch, Fetch, OpenStrict, OpenLenient, Insert, Record,
     Check, Forget, Execute, Annotate, history
<1> QED BY <1>1, <1>2, <1>3, <1>4, <1>5 DEF Next

\* Every step keeps the invariant.
LEMMA NextMcp == McpInv /\ [Next]_vars => McpInv'
<1> SUFFICES ASSUME McpInv, [Next]_vars PROVE McpInv'
  OBVIOUS
<1>a. /\ NoPath \notin Paths /\ DK_CACHE_MAX \in Nat \ {0} /\ IsFiniteSet(Threads)
      /\ \A c \in Contents : c \in Container
  BY McpAssumption
<1>0. /\ Typed /\ OnePerPath /\ CacheBounded /\ CallsKnow /\ SameFiles
      /\ OneCall /\ SerialCache /\ NotesMatch /\ SerialOrder /\ NoteIsTrue /\ SerialAnswers
  BY DEF McpInv
<1>c. /\ Waiting \in [kind : {"none", "no_path", "unopenable", "key_error", "result"}, noted : BOOLEAN]
      /\ \A p \in Paths, m \in {"strict", "lenient"} :
           Handle(p, m) \in Handles /\ Handle(p, m).path = p /\ Handle(p, m).mode = m
  BY DEF Waiting, Handle, Handles
<1>d. calls \in Nat /\ Len(dk_cache) \in Nat /\ \A p \in Paths : last_use[p] \in Nat
  BY <1>0 DEF Typed
<1>e. \A i \in 1..Len(dk_cache) : dk_cache[i] \in Handles /\ dk_cache[i].path \in Paths
  <2>1. \A i \in 1..Len(dk_cache) : dk_cache[i] \in Handles
    BY <1>0 DEF Typed
  <2> QED BY <2>1 DEF Handles
<1>f. \A p \in Paths : /\ disk[p] \in Contents /\ disk[p].strict \in 0..2
                       /\ StrictSuffices(disk[p]) => disk[p].strict > 0
  <2>1. \A c \in Contents : c.strict \in 0..2 /\ (StrictSuffices(c) => c.strict > 0)
    BY <1>a DEF Container, StrictSuffices
  <2>2. \A p \in Paths : disk[p] \in Contents
    BY <1>0 DEF Typed
  <2> QED BY <2>1, <2>2
<1>t. changed' \subseteq Paths /\ shared_by' \subseteq Paths
  BY <1>0, HistoryTyped
<1>b. IsFiniteSet(Trimming) /\ Cardinality(Trimming) \in Nat
  BY <1>a, FS_Subset, FS_CardinalityType DEF Trimming
<1>1. ASSUME NEW p \in Paths, NEW c \in Contents, Write(p, c) PROVE McpInv'
  <2>1. /\ client' = client /\ disk' = [disk EXCEPT ![p] = c]
        /\ dk_cache' = dk_cache /\ lenient_note' = lenient_note /\ pc' = pc
        /\ path' = path /\ strict' = strict /\ dk' = dk /\ evicted' = evicted
        /\ answer' = answer /\ calls' = calls /\ writes' = writes + 1
        /\ last_use' = last_use /\ changed' = changed \cup {p}
    BY <1>a, <1>1 DEF Write, shared, local, history
  <2>2. CachedPaths' = CachedPaths /\ LenientPaths' = LenientPaths
    BY <2>1 DEF CachedPaths, LenientPaths
  <2>3. Trimming' = Trimming
    BY <1>a, <1>0, <2>1 DEF Typed, Trimming
  <2>4. /\ client' = client /\ disk'[p] = c
        /\ \A x \in Paths : x # p => disk'[x] = disk[x]
        /\ dk_cache' = dk_cache /\ lenient_note' = lenient_note /\ pc' = pc
        /\ path' = path /\ strict' = strict /\ dk' = dk /\ evicted' = evicted
        /\ answer' = answer /\ calls' = calls /\ writes' = writes + 1
        /\ last_use' = last_use /\ changed' = changed \cup {p}
    BY <1>a, <1>0, <2>1 DEF Typed
  <2>5. Typed'
    BY <1>t, <1>a, <1>0, <2>1, <2>2, <2>3, <1>c, <1>f DEF Typed
  <2>6. OnePerPath'
    BY <1>a, <1>0, <2>2, <2>3, <2>4 DEF OnePerPath
  <2>7. CacheBounded'
    BY <1>a, <1>0, <2>2, <2>3, <2>4 DEF CacheBounded
  <2>8. CallsKnow'
    BY <1>a, <1>0, <2>2, <2>3, <2>4, <1>c, <1>f DEF CallsKnow, WithHandle
  <2>9. SameFiles'
    <3>1. \A q \in Paths \ changed' : q \notin changed /\ disk'[q] = disk[q]
      BY <2>4
    <3>2. ASSUME NEW i \in 1..Len(dk_cache'), dk_cache'[i].path \notin changed'
          PROVE  dk_cache'[i].mode = ModeOf(disk'[dk_cache'[i].path])
      BY <1>0, <1>e, <2>4, <3>1, <3>2 DEF SameFiles
    <3>3. ASSUME NEW q \in lenient_note' \ changed' PROVE ModeOf(disk'[q]) = "lenient"
      <4>1. q \in lenient_note \ changed /\ disk'[q] = disk[q]
        BY <1>0, <2>4, <3>1 DEF Typed
      <4> QED BY <1>0, <4>1 DEF SameFiles
    <3>4. ASSUME NEW t \in Threads, path'[t] \notin changed', pc'[t] \in WithHandle \cup {"open_lenient"}
          PROVE  path[t] \notin changed /\ disk'[path[t]] = disk[path[t]]
      BY <1>0, <2>4, <3>1, <3>4 DEF CallsKnow, WithHandle
    <3> QED BY <1>0, <2>4, <3>2, <3>3, <3>4 DEF SameFiles
  <2>10. OneCall'
    BY <1>a, <1>0, <2>2, <2>3, <2>4 DEF OneCall
  <2>11. SerialCache'
    BY <1>a, <1>0, <2>2, <2>3, <2>4 DEF SerialCache, OneCall, CallsKnow, WithHandle
  <2>12. NotesMatch'
    BY <1>a, <1>0, <2>2, <2>3, <2>4 DEF NotesMatch, OneCall, SerialCache
  <2>13. SerialOrder'
    BY <1>a, <1>0, <2>2, <2>3, <2>4, <1>d DEF SerialOrder, OneCall, CallsKnow
  <2>14. NoteIsTrue'
    BY <1>a, <1>0, <2>2, <2>3, <2>4 DEF NoteIsTrue, CallsKnow, Waiting
  <2>15. SerialAnswers'
    BY <1>a, <1>0, <2>2, <2>3, <2>4 DEF SerialAnswers, NoteOnEveryAnswer, ErrorOnlyWhenUnopenable, CallsKnow, Waiting
  <2> QED BY <2>5, <2>6, <2>7, <2>8, <2>9, <2>10, <2>11, <2>12, <2>13, <2>14, <2>15 DEF McpInv
<1>2. ASSUME NEW t \in Threads, NEW p \in Paths \cup {NoPath}, Call(t, p) PROVE McpInv'
  <2>1. /\ pc[t] = "done"
        /\ client = "waits" => \A u \in Threads : pc[u] = "done"
        /\ client' = client /\ disk' = disk /\ dk_cache' = dk_cache
        /\ lenient_note' = lenient_note /\ pc' = [pc EXCEPT ![t] = "lookup"]
        /\ path' = [path EXCEPT ![t] = p] /\ strict' = [strict EXCEPT ![t] = 0]
        /\ dk' = [dk EXCEPT ![t] = NoHandle] /\ evicted' = evicted
        /\ answer' = [answer EXCEPT ![t] = Waiting] /\ calls' = calls + 1
        /\ writes' = writes /\ last_use' = last_use /\ changed' = changed
    BY <1>a, <1>2 DEF Call, Goto, shared, local, history
  <2>2. CachedPaths' = CachedPaths /\ LenientPaths' = LenientPaths
    BY <2>1 DEF CachedPaths, LenientPaths
  <2>3. Trimming' = Trimming
    BY <1>a, <1>0, <2>1 DEF Typed, Trimming
  <2>4. /\ pc[t] = "done"
        /\ client = "waits" => \A u \in Threads : pc[u] = "done"
        /\ client' = client /\ disk' = disk /\ dk_cache' = dk_cache
        /\ lenient_note' = lenient_note /\ pc'[t] = "lookup"
        /\ \A x \in Threads : x # t => pc'[x] = pc[x]
        /\ path'[t] = p
        /\ \A x \in Threads : x # t => path'[x] = path[x]
        /\ strict'[t] = 0
        /\ \A x \in Threads : x # t => strict'[x] = strict[x]
        /\ dk'[t] = NoHandle
        /\ \A x \in Threads : x # t => dk'[x] = dk[x]
        /\ evicted' = evicted /\ answer'[t] = Waiting
        /\ \A x \in Threads : x # t => answer'[x] = answer[x]
        /\ calls' = calls + 1 /\ writes' = writes /\ last_use' = last_use /\ changed' = changed
    BY <1>a, <1>0, <2>1 DEF Typed
  <2>5. client = "waits" => \A u \in Threads : u # t => pc[u] = "done" /\ pc'[u] = "done"
    BY <1>0, <2>4 DEF OneCall
  <2>6. Typed'
    BY <1>t, <1>a, <1>0, <2>1, <2>2, <2>3, <2>5, <1>c, <1>f DEF Typed
  <2>7. OnePerPath'
    BY <1>a, <1>0, <2>2, <2>3, <2>5, <2>4 DEF OnePerPath
  <2>8. CacheBounded'
    BY <1>a, <1>0, <2>2, <2>3, <2>5, <2>4 DEF CacheBounded
  <2>9. CallsKnow'
    BY <1>a, <1>0, <2>2, <2>3, <2>5, <2>4, <1>c, <1>f DEF CallsKnow, WithHandle
  <2>10. SameFiles'
    BY <1>a, <1>0, <2>2, <2>3, <2>5, <2>4, <1>c DEF SameFiles, WithHandle, CallsKnow
  <2>11. OneCall'
    BY <1>a, <1>0, <2>2, <2>3, <2>5, <2>4 DEF OneCall
  <2>12. SerialCache'
    BY <1>a, <1>0, <2>2, <2>3, <2>5, <2>4 DEF SerialCache, OneCall, CallsKnow, WithHandle
  <2>13. NotesMatch'
    BY <1>a, <1>0, <2>2, <2>3, <2>5, <2>4 DEF NotesMatch, OneCall, SerialCache
  <2>14. SerialOrder'
    BY <1>a, <1>0, <2>2, <2>3, <2>5, <2>4, <1>d DEF SerialOrder, OneCall, CallsKnow
  <2>15. NoteIsTrue'
    BY <1>a, <1>0, <2>2, <2>3, <2>5, <2>4 DEF NoteIsTrue, CallsKnow, Waiting
  <2>16. SerialAnswers'
    BY <1>a, <1>0, <2>2, <2>3, <2>5, <2>4 DEF SerialAnswers, NoteOnEveryAnswer, ErrorOnlyWhenUnopenable, CallsKnow, Waiting
  <2> QED BY <2>6, <2>7, <2>8, <2>9, <2>10, <2>11, <2>12, <2>13, <2>14, <2>15, <2>16 DEF McpInv
<1>3. ASSUME NEW t \in Threads, Refuse(t) PROVE McpInv'
  <2>1. /\ pc[t] = "lookup" /\ path[t] = NoPath /\ client' = client
        /\ disk' = disk /\ dk_cache' = dk_cache /\ lenient_note' = lenient_note
        /\ pc' = [pc EXCEPT ![t] = "done"] /\ path' = path /\ strict' = strict
        /\ dk' = dk /\ evicted' = evicted
        /\ answer' = [answer EXCEPT ![t] = [kind |-> "no_path", noted |-> FALSE]]
        /\ calls' = calls /\ writes' = writes /\ last_use' = last_use /\ changed' = changed
    BY <1>a, <1>3 DEF Refuse, Goto, Answer, shared, local, history
  <2>2. CachedPaths' = CachedPaths /\ LenientPaths' = LenientPaths
    BY <2>1 DEF CachedPaths, LenientPaths
  <2>3. Trimming' = Trimming
    BY <1>a, <1>0, <2>1 DEF Typed, Trimming
  <2>4. /\ pc[t] = "lookup" /\ path[t] = NoPath /\ client' = client
        /\ disk' = disk /\ dk_cache' = dk_cache /\ lenient_note' = lenient_note
        /\ pc'[t] = "done"
        /\ \A x \in Threads : x # t => pc'[x] = pc[x]
        /\ path' = path /\ strict' = strict /\ dk' = dk /\ evicted' = evicted
        /\ answer'[t] = [kind |-> "no_path", noted |-> FALSE]
        /\ \A x \in Threads : x # t => answer'[x] = answer[x]
        /\ calls' = calls /\ writes' = writes /\ last_use' = last_use /\ changed' = changed
    BY <1>a, <1>0, <2>1 DEF Typed
  <2>5. client = "waits" => \A u \in Threads : u # t => pc[u] = "done" /\ pc'[u] = "done"
    BY <1>0, <2>4 DEF OneCall
  <2>6. Typed'
    BY <1>t, <1>a, <1>0, <2>1, <2>2, <2>3, <2>5, <1>c, <1>f DEF Typed
  <2>7. OnePerPath'
    BY <1>a, <1>0, <2>2, <2>3, <2>5, <2>4 DEF OnePerPath
  <2>8. CacheBounded'
    BY <1>a, <1>0, <2>2, <2>3, <2>5, <2>4 DEF CacheBounded
  <2>9. CallsKnow'
    BY <1>a, <1>0, <2>2, <2>3, <2>5, <2>4, <1>c, <1>f DEF CallsKnow, WithHandle
  <2>10. SameFiles'
    BY <1>a, <1>0, <2>2, <2>3, <2>5, <2>4, <1>c DEF SameFiles, WithHandle, CallsKnow
  <2>11. OneCall'
    BY <1>a, <1>0, <2>2, <2>3, <2>5, <2>4 DEF OneCall
  <2>12. SerialCache'
    BY <1>a, <1>0, <2>2, <2>3, <2>5, <2>4 DEF SerialCache, OneCall, CallsKnow, WithHandle
  <2>13. NotesMatch'
    BY <1>a, <1>0, <2>2, <2>3, <2>5, <2>4 DEF NotesMatch, OneCall, SerialCache
  <2>14. SerialOrder'
    BY <1>a, <1>0, <2>2, <2>3, <2>5, <2>4, <1>d DEF SerialOrder, OneCall, CallsKnow
  <2>15. NoteIsTrue'
    BY <1>a, <1>0, <2>2, <2>3, <2>5, <2>4 DEF NoteIsTrue, CallsKnow, Waiting
  <2>16. SerialAnswers'
    BY <1>a, <1>0, <2>2, <2>3, <2>5, <2>4 DEF SerialAnswers, NoteOnEveryAnswer, ErrorOnlyWhenUnopenable, CallsKnow, Waiting
  <2> QED BY <2>6, <2>7, <2>8, <2>9, <2>10, <2>11, <2>12, <2>13, <2>14, <2>15, <2>16 DEF McpInv
<1>4. ASSUME NEW t \in Threads, Lookup(t) PROVE McpInv'
  <2>1. CASE Cached(path[t])
    <3>1. /\ pc[t] = "lookup" /\ path[t] # NoPath /\ client' = client
          /\ disk' = disk /\ dk_cache' = dk_cache /\ lenient_note' = lenient_note
          /\ pc' = [pc EXCEPT ![t] = "touch"] /\ path' = path /\ strict' = strict
          /\ dk' = dk /\ evicted' = evicted /\ answer' = answer /\ calls' = calls
          /\ writes' = writes /\ last_use' = [last_use EXCEPT ![path[t]] = calls] /\ changed' = changed
      BY <1>a, <1>4, <2>1 DEF Lookup, Goto, shared, local, history
    <3>2. CachedPaths' = CachedPaths /\ LenientPaths' = LenientPaths
      BY <3>1 DEF CachedPaths, LenientPaths
    <3>3. Trimming' = Trimming
      BY <1>a, <1>0, <3>1, <2>1 DEF Typed, Trimming
    <3>4. path[t] \in CachedPaths
      BY <2>1 DEF Cached, At, CachedPaths
    <3>5. /\ pc[t] = "lookup" /\ path[t] # NoPath /\ path[t] \in Paths
          /\ client' = client /\ disk' = disk /\ dk_cache' = dk_cache
          /\ lenient_note' = lenient_note /\ pc'[t] = "touch"
          /\ \A x \in Threads : x # t => pc'[x] = pc[x]
          /\ path' = path /\ strict' = strict /\ dk' = dk /\ evicted' = evicted
          /\ answer' = answer /\ calls' = calls /\ writes' = writes
          /\ last_use'[path[t]] = calls
          /\ \A x \in Paths : x # path[t] => last_use'[x] = last_use[x]
          /\ changed' = changed
      BY <1>a, <1>0, <3>1 DEF Typed
    <3>6. client = "waits" => \A u \in Threads : u # t => pc[u] = "done" /\ pc'[u] = "done"
      BY <1>0, <3>5 DEF OneCall
    <3>7. Typed'
      BY <1>t, <1>a, <1>0, <3>1, <3>2, <3>3, <3>4, <3>6, <1>c, <1>f, <2>1 DEF Typed
    <3>8. OnePerPath'
      BY <1>a, <1>0, <3>2, <3>3, <3>4, <3>6, <3>5, <2>1 DEF OnePerPath
    <3>9. CacheBounded'
      BY <1>a, <1>0, <3>2, <3>3, <3>4, <3>6, <3>5, <2>1 DEF CacheBounded
    <3>10. CallsKnow'
      BY <1>a, <1>0, <3>2, <3>3, <3>4, <3>6, <3>5, <1>c, <1>f, <2>1 DEF CallsKnow, WithHandle
    <3>11. SameFiles'
      BY <1>a, <1>0, <3>2, <3>3, <3>4, <3>6, <3>5, <1>c, <2>1 DEF SameFiles, WithHandle, CallsKnow
    <3>12. OneCall'
      BY <1>a, <1>0, <3>2, <3>3, <3>4, <3>6, <3>5, <2>1 DEF OneCall
    <3>13. SerialCache'
      BY <1>a, <1>0, <3>2, <3>3, <3>4, <3>6, <3>5, <2>1 DEF SerialCache, OneCall, CallsKnow, WithHandle
    <3>14. NotesMatch'
      BY <1>a, <1>0, <3>2, <3>3, <3>4, <3>6, <3>5, <2>1 DEF NotesMatch, OneCall, SerialCache
    <3>15. SerialOrder'
      <4> SUFFICES ASSUME client' = "waits" PROVE SerialOrder'
        BY DEF SerialOrder
      <4>0. client = "waits" /\ \A u \in Threads : u # t => pc[u] = "done" /\ pc'[u] = "done"
        BY <3>5, <3>2, <3>3, <3>4, <3>6
      <4>1. /\ last_use'[path[t]] = calls /\ \A p \in Paths : p # path[t] => last_use'[p] < calls
            /\ \A p \in Paths : last_use[p] < calls
        BY <1>0, <4>0, <3>5 DEF SerialOrder
      <4>2. ASSUME NEW i \in 1..Len(dk_cache'), NEW j \in 1..Len(dk_cache'), i < j
            PROVE  \/ last_use'[dk_cache'[i].path] < last_use'[dk_cache'[j].path]
                   \/ \E u \in Threads : pc'[u] = "touch" /\ path'[u] = dk_cache'[i].path
        <5>1. /\ i \in 1..Len(dk_cache) /\ j \in 1..Len(dk_cache) /\ dk_cache' = dk_cache
              /\ dk_cache[i].path \in Paths /\ dk_cache[j].path \in Paths
          BY <1>e, <3>5
        <5>2. last_use[dk_cache[i].path] < last_use[dk_cache[j].path]
          BY <1>0, <4>0, <4>2, <5>1, <3>5 DEF SerialOrder
        <5>3. CASE dk_cache[i].path = path[t]
          BY <5>1, <5>3, <3>5
        <5>4. CASE dk_cache[i].path # path[t] /\ dk_cache[j].path = path[t]
          BY <4>1, <5>1, <5>4
        <5>5. CASE dk_cache[i].path # path[t] /\ dk_cache[j].path # path[t]
          BY <5>1, <5>2, <5>5, <3>5
        <5> QED BY <5>3, <5>4, <5>5
      <4> QED BY <1>d, <4>0, <4>1, <4>2, <3>5 DEF SerialOrder
    <3>16. NoteIsTrue'
      BY <1>a, <1>0, <3>2, <3>3, <3>4, <3>6, <3>5, <2>1 DEF NoteIsTrue, CallsKnow, Waiting
    <3>17. SerialAnswers'
      BY <1>a, <1>0, <3>2, <3>3, <3>4, <3>6, <3>5, <2>1 DEF SerialAnswers, NoteOnEveryAnswer, ErrorOnlyWhenUnopenable, CallsKnow, Waiting
    <3> QED BY <3>7, <3>8, <3>9, <3>10, <3>11, <3>12, <3>13, <3>14, <3>15, <3>16, <3>17 DEF McpInv
  <2>2. CASE ~Cached(path[t])
    <3>1. /\ pc[t] = "lookup" /\ path[t] # NoPath /\ client' = client
          /\ disk' = disk /\ dk_cache' = dk_cache /\ lenient_note' = lenient_note
          /\ pc' = [pc EXCEPT ![t] = "open_strict"] /\ path' = path
          /\ strict' = strict /\ dk' = dk /\ evicted' = evicted /\ answer' = answer
          /\ calls' = calls /\ writes' = writes
          /\ last_use' = [last_use EXCEPT ![path[t]] = calls] /\ changed' = changed
      BY <1>a, <1>4, <2>2 DEF Lookup, Goto, shared, local, history
    <3>2. CachedPaths' = CachedPaths /\ LenientPaths' = LenientPaths
      BY <3>1 DEF CachedPaths, LenientPaths
    <3>3. Trimming' = Trimming
      BY <1>a, <1>0, <3>1, <2>2 DEF Typed, Trimming
    <3>4. path[t] \notin CachedPaths
      BY <2>2 DEF Cached, At, CachedPaths
    <3>5. /\ pc[t] = "lookup" /\ path[t] # NoPath /\ path[t] \in Paths
          /\ client' = client /\ disk' = disk /\ dk_cache' = dk_cache
          /\ lenient_note' = lenient_note /\ pc'[t] = "open_strict"
          /\ \A x \in Threads : x # t => pc'[x] = pc[x]
          /\ path' = path /\ strict' = strict /\ dk' = dk /\ evicted' = evicted
          /\ answer' = answer /\ calls' = calls /\ writes' = writes
          /\ last_use'[path[t]] = calls
          /\ \A x \in Paths : x # path[t] => last_use'[x] = last_use[x]
          /\ changed' = changed
      BY <1>a, <1>0, <3>1 DEF Typed
    <3>6. client = "waits" => \A u \in Threads : u # t => pc[u] = "done" /\ pc'[u] = "done"
      BY <1>0, <3>5 DEF OneCall
    <3>7. Typed'
      BY <1>t, <1>a, <1>0, <3>1, <3>2, <3>3, <3>4, <3>6, <1>c, <1>f, <2>2 DEF Typed
    <3>8. OnePerPath'
      BY <1>a, <1>0, <3>2, <3>3, <3>4, <3>6, <3>5, <2>2 DEF OnePerPath
    <3>9. CacheBounded'
      BY <1>a, <1>0, <3>2, <3>3, <3>4, <3>6, <3>5, <2>2 DEF CacheBounded
    <3>10. CallsKnow'
      BY <1>a, <1>0, <3>2, <3>3, <3>4, <3>6, <3>5, <1>c, <1>f, <2>2 DEF CallsKnow, WithHandle
    <3>11. SameFiles'
      BY <1>a, <1>0, <3>2, <3>3, <3>4, <3>6, <3>5, <1>c, <2>2 DEF SameFiles, WithHandle, CallsKnow
    <3>12. OneCall'
      BY <1>a, <1>0, <3>2, <3>3, <3>4, <3>6, <3>5, <2>2 DEF OneCall
    <3>13. SerialCache'
      BY <1>a, <1>0, <3>2, <3>3, <3>4, <3>6, <3>5, <2>2 DEF SerialCache, OneCall, CallsKnow, WithHandle
    <3>14. NotesMatch'
      BY <1>a, <1>0, <3>2, <3>3, <3>4, <3>6, <3>5, <2>2 DEF NotesMatch, OneCall, SerialCache
    <3>15. SerialOrder'
      <4> SUFFICES ASSUME client' = "waits" PROVE SerialOrder'
        BY DEF SerialOrder
      <4>0. client = "waits" /\ \A u \in Threads : u # t => pc[u] = "done" /\ pc'[u] = "done"
        BY <3>5, <3>2, <3>3, <3>4, <3>6
      <4>1. /\ last_use'[path[t]] = calls /\ \A p \in Paths : p # path[t] => last_use'[p] < calls
            /\ \A p \in Paths : last_use[p] < calls
        BY <1>0, <4>0, <3>5 DEF SerialOrder
      <4>2. ASSUME NEW i \in 1..Len(dk_cache'), NEW j \in 1..Len(dk_cache'), i < j
            PROVE  \/ last_use'[dk_cache'[i].path] < last_use'[dk_cache'[j].path]
                   \/ \E u \in Threads : pc'[u] = "touch" /\ path'[u] = dk_cache'[i].path
        <5>1. /\ i \in 1..Len(dk_cache) /\ j \in 1..Len(dk_cache) /\ dk_cache' = dk_cache
              /\ dk_cache[i].path \in Paths /\ dk_cache[j].path \in Paths
          BY <1>e, <3>5
        <5>2. last_use[dk_cache[i].path] < last_use[dk_cache[j].path]
          BY <1>0, <4>0, <4>2, <5>1, <3>5 DEF SerialOrder
        <5>3. CASE dk_cache[i].path = path[t]
          BY <5>1, <5>3, <3>2, <3>3, <3>4, <3>6 DEF CachedPaths
        <5>4. CASE dk_cache[i].path # path[t] /\ dk_cache[j].path = path[t]
          BY <4>1, <5>1, <5>4
        <5>5. CASE dk_cache[i].path # path[t] /\ dk_cache[j].path # path[t]
          BY <5>1, <5>2, <5>5, <3>5
        <5> QED BY <5>3, <5>4, <5>5
      <4> QED BY <1>d, <4>0, <4>1, <4>2, <3>5 DEF SerialOrder
    <3>16. NoteIsTrue'
      BY <1>a, <1>0, <3>2, <3>3, <3>4, <3>6, <3>5, <2>2 DEF NoteIsTrue, CallsKnow, Waiting
    <3>17. SerialAnswers'
      BY <1>a, <1>0, <3>2, <3>3, <3>4, <3>6, <3>5, <2>2 DEF SerialAnswers, NoteOnEveryAnswer, ErrorOnlyWhenUnopenable, CallsKnow, Waiting
    <3> QED BY <3>7, <3>8, <3>9, <3>10, <3>11, <3>12, <3>13, <3>14, <3>15, <3>16, <3>17 DEF McpInv
  <2> QED BY <2>1, <2>2
<1>5. ASSUME NEW t \in Threads, Touch(t) PROVE McpInv'
  <2>1. CASE Cached(path[t])
    <3>1. /\ pc[t] = "touch" /\ client' = client /\ disk' = disk
          /\ lenient_note' = lenient_note /\ pc' = [pc EXCEPT ![t] = "fetch"]
          /\ path' = path /\ strict' = strict /\ dk' = dk /\ evicted' = evicted
          /\ answer' = answer /\ calls' = calls /\ writes' = writes
          /\ last_use' = last_use /\ changed' = changed
      BY <1>a, <1>5, <2>1 DEF Touch, Goto, Answer, shared, local, history
    <3>2. /\ dk_cache' \in Seq(Handles) /\ Len(dk_cache') = Len(dk_cache)
          /\ \E i \in 1..Len(dk_cache) :
               /\ dk_cache[i].path = path[t]
               /\ \A j \in 1..Len(dk_cache) :
                    dk_cache'[j] = IF j < i THEN dk_cache[j] ELSE IF j = Len(dk_cache) THEN dk_cache[i]
                                   ELSE dk_cache[j + 1]
      <4>1. PICK i \in At(path[t]) : dk_cache' = Append(Erased(i), dk_cache[i])
        BY <1>5, <2>1 DEF Touch
      <4>2. i \in 1..Len(dk_cache) /\ dk_cache[i].path = path[t] /\ dk_cache \in Seq(Handles)
        BY <1>0, <4>1 DEF At, Typed
      <4> QED BY <4>1, <4>2, MovedToEnd
    <3>3. /\ \A m \in 1..Len(dk_cache) : \E j \in 1..Len(dk_cache) : dk_cache'[j] = dk_cache[m]
          /\ \A j \in 1..Len(dk_cache) : \E m \in 1..Len(dk_cache) : dk_cache'[j] = dk_cache[m]
      BY <1>d, <3>2, MovedCovers
    <3>4. CachedPaths' = CachedPaths /\ LenientPaths' = LenientPaths
      <4>0. Len(dk_cache') = Len(dk_cache)
        BY <3>2
      <4>1. ASSUME NEW m \in 1..Len(dk_cache) PROVE dk_cache[m].path \in CachedPaths'
        BY <3>3, <4>0 DEF CachedPaths
      <4>2. ASSUME NEW m \in 1..Len(dk_cache) PROVE dk_cache'[m].path \in CachedPaths
        BY <3>3, <4>0 DEF CachedPaths
      <4>3. CachedPaths' = CachedPaths
        BY <4>0, <4>1, <4>2 DEF CachedPaths
      <4>4. LenientPaths' = LenientPaths
        BY <3>3, <4>0 DEF LenientPaths
      <4> QED BY <4>3, <4>4
    <3>5. Trimming' = Trimming
      BY <1>a, <1>0, <3>1, <2>1 DEF Typed, Trimming
    <3>6. /\ pc[t] = "touch" /\ client' = client /\ disk' = disk
          /\ lenient_note' = lenient_note /\ pc'[t] = "fetch"
          /\ \A x \in Threads : x # t => pc'[x] = pc[x]
          /\ path' = path /\ strict' = strict /\ dk' = dk /\ evicted' = evicted
          /\ answer' = answer /\ calls' = calls /\ writes' = writes
          /\ last_use' = last_use /\ changed' = changed
      BY <1>a, <1>0, <3>1 DEF Typed
    <3>7. client = "waits" => \A u \in Threads : u # t => pc[u] = "done" /\ pc'[u] = "done"
      BY <1>0, <3>6 DEF OneCall
    <3>8. Typed'
      BY <1>t, <1>a, <1>0, <3>1, <3>2, <3>3, <3>4, <3>5, <3>7, <1>c, <1>f, <2>1 DEF Typed
    <3>9. OnePerPath'
      <4>1. PICK i \in 1..Len(dk_cache) :
              \A j \in 1..Len(dk_cache) :
                dk_cache'[j] = IF j < i THEN dk_cache[j] ELSE IF j = Len(dk_cache) THEN dk_cache[i]
                               ELSE dk_cache[j + 1]
        BY <3>2
      <4> DEFINE from(j) == IF j < i THEN j ELSE IF j = Len(dk_cache) THEN i ELSE j + 1
      <4>2. \A j \in 1..Len(dk_cache) : from(j) \in 1..Len(dk_cache) /\ dk_cache'[j] = dk_cache[from(j)]
        BY <1>d, <4>1
      <4>3. \A j, k \in 1..Len(dk_cache) : from(j) = from(k) => j = k
        BY <1>d
      <4> HIDE DEF from
      <4>4. ASSUME NEW j \in 1..Len(dk_cache), NEW k \in 1..Len(dk_cache),
                   dk_cache'[j].path = dk_cache'[k].path
            PROVE  j = k
        <5>1. dk_cache[from(j)].path = dk_cache[from(k)].path
          BY <4>2, <4>4
        <5>2. from(j) = from(k)
          BY <1>0, <4>2, <5>1 DEF OnePerPath
        <5> QED BY <4>3, <5>2
      <4>5. Len(dk_cache') = Len(dk_cache)
        BY <3>2
      <4> QED BY <4>4, <4>5 DEF OnePerPath
    <3>10. CacheBounded'
      BY <1>a, <1>0, <3>2, <3>3, <3>4, <3>5, <3>7, <3>6, <2>1 DEF CacheBounded
    <3>11. CallsKnow'
      BY <1>0, <3>6 DEF CallsKnow, WithHandle
    <3>12. SameFiles'
      <4>1. Len(dk_cache') = Len(dk_cache)
        BY <3>2
      <4>2. ASSUME NEW j \in 1..Len(dk_cache), dk_cache'[j].path \notin changed
            PROVE  dk_cache'[j].mode = ModeOf(disk[dk_cache'[j].path])
        <5>1. PICK i \in 1..Len(dk_cache) : dk_cache'[j] = dk_cache[i]
          BY <3>3
        <5> QED BY <1>0, <4>2, <5>1 DEF SameFiles
      <4> QED BY <1>0, <4>1, <4>2, <3>6 DEF SameFiles, WithHandle
    <3>13. OneCall'
      BY <1>a, <1>0, <3>2, <3>3, <3>4, <3>5, <3>7, <3>6, <2>1 DEF OneCall
    <3>14. SerialCache'
      BY <1>a, <1>0, <3>2, <3>3, <3>4, <3>5, <3>7, <3>6, <2>1 DEF SerialCache, OneCall, CallsKnow, WithHandle
    <3>15. NotesMatch'
      BY <1>a, <1>0, <3>2, <3>3, <3>4, <3>5, <3>7, <3>6, <2>1 DEF NotesMatch, OneCall, SerialCache
    <3>16. SerialOrder'
      <4> SUFFICES ASSUME client' = "waits" PROVE SerialOrder'
        BY DEF SerialOrder
      <4>0. client = "waits" /\ \A u \in Threads : u # t => pc[u] = "done" /\ pc'[u] = "done"
        BY <3>6, <3>2, <3>3, <3>4, <3>5, <3>7
      <4>1. PICK i \in 1..Len(dk_cache) :
              /\ dk_cache[i].path = path[t]
              /\ \A j \in 1..Len(dk_cache) :
                   dk_cache'[j] = IF j < i THEN dk_cache[j] ELSE IF j = Len(dk_cache) THEN dk_cache[i]
                                  ELSE dk_cache[j + 1]
        BY <3>2
      <4>2. /\ last_use[path[t]] = calls /\ \A p \in Paths : p # path[t] => last_use[p] < calls
            /\ \A p \in Paths : last_use[p] <= calls
        BY <1>0, <4>0, <3>6 DEF SerialOrder
      <4>3. ASSUME NEW a \in 1..Len(dk_cache), NEW b \in 1..Len(dk_cache), a < b, a # i
            PROVE  last_use[dk_cache[a].path] < last_use[dk_cache[b].path]
        <5>1. dk_cache[a].path # path[t]
          BY <1>0, <4>1, <4>3 DEF OnePerPath
        <5> QED BY <1>0, <4>0, <4>3, <5>1, <3>6 DEF SerialOrder
      <4>4. ASSUME NEW j \in 1..Len(dk_cache), NEW k \in 1..Len(dk_cache), j < k
            PROVE  last_use[dk_cache'[j].path] < last_use[dk_cache'[k].path]
        <5>0. PICK a \in 1..Len(dk_cache) : a # i /\ a = (IF j < i THEN j ELSE j + 1) /\ dk_cache'[j] = dk_cache[a]
          BY <1>d, <4>1, <4>4
        <5>1. CASE k = Len(dk_cache)
          <6>1. dk_cache'[k] = dk_cache[i]
            BY <1>d, <4>1, <5>1
          <6>2. dk_cache[a].path # path[t] /\ dk_cache[a].path \in Paths
            BY <1>0, <1>e, <4>1, <5>0 DEF OnePerPath
          <6> QED BY <4>1, <4>2, <5>0, <6>1, <6>2
        <5>2. CASE k # Len(dk_cache)
          <6>1. PICK b \in 1..Len(dk_cache) : b = (IF k < i THEN k ELSE k + 1) /\ dk_cache'[k] = dk_cache[b]
            BY <1>d, <4>1, <5>2
          <6>2. a < b
            BY <1>d, <4>4, <5>0, <6>1
          <6> QED BY <4>3, <5>0, <6>1, <6>2
        <5> QED BY <5>1, <5>2
      <4> QED BY <1>d, <3>2, <4>0, <4>2, <4>4, <3>6 DEF SerialOrder
    <3>17. NoteIsTrue'
      BY <1>a, <1>0, <3>2, <3>3, <3>4, <3>5, <3>7, <3>6, <2>1 DEF NoteIsTrue, CallsKnow, Waiting
    <3>18. SerialAnswers'
      BY <1>a, <1>0, <3>2, <3>3, <3>4, <3>5, <3>7, <3>6, <2>1 DEF SerialAnswers, NoteOnEveryAnswer, ErrorOnlyWhenUnopenable, CallsKnow, Waiting
    <3> QED BY <3>8, <3>9, <3>10, <3>11, <3>12, <3>13, <3>14, <3>15, <3>16, <3>17, <3>18 DEF McpInv
  <2>2. CASE ~Cached(path[t])
    <3>1. /\ pc[t] = "touch" /\ client' = client /\ disk' = disk
          /\ dk_cache' = dk_cache /\ lenient_note' = lenient_note
          /\ pc' = [pc EXCEPT ![t] = "done"] /\ path' = path /\ strict' = strict
          /\ dk' = dk /\ evicted' = evicted
          /\ answer' = [answer EXCEPT ![t] = [kind |-> "key_error", noted |-> FALSE]]
          /\ calls' = calls /\ writes' = writes /\ last_use' = last_use /\ changed' = changed
      BY <1>a, <1>5, <2>2 DEF Touch, Goto, Answer, shared, local, history
    <3>2. CachedPaths' = CachedPaths /\ LenientPaths' = LenientPaths
      BY <3>1 DEF CachedPaths, LenientPaths
    <3>3. Trimming' = Trimming
      BY <1>a, <1>0, <3>1, <2>2 DEF Typed, Trimming
    <3>4. client = "pipelines" /\ client # "waits"
      BY <1>0, <2>2, <3>1 DEF Typed, SerialCache, Cached, At, CachedPaths
    <3>5. /\ pc[t] = "touch" /\ client' = client /\ disk' = disk
          /\ dk_cache' = dk_cache /\ lenient_note' = lenient_note
          /\ pc'[t] = "done"
          /\ \A x \in Threads : x # t => pc'[x] = pc[x]
          /\ path' = path /\ strict' = strict /\ dk' = dk /\ evicted' = evicted
          /\ answer'[t] = [kind |-> "key_error", noted |-> FALSE]
          /\ \A x \in Threads : x # t => answer'[x] = answer[x]
          /\ calls' = calls /\ writes' = writes /\ last_use' = last_use /\ changed' = changed
      BY <1>a, <1>0, <3>1 DEF Typed
    <3>6. client = "waits" => \A u \in Threads : u # t => pc[u] = "done" /\ pc'[u] = "done"
      BY <1>0, <3>5 DEF OneCall
    <3>7. Typed'
      BY <1>t, <1>a, <1>0, <3>1, <3>2, <3>3, <3>4, <3>6, <1>c, <1>f, <2>2 DEF Typed
    <3>8. OnePerPath'
      BY <1>a, <1>0, <3>2, <3>3, <3>4, <3>6, <3>5, <2>2 DEF OnePerPath
    <3>9. CacheBounded'
      BY <1>a, <1>0, <3>2, <3>3, <3>4, <3>6, <3>5, <2>2 DEF CacheBounded
    <3>10. CallsKnow'
      BY <1>a, <1>0, <3>2, <3>3, <3>4, <3>6, <3>5, <1>c, <1>f, <2>2 DEF CallsKnow, WithHandle
    <3>11. SameFiles'
      BY <1>a, <1>0, <3>2, <3>3, <3>4, <3>6, <3>5, <1>c, <2>2 DEF SameFiles, WithHandle, CallsKnow
    <3>12. OneCall'
      BY <1>a, <1>0, <3>2, <3>3, <3>4, <3>6, <3>5, <2>2 DEF OneCall
    <3>13. SerialCache'
      BY <1>a, <1>0, <3>2, <3>3, <3>4, <3>6, <3>5, <2>2 DEF SerialCache, OneCall, CallsKnow, WithHandle
    <3>14. NotesMatch'
      BY <1>a, <1>0, <3>2, <3>3, <3>4, <3>6, <3>5, <2>2 DEF NotesMatch, OneCall, SerialCache
    <3>15. SerialOrder'
      BY <1>a, <1>0, <3>2, <3>3, <3>4, <3>6, <3>5, <1>d, <2>2 DEF SerialOrder, OneCall, CallsKnow
    <3>16. NoteIsTrue'
      BY <1>a, <1>0, <3>2, <3>3, <3>4, <3>6, <3>5, <2>2 DEF NoteIsTrue, CallsKnow, Waiting
    <3>17. SerialAnswers'
      BY <1>a, <1>0, <3>2, <3>3, <3>4, <3>6, <3>5, <2>2 DEF SerialAnswers, NoteOnEveryAnswer, ErrorOnlyWhenUnopenable, CallsKnow, Waiting
    <3> QED BY <3>7, <3>8, <3>9, <3>10, <3>11, <3>12, <3>13, <3>14, <3>15, <3>16, <3>17 DEF McpInv
  <2> QED BY <2>1, <2>2
<1>6. ASSUME NEW t \in Threads, Fetch(t) PROVE McpInv'
  <2>1. CASE Cached(path[t])
    <3>1. /\ pc[t] = "fetch" /\ client' = client /\ disk' = disk
          /\ dk_cache' = dk_cache /\ lenient_note' = lenient_note
          /\ pc' = [pc EXCEPT ![t] = "execute"] /\ path' = path /\ strict' = strict
          /\ evicted' = evicted /\ answer' = answer /\ calls' = calls
          /\ writes' = writes /\ last_use' = last_use /\ changed' = changed
      BY <1>a, <1>6, <2>1 DEF Fetch, Goto, Answer, shared, local, history
    <3>2. CachedPaths' = CachedPaths /\ LenientPaths' = LenientPaths
      BY <3>1 DEF CachedPaths, LenientPaths
    <3>3. Trimming' = Trimming
      BY <1>a, <1>0, <3>1, <2>1 DEF Typed, Trimming
    <3>4. \E i \in 1..Len(dk_cache) : dk_cache[i].path = path[t] /\ dk' = [dk EXCEPT ![t] = dk_cache[i]]
      BY <1>6, <2>1 DEF Fetch, At
    <3>5. /\ dk'[t] \in Handles /\ dk'[t].path = path[t] /\ path[t] \in Paths
          /\ \E i \in 1..Len(dk_cache) : dk_cache[i] = dk'[t]
          /\ \A x \in Threads : x # t => dk'[x] = dk[x]
      BY <1>0, <1>e, <3>1, <3>4 DEF Typed, CallsKnow
    <3>6. /\ pc[t] = "fetch" /\ client' = client /\ disk' = disk
          /\ dk_cache' = dk_cache /\ lenient_note' = lenient_note
          /\ pc'[t] = "execute"
          /\ \A x \in Threads : x # t => pc'[x] = pc[x]
          /\ path' = path /\ strict' = strict /\ evicted' = evicted
          /\ answer' = answer /\ calls' = calls /\ writes' = writes
          /\ last_use' = last_use /\ changed' = changed
      BY <1>a, <1>0, <3>1 DEF Typed
    <3>7. client = "waits" => \A u \in Threads : u # t => pc[u] = "done" /\ pc'[u] = "done"
      BY <1>0, <3>6 DEF OneCall
    <3>8. Typed'
      BY <1>t, <1>a, <1>0, <3>1, <3>2, <3>3, <3>4, <3>5, <3>7, <1>c, <1>f, <2>1 DEF Typed
    <3>9. OnePerPath'
      BY <1>a, <1>0, <3>2, <3>3, <3>4, <3>5, <3>7, <3>6, <2>1 DEF OnePerPath
    <3>10. CacheBounded'
      BY <1>a, <1>0, <3>2, <3>3, <3>4, <3>5, <3>7, <3>6, <2>1 DEF CacheBounded
    <3>11. CallsKnow'
      BY <1>a, <1>0, <3>2, <3>3, <3>4, <3>5, <3>7, <3>6, <1>c, <1>f, <2>1 DEF CallsKnow, WithHandle
    <3>12. SameFiles'
      BY <1>a, <1>0, <3>2, <3>3, <3>4, <3>5, <3>7, <3>6, <1>c, <2>1 DEF SameFiles, WithHandle, CallsKnow
    <3>13. OneCall'
      BY <1>a, <1>0, <3>2, <3>3, <3>4, <3>5, <3>7, <3>6, <2>1 DEF OneCall
    <3>14. SerialCache'
      BY <1>a, <1>0, <3>2, <3>3, <3>4, <3>5, <3>7, <3>6, <2>1 DEF SerialCache, OneCall, CallsKnow, WithHandle
    <3>15. NotesMatch'
      BY <1>a, <1>0, <3>2, <3>3, <3>4, <3>5, <3>7, <3>6, <2>1 DEF NotesMatch, OneCall, SerialCache
    <3>16. SerialOrder'
      BY <1>a, <1>0, <3>2, <3>3, <3>4, <3>5, <3>7, <3>6, <1>d, <2>1 DEF SerialOrder, OneCall, CallsKnow
    <3>17. NoteIsTrue'
      BY <1>a, <1>0, <3>2, <3>3, <3>4, <3>5, <3>7, <3>6, <2>1 DEF NoteIsTrue, CallsKnow, Waiting
    <3>18. SerialAnswers'
      BY <1>a, <1>0, <3>2, <3>3, <3>4, <3>5, <3>7, <3>6, <2>1 DEF SerialAnswers, NoteOnEveryAnswer, ErrorOnlyWhenUnopenable, CallsKnow, Waiting
    <3> QED BY <3>8, <3>9, <3>10, <3>11, <3>12, <3>13, <3>14, <3>15, <3>16, <3>17, <3>18 DEF McpInv
  <2>2. CASE ~Cached(path[t])
    <3>1. /\ pc[t] = "fetch" /\ client' = client /\ disk' = disk
          /\ dk_cache' = dk_cache /\ lenient_note' = lenient_note
          /\ pc' = [pc EXCEPT ![t] = "done"] /\ path' = path /\ strict' = strict
          /\ dk' = dk /\ evicted' = evicted
          /\ answer' = [answer EXCEPT ![t] = [kind |-> "key_error", noted |-> FALSE]]
          /\ calls' = calls /\ writes' = writes /\ last_use' = last_use /\ changed' = changed
      BY <1>a, <1>6, <2>2 DEF Fetch, Goto, Answer, shared, local, history
    <3>2. CachedPaths' = CachedPaths /\ LenientPaths' = LenientPaths
      BY <3>1 DEF CachedPaths, LenientPaths
    <3>3. Trimming' = Trimming
      BY <1>a, <1>0, <3>1, <2>2 DEF Typed, Trimming
    <3>4. client = "pipelines" /\ client # "waits"
      BY <1>0, <2>2, <3>1 DEF Typed, SerialCache, Cached, At, CachedPaths
    <3>5. /\ pc[t] = "fetch" /\ client' = client /\ disk' = disk
          /\ dk_cache' = dk_cache /\ lenient_note' = lenient_note
          /\ pc'[t] = "done"
          /\ \A x \in Threads : x # t => pc'[x] = pc[x]
          /\ path' = path /\ strict' = strict /\ dk' = dk /\ evicted' = evicted
          /\ answer'[t] = [kind |-> "key_error", noted |-> FALSE]
          /\ \A x \in Threads : x # t => answer'[x] = answer[x]
          /\ calls' = calls /\ writes' = writes /\ last_use' = last_use /\ changed' = changed
      BY <1>a, <1>0, <3>1 DEF Typed
    <3>6. client = "waits" => \A u \in Threads : u # t => pc[u] = "done" /\ pc'[u] = "done"
      BY <1>0, <3>5 DEF OneCall
    <3>7. Typed'
      BY <1>t, <1>a, <1>0, <3>1, <3>2, <3>3, <3>4, <3>6, <1>c, <1>f, <2>2 DEF Typed
    <3>8. OnePerPath'
      BY <1>a, <1>0, <3>2, <3>3, <3>4, <3>6, <3>5, <2>2 DEF OnePerPath
    <3>9. CacheBounded'
      BY <1>a, <1>0, <3>2, <3>3, <3>4, <3>6, <3>5, <2>2 DEF CacheBounded
    <3>10. CallsKnow'
      BY <1>a, <1>0, <3>2, <3>3, <3>4, <3>6, <3>5, <1>c, <1>f, <2>2 DEF CallsKnow, WithHandle
    <3>11. SameFiles'
      BY <1>a, <1>0, <3>2, <3>3, <3>4, <3>6, <3>5, <1>c, <2>2 DEF SameFiles, WithHandle, CallsKnow
    <3>12. OneCall'
      BY <1>a, <1>0, <3>2, <3>3, <3>4, <3>6, <3>5, <2>2 DEF OneCall
    <3>13. SerialCache'
      BY <1>a, <1>0, <3>2, <3>3, <3>4, <3>6, <3>5, <2>2 DEF SerialCache, OneCall, CallsKnow, WithHandle
    <3>14. NotesMatch'
      BY <1>a, <1>0, <3>2, <3>3, <3>4, <3>6, <3>5, <2>2 DEF NotesMatch, OneCall, SerialCache
    <3>15. SerialOrder'
      BY <1>a, <1>0, <3>2, <3>3, <3>4, <3>6, <3>5, <1>d, <2>2 DEF SerialOrder, OneCall, CallsKnow
    <3>16. NoteIsTrue'
      BY <1>a, <1>0, <3>2, <3>3, <3>4, <3>6, <3>5, <2>2 DEF NoteIsTrue, CallsKnow, Waiting
    <3>17. SerialAnswers'
      BY <1>a, <1>0, <3>2, <3>3, <3>4, <3>6, <3>5, <2>2 DEF SerialAnswers, NoteOnEveryAnswer, ErrorOnlyWhenUnopenable, CallsKnow, Waiting
    <3> QED BY <3>7, <3>8, <3>9, <3>10, <3>11, <3>12, <3>13, <3>14, <3>15, <3>16, <3>17 DEF McpInv
  <2> QED BY <2>1, <2>2
<1>7. ASSUME NEW t \in Threads, OpenStrict(t) PROVE McpInv'
  <2>1. CASE StrictSuffices(disk[path[t]])
    <3>1. /\ pc[t] = "open_strict" /\ client' = client /\ disk' = disk
          /\ dk_cache' = dk_cache /\ lenient_note' = lenient_note
          /\ pc' = [pc EXCEPT ![t] = "insert"] /\ path' = path
          /\ strict' = [strict EXCEPT ![t] = disk[path[t]].strict]
          /\ dk' = [dk EXCEPT ![t] = Handle(path[t], "strict")]
          /\ evicted' = evicted /\ answer' = answer /\ calls' = calls
          /\ writes' = writes /\ last_use' = last_use /\ changed' = changed
      BY <1>a, <1>0, <1>f, <1>7, <2>1 DEF OpenStrict, Goto, shared, local, history, CallsKnow
    <3>2. CachedPaths' = CachedPaths /\ LenientPaths' = LenientPaths
      BY <3>1 DEF CachedPaths, LenientPaths
    <3>3. Trimming' = Trimming
      BY <1>a, <1>0, <3>1, <2>1 DEF Typed, Trimming
    <3>4. path[t] \in Paths
      BY <1>0, <3>1 DEF CallsKnow
    <3>5. ModeOf(disk[path[t]]) = "strict"
      BY <2>1 DEF ModeOf
    <3>6. /\ pc[t] = "open_strict" /\ client' = client /\ disk' = disk
          /\ dk_cache' = dk_cache /\ lenient_note' = lenient_note
          /\ pc'[t] = "insert"
          /\ \A x \in Threads : x # t => pc'[x] = pc[x]
          /\ path' = path /\ strict'[t] = disk[path[t]].strict
          /\ \A x \in Threads : x # t => strict'[x] = strict[x]
          /\ dk'[t] = Handle(path[t], "strict")
          /\ \A x \in Threads : x # t => dk'[x] = dk[x]
          /\ evicted' = evicted /\ answer' = answer /\ calls' = calls
          /\ writes' = writes /\ last_use' = last_use /\ changed' = changed
      BY <1>a, <1>0, <3>1 DEF Typed
    <3>7. client = "waits" => \A u \in Threads : u # t => pc[u] = "done" /\ pc'[u] = "done"
      BY <1>0, <3>6 DEF OneCall
    <3>8. Typed'
      BY <1>t, <1>a, <1>0, <3>1, <3>2, <3>3, <3>4, <3>5, <3>7, <1>c, <1>f, <2>1 DEF Typed
    <3>9. OnePerPath'
      BY <1>a, <1>0, <3>2, <3>3, <3>4, <3>5, <3>7, <3>6, <2>1 DEF OnePerPath
    <3>10. CacheBounded'
      BY <1>a, <1>0, <3>2, <3>3, <3>4, <3>5, <3>7, <3>6, <2>1 DEF CacheBounded
    <3>11. CallsKnow'
      BY <1>a, <1>0, <3>2, <3>3, <3>4, <3>5, <3>7, <3>6, <1>c, <1>f, <2>1 DEF CallsKnow, WithHandle
    <3>12. SameFiles'
      BY <1>a, <1>0, <3>2, <3>3, <3>4, <3>5, <3>7, <3>6, <1>c, <2>1 DEF SameFiles, WithHandle, CallsKnow
    <3>13. OneCall'
      BY <1>a, <1>0, <3>2, <3>3, <3>4, <3>5, <3>7, <3>6, <2>1 DEF OneCall
    <3>14. SerialCache'
      BY <1>a, <1>0, <3>2, <3>3, <3>4, <3>5, <3>7, <3>6, <2>1 DEF SerialCache, OneCall, CallsKnow, WithHandle
    <3>15. NotesMatch'
      BY <1>a, <1>0, <3>2, <3>3, <3>4, <3>5, <3>7, <3>6, <2>1 DEF NotesMatch, OneCall, SerialCache
    <3>16. SerialOrder'
      BY <1>a, <1>0, <3>2, <3>3, <3>4, <3>5, <3>7, <3>6, <1>d, <2>1 DEF SerialOrder, OneCall, CallsKnow
    <3>17. NoteIsTrue'
      BY <1>a, <1>0, <3>2, <3>3, <3>4, <3>5, <3>7, <3>6, <2>1 DEF NoteIsTrue, CallsKnow, Waiting
    <3>18. SerialAnswers'
      BY <1>a, <1>0, <3>2, <3>3, <3>4, <3>5, <3>7, <3>6, <2>1 DEF SerialAnswers, NoteOnEveryAnswer, ErrorOnlyWhenUnopenable, CallsKnow, Waiting
    <3> QED BY <3>8, <3>9, <3>10, <3>11, <3>12, <3>13, <3>14, <3>15, <3>16, <3>17, <3>18 DEF McpInv
  <2>2. CASE ~StrictSuffices(disk[path[t]])
    <3>1. /\ pc[t] = "open_strict" /\ client' = client /\ disk' = disk
          /\ dk_cache' = dk_cache /\ lenient_note' = lenient_note
          /\ pc' = [pc EXCEPT ![t] = "open_lenient"] /\ path' = path
          /\ strict' = [strict EXCEPT ![t] = disk[path[t]].strict]
          /\ dk' = [dk EXCEPT ![t] = IF disk[path[t]].strict > 0 THEN Handle(path[t], "strict") ELSE NoHandle]
          /\ evicted' = evicted /\ answer' = answer /\ calls' = calls
          /\ writes' = writes /\ last_use' = last_use /\ changed' = changed
      BY <1>a, <1>7, <2>2 DEF OpenStrict, Goto, shared, local, history
    <3>2. CachedPaths' = CachedPaths /\ LenientPaths' = LenientPaths
      BY <3>1 DEF CachedPaths, LenientPaths
    <3>3. Trimming' = Trimming
      BY <1>a, <1>0, <3>1, <2>2 DEF Typed, Trimming
    <3>4. path[t] \in Paths
      BY <1>0, <3>1 DEF CallsKnow
    <3>5. /\ pc[t] = "open_strict" /\ client' = client /\ disk' = disk
          /\ dk_cache' = dk_cache /\ lenient_note' = lenient_note
          /\ pc'[t] = "open_lenient"
          /\ \A x \in Threads : x # t => pc'[x] = pc[x]
          /\ path' = path /\ strict'[t] = disk[path[t]].strict
          /\ \A x \in Threads : x # t => strict'[x] = strict[x]
          /\ dk'[t] = IF disk[path[t]].strict > 0 THEN Handle(path[t], "strict") ELSE NoHandle
          /\ \A x \in Threads : x # t => dk'[x] = dk[x]
          /\ evicted' = evicted /\ answer' = answer /\ calls' = calls
          /\ writes' = writes /\ last_use' = last_use /\ changed' = changed
      BY <1>a, <1>0, <3>1, <2>2 DEF Typed
    <3>6. client = "waits" => \A u \in Threads : u # t => pc[u] = "done" /\ pc'[u] = "done"
      BY <1>0, <3>5 DEF OneCall
    <3>7. Typed'
      BY <1>t, <1>a, <1>0, <3>1, <3>2, <3>3, <3>4, <3>6, <1>c, <1>f, <2>2 DEF Typed
    <3>8. OnePerPath'
      BY <1>a, <1>0, <3>2, <3>3, <3>4, <3>6, <3>5, <2>2 DEF OnePerPath
    <3>9. CacheBounded'
      BY <1>a, <1>0, <3>2, <3>3, <3>4, <3>6, <3>5, <2>2 DEF CacheBounded
    <3>10. CallsKnow'
      BY <1>a, <1>0, <3>2, <3>3, <3>4, <3>6, <3>5, <1>c, <1>f, <2>2 DEF CallsKnow, WithHandle
    <3>11. SameFiles'
      BY <1>a, <1>0, <3>2, <3>3, <3>4, <3>6, <3>5, <1>c, <2>2 DEF SameFiles, WithHandle, CallsKnow
    <3>12. OneCall'
      BY <1>a, <1>0, <3>2, <3>3, <3>4, <3>6, <3>5, <2>2 DEF OneCall
    <3>13. SerialCache'
      BY <1>a, <1>0, <3>2, <3>3, <3>4, <3>6, <3>5, <2>2 DEF SerialCache, OneCall, CallsKnow, WithHandle
    <3>14. NotesMatch'
      BY <1>a, <1>0, <3>2, <3>3, <3>4, <3>6, <3>5, <2>2 DEF NotesMatch, OneCall, SerialCache
    <3>15. SerialOrder'
      BY <1>a, <1>0, <3>2, <3>3, <3>4, <3>6, <3>5, <1>d, <2>2 DEF SerialOrder, OneCall, CallsKnow
    <3>16. NoteIsTrue'
      BY <1>a, <1>0, <3>2, <3>3, <3>4, <3>6, <3>5, <2>2 DEF NoteIsTrue, CallsKnow, Waiting
    <3>17. SerialAnswers'
      BY <1>a, <1>0, <3>2, <3>3, <3>4, <3>6, <3>5, <2>2 DEF SerialAnswers, NoteOnEveryAnswer, ErrorOnlyWhenUnopenable, CallsKnow, Waiting
    <3> QED BY <3>7, <3>8, <3>9, <3>10, <3>11, <3>12, <3>13, <3>14, <3>15, <3>16, <3>17 DEF McpInv
  <2> QED BY <2>1, <2>2
<1>8. ASSUME NEW t \in Threads, OpenLenient(t) PROVE McpInv'
  <2>1. CASE TakeLenient(strict[t], disk[path[t]])
    <3>1. /\ pc[t] = "open_lenient" /\ client' = client /\ disk' = disk
          /\ dk_cache' = dk_cache /\ lenient_note' = lenient_note
          /\ pc' = [pc EXCEPT ![t] = "insert"] /\ path' = path /\ strict' = strict
          /\ dk' = [dk EXCEPT ![t] = Handle(path[t], "lenient")]
          /\ evicted' = evicted /\ answer' = answer /\ calls' = calls
          /\ writes' = writes /\ last_use' = last_use /\ changed' = changed
      BY <1>a, <1>8, <2>1 DEF OpenLenient, Goto, Answer, shared, local, history
    <3>2. CachedPaths' = CachedPaths /\ LenientPaths' = LenientPaths
      BY <3>1 DEF CachedPaths, LenientPaths
    <3>3. Trimming' = Trimming
      BY <1>a, <1>0, <3>1, <2>1 DEF Typed, Trimming
    <3>4. path[t] \in Paths
      BY <1>0, <3>1 DEF CallsKnow
    <3>5. path[t] \notin changed => ModeOf(disk[path[t]]) = "lenient"
      BY <1>0, <2>1, <3>1 DEF SameFiles, ModeOf
    <3>6. /\ pc[t] = "open_lenient" /\ client' = client /\ disk' = disk
          /\ dk_cache' = dk_cache /\ lenient_note' = lenient_note
          /\ pc'[t] = "insert"
          /\ \A x \in Threads : x # t => pc'[x] = pc[x]
          /\ path' = path /\ strict' = strict
          /\ dk'[t] = Handle(path[t], "lenient")
          /\ \A x \in Threads : x # t => dk'[x] = dk[x]
          /\ evicted' = evicted /\ answer' = answer /\ calls' = calls
          /\ writes' = writes /\ last_use' = last_use /\ changed' = changed
      BY <1>a, <1>0, <3>1 DEF Typed
    <3>7. client = "waits" => \A u \in Threads : u # t => pc[u] = "done" /\ pc'[u] = "done"
      BY <1>0, <3>6 DEF OneCall
    <3>8. Typed'
      BY <1>t, <1>a, <1>0, <3>1, <3>2, <3>3, <3>4, <3>5, <3>7, <1>c, <1>f, <2>1 DEF Typed
    <3>9. OnePerPath'
      BY <1>a, <1>0, <3>2, <3>3, <3>4, <3>5, <3>7, <3>6, <2>1 DEF OnePerPath
    <3>10. CacheBounded'
      BY <1>a, <1>0, <3>2, <3>3, <3>4, <3>5, <3>7, <3>6, <2>1 DEF CacheBounded
    <3>11. CallsKnow'
      BY <1>a, <1>0, <3>2, <3>3, <3>4, <3>5, <3>7, <3>6, <1>c, <1>f, <2>1 DEF CallsKnow, WithHandle
    <3>12. SameFiles'
      BY <1>a, <1>0, <3>2, <3>3, <3>4, <3>5, <3>7, <3>6, <1>c, <2>1 DEF SameFiles, WithHandle, CallsKnow
    <3>13. OneCall'
      BY <1>a, <1>0, <3>2, <3>3, <3>4, <3>5, <3>7, <3>6, <2>1 DEF OneCall
    <3>14. SerialCache'
      BY <1>a, <1>0, <3>2, <3>3, <3>4, <3>5, <3>7, <3>6, <2>1 DEF SerialCache, OneCall, CallsKnow, WithHandle
    <3>15. NotesMatch'
      BY <1>a, <1>0, <3>2, <3>3, <3>4, <3>5, <3>7, <3>6, <2>1 DEF NotesMatch, OneCall, SerialCache
    <3>16. SerialOrder'
      BY <1>a, <1>0, <3>2, <3>3, <3>4, <3>5, <3>7, <3>6, <1>d, <2>1 DEF SerialOrder, OneCall, CallsKnow
    <3>17. NoteIsTrue'
      BY <1>a, <1>0, <3>2, <3>3, <3>4, <3>5, <3>7, <3>6, <2>1 DEF NoteIsTrue, CallsKnow, Waiting
    <3>18. SerialAnswers'
      BY <1>a, <1>0, <3>2, <3>3, <3>4, <3>5, <3>7, <3>6, <2>1 DEF SerialAnswers, NoteOnEveryAnswer, ErrorOnlyWhenUnopenable, CallsKnow, Waiting
    <3> QED BY <3>8, <3>9, <3>10, <3>11, <3>12, <3>13, <3>14, <3>15, <3>16, <3>17, <3>18 DEF McpInv
  <2>2. CASE ~TakeLenient(strict[t], disk[path[t]]) /\ strict[t] > 0
    <3>1. /\ pc[t] = "open_lenient" /\ client' = client /\ disk' = disk
          /\ dk_cache' = dk_cache /\ lenient_note' = lenient_note
          /\ pc' = [pc EXCEPT ![t] = "insert"] /\ path' = path /\ strict' = strict
          /\ dk' = dk /\ evicted' = evicted /\ answer' = answer /\ calls' = calls
          /\ writes' = writes /\ last_use' = last_use /\ changed' = changed
      BY <1>a, <1>8, <2>2 DEF OpenLenient, Goto, Answer, shared, local, history
    <3>2. CachedPaths' = CachedPaths /\ LenientPaths' = LenientPaths
      BY <3>1 DEF CachedPaths, LenientPaths
    <3>3. Trimming' = Trimming
      BY <1>a, <1>0, <3>1, <2>2 DEF Typed, Trimming
    <3>4. path[t] \in Paths /\ dk[t] = Handle(path[t], "strict")
      BY <1>0, <2>2, <3>1 DEF CallsKnow
    <3>5. path[t] \notin changed => ModeOf(disk[path[t]]) = "strict"
      BY <1>0, <2>2, <3>1 DEF SameFiles, ModeOf
    <3>6. /\ pc[t] = "open_lenient" /\ client' = client /\ disk' = disk
          /\ dk_cache' = dk_cache /\ lenient_note' = lenient_note
          /\ pc'[t] = "insert"
          /\ \A x \in Threads : x # t => pc'[x] = pc[x]
          /\ path' = path /\ strict' = strict /\ dk' = dk /\ evicted' = evicted
          /\ answer' = answer /\ calls' = calls /\ writes' = writes
          /\ last_use' = last_use /\ changed' = changed
      BY <1>a, <1>0, <3>1 DEF Typed
    <3>7. client = "waits" => \A u \in Threads : u # t => pc[u] = "done" /\ pc'[u] = "done"
      BY <1>0, <3>6 DEF OneCall
    <3>8. Typed'
      BY <1>t, <1>a, <1>0, <3>1, <3>2, <3>3, <3>4, <3>5, <3>7, <1>c, <1>f, <2>2 DEF Typed
    <3>9. OnePerPath'
      BY <1>a, <1>0, <3>2, <3>3, <3>4, <3>5, <3>7, <3>6, <2>2 DEF OnePerPath
    <3>10. CacheBounded'
      BY <1>a, <1>0, <3>2, <3>3, <3>4, <3>5, <3>7, <3>6, <2>2 DEF CacheBounded
    <3>11. CallsKnow'
      BY <1>a, <1>0, <3>2, <3>3, <3>4, <3>5, <3>7, <3>6, <1>c, <1>f, <2>2 DEF CallsKnow, WithHandle
    <3>12. SameFiles'
      BY <1>a, <1>0, <3>2, <3>3, <3>4, <3>5, <3>7, <3>6, <1>c, <2>2 DEF SameFiles, WithHandle, CallsKnow
    <3>13. OneCall'
      BY <1>a, <1>0, <3>2, <3>3, <3>4, <3>5, <3>7, <3>6, <2>2 DEF OneCall
    <3>14. SerialCache'
      BY <1>a, <1>0, <3>2, <3>3, <3>4, <3>5, <3>7, <3>6, <2>2 DEF SerialCache, OneCall, CallsKnow, WithHandle
    <3>15. NotesMatch'
      BY <1>a, <1>0, <3>2, <3>3, <3>4, <3>5, <3>7, <3>6, <2>2 DEF NotesMatch, OneCall, SerialCache
    <3>16. SerialOrder'
      BY <1>a, <1>0, <3>2, <3>3, <3>4, <3>5, <3>7, <3>6, <1>d, <2>2 DEF SerialOrder, OneCall, CallsKnow
    <3>17. NoteIsTrue'
      BY <1>a, <1>0, <3>2, <3>3, <3>4, <3>5, <3>7, <3>6, <2>2 DEF NoteIsTrue, CallsKnow, Waiting
    <3>18. SerialAnswers'
      BY <1>a, <1>0, <3>2, <3>3, <3>4, <3>5, <3>7, <3>6, <2>2 DEF SerialAnswers, NoteOnEveryAnswer, ErrorOnlyWhenUnopenable, CallsKnow, Waiting
    <3> QED BY <3>8, <3>9, <3>10, <3>11, <3>12, <3>13, <3>14, <3>15, <3>16, <3>17, <3>18 DEF McpInv
  <2>3. CASE ~TakeLenient(strict[t], disk[path[t]]) /\ strict[t] = 0
    <3>1. /\ pc[t] = "open_lenient" /\ client' = client /\ disk' = disk
          /\ dk_cache' = dk_cache /\ lenient_note' = lenient_note
          /\ pc' = [pc EXCEPT ![t] = "done"] /\ path' = path /\ strict' = strict
          /\ dk' = dk /\ evicted' = evicted
          /\ answer' = [answer EXCEPT ![t] = [kind |-> "unopenable", noted |-> FALSE]]
          /\ calls' = calls /\ writes' = writes /\ last_use' = last_use /\ changed' = changed
      BY <1>a, <1>8, <2>3 DEF OpenLenient, Goto, Answer, shared, local, history
    <3>2. CachedPaths' = CachedPaths /\ LenientPaths' = LenientPaths
      BY <3>1 DEF CachedPaths, LenientPaths
    <3>3. Trimming' = Trimming
      BY <1>a, <1>0, <3>1, <2>3 DEF Typed, Trimming
    <3>4. /\ pc[t] = "open_lenient" /\ client' = client /\ disk' = disk
          /\ dk_cache' = dk_cache /\ lenient_note' = lenient_note
          /\ pc'[t] = "done"
          /\ \A x \in Threads : x # t => pc'[x] = pc[x]
          /\ path' = path /\ strict' = strict /\ dk' = dk /\ evicted' = evicted
          /\ answer'[t] = [kind |-> "unopenable", noted |-> FALSE]
          /\ \A x \in Threads : x # t => answer'[x] = answer[x]
          /\ calls' = calls /\ writes' = writes /\ last_use' = last_use /\ changed' = changed
      BY <1>a, <1>0, <3>1 DEF Typed
    <3>5. client = "waits" => \A u \in Threads : u # t => pc[u] = "done" /\ pc'[u] = "done"
      BY <1>0, <3>4 DEF OneCall
    <3>6. Typed'
      BY <1>t, <1>a, <1>0, <3>1, <3>2, <3>3, <3>5, <1>c, <1>f, <2>3 DEF Typed
    <3>7. OnePerPath'
      BY <1>a, <1>0, <3>2, <3>3, <3>5, <3>4, <2>3 DEF OnePerPath
    <3>8. CacheBounded'
      BY <1>a, <1>0, <3>2, <3>3, <3>5, <3>4, <2>3 DEF CacheBounded
    <3>9. CallsKnow'
      BY <1>a, <1>0, <3>2, <3>3, <3>5, <3>4, <1>c, <1>f, <2>3 DEF CallsKnow, WithHandle
    <3>10. SameFiles'
      BY <1>a, <1>0, <3>2, <3>3, <3>5, <3>4, <1>c, <2>3 DEF SameFiles, WithHandle, CallsKnow
    <3>11. OneCall'
      BY <1>a, <1>0, <3>2, <3>3, <3>5, <3>4, <2>3 DEF OneCall
    <3>12. SerialCache'
      BY <1>a, <1>0, <3>2, <3>3, <3>5, <3>4, <2>3 DEF SerialCache, OneCall, CallsKnow, WithHandle
    <3>13. NotesMatch'
      BY <1>a, <1>0, <3>2, <3>3, <3>5, <3>4, <2>3 DEF NotesMatch, OneCall, SerialCache
    <3>14. SerialOrder'
      BY <1>a, <1>0, <3>2, <3>3, <3>5, <3>4, <1>d, <2>3 DEF SerialOrder, OneCall, CallsKnow
    <3>15. NoteIsTrue'
      BY <1>a, <1>0, <3>2, <3>3, <3>5, <3>4, <2>3 DEF NoteIsTrue, CallsKnow, Waiting
    <3>16. SerialAnswers'
      BY <1>a, <1>0, <3>2, <3>3, <3>5, <3>4, <2>3 DEF SerialAnswers, NoteOnEveryAnswer, ErrorOnlyWhenUnopenable, CallsKnow, Waiting
    <3> QED BY <3>6, <3>7, <3>8, <3>9, <3>10, <3>11, <3>12, <3>13, <3>14, <3>15, <3>16 DEF McpInv
  <2>4. strict[t] \in 0..2
    BY <1>0 DEF Typed
  <2> QED BY <2>1, <2>2, <2>3, <2>4
<1>9. ASSUME NEW t \in Threads, Insert(t) PROVE McpInv'
  <2>1. CASE Cached(path[t])
    <3>1. /\ pc[t] = "insert" /\ client' = client /\ disk' = disk
          /\ lenient_note' = lenient_note /\ pc' = [pc EXCEPT ![t] = "record"]
          /\ path' = path /\ strict' = strict /\ dk' = dk /\ evicted' = evicted
          /\ answer' = answer /\ calls' = calls /\ writes' = writes
          /\ last_use' = last_use /\ changed' = changed
      BY <1>a, <1>9, <2>1 DEF Insert, Goto, shared, local, history
    <3>2. /\ dk_cache' \in Seq(Handles) /\ Len(dk_cache') = Len(dk_cache)
          /\ \A j \in 1..Len(dk_cache) :
               dk_cache'[j] = IF dk_cache[j].path = path[t] THEN dk[t] ELSE dk_cache[j]
      <4>1. dk_cache' = [i \in 1..Len(dk_cache) |-> IF i \in At(path[t]) THEN dk[t] ELSE dk_cache[i]]
        BY <1>9, <2>1 DEF Insert
      <4>2. dk_cache \in Seq(Handles) /\ dk[t] \in Handles
        BY <1>0, <3>1 DEF Typed, CallsKnow, WithHandle
      <4>3. \A j \in 1..Len(dk_cache) : j \in At(path[t]) <=> dk_cache[j].path = path[t]
        BY DEF At
      <4> HIDE DEF Handles
      <4> QED BY <4>1, <4>2, <4>3
    <3>3. client = "pipelines" /\ dk[t] \in Handles /\ dk[t].path = path[t]
      BY <1>0, <2>1, <3>1 DEF Typed, SerialCache, Cached, At, CachedPaths, CallsKnow, WithHandle
    <3>4. Trimming' = Trimming \cup {t} /\ t \notin Trimming
      BY <1>a, <1>0, <3>1 DEF Typed, Trimming
    <3>5. /\ pc[t] = "insert" /\ client' = client /\ disk' = disk
          /\ lenient_note' = lenient_note /\ pc'[t] = "record"
          /\ \A x \in Threads : x # t => pc'[x] = pc[x]
          /\ path' = path /\ strict' = strict /\ dk' = dk /\ evicted' = evicted
          /\ answer' = answer /\ calls' = calls /\ writes' = writes
          /\ last_use' = last_use /\ changed' = changed
      BY <1>a, <1>0, <3>1 DEF Typed
    <3>6. client = "waits" => \A u \in Threads : u # t => pc[u] = "done" /\ pc'[u] = "done"
      BY <1>0, <3>5 DEF OneCall
    <3>7. Typed'
      BY <1>t, <1>a, <1>0, <3>1, <3>2, <3>3, <3>4, <3>6, <1>c, <1>f, <2>1 DEF Typed
    <3>8. OnePerPath'
      BY <1>a, <1>0, <3>2, <3>3, <3>4, <3>6, <3>5, <2>1 DEF OnePerPath
    <3>9. CacheBounded'
      <4>1. Cardinality(Trimming') = Cardinality(Trimming) + 1
        BY <1>b, <3>2, <3>3, <3>4, <3>6, FS_AddElement
      <4>2. Len(dk_cache') <= Len(dk_cache) + 1 /\ Len(dk_cache) \in Nat /\ Len(dk_cache') \in Nat
        BY <1>0, <3>2, <3>3, <3>4, <3>6 DEF Typed
      <4> QED BY <1>a, <1>b, <1>0, <4>1, <4>2 DEF CacheBounded
    <3>10. CallsKnow'
      BY <1>a, <1>0, <3>2, <3>3, <3>4, <3>6, <3>5, <1>c, <1>f, <2>1 DEF CallsKnow, WithHandle
    <3>11. SameFiles'
      BY <1>a, <1>0, <3>2, <3>3, <3>4, <3>6, <3>5, <1>c, <2>1 DEF SameFiles, WithHandle, CallsKnow
    <3>12. OneCall'
      BY <1>a, <1>0, <3>2, <3>3, <3>4, <3>6, <3>5, <2>1 DEF OneCall
    <3>13. SerialCache'
      BY <1>a, <1>0, <3>2, <3>3, <3>4, <3>6, <3>5, <2>1 DEF SerialCache, OneCall, CallsKnow, WithHandle
    <3>14. NotesMatch'
      BY <1>a, <1>0, <3>2, <3>3, <3>4, <3>6, <3>5, <2>1 DEF NotesMatch, OneCall, SerialCache
    <3>15. SerialOrder'
      BY <1>a, <1>0, <3>2, <3>3, <3>4, <3>6, <3>5, <1>d, <2>1 DEF SerialOrder, OneCall, CallsKnow
    <3>16. NoteIsTrue'
      BY <1>a, <1>0, <3>2, <3>3, <3>4, <3>6, <3>5, <2>1 DEF NoteIsTrue, CallsKnow, Waiting
    <3>17. SerialAnswers'
      BY <1>a, <1>0, <3>2, <3>3, <3>4, <3>6, <3>5, <2>1 DEF SerialAnswers, NoteOnEveryAnswer, ErrorOnlyWhenUnopenable, CallsKnow, Waiting
    <3> QED BY <3>7, <3>8, <3>9, <3>10, <3>11, <3>12, <3>13, <3>14, <3>15, <3>16, <3>17 DEF McpInv
  <2>2. CASE ~Cached(path[t])
    <3>1. /\ pc[t] = "insert" /\ client' = client /\ disk' = disk
          /\ dk_cache' = Append(dk_cache, dk[t]) /\ lenient_note' = lenient_note
          /\ pc' = [pc EXCEPT ![t] = "record"] /\ path' = path /\ strict' = strict
          /\ dk' = dk /\ evicted' = evicted /\ answer' = answer /\ calls' = calls
          /\ writes' = writes /\ last_use' = last_use /\ changed' = changed
      BY <1>a, <1>9, <2>2 DEF Insert, Goto, shared, local, history
    <3>2. /\ dk[t] \in Handles /\ dk[t].path = path[t] /\ path[t] \in Paths
          /\ \A i \in 1..Len(dk_cache) : dk_cache[i].path # path[t]
      BY <1>0, <2>2, <3>1 DEF CallsKnow, WithHandle, Cached, At
    <3>3. /\ dk_cache' \in Seq(Handles) /\ Len(dk_cache') = Len(dk_cache) + 1 /\ Len(dk_cache) \in Nat
          /\ dk_cache'[Len(dk_cache) + 1] = dk[t]
          /\ \A j \in 1..Len(dk_cache) : dk_cache'[j] = dk_cache[j]
      <4>1. dk_cache \in Seq(Handles)
        BY <1>0 DEF Typed
      <4> HIDE DEF Handles
      <4> QED BY <3>1, <3>2, <4>1
    <3>4. /\ CachedPaths' = CachedPaths \cup {path[t]}
          /\ \A p \in Paths : p # path[t] => (p \in LenientPaths' <=> p \in LenientPaths)
      <4> DEFINE n == Len(dk_cache)
      <4>0. n \in Nat /\ 1..(n + 1) = 1..n \cup {n + 1}
        BY <3>3
      <4> HIDE DEF n
      <4>1. /\ Len(dk_cache') = n + 1 /\ dk_cache'[n + 1] = dk[t] /\ dk[t].path = path[t]
            /\ \A j \in 1..n : dk_cache'[j] = dk_cache[j]
        BY <3>2, <3>3 DEF n
      <4>2. CachedPaths' = CachedPaths \cup {path[t]}
        BY <4>0, <4>1 DEF CachedPaths, n
      <4>3. ASSUME NEW p \in Paths, p # path[t] PROVE p \in LenientPaths' <=> p \in LenientPaths
        <5>1. dk[t] # Handle(p, "lenient")
          BY <4>1, <4>3 DEF Handle
        <5> QED BY <4>0, <4>1, <5>1 DEF LenientPaths, n
      <4> QED BY <4>2, <4>3
    <3>5. Trimming' = Trimming \cup {t} /\ t \notin Trimming
      BY <1>a, <1>0, <3>1 DEF Typed, Trimming
    <3>6. /\ pc[t] = "insert" /\ client' = client /\ disk' = disk
          /\ dk_cache' = Append(dk_cache, dk[t]) /\ lenient_note' = lenient_note
          /\ pc'[t] = "record"
          /\ \A x \in Threads : x # t => pc'[x] = pc[x]
          /\ path' = path /\ strict' = strict /\ dk' = dk /\ evicted' = evicted
          /\ answer' = answer /\ calls' = calls /\ writes' = writes
          /\ last_use' = last_use /\ changed' = changed
      BY <1>a, <1>0, <3>1 DEF Typed
    <3>7. client = "waits" => \A u \in Threads : u # t => pc[u] = "done" /\ pc'[u] = "done"
      BY <1>0, <3>6 DEF OneCall
    <3>8. Typed'
      BY <1>t, <1>a, <1>0, <3>1, <3>2, <3>3, <3>4, <3>5, <3>7, <1>c, <1>f, <2>2 DEF Typed
    <3>9. OnePerPath'
      BY <1>a, <1>0, <3>2, <3>3, <3>4, <3>5, <3>7, <3>6, <2>2 DEF OnePerPath
    <3>10. CacheBounded'
      <4>1. Cardinality(Trimming') = Cardinality(Trimming) + 1
        BY <1>b, <3>2, <3>3, <3>4, <3>5, <3>7, FS_AddElement
      <4>2. Len(dk_cache') <= Len(dk_cache) + 1 /\ Len(dk_cache) \in Nat /\ Len(dk_cache') \in Nat
        BY <1>0, <3>2, <3>3, <3>4, <3>5, <3>7 DEF Typed
      <4> QED BY <1>a, <1>b, <1>0, <4>1, <4>2 DEF CacheBounded
    <3>11. CallsKnow'
      BY <1>a, <1>0, <3>2, <3>3, <3>4, <3>5, <3>7, <3>6, <1>c, <1>f, <2>2 DEF CallsKnow, WithHandle
    <3>12. SameFiles'
      BY <1>a, <1>0, <3>2, <3>3, <3>4, <3>5, <3>7, <3>6, <1>c, <2>2 DEF SameFiles, WithHandle, CallsKnow
    <3>13. OneCall'
      BY <1>a, <1>0, <3>2, <3>3, <3>4, <3>5, <3>7, <3>6, <2>2 DEF OneCall
    <3>14. SerialCache'
      BY <1>a, <1>0, <3>2, <3>3, <3>4, <3>5, <3>7, <3>6, <2>2 DEF SerialCache, OneCall, CallsKnow, WithHandle
    <3>15. NotesMatch'
      BY <1>a, <1>0, <3>2, <3>3, <3>4, <3>5, <3>7, <3>6, <2>2 DEF NotesMatch, OneCall, SerialCache
    <3>16. SerialOrder'
      <4> SUFFICES ASSUME client' = "waits" PROVE SerialOrder'
        BY DEF SerialOrder
      <4>0. client = "waits" /\ \A u \in Threads : u # t => pc[u] = "done" /\ pc'[u] = "done"
        BY <3>6, <3>2, <3>3, <3>4, <3>5, <3>7
      <4>1. /\ last_use[path[t]] = calls /\ \A p \in Paths : p # path[t] => last_use[p] < calls
            /\ \A p \in Paths : last_use[p] <= calls
        BY <1>0, <4>0, <3>6 DEF SerialOrder
      <4>2. ASSUME NEW i \in 1..Len(dk_cache'), NEW j \in 1..Len(dk_cache'), i < j
            PROVE  last_use[dk_cache'[i].path] < last_use[dk_cache'[j].path]
        <5>1. /\ i \in 1..Len(dk_cache) /\ dk_cache'[i] = dk_cache[i]
              /\ dk_cache[i].path # path[t] /\ dk_cache[i].path \in Paths
          BY <1>d, <1>e, <3>2, <3>3, <4>2
        <5>2. CASE j = Len(dk_cache) + 1
          BY <3>2, <3>3, <4>1, <5>1, <5>2
        <5>3. CASE j # Len(dk_cache) + 1
          <6>1. j \in 1..Len(dk_cache) /\ dk_cache'[j] = dk_cache[j]
            BY <1>d, <3>3, <5>3
          <6> QED BY <1>0, <4>0, <4>2, <5>1, <6>1, <3>6 DEF SerialOrder
        <5> QED BY <5>2, <5>3
      <4> QED BY <1>d, <4>0, <4>1, <4>2, <3>6 DEF SerialOrder
    <3>17. NoteIsTrue'
      BY <1>a, <1>0, <3>2, <3>3, <3>4, <3>5, <3>7, <3>6, <2>2 DEF NoteIsTrue, CallsKnow, Waiting
    <3>18. SerialAnswers'
      BY <1>a, <1>0, <3>2, <3>3, <3>4, <3>5, <3>7, <3>6, <2>2 DEF SerialAnswers, NoteOnEveryAnswer, ErrorOnlyWhenUnopenable, CallsKnow, Waiting
    <3> QED BY <3>8, <3>9, <3>10, <3>11, <3>12, <3>13, <3>14, <3>15, <3>16, <3>17, <3>18 DEF McpInv
  <2> QED BY <2>1, <2>2
<1>10. ASSUME NEW t \in Threads, Record(t) PROVE McpInv'
  <2>1. CASE dk[t].mode = "lenient"
    <3>1. /\ pc[t] = "record" /\ client' = client /\ disk' = disk
          /\ dk_cache' = dk_cache /\ lenient_note' = lenient_note \cup {path[t]}
          /\ pc' = [pc EXCEPT ![t] = "check"] /\ path' = path /\ strict' = strict
          /\ dk' = dk /\ evicted' = evicted /\ answer' = answer /\ calls' = calls
          /\ writes' = writes /\ last_use' = last_use /\ changed' = changed
      BY <1>a, <1>10, <2>1 DEF Record, Goto, shared, local, history
    <3>2. CachedPaths' = CachedPaths /\ LenientPaths' = LenientPaths
      BY <3>1 DEF CachedPaths, LenientPaths
    <3>3. Trimming' = Trimming
      BY <1>a, <1>0, <3>1, <2>1 DEF Typed, Trimming
    <3>4. path[t] \in Paths /\ dk[t] \in Handles /\ dk[t].path = path[t]
      BY <1>0, <3>1 DEF CallsKnow, WithHandle
    <3>5. client = "waits" => (path[t] \in LenientPaths <=> dk[t].mode = "lenient")
      <4> SUFFICES ASSUME client = "waits" PROVE path[t] \in LenientPaths <=> dk[t].mode = "lenient"
        OBVIOUS
      <4>1. dk_cache # <<>> /\ dk_cache[Len(dk_cache)] = dk[t]
        BY <1>0, <3>1 DEF SerialCache
      <4>2. Len(dk_cache) \in 1..Len(dk_cache)
        BY <1>0, <4>1 DEF Typed
      <4> QED BY <1>0, <3>4, <4>1, <4>2, LenientAt
    <3>6. /\ pc[t] = "record" /\ client' = client /\ disk' = disk
          /\ dk_cache' = dk_cache /\ lenient_note' = lenient_note \cup {path[t]}
          /\ pc'[t] = "check"
          /\ \A x \in Threads : x # t => pc'[x] = pc[x]
          /\ path' = path /\ strict' = strict /\ dk' = dk /\ evicted' = evicted
          /\ answer' = answer /\ calls' = calls /\ writes' = writes
          /\ last_use' = last_use /\ changed' = changed
      BY <1>a, <1>0, <3>1 DEF Typed
    <3>7. client = "waits" => \A u \in Threads : u # t => pc[u] = "done" /\ pc'[u] = "done"
      BY <1>0, <3>6 DEF OneCall
    <3>8. Typed'
      BY <1>t, <1>a, <1>0, <3>1, <3>2, <3>3, <3>4, <3>5, <3>7, <1>c, <1>f, <2>1 DEF Typed
    <3>9. OnePerPath'
      BY <1>a, <1>0, <3>2, <3>3, <3>4, <3>5, <3>7, <3>6, <2>1 DEF OnePerPath
    <3>10. CacheBounded'
      BY <1>a, <1>0, <3>2, <3>3, <3>4, <3>5, <3>7, <3>6, <2>1 DEF CacheBounded
    <3>11. CallsKnow'
      BY <1>a, <1>0, <3>2, <3>3, <3>4, <3>5, <3>7, <3>6, <1>c, <1>f, <2>1 DEF CallsKnow, WithHandle
    <3>12. SameFiles'
      BY <1>a, <1>0, <3>2, <3>3, <3>4, <3>5, <3>7, <3>6, <1>c, <2>1 DEF SameFiles, WithHandle, CallsKnow
    <3>13. OneCall'
      BY <1>a, <1>0, <3>2, <3>3, <3>4, <3>5, <3>7, <3>6, <2>1 DEF OneCall
    <3>14. SerialCache'
      BY <1>a, <1>0, <3>2, <3>3, <3>4, <3>5, <3>7, <3>6, <2>1 DEF SerialCache, OneCall, CallsKnow, WithHandle
    <3>15. NotesMatch'
      <4> SUFFICES ASSUME client = "waits", NEW p \in Paths PROVE p \in lenient_note' <=> p \in LenientPaths'
        BY <3>6 DEF NotesMatch
      <4>1. CASE p = path[t]
        BY <3>2, <3>5, <4>1, <3>6, <2>1
      <4>2. CASE p # path[t]
        <5>1. p \in lenient_note <=> p \in LenientPaths
          BY <1>0, <4>2, <3>6, <3>2, <3>3, <3>4, <3>5, <3>7 DEF NotesMatch
        <5> QED BY <3>2, <4>2, <5>1, <3>6
      <4> QED BY <4>1, <4>2
    <3>16. SerialOrder'
      BY <1>a, <1>0, <3>2, <3>3, <3>4, <3>5, <3>7, <3>6, <1>d, <2>1 DEF SerialOrder, OneCall, CallsKnow
    <3>17. NoteIsTrue'
      BY <1>a, <1>0, <3>2, <3>3, <3>4, <3>5, <3>7, <3>6, <2>1 DEF NoteIsTrue, CallsKnow, Waiting
    <3>18. SerialAnswers'
      BY <1>a, <1>0, <3>2, <3>3, <3>4, <3>5, <3>7, <3>6, <2>1 DEF SerialAnswers, NoteOnEveryAnswer, ErrorOnlyWhenUnopenable, CallsKnow, Waiting
    <3> QED BY <3>8, <3>9, <3>10, <3>11, <3>12, <3>13, <3>14, <3>15, <3>16, <3>17, <3>18 DEF McpInv
  <2>2. CASE dk[t].mode # "lenient"
    <3>1. /\ pc[t] = "record" /\ client' = client /\ disk' = disk
          /\ dk_cache' = dk_cache /\ lenient_note' = lenient_note \ {path[t]}
          /\ pc' = [pc EXCEPT ![t] = "check"] /\ path' = path /\ strict' = strict
          /\ dk' = dk /\ evicted' = evicted /\ answer' = answer /\ calls' = calls
          /\ writes' = writes /\ last_use' = last_use /\ changed' = changed
      BY <1>a, <1>10, <2>2 DEF Record, Goto, shared, local, history
    <3>2. CachedPaths' = CachedPaths /\ LenientPaths' = LenientPaths
      BY <3>1 DEF CachedPaths, LenientPaths
    <3>3. Trimming' = Trimming
      BY <1>a, <1>0, <3>1, <2>2 DEF Typed, Trimming
    <3>4. path[t] \in Paths /\ dk[t] \in Handles /\ dk[t].path = path[t]
      BY <1>0, <3>1 DEF CallsKnow, WithHandle
    <3>5. client = "waits" => (path[t] \in LenientPaths <=> dk[t].mode = "lenient")
      <4> SUFFICES ASSUME client = "waits" PROVE path[t] \in LenientPaths <=> dk[t].mode = "lenient"
        OBVIOUS
      <4>1. dk_cache # <<>> /\ dk_cache[Len(dk_cache)] = dk[t]
        BY <1>0, <3>1 DEF SerialCache
      <4>2. Len(dk_cache) \in 1..Len(dk_cache)
        BY <1>0, <4>1 DEF Typed
      <4> QED BY <1>0, <3>4, <4>1, <4>2, LenientAt
    <3>6. /\ pc[t] = "record" /\ client' = client /\ disk' = disk
          /\ dk_cache' = dk_cache /\ lenient_note' = lenient_note \ {path[t]}
          /\ pc'[t] = "check"
          /\ \A x \in Threads : x # t => pc'[x] = pc[x]
          /\ path' = path /\ strict' = strict /\ dk' = dk /\ evicted' = evicted
          /\ answer' = answer /\ calls' = calls /\ writes' = writes
          /\ last_use' = last_use /\ changed' = changed
      BY <1>a, <1>0, <3>1 DEF Typed
    <3>7. client = "waits" => \A u \in Threads : u # t => pc[u] = "done" /\ pc'[u] = "done"
      BY <1>0, <3>6 DEF OneCall
    <3>8. Typed'
      BY <1>t, <1>a, <1>0, <3>1, <3>2, <3>3, <3>4, <3>5, <3>7, <1>c, <1>f, <2>2 DEF Typed
    <3>9. OnePerPath'
      BY <1>a, <1>0, <3>2, <3>3, <3>4, <3>5, <3>7, <3>6, <2>2 DEF OnePerPath
    <3>10. CacheBounded'
      BY <1>a, <1>0, <3>2, <3>3, <3>4, <3>5, <3>7, <3>6, <2>2 DEF CacheBounded
    <3>11. CallsKnow'
      BY <1>a, <1>0, <3>2, <3>3, <3>4, <3>5, <3>7, <3>6, <1>c, <1>f, <2>2 DEF CallsKnow, WithHandle
    <3>12. SameFiles'
      BY <1>a, <1>0, <3>2, <3>3, <3>4, <3>5, <3>7, <3>6, <1>c, <2>2 DEF SameFiles, WithHandle, CallsKnow
    <3>13. OneCall'
      BY <1>a, <1>0, <3>2, <3>3, <3>4, <3>5, <3>7, <3>6, <2>2 DEF OneCall
    <3>14. SerialCache'
      BY <1>a, <1>0, <3>2, <3>3, <3>4, <3>5, <3>7, <3>6, <2>2 DEF SerialCache, OneCall, CallsKnow, WithHandle
    <3>15. NotesMatch'
      <4> SUFFICES ASSUME client = "waits", NEW p \in Paths PROVE p \in lenient_note' <=> p \in LenientPaths'
        BY <3>6 DEF NotesMatch
      <4>1. CASE p = path[t]
        BY <3>2, <3>5, <4>1, <3>6, <2>2
      <4>2. CASE p # path[t]
        <5>1. p \in lenient_note <=> p \in LenientPaths
          BY <1>0, <4>2, <3>6, <3>2, <3>3, <3>4, <3>5, <3>7 DEF NotesMatch
        <5> QED BY <3>2, <4>2, <5>1, <3>6
      <4> QED BY <4>1, <4>2
    <3>16. SerialOrder'
      BY <1>a, <1>0, <3>2, <3>3, <3>4, <3>5, <3>7, <3>6, <1>d, <2>2 DEF SerialOrder, OneCall, CallsKnow
    <3>17. NoteIsTrue'
      BY <1>a, <1>0, <3>2, <3>3, <3>4, <3>5, <3>7, <3>6, <2>2 DEF NoteIsTrue, CallsKnow, Waiting
    <3>18. SerialAnswers'
      BY <1>a, <1>0, <3>2, <3>3, <3>4, <3>5, <3>7, <3>6, <2>2 DEF SerialAnswers, NoteOnEveryAnswer, ErrorOnlyWhenUnopenable, CallsKnow, Waiting
    <3> QED BY <3>8, <3>9, <3>10, <3>11, <3>12, <3>13, <3>14, <3>15, <3>16, <3>17, <3>18 DEF McpInv
  <2> QED BY <2>1, <2>2
<1>11. ASSUME NEW t \in Threads, Check(t) PROVE McpInv'
  <2>1. CASE Len(dk_cache) > DK_CACHE_MAX
    <3>1. /\ pc[t] = "check" /\ client' = client /\ disk' = disk
          /\ dk_cache' = dk_cache /\ lenient_note' = lenient_note
          /\ pc' = [pc EXCEPT ![t] = "evict"] /\ path' = path /\ strict' = strict
          /\ dk' = dk /\ evicted' = evicted /\ answer' = answer /\ calls' = calls
          /\ writes' = writes /\ last_use' = last_use /\ changed' = changed
      BY <1>a, <1>11, <2>1 DEF Check, Goto, shared, local, history
    <3>2. CachedPaths' = CachedPaths /\ LenientPaths' = LenientPaths
      BY <3>1 DEF CachedPaths, LenientPaths
    <3>3. Trimming' = Trimming
      BY <1>a, <1>0, <3>1, <2>1 DEF Typed, Trimming
    <3>4. /\ pc[t] = "check" /\ client' = client /\ disk' = disk
          /\ dk_cache' = dk_cache /\ lenient_note' = lenient_note
          /\ pc'[t] = "evict"
          /\ \A x \in Threads : x # t => pc'[x] = pc[x]
          /\ path' = path /\ strict' = strict /\ dk' = dk /\ evicted' = evicted
          /\ answer' = answer /\ calls' = calls /\ writes' = writes
          /\ last_use' = last_use /\ changed' = changed
      BY <1>a, <1>0, <3>1 DEF Typed
    <3>5. client = "waits" => \A u \in Threads : u # t => pc[u] = "done" /\ pc'[u] = "done"
      BY <1>0, <3>4 DEF OneCall
    <3>6. Typed'
      BY <1>t, <1>a, <1>0, <3>1, <3>2, <3>3, <3>5, <1>c, <1>f, <2>1 DEF Typed
    <3>7. OnePerPath'
      BY <1>a, <1>0, <3>2, <3>3, <3>5, <3>4, <2>1 DEF OnePerPath
    <3>8. CacheBounded'
      BY <1>a, <1>0, <3>2, <3>3, <3>5, <3>4, <2>1 DEF CacheBounded
    <3>9. CallsKnow'
      BY <1>a, <1>0, <3>2, <3>3, <3>5, <3>4, <1>c, <1>f, <2>1 DEF CallsKnow, WithHandle
    <3>10. SameFiles'
      BY <1>a, <1>0, <3>2, <3>3, <3>5, <3>4, <1>c, <2>1 DEF SameFiles, WithHandle, CallsKnow
    <3>11. OneCall'
      BY <1>a, <1>0, <3>2, <3>3, <3>5, <3>4, <2>1 DEF OneCall
    <3>12. SerialCache'
      BY <1>a, <1>0, <3>2, <3>3, <3>5, <3>4, <2>1 DEF SerialCache, OneCall, CallsKnow, WithHandle
    <3>13. NotesMatch'
      BY <1>a, <1>0, <3>2, <3>3, <3>5, <3>4, <2>1 DEF NotesMatch, OneCall, SerialCache
    <3>14. SerialOrder'
      BY <1>a, <1>0, <3>2, <3>3, <3>5, <3>4, <1>d, <2>1 DEF SerialOrder, OneCall, CallsKnow
    <3>15. NoteIsTrue'
      BY <1>a, <1>0, <3>2, <3>3, <3>5, <3>4, <2>1 DEF NoteIsTrue, CallsKnow, Waiting
    <3>16. SerialAnswers'
      BY <1>a, <1>0, <3>2, <3>3, <3>5, <3>4, <2>1 DEF SerialAnswers, NoteOnEveryAnswer, ErrorOnlyWhenUnopenable, CallsKnow, Waiting
    <3> QED BY <3>6, <3>7, <3>8, <3>9, <3>10, <3>11, <3>12, <3>13, <3>14, <3>15, <3>16 DEF McpInv
  <2>2. CASE ~(Len(dk_cache) > DK_CACHE_MAX)
    <3>1. /\ pc[t] = "check" /\ client' = client /\ disk' = disk
          /\ dk_cache' = dk_cache /\ lenient_note' = lenient_note
          /\ pc' = [pc EXCEPT ![t] = "execute"] /\ path' = path /\ strict' = strict
          /\ dk' = dk /\ evicted' = evicted /\ answer' = answer /\ calls' = calls
          /\ writes' = writes /\ last_use' = last_use /\ changed' = changed
      BY <1>a, <1>11, <2>2 DEF Check, Goto, shared, local, history
    <3>2. CachedPaths' = CachedPaths /\ LenientPaths' = LenientPaths
      BY <3>1 DEF CachedPaths, LenientPaths
    <3>3. Trimming' \subseteq Trimming
      BY <1>a, <1>0, <3>1, <2>2 DEF Typed, Trimming
    <3>4. /\ pc[t] = "check" /\ client' = client /\ disk' = disk
          /\ dk_cache' = dk_cache /\ lenient_note' = lenient_note
          /\ pc'[t] = "execute"
          /\ \A x \in Threads : x # t => pc'[x] = pc[x]
          /\ path' = path /\ strict' = strict /\ dk' = dk /\ evicted' = evicted
          /\ answer' = answer /\ calls' = calls /\ writes' = writes
          /\ last_use' = last_use /\ changed' = changed
      BY <1>a, <1>0, <3>1 DEF Typed
    <3>5. client = "waits" => \A u \in Threads : u # t => pc[u] = "done" /\ pc'[u] = "done"
      BY <1>0, <3>4 DEF OneCall
    <3>6. Typed'
      BY <1>t, <1>a, <1>0, <3>1, <3>2, <3>3, <3>5, <1>c, <1>f, <2>2 DEF Typed
    <3>7. OnePerPath'
      BY <1>a, <1>0, <3>2, <3>3, <3>5, <3>4, <2>2 DEF OnePerPath
    <3>8. CacheBounded'
      <4>1. IsFiniteSet(Trimming')
        BY <1>b, <3>2, <3>3, <3>5, FS_Subset
      <4>2. Cardinality(Trimming') \in Nat /\ Len(dk_cache) \in Nat
        BY <1>0, <4>1, FS_CardinalityType DEF Typed
      <4> QED BY <1>a, <3>1, <4>2, <2>2 DEF CacheBounded
    <3>9. CallsKnow'
      BY <1>a, <1>0, <3>2, <3>3, <3>5, <3>4, <1>c, <1>f, <2>2 DEF CallsKnow, WithHandle
    <3>10. SameFiles'
      BY <1>a, <1>0, <3>2, <3>3, <3>5, <3>4, <1>c, <2>2 DEF SameFiles, WithHandle, CallsKnow
    <3>11. OneCall'
      BY <1>a, <1>0, <3>2, <3>3, <3>5, <3>4, <2>2 DEF OneCall
    <3>12. SerialCache'
      BY <1>a, <1>0, <3>2, <3>3, <3>5, <3>4, <2>2 DEF SerialCache, OneCall, CallsKnow, WithHandle
    <3>13. NotesMatch'
      BY <1>a, <1>0, <3>2, <3>3, <3>5, <3>4, <2>2 DEF NotesMatch, OneCall, SerialCache
    <3>14. SerialOrder'
      BY <1>a, <1>0, <3>2, <3>3, <3>5, <3>4, <1>d, <2>2 DEF SerialOrder, OneCall, CallsKnow
    <3>15. NoteIsTrue'
      BY <1>a, <1>0, <3>2, <3>3, <3>5, <3>4, <2>2 DEF NoteIsTrue, CallsKnow, Waiting
    <3>16. SerialAnswers'
      BY <1>a, <1>0, <3>2, <3>3, <3>5, <3>4, <2>2 DEF SerialAnswers, NoteOnEveryAnswer, ErrorOnlyWhenUnopenable, CallsKnow, Waiting
    <3> QED BY <3>6, <3>7, <3>8, <3>9, <3>10, <3>11, <3>12, <3>13, <3>14, <3>15, <3>16 DEF McpInv
  <2> QED BY <2>1, <2>2
<1>12. ASSUME NEW t \in Threads, Evict(t) PROVE McpInv'
  <2>1. CASE dk_cache # <<>>
    <3>1. /\ pc[t] = "evict" /\ client' = client /\ disk' = disk
          /\ lenient_note' = lenient_note /\ pc' = [pc EXCEPT ![t] = "forget"]
          /\ path' = path /\ strict' = strict /\ dk' = dk
          /\ evicted' = [evicted EXCEPT ![t] = Head(dk_cache).path]
          /\ answer' = answer /\ calls' = calls /\ writes' = writes
          /\ last_use' = last_use /\ changed' = changed
      BY <1>a, <1>12, <2>1 DEF Evict, Goto, Answer, shared, local, history
    <3>2. /\ dk_cache' \in Seq(Handles) /\ Len(dk_cache') = Len(dk_cache) - 1 /\ Len(dk_cache) \in Nat \ {0}
          /\ Head(dk_cache) = dk_cache[1] /\ dk_cache[1] \in Handles /\ dk_cache[1].path \in Paths
          /\ \A j \in 1..(Len(dk_cache) - 1) : dk_cache'[j] = dk_cache[j + 1]
      <4>1. dk_cache \in Seq(Handles) /\ dk_cache' = Tail(dk_cache)
        BY <1>0, <1>12, <2>1 DEF Typed, Evict
      <4>2. dk_cache[1] \in Handles
        BY <2>1, <4>1
      <4>3. dk_cache[1].path \in Paths
        BY <4>2 DEF Handles
      <4> HIDE DEF Handles
      <4> QED BY <2>1, <4>1, <4>2, <4>3
    <3>3. /\ CachedPaths' = CachedPaths \ {dk_cache[1].path}
          /\ LenientPaths' = LenientPaths \ {dk_cache[1].path}
      <4> DEFINE n == Len(dk_cache)
      <4>0. n \in Nat \ {0} /\ Len(dk_cache') = n - 1 /\ \A j \in 1..(n - 1) : dk_cache'[j] = dk_cache[j + 1]
        BY <3>2
      <4> HIDE DEF n
      <4>1. \A i \in 1..n : i # 1 => dk_cache[i].path # dk_cache[1].path
        BY <1>0, <4>0 DEF OnePerPath, n
      <4>2. \A i \in 1..n : i # 1 => i - 1 \in 1..(n - 1) /\ dk_cache'[i - 1] = dk_cache[i]
        BY <4>0
      <4>3. \A i \in 1..(n - 1) : i + 1 \in 1..n /\ i + 1 # 1 /\ dk_cache'[i] = dk_cache[i + 1]
        BY <4>0
      <4>4. CachedPaths' = CachedPaths \ {dk_cache[1].path}
        <5>1. ASSUME NEW i \in 1..(n - 1) PROVE dk_cache'[i].path \in CachedPaths \ {dk_cache[1].path}
          BY <4>1, <4>3 DEF CachedPaths, n
        <5>2. ASSUME NEW i \in 1..n, i # 1 PROVE dk_cache[i].path \in CachedPaths'
          BY <4>0, <4>2, <5>2 DEF CachedPaths
        <5> QED BY <4>0, <5>1, <5>2 DEF CachedPaths, n
      <4>5. LenientPaths' = LenientPaths \ {dk_cache[1].path}
        <5>1. \A p, q \in Paths : Handle(p, "lenient").path = p
          BY DEF Handle
        <5>2. ASSUME NEW p \in LenientPaths' PROVE p \in LenientPaths \ {dk_cache[1].path}
          <6>1. PICK i \in 1..(n - 1) : p \in Paths /\ dk_cache'[i] = Handle(p, "lenient")
            BY <4>0, <5>2 DEF LenientPaths
          <6>2. i + 1 \in 1..n /\ dk_cache[i + 1] = Handle(p, "lenient") /\ dk_cache[i + 1].path # dk_cache[1].path
            BY <4>1, <4>3, <6>1
          <6> QED BY <5>1, <6>1, <6>2 DEF LenientPaths, n
        <5>3. ASSUME NEW p \in LenientPaths, p # dk_cache[1].path PROVE p \in LenientPaths'
          <6>1. PICK i \in 1..n : p \in Paths /\ dk_cache[i] = Handle(p, "lenient")
            BY <5>3 DEF LenientPaths, n
          <6>2. i - 1 \in 1..(n - 1) /\ dk_cache'[i - 1] = Handle(p, "lenient")
            BY <4>2, <5>1, <5>3, <6>1
          <6> QED BY <4>0, <6>1, <6>2 DEF LenientPaths
        <5> QED BY <5>2, <5>3
      <4> QED BY <4>4, <4>5
    <3>4. Trimming' = Trimming
      BY <1>a, <1>0, <3>1, <2>1 DEF Typed, Trimming
    <3>5. /\ pc[t] = "evict" /\ client' = client /\ disk' = disk
          /\ lenient_note' = lenient_note /\ pc'[t] = "forget"
          /\ \A x \in Threads : x # t => pc'[x] = pc[x]
          /\ path' = path /\ strict' = strict /\ dk' = dk
          /\ evicted'[t] = Head(dk_cache).path
          /\ \A x \in Threads : x # t => evicted'[x] = evicted[x]
          /\ answer' = answer /\ calls' = calls /\ writes' = writes
          /\ last_use' = last_use /\ changed' = changed
      BY <1>a, <1>0, <3>1 DEF Typed
    <3>6. client = "waits" => \A u \in Threads : u # t => pc[u] = "done" /\ pc'[u] = "done"
      BY <1>0, <3>5 DEF OneCall
    <3>7. Typed'
      BY <1>t, <1>a, <1>0, <3>1, <3>2, <3>3, <3>4, <3>6, <1>c, <1>f, <2>1 DEF Typed
    <3>8. OnePerPath'
      <4>1. ASSUME NEW i \in 1..Len(dk_cache'), NEW j \in 1..Len(dk_cache'),
                   dk_cache'[i].path = dk_cache'[j].path
            PROVE  i = j
        <5>1. /\ i + 1 \in 1..Len(dk_cache) /\ dk_cache'[i] = dk_cache[i + 1]
              /\ j + 1 \in 1..Len(dk_cache) /\ dk_cache'[j] = dk_cache[j + 1]
          BY <1>d, <3>2, <4>1
        <5>2. i + 1 = j + 1
          BY <1>0, <4>1, <5>1 DEF OnePerPath
        <5> QED BY <1>d, <3>2, <5>2
      <4> QED BY <4>1 DEF OnePerPath
    <3>9. CacheBounded'
      <4>1. Len(dk_cache) <= DK_CACHE_MAX + Cardinality(Trimming)
        BY <1>0 DEF CacheBounded
      <4>2. Len(dk_cache') <= DK_CACHE_MAX + Cardinality(Trimming)
        BY <1>a, <1>b, <3>2, <4>1
      <4> QED BY <3>4, <4>2 DEF CacheBounded
    <3>10. CallsKnow'
      BY <1>a, <1>0, <3>2, <3>3, <3>4, <3>6, <3>5, <1>c, <1>f, <2>1 DEF CallsKnow, WithHandle
    <3>11. SameFiles'
      BY <1>a, <1>0, <3>2, <3>3, <3>4, <3>6, <3>5, <1>c, <2>1 DEF SameFiles, WithHandle, CallsKnow
    <3>12. OneCall'
      BY <1>a, <1>0, <3>2, <3>3, <3>4, <3>6, <3>5, <2>1 DEF OneCall
    <3>13. SerialCache'
      BY <1>a, <1>0, <3>2, <3>3, <3>4, <3>6, <3>5, <2>1 DEF SerialCache, OneCall, CallsKnow, WithHandle
    <3>14. NotesMatch'
      BY <1>a, <1>0, <3>2, <3>3, <3>4, <3>6, <3>5, <2>1 DEF NotesMatch, OneCall, SerialCache
    <3>15. SerialOrder'
      <4> SUFFICES ASSUME client' = "waits" PROVE SerialOrder'
        BY DEF SerialOrder
      <4>0. client = "waits" /\ \A u \in Threads : u # t => pc[u] = "done" /\ pc'[u] = "done"
        BY <3>5, <3>2, <3>3, <3>4, <3>6
      <4>1. /\ last_use[path[t]] = calls /\ \A p \in Paths : p # path[t] => last_use[p] < calls
            /\ \A p \in Paths : last_use[p] <= calls
        BY <1>0, <4>0, <3>5 DEF SerialOrder
      <4>2. ASSUME NEW i \in 1..Len(dk_cache'), NEW j \in 1..Len(dk_cache'), i < j
            PROVE  last_use[dk_cache'[i].path] < last_use[dk_cache'[j].path]
        <5>1. /\ i + 1 \in 1..Len(dk_cache) /\ dk_cache'[i] = dk_cache[i + 1]
              /\ j + 1 \in 1..Len(dk_cache) /\ dk_cache'[j] = dk_cache[j + 1] /\ i + 1 < j + 1
          BY <1>d, <3>2, <4>2
        <5> QED BY <1>0, <4>0, <5>1, <3>5 DEF SerialOrder
      <4> QED BY <1>d, <4>0, <4>1, <4>2, <3>5 DEF SerialOrder
    <3>16. NoteIsTrue'
      BY <1>a, <1>0, <3>2, <3>3, <3>4, <3>6, <3>5, <2>1 DEF NoteIsTrue, CallsKnow, Waiting
    <3>17. SerialAnswers'
      BY <1>a, <1>0, <3>2, <3>3, <3>4, <3>6, <3>5, <2>1 DEF SerialAnswers, NoteOnEveryAnswer, ErrorOnlyWhenUnopenable, CallsKnow, Waiting
    <3> QED BY <3>7, <3>8, <3>9, <3>10, <3>11, <3>12, <3>13, <3>14, <3>15, <3>16, <3>17 DEF McpInv
  <2>2. CASE dk_cache = <<>>
    <3>1. /\ pc[t] = "evict" /\ client' = client /\ disk' = disk
          /\ dk_cache' = dk_cache /\ lenient_note' = lenient_note
          /\ pc' = [pc EXCEPT ![t] = "done"] /\ path' = path /\ strict' = strict
          /\ dk' = dk /\ evicted' = evicted
          /\ answer' = [answer EXCEPT ![t] = [kind |-> "key_error", noted |-> FALSE]]
          /\ calls' = calls /\ writes' = writes /\ last_use' = last_use /\ changed' = changed
      BY <1>a, <1>12, <2>2 DEF Evict, Goto, Answer, shared, local, history
    <3>2. CachedPaths' = CachedPaths /\ LenientPaths' = LenientPaths
      BY <3>1 DEF CachedPaths, LenientPaths
    <3>3. Trimming' \subseteq Trimming
      BY <1>a, <1>0, <3>1, <2>2 DEF Typed, Trimming
    <3>4. client = "pipelines" /\ client # "waits"
      BY <1>0, <2>2, <3>1 DEF Typed, SerialCache
    <3>5. /\ pc[t] = "evict" /\ client' = client /\ disk' = disk
          /\ dk_cache' = dk_cache /\ lenient_note' = lenient_note
          /\ pc'[t] = "done"
          /\ \A x \in Threads : x # t => pc'[x] = pc[x]
          /\ path' = path /\ strict' = strict /\ dk' = dk /\ evicted' = evicted
          /\ answer'[t] = [kind |-> "key_error", noted |-> FALSE]
          /\ \A x \in Threads : x # t => answer'[x] = answer[x]
          /\ calls' = calls /\ writes' = writes /\ last_use' = last_use /\ changed' = changed
      BY <1>a, <1>0, <3>1 DEF Typed
    <3>6. client = "waits" => \A u \in Threads : u # t => pc[u] = "done" /\ pc'[u] = "done"
      BY <1>0, <3>5 DEF OneCall
    <3>7. Typed'
      BY <1>t, <1>a, <1>0, <3>1, <3>2, <3>3, <3>4, <3>6, <1>c, <1>f, <2>2 DEF Typed
    <3>8. OnePerPath'
      BY <1>a, <1>0, <3>2, <3>3, <3>4, <3>6, <3>5, <2>2 DEF OnePerPath
    <3>9. CacheBounded'
      <4>1. IsFiniteSet(Trimming')
        BY <1>b, <3>2, <3>3, <3>4, <3>6, FS_Subset
      <4>2. Cardinality(Trimming') \in Nat /\ Len(dk_cache') = 0
        BY <3>1, <4>1, FS_CardinalityType, <2>2
      <4> QED BY <1>a, <4>2 DEF CacheBounded
    <3>10. CallsKnow'
      BY <1>a, <1>0, <3>2, <3>3, <3>4, <3>6, <3>5, <1>c, <1>f, <2>2 DEF CallsKnow, WithHandle
    <3>11. SameFiles'
      BY <1>a, <1>0, <3>2, <3>3, <3>4, <3>6, <3>5, <1>c, <2>2 DEF SameFiles, WithHandle, CallsKnow
    <3>12. OneCall'
      BY <1>a, <1>0, <3>2, <3>3, <3>4, <3>6, <3>5, <2>2 DEF OneCall
    <3>13. SerialCache'
      BY <1>a, <1>0, <3>2, <3>3, <3>4, <3>6, <3>5, <2>2 DEF SerialCache, OneCall, CallsKnow, WithHandle
    <3>14. NotesMatch'
      BY <1>a, <1>0, <3>2, <3>3, <3>4, <3>6, <3>5, <2>2 DEF NotesMatch, OneCall, SerialCache
    <3>15. SerialOrder'
      BY <1>a, <1>0, <3>2, <3>3, <3>4, <3>6, <3>5, <1>d, <2>2 DEF SerialOrder, OneCall, CallsKnow
    <3>16. NoteIsTrue'
      BY <1>a, <1>0, <3>2, <3>3, <3>4, <3>6, <3>5, <2>2 DEF NoteIsTrue, CallsKnow, Waiting
    <3>17. SerialAnswers'
      BY <1>a, <1>0, <3>2, <3>3, <3>4, <3>6, <3>5, <2>2 DEF SerialAnswers, NoteOnEveryAnswer, ErrorOnlyWhenUnopenable, CallsKnow, Waiting
    <3> QED BY <3>7, <3>8, <3>9, <3>10, <3>11, <3>12, <3>13, <3>14, <3>15, <3>16, <3>17 DEF McpInv
  <2> QED BY <2>1, <2>2
<1>13. ASSUME NEW t \in Threads, Forget(t) PROVE McpInv'
  <2>1. /\ pc[t] = "forget" /\ client' = client /\ disk' = disk
        /\ dk_cache' = dk_cache /\ lenient_note' = lenient_note \ {evicted[t]}
        /\ pc' = [pc EXCEPT ![t] = "check"] /\ path' = path /\ strict' = strict
        /\ dk' = dk /\ evicted' = evicted /\ answer' = answer /\ calls' = calls
        /\ writes' = writes /\ last_use' = last_use /\ changed' = changed
    BY <1>a, <1>13 DEF Forget, Goto, shared, local, history
  <2>2. CachedPaths' = CachedPaths /\ LenientPaths' = LenientPaths
    BY <2>1 DEF CachedPaths, LenientPaths
  <2>3. Trimming' = Trimming
    BY <1>a, <1>0, <2>1 DEF Typed, Trimming
  <2>4. client = "waits" => evicted[t] \notin LenientPaths
    BY <1>0, <1>c, <2>1 DEF SerialCache, CachedPaths, LenientPaths
  <2>5. /\ pc[t] = "forget" /\ client' = client /\ disk' = disk
        /\ dk_cache' = dk_cache /\ lenient_note' = lenient_note \ {evicted[t]}
        /\ pc'[t] = "check"
        /\ \A x \in Threads : x # t => pc'[x] = pc[x]
        /\ path' = path /\ strict' = strict /\ dk' = dk /\ evicted' = evicted
        /\ answer' = answer /\ calls' = calls /\ writes' = writes
        /\ last_use' = last_use /\ changed' = changed
    BY <1>a, <1>0, <2>1 DEF Typed
  <2>6. client = "waits" => \A u \in Threads : u # t => pc[u] = "done" /\ pc'[u] = "done"
    BY <1>0, <2>5 DEF OneCall
  <2>7. Typed'
    BY <1>t, <1>a, <1>0, <2>1, <2>2, <2>3, <2>4, <2>6, <1>c, <1>f DEF Typed
  <2>8. OnePerPath'
    BY <1>a, <1>0, <2>2, <2>3, <2>4, <2>6, <2>5 DEF OnePerPath
  <2>9. CacheBounded'
    BY <1>a, <1>0, <2>2, <2>3, <2>4, <2>6, <2>5 DEF CacheBounded
  <2>10. CallsKnow'
    BY <1>a, <1>0, <2>2, <2>3, <2>4, <2>6, <2>5, <1>c, <1>f DEF CallsKnow, WithHandle
  <2>11. SameFiles'
    BY <1>a, <1>0, <2>2, <2>3, <2>4, <2>6, <2>5, <1>c DEF SameFiles, WithHandle, CallsKnow
  <2>12. OneCall'
    BY <1>a, <1>0, <2>2, <2>3, <2>4, <2>6, <2>5 DEF OneCall
  <2>13. SerialCache'
    BY <1>a, <1>0, <2>2, <2>3, <2>4, <2>6, <2>5 DEF SerialCache, OneCall, CallsKnow, WithHandle
  <2>14. NotesMatch'
    BY <1>a, <1>0, <2>2, <2>3, <2>4, <2>6, <2>5 DEF NotesMatch, OneCall, SerialCache
  <2>15. SerialOrder'
    BY <1>a, <1>0, <2>2, <2>3, <2>4, <2>6, <2>5, <1>d DEF SerialOrder, OneCall, CallsKnow
  <2>16. NoteIsTrue'
    BY <1>a, <1>0, <2>2, <2>3, <2>4, <2>6, <2>5 DEF NoteIsTrue, CallsKnow, Waiting
  <2>17. SerialAnswers'
    BY <1>a, <1>0, <2>2, <2>3, <2>4, <2>6, <2>5 DEF SerialAnswers, NoteOnEveryAnswer, ErrorOnlyWhenUnopenable, CallsKnow, Waiting
  <2> QED BY <2>7, <2>8, <2>9, <2>10, <2>11, <2>12, <2>13, <2>14, <2>15, <2>16, <2>17 DEF McpInv
<1>14. ASSUME NEW t \in Threads, Execute(t) PROVE McpInv'
  <2>1. /\ pc[t] = "execute" /\ client' = client /\ disk' = disk
        /\ dk_cache' = dk_cache /\ lenient_note' = lenient_note
        /\ pc' = [pc EXCEPT ![t] = "annotate"] /\ path' = path
        /\ strict' = strict /\ dk' = dk /\ evicted' = evicted /\ answer' = answer
        /\ calls' = calls /\ writes' = writes /\ last_use' = last_use /\ changed' = changed
    BY <1>a, <1>14 DEF Execute, Goto, shared, local, history
  <2>2. CachedPaths' = CachedPaths /\ LenientPaths' = LenientPaths
    BY <2>1 DEF CachedPaths, LenientPaths
  <2>3. Trimming' = Trimming
    BY <1>a, <1>0, <2>1 DEF Typed, Trimming
  <2>4. /\ pc[t] = "execute" /\ client' = client /\ disk' = disk
        /\ dk_cache' = dk_cache /\ lenient_note' = lenient_note
        /\ pc'[t] = "annotate"
        /\ \A x \in Threads : x # t => pc'[x] = pc[x]
        /\ path' = path /\ strict' = strict /\ dk' = dk /\ evicted' = evicted
        /\ answer' = answer /\ calls' = calls /\ writes' = writes
        /\ last_use' = last_use /\ changed' = changed
    BY <1>a, <1>0, <2>1 DEF Typed
  <2>5. client = "waits" => \A u \in Threads : u # t => pc[u] = "done" /\ pc'[u] = "done"
    BY <1>0, <2>4 DEF OneCall
  <2>6. Typed'
    BY <1>t, <1>a, <1>0, <2>1, <2>2, <2>3, <2>5, <1>c, <1>f DEF Typed
  <2>7. OnePerPath'
    BY <1>a, <1>0, <2>2, <2>3, <2>5, <2>4 DEF OnePerPath
  <2>8. CacheBounded'
    BY <1>a, <1>0, <2>2, <2>3, <2>5, <2>4 DEF CacheBounded
  <2>9. CallsKnow'
    BY <1>a, <1>0, <2>2, <2>3, <2>5, <2>4, <1>c, <1>f DEF CallsKnow, WithHandle
  <2>10. SameFiles'
    BY <1>a, <1>0, <2>2, <2>3, <2>5, <2>4, <1>c DEF SameFiles, WithHandle, CallsKnow
  <2>11. OneCall'
    BY <1>a, <1>0, <2>2, <2>3, <2>5, <2>4 DEF OneCall
  <2>12. SerialCache'
    BY <1>a, <1>0, <2>2, <2>3, <2>5, <2>4 DEF SerialCache, OneCall, CallsKnow, WithHandle
  <2>13. NotesMatch'
    BY <1>a, <1>0, <2>2, <2>3, <2>5, <2>4 DEF NotesMatch, OneCall, SerialCache
  <2>14. SerialOrder'
    BY <1>a, <1>0, <2>2, <2>3, <2>5, <2>4, <1>d DEF SerialOrder, OneCall, CallsKnow
  <2>15. NoteIsTrue'
    BY <1>a, <1>0, <2>2, <2>3, <2>5, <2>4 DEF NoteIsTrue, CallsKnow, Waiting
  <2>16. SerialAnswers'
    BY <1>a, <1>0, <2>2, <2>3, <2>5, <2>4 DEF SerialAnswers, NoteOnEveryAnswer, ErrorOnlyWhenUnopenable, CallsKnow, Waiting
  <2> QED BY <2>6, <2>7, <2>8, <2>9, <2>10, <2>11, <2>12, <2>13, <2>14, <2>15, <2>16 DEF McpInv
<1>15. ASSUME NEW t \in Threads, Annotate(t) PROVE McpInv'
  <2>1. /\ pc[t] = "annotate" /\ client' = client /\ disk' = disk
        /\ dk_cache' = dk_cache /\ lenient_note' = lenient_note
        /\ pc' = [pc EXCEPT ![t] = "done"] /\ path' = path /\ strict' = strict
        /\ dk' = dk /\ evicted' = evicted
        /\ answer' = [answer EXCEPT ![t] = [kind |-> "result", noted |-> path[t] \in lenient_note]]
        /\ calls' = calls /\ writes' = writes /\ last_use' = last_use /\ changed' = changed
    BY <1>a, <1>15 DEF Annotate, Goto, Answer, shared, local, history
  <2>2. CachedPaths' = CachedPaths /\ LenientPaths' = LenientPaths
    BY <2>1 DEF CachedPaths, LenientPaths
  <2>3. Trimming' = Trimming
    BY <1>a, <1>0, <2>1 DEF Typed, Trimming
  <2>4. path[t] \in Paths /\ dk[t] \in Handles /\ dk[t].path = path[t]
    BY <1>0, <2>1 DEF CallsKnow, WithHandle
  <2>5. client = "waits" => (path[t] \in lenient_note <=> dk[t].mode = "lenient")
    <3> SUFFICES ASSUME client = "waits" PROVE path[t] \in lenient_note <=> dk[t].mode = "lenient"
      OBVIOUS
    <3>1. PICK i \in 1..Len(dk_cache) : dk_cache[i] = dk[t]
      BY <1>0, <2>1 DEF SerialCache
    <3>2. path[t] \in LenientPaths <=> dk[t].mode = "lenient"
      BY <1>0, <2>4, <3>1, LenientAt
    <3>3. \A u \in Threads : pc[u] # "record" /\ pc[u] # "forget"
      BY <1>0, <2>1 DEF OneCall
    <3>4. path[t] \in lenient_note <=> path[t] \in LenientPaths
      BY <1>0, <2>4, <3>3 DEF NotesMatch
    <3> QED BY <3>2, <3>4
  <2>6. path[t] \in lenient_note =>
          dk[t].mode = "lenient" \/ (client = "pipelines" /\ path[t] \in changed)
    BY <1>0, <2>1, <2>5 DEF Typed, SameFiles, WithHandle
  <2>7. /\ pc[t] = "annotate" /\ client' = client /\ disk' = disk
        /\ dk_cache' = dk_cache /\ lenient_note' = lenient_note
        /\ pc'[t] = "done"
        /\ \A x \in Threads : x # t => pc'[x] = pc[x]
        /\ path' = path /\ strict' = strict /\ dk' = dk /\ evicted' = evicted
        /\ answer'[t] = [kind |-> "result", noted |-> path[t] \in lenient_note]
        /\ \A x \in Threads : x # t => answer'[x] = answer[x]
        /\ calls' = calls /\ writes' = writes /\ last_use' = last_use /\ changed' = changed
    BY <1>a, <1>0, <2>1 DEF Typed
  <2>8. client = "waits" => \A u \in Threads : u # t => pc[u] = "done" /\ pc'[u] = "done"
    BY <1>0, <2>7 DEF OneCall
  <2>9. Typed'
    BY <1>t, <1>a, <1>0, <2>1, <2>2, <2>3, <2>4, <2>5, <2>6, <2>8, <1>c, <1>f DEF Typed
  <2>10. OnePerPath'
    BY <1>a, <1>0, <2>2, <2>3, <2>4, <2>5, <2>6, <2>8, <2>7 DEF OnePerPath
  <2>11. CacheBounded'
    BY <1>a, <1>0, <2>2, <2>3, <2>4, <2>5, <2>6, <2>8, <2>7 DEF CacheBounded
  <2>12. CallsKnow'
    BY <1>a, <1>0, <2>2, <2>3, <2>4, <2>5, <2>6, <2>8, <2>7, <1>c, <1>f DEF CallsKnow, WithHandle
  <2>13. SameFiles'
    BY <1>a, <1>0, <2>2, <2>3, <2>4, <2>5, <2>6, <2>8, <2>7, <1>c DEF SameFiles, WithHandle, CallsKnow
  <2>14. OneCall'
    BY <1>a, <1>0, <2>2, <2>3, <2>4, <2>5, <2>6, <2>8, <2>7 DEF OneCall
  <2>15. SerialCache'
    BY <1>a, <1>0, <2>2, <2>3, <2>4, <2>5, <2>6, <2>8, <2>7 DEF SerialCache, OneCall, CallsKnow, WithHandle
  <2>16. NotesMatch'
    BY <1>a, <1>0, <2>2, <2>3, <2>4, <2>5, <2>6, <2>8, <2>7 DEF NotesMatch, OneCall, SerialCache
  <2>17. SerialOrder'
    BY <1>a, <1>0, <2>2, <2>3, <2>4, <2>5, <2>6, <2>8, <2>7, <1>d DEF SerialOrder, OneCall, CallsKnow
  <2>18. NoteIsTrue'
    <3>1. answer'[t].noted =>
            dk'[t].mode = "lenient" \/ (client' = "pipelines" /\ path'[t] \in changed')
      <4> DEFINE noted == path[t] \in lenient_note
      <4>1. answer'[t] = [kind |-> "result", noted |-> noted]
        BY <2>7
      <4> HIDE DEF noted
      <4>2. answer'[t].noted = noted
        BY <4>1
      <4>3. answer'[t].noted <=> path[t] \in lenient_note
        BY <4>2 DEF noted
      <4> QED BY <2>6, <4>3, <2>7
    <3> QED BY <1>0, <3>1, <2>7 DEF NoteIsTrue
  <2>19. SerialAnswers'
    <3>1. client = "waits" => (dk'[t].mode = "lenient" => answer'[t].noted)
      <4> DEFINE noted == path[t] \in lenient_note
      <4>1. answer'[t] = [kind |-> "result", noted |-> noted]
        BY <2>7
      <4> HIDE DEF noted
      <4>2. answer'[t].noted = noted
        BY <4>1
      <4>3. answer'[t].noted <=> path[t] \in lenient_note
        BY <4>2 DEF noted
      <4> QED BY <2>5, <4>3, <2>7
    <3>2. answer'[t].kind = "result"
      BY <2>7
    <3>3. client' = "waits" => NoteOnEveryAnswer'
      BY <1>0, <3>1, <2>7 DEF SerialAnswers, NoteOnEveryAnswer
    <3>4. client' = "waits" => ErrorOnlyWhenUnopenable'
      BY <1>0, <3>2, <2>7 DEF SerialAnswers, ErrorOnlyWhenUnopenable
    <3> QED BY <3>3, <3>4 DEF SerialAnswers
  <2> QED BY <2>9, <2>10, <2>11, <2>12, <2>13, <2>14, <2>15, <2>16, <2>17, <2>18, <2>19 DEF McpInv
<1>16. CASE UNCHANGED vars
  <2>1. Typed'
    BY <1>0, <1>16 DEF vars, shared, local, history, Typed
  <2>2. OnePerPath'
    BY <1>0, <1>16 DEF vars, shared, local, history, OnePerPath
  <2>3. CacheBounded'
    BY <1>0, <1>16 DEF vars, shared, local, history, CacheBounded, Trimming
  <2>4. CallsKnow'
    BY <1>0, <1>16 DEF vars, shared, local, history, CallsKnow
  <2>5. SameFiles'
    BY <1>0, <1>16 DEF vars, shared, local, history, SameFiles
  <2>6. OneCall'
    BY <1>0, <1>16 DEF vars, shared, local, history, OneCall
  <2>7. SerialCache'
    BY <1>0, <1>16 DEF vars, shared, local, history, SerialCache, CachedPaths
  <2>8. NotesMatch'
    BY <1>0, <1>16 DEF vars, shared, local, history, NotesMatch, LenientPaths
  <2>9. SerialOrder'
    BY <1>0, <1>16 DEF vars, shared, local, history, SerialOrder
  <2>10. NoteIsTrue'
    BY <1>0, <1>16 DEF vars, shared, local, history, NoteIsTrue
  <2>11. SerialAnswers'
    BY <1>0, <1>16 DEF vars, shared, local, history, SerialAnswers, NoteOnEveryAnswer, ErrorOnlyWhenUnopenable
  <2> QED BY <2>1, <2>2, <2>3, <2>4, <2>5, <2>6, <2>7, <2>8, <2>9, <2>10, <2>11 DEF McpInv
<1> QED BY <1>1, <1>2, <1>3, <1>4, <1>5, <1>6, <1>7, <1>8, <1>9, <1>10, <1>11, <1>12, <1>13, <1>14, <1>15, <1>16 DEF Next, Step
\* The program starts with an empty cache and no call.
LEMMA InitMcp == Init => McpInv
<1> SUFFICES ASSUME Init PROVE McpInv
  OBVIOUS
<1>1. /\ NoPath \notin Paths /\ DK_CACHE_MAX \in Nat \ {0}
      /\ IsFiniteSet(Threads)
  BY McpAssumption
<1>2. Typed
  BY DEF Init, Typed, Waiting
<1>3. Len(dk_cache) = 0 /\ \A t \in Threads : pc[t] = "done" /\ answer[t] = Waiting
  BY DEF Init
<1>4. OnePerPath /\ SameFiles /\ OneCall /\ SerialCache
  BY <1>3 DEF Init, OnePerPath, SameFiles, WithHandle, OneCall, SerialCache
<1>5. CacheBounded
  <2>1. IsFiniteSet(Trimming) /\ Cardinality(Trimming) \in Nat
    BY <1>1, FS_Subset, FS_CardinalityType DEF Trimming
  <2> QED BY <1>1, <1>3, <2>1 DEF CacheBounded
<1>6. CallsKnow
  BY <1>3 DEF CallsKnow, WithHandle
<1>7. NotesMatch
  BY <1>3 DEF Init, NotesMatch, LenientPaths
<1>8. SerialOrder
  BY <1>3 DEF Init, SerialOrder
<1>9. NoteIsTrue /\ SerialAnswers
  BY <1>3 DEF NoteIsTrue, SerialAnswers, NoteOnEveryAnswer, ErrorOnlyWhenUnopenable, Waiting
<1> QED BY <1>2, <1>4, <1>5, <1>6, <1>7, <1>8, <1>9 DEF McpInv

\* The invariant holds in every state of the program.
THEOREM McpInvariant == Spec => []McpInv
<1> QED BY InitMcp, NextMcp, PTL DEF Spec

-----------------------------------------------------------------------------
(* A path that no two calls have worked on at once.                          *)

\* The handles in the cache, whatever their order.
Entries == {dk_cache[i] : i \in 1..Len(dk_cache)}

OneWorker == \A p \in Paths \ shared_by : \A t, u \in WorkOn(p) : t = u

\* What the call at work on its path knows of the cache.
AloneCache ==
    \A t \in Threads : path[t] \in Paths \ shared_by =>
        /\ pc[t] \in {"touch", "fetch"} => \E h \in Entries : h.path = path[t]
        /\ pc[t] \in {"open_strict", "open_lenient", "insert"} =>
             \A h \in Entries : h.path # path[t]
        /\ pc[t] \in {"record", "check", "evict", "forget", "execute", "annotate"} =>
             dk[t] \in Entries

AloneEvicted ==
    \A t \in Threads : pc[t] = "forget" /\ evicted[t] \notin shared_by =>
        /\ evicted[t] # path[t]
        /\ \A h \in Entries : h.path # evicted[t]

\* Its note is that of its handle in the cache, until the call that has changed
\* the cache comes to the note.
AloneNotes ==
    \A p \in Paths \ shared_by :
        \/ p \in lenient_note <=> Handle(p, "lenient") \in Entries
        \/ \E t \in Threads : \/ pc[t] = "record" /\ path[t] = p
                              \/ pc[t] = "forget" /\ evicted[t] = p

Alone == OneWorker /\ AloneCache /\ AloneEvicted /\ AloneNotes /\ SeparateAnswers

\* move_to_end keeps the handles.
LEMMA EntriesMoved ==
    ASSUME Typed, NEW t \in Threads, Touch(t)
    PROVE  Entries' = Entries
<1>0. dk_cache \in Seq(Handles) /\ Len(dk_cache) \in Nat
  BY DEF Typed
<1>1. CASE Cached(path[t])
  <2>1. PICK k \in At(path[t]) : dk_cache' = Append(Erased(k), dk_cache[k])
    BY <1>1 DEF Touch
  <2>2. k \in 1..Len(dk_cache)
    BY <2>1 DEF At
  <2>3. /\ Len(dk_cache') = Len(dk_cache)
        /\ \A j \in 1..Len(dk_cache) :
             dk_cache'[j] = IF j < k THEN dk_cache[j] ELSE IF j = Len(dk_cache) THEN dk_cache[k]
                            ELSE dk_cache[j + 1]
    BY <1>0, <2>1, <2>2, MovedToEnd
  <2>4. /\ \A m \in 1..Len(dk_cache) : \E j \in 1..Len(dk_cache) : dk_cache'[j] = dk_cache[m]
        /\ \A j \in 1..Len(dk_cache) : \E m \in 1..Len(dk_cache) : dk_cache'[j] = dk_cache[m]
    BY <1>0, <2>2, <2>3, MovedCovers
  <2>5. \A h : h \in Entries' <=> \E j \in 1..Len(dk_cache) : h = dk_cache'[j]
    BY <2>3 DEF Entries
  <2>6. \A h : h \in Entries <=> \E j \in 1..Len(dk_cache) : h = dk_cache[j]
    BY DEF Entries
  <2> HIDE DEF Entries
  <2>7. \A h : h \in Entries' <=> h \in Entries
    BY <2>4, <2>5, <2>6
  <2> QED BY <2>7
<1>2. CASE ~Cached(path[t])
  BY <1>2 DEF Touch, Entries
<1> QED BY <1>1, <1>2

\* An insertion replaces the handle of its path.
LEMMA EntriesInserted ==
    ASSUME Typed, CallsKnow, NEW t \in Threads, Insert(t)
    PROVE  Entries' = {h \in Entries : h.path # path[t]} \cup {dk[t]}
<1>0. dk_cache \in Seq(Handles) /\ Len(dk_cache) \in Nat /\ dk[t] \in Handles
  BY DEF Typed, CallsKnow, Insert, WithHandle
<1>1. CASE Cached(path[t])
  <2>1. dk_cache' = [i \in 1..Len(dk_cache) |-> IF i \in At(path[t]) THEN dk[t] ELSE dk_cache[i]]
    BY <1>1 DEF Insert
  <2>2. Len(dk_cache') = Len(dk_cache)
    <3>1. \A i \in 1..Len(dk_cache) : dk_cache[i] \in Handles
      BY <1>0
    <3>2. dk_cache' \in Seq(Handles)
      <4> HIDE DEF Handles
      <4> QED BY <1>0, <2>1, <3>1
    <3> QED BY <1>0, <2>1, <3>2
  <2>3. \A i \in 1..Len(dk_cache) :
          /\ dk_cache[i].path = path[t] => dk_cache'[i] = dk[t]
          /\ dk_cache[i].path # path[t] => dk_cache'[i] = dk_cache[i]
    BY <2>1 DEF At
  <2>4. \E i \in 1..Len(dk_cache) : dk_cache[i].path = path[t]
    BY <1>1 DEF Cached, At
  <2> QED BY <2>2, <2>3, <2>4 DEF Entries
<1>2. CASE ~Cached(path[t])
  <2>1. dk_cache' = Append(dk_cache, dk[t])
    BY <1>2 DEF Insert
  <2>2. /\ Len(dk_cache') = Len(dk_cache) + 1 /\ dk_cache'[Len(dk_cache) + 1] = dk[t]
        /\ \A i \in 1..Len(dk_cache) : dk_cache'[i] = dk_cache[i]
    <3> HIDE DEF Handles
    <3> QED BY <1>0, <2>1
  <2>3. \A i \in 1..Len(dk_cache) : dk_cache[i].path # path[t]
    BY <1>2 DEF Cached, At
  <2>4. \A i \in 1..(Len(dk_cache) + 1) : i \in 1..Len(dk_cache) \/ i = Len(dk_cache) + 1
    BY <1>0
  <2>5. \A i \in 1..Len(dk_cache) : i \in 1..(Len(dk_cache) + 1)
    BY <1>0
  <2>6. Len(dk_cache) + 1 \in 1..(Len(dk_cache) + 1)
    BY <1>0
  <2> QED BY <2>2, <2>3, <2>4, <2>5, <2>6 DEF Entries
<1> QED BY <1>1, <1>2

\* popitem removes the handle of the first path.
LEMMA EntriesEvicted ==
    ASSUME Typed, OnePerPath, dk_cache # <<>>, dk_cache' = Tail(dk_cache)
    PROVE  /\ Head(dk_cache).path \in Paths
           /\ Entries' = {h \in Entries : h.path # Head(dk_cache).path}
<1>1. dk_cache \in Seq(Handles) /\ Len(dk_cache) \in Nat \ {0}
  BY DEF Typed
<1>2. /\ Len(dk_cache') = Len(dk_cache) - 1 /\ Head(dk_cache) = dk_cache[1]
      /\ \A j \in 1..(Len(dk_cache) - 1) : dk_cache'[j] = dk_cache[j + 1]
  <2> HIDE DEF Handles
  <2> QED BY <1>1
<1>3. 1 \in 1..Len(dk_cache) /\ dk_cache[1] \in Handles
  BY <1>1
<1>4. \A i \in 1..Len(dk_cache) : i # 1 => dk_cache[i].path # dk_cache[1].path
  BY <1>3 DEF OnePerPath
<1>5. ASSUME NEW j \in 1..(Len(dk_cache) - 1)
      PROVE  j + 1 \in 1..Len(dk_cache) /\ j + 1 # 1
  BY <1>1
<1>6. ASSUME NEW i \in 1..Len(dk_cache), i # 1
      PROVE  i - 1 \in 1..(Len(dk_cache) - 1) /\ dk_cache'[i - 1] = dk_cache[i]
  BY <1>1, <1>2, <1>6
<1>7. Entries' \subseteq {h \in Entries : h.path # dk_cache[1].path}
  BY <1>2, <1>4, <1>5 DEF Entries
<1>8. {h \in Entries : h.path # dk_cache[1].path} \subseteq Entries'
  BY <1>2, <1>6 DEF Entries
<1> QED BY <1>2, <1>3, <1>7, <1>8 DEF Handles

\* Every step keeps it.
LEMMA AloneStep ==
    ASSUME McpInv, Alone, [Next]_vars
    PROVE  Alone'
<1>0. /\ Typed /\ OnePerPath /\ CallsKnow
      /\ OneWorker /\ AloneCache /\ AloneEvicted /\ AloneNotes /\ SeparateAnswers
  BY DEF McpInv, Alone
<1>k. \A t \in Threads : pc[t] # "done" => answer[t].kind # "result"
  BY <1>0 DEF CallsKnow, Waiting
<1>p. \A u \in Threads :
        pc[u] \in {"record", "check", "evict", "forget", "execute", "annotate"} =>
          dk[u].path = path[u]
  BY <1>0 DEF CallsKnow, WithHandle
<1>h. \A h \in Handles : h \in Entries =>
        (h.mode = "lenient" <=> Handle(h.path, "lenient") \in Entries)
  <2>1. \A g, h \in Entries : g.path = h.path => g = h
    BY <1>0 DEF OnePerPath, Entries
  <2>2. \A h \in Handles : h.mode = "lenient" => Handle(h.path, "lenient") = h
    BY DEF Handle, Handles
  <2>3. \A p \in Paths : Handle(p, "lenient").path = p /\ Handle(p, "lenient").mode = "lenient"
    BY DEF Handle
  <2>4. \A h \in Handles : h.path \in Paths
    BY DEF Handles
  <2> QED BY <2>1, <2>2, <2>3, <2>4
<1>1. ASSUME NEW t \in Threads, Refuse(t) PROVE Alone'
  <2>1. /\ pc[t] = "lookup"
        /\ pc'[t] = "done"
        /\ \A u \in Threads : u # t => pc'[u] = pc[u]
        /\ path' = path /\ evicted' = evicted /\ shared_by' = shared_by
        /\ dk' = dk
        /\ lenient_note' = lenient_note
        /\ dk_cache' = dk_cache
        /\ \A u \in Threads : u # t => answer'[u] = answer[u]
        /\ answer'[t] = [kind |-> "no_path", noted |-> FALSE]
    BY <1>0, <1>1 DEF Typed, Refuse, Goto, Answer, shared, local, history
  <2>2. Entries' = Entries
    BY <2>1 DEF Entries
  <2>3. OneWorker'
    BY <1>0, <2>1 DEF OneWorker, WorkOn
  <2>4. AloneCache'
    BY <1>0, <1>k, <2>1, <2>2 DEF AloneCache
  <2>5. AloneEvicted'
    BY <1>0, <1>k, <2>1, <2>2 DEF AloneEvicted
  <2>6. AloneNotes'
    BY <1>0, <1>k, <2>1, <2>2 DEF AloneNotes
  <2>7. SeparateAnswers'
    BY <1>0, <1>k, <2>1 DEF SeparateAnswers
  <2> QED BY <2>3, <2>4, <2>5, <2>6, <2>7 DEF Alone
<1>2. ASSUME NEW t \in Threads, Lookup(t) PROVE Alone'
  <2>1. /\ pc[t] = "lookup"
        /\ path[t] \in Paths
        /\ pc'[t] = IF Cached(path[t]) THEN "touch" ELSE "open_strict"
        /\ \A u \in Threads : u # t => pc'[u] = pc[u]
        /\ path' = path /\ evicted' = evicted /\ shared_by' = shared_by
        /\ dk' = dk
        /\ lenient_note' = lenient_note
        /\ dk_cache' = dk_cache
        /\ answer' = answer
    BY <1>0, <1>2 DEF Typed, Lookup, Goto, Answer, shared, local, history
  <2>2. Entries' = Entries
    BY <2>1 DEF Entries
  <2>3. OneWorker'
    BY <1>0, <2>1 DEF OneWorker, WorkOn
  <2>4. Cached(path[t]) <=> \E h \in Entries : h.path = path[t]
    BY DEF Cached, At, Entries
  <2>5. AloneCache'
    BY <1>0, <1>k, <2>1, <2>2, <2>4 DEF AloneCache
  <2>6. AloneEvicted'
    BY <1>0, <1>k, <2>1, <2>2, <2>4 DEF AloneEvicted
  <2>7. AloneNotes'
    BY <1>0, <1>k, <2>1, <2>2, <2>4 DEF AloneNotes
  <2>8. SeparateAnswers'
    BY <1>0, <1>k, <2>1, <2>4 DEF SeparateAnswers
  <2> QED BY <2>3, <2>5, <2>6, <2>7, <2>8 DEF Alone
<1>3. ASSUME NEW t \in Threads, Touch(t) PROVE Alone'
  <2>1. /\ pc[t] = "touch"
        /\ pc'[t] \in {"fetch", "done"}
        /\ \A u \in Threads : u # t => pc'[u] = pc[u]
        /\ path' = path /\ evicted' = evicted /\ shared_by' = shared_by
        /\ dk' = dk
        /\ lenient_note' = lenient_note
        /\ \A u \in Threads : u # t => answer'[u] = answer[u]
        /\ answer'[t] = answer[t] \/ answer'[t].kind = "key_error"
    BY <1>0, <1>3 DEF Typed, Touch, Goto, Answer, shared, local, history
  <2>2. Entries' = Entries
    BY <1>0, <1>3, EntriesMoved
  <2>3. OneWorker'
    BY <1>0, <2>1 DEF OneWorker, WorkOn
  <2>4. AloneCache'
    BY <1>0, <1>k, <2>1, <2>2 DEF AloneCache
  <2>5. AloneEvicted'
    BY <1>0, <1>k, <2>1, <2>2 DEF AloneEvicted
  <2>6. AloneNotes'
    BY <1>0, <1>k, <2>1, <2>2 DEF AloneNotes
  <2>7. SeparateAnswers'
    BY <1>0, <1>k, <2>1 DEF SeparateAnswers
  <2> QED BY <2>3, <2>4, <2>5, <2>6, <2>7 DEF Alone
<1>4. ASSUME NEW t \in Threads, Fetch(t) PROVE Alone'
  <2>1. /\ pc[t] = "fetch"
        /\ pc'[t] \in {"execute", "done"}
        /\ pc'[t] = "execute" => \E i \in 1..Len(dk_cache) : dk'[t] = dk_cache[i]
        /\ \A u \in Threads : u # t => pc'[u] = pc[u]
        /\ path' = path /\ evicted' = evicted /\ shared_by' = shared_by
        /\ \A u \in Threads : u # t => dk'[u] = dk[u]
        /\ lenient_note' = lenient_note
        /\ dk_cache' = dk_cache
        /\ \A u \in Threads : u # t => answer'[u] = answer[u]
        /\ answer'[t] = answer[t] \/ answer'[t].kind = "key_error"
    <3>1. CASE Cached(path[t])
      BY <1>0, <1>4, <3>1 DEF Typed, Fetch, Goto, shared, history, At
    <3>2. CASE ~Cached(path[t])
      BY <1>0, <1>4, <3>2 DEF Typed, Fetch, Goto, Answer, shared, history
    <3> QED BY <3>1, <3>2
  <2>2. Entries' = Entries
    BY <2>1 DEF Entries
  <2>3. OneWorker'
    BY <1>0, <2>1 DEF OneWorker, WorkOn
  <2>4. pc'[t] = "execute" => dk'[t] \in Entries
    BY <2>1 DEF Entries
  <2>5. AloneCache'
    BY <1>0, <1>k, <2>1, <2>2, <2>4 DEF AloneCache
  <2>6. AloneEvicted'
    BY <1>0, <1>k, <2>1, <2>2, <2>4 DEF AloneEvicted
  <2>7. AloneNotes'
    BY <1>0, <1>k, <2>1, <2>2, <2>4 DEF AloneNotes
  <2>8. SeparateAnswers'
    BY <1>0, <1>k, <2>1, <2>4 DEF SeparateAnswers
  <2> QED BY <2>3, <2>5, <2>6, <2>7, <2>8 DEF Alone
<1>5. ASSUME NEW t \in Threads, OpenStrict(t) PROVE Alone'
  <2>1. /\ pc[t] = "open_strict"
        /\ pc'[t] \in {"insert", "open_lenient"}
        /\ \A u \in Threads : u # t => pc'[u] = pc[u]
        /\ path' = path /\ evicted' = evicted /\ shared_by' = shared_by
        /\ \A u \in Threads : u # t => dk'[u] = dk[u]
        /\ lenient_note' = lenient_note
        /\ dk_cache' = dk_cache
        /\ answer' = answer
    BY <1>0, <1>5 DEF Typed, OpenStrict, Goto, Answer, shared, local, history
  <2>2. Entries' = Entries
    BY <2>1 DEF Entries
  <2>3. OneWorker'
    BY <1>0, <2>1 DEF OneWorker, WorkOn
  <2>4. AloneCache'
    BY <1>0, <1>k, <2>1, <2>2 DEF AloneCache
  <2>5. AloneEvicted'
    BY <1>0, <1>k, <2>1, <2>2 DEF AloneEvicted
  <2>6. AloneNotes'
    BY <1>0, <1>k, <2>1, <2>2 DEF AloneNotes
  <2>7. SeparateAnswers'
    BY <1>0, <1>k, <2>1 DEF SeparateAnswers
  <2> QED BY <2>3, <2>4, <2>5, <2>6, <2>7 DEF Alone
<1>6. ASSUME NEW t \in Threads, OpenLenient(t) PROVE Alone'
  <2>1. /\ pc[t] = "open_lenient"
        /\ pc'[t] \in {"insert", "done"}
        /\ \A u \in Threads : u # t => pc'[u] = pc[u]
        /\ path' = path /\ evicted' = evicted /\ shared_by' = shared_by
        /\ \A u \in Threads : u # t => dk'[u] = dk[u]
        /\ lenient_note' = lenient_note
        /\ dk_cache' = dk_cache
        /\ \A u \in Threads : u # t => answer'[u] = answer[u]
        /\ answer'[t] = answer[t] \/ answer'[t].kind = "unopenable"
    BY <1>0, <1>6 DEF Typed, OpenLenient, Goto, Answer, shared, local, history
  <2>2. Entries' = Entries
    BY <2>1 DEF Entries
  <2>3. OneWorker'
    BY <1>0, <2>1 DEF OneWorker, WorkOn
  <2>4. AloneCache'
    BY <1>0, <1>k, <2>1, <2>2 DEF AloneCache
  <2>5. AloneEvicted'
    BY <1>0, <1>k, <2>1, <2>2 DEF AloneEvicted
  <2>6. AloneNotes'
    BY <1>0, <1>k, <2>1, <2>2 DEF AloneNotes
  <2>7. SeparateAnswers'
    BY <1>0, <1>k, <2>1 DEF SeparateAnswers
  <2> QED BY <2>3, <2>4, <2>5, <2>6, <2>7 DEF Alone
<1>7. ASSUME NEW t \in Threads, Insert(t) PROVE Alone'
  <2>1. /\ pc[t] = "insert"
        /\ pc'[t] = "record"
        /\ \A u \in Threads : u # t => pc'[u] = pc[u]
        /\ path' = path /\ evicted' = evicted /\ shared_by' = shared_by
        /\ dk' = dk
        /\ lenient_note' = lenient_note
        /\ answer' = answer
    BY <1>0, <1>7 DEF Typed, Insert, Goto, Answer, shared, local, history
  <2>2. Entries' = {h \in Entries : h.path # path[t]} \cup {dk[t]}
    BY <1>0, <1>7, EntriesInserted
  <2>3. OneWorker'
    BY <1>0, <2>1 DEF OneWorker, WorkOn
  <2>4. dk[t].path = path[t] /\ path[t] \in Paths
    BY <1>0, <2>1 DEF CallsKnow, WithHandle
  <2>5. \A u \in Threads : u # t /\ path[t] \notin shared_by => path[u] # path[t] \/ pc[u] = "done"
    BY <1>0, <2>1, <2>4 DEF OneWorker, WorkOn
  <2>6. \A u \in Threads : u # t /\ pc[u] = "forget" /\ evicted[u] = path[t] => path[t] \in shared_by
    BY <1>0, <2>1, <2>4 DEF OneWorker, WorkOn
  <2>7. \A p \in Paths : p # path[t] => (Handle(p, "lenient") \in Entries' <=> Handle(p, "lenient") \in Entries)
    BY <2>2, <2>4 DEF Handle
  <2>8. AloneCache'
    <3> SUFFICES ASSUME NEW u \in Threads, path'[u] \in Paths \ shared_by'
                 PROVE  /\ pc'[u] \in {"touch", "fetch"} => \E h \in Entries' : h.path = path'[u]
                        /\ pc'[u] \in {"open_strict", "open_lenient", "insert"} =>
                             \A h \in Entries' : h.path # path'[u]
                        /\ pc'[u] \in {"record", "check", "evict", "forget", "execute", "annotate"} =>
                             dk'[u] \in Entries'
      BY DEF AloneCache
    <3>1. CASE u = t
      BY <2>1, <2>2, <3>1
    <3>2. CASE u # t /\ path[u] # path[t]
      BY <1>0, <1>p, <2>1, <2>2, <2>4, <3>2 DEF AloneCache
    <3>3. CASE u # t /\ path[u] = path[t]
      BY <2>1, <2>5, <3>3
    <3> QED BY <3>1, <3>2, <3>3
  <2>9. AloneEvicted'
    BY <1>0, <1>k, <2>1, <2>2, <2>4, <2>5, <2>6, <2>7 DEF AloneEvicted
  <2>10. AloneNotes'
    BY <1>0, <1>k, <2>1, <2>2, <2>4, <2>5, <2>6, <2>7 DEF AloneNotes
  <2>11. SeparateAnswers'
    BY <1>0, <1>k, <2>1, <2>4, <2>5, <2>6, <2>7 DEF SeparateAnswers
  <2> QED BY <2>3, <2>8, <2>9, <2>10, <2>11 DEF Alone
<1>8. ASSUME NEW t \in Threads, Record(t) PROVE Alone'
  <2>1. /\ pc[t] = "record"
        /\ pc'[t] = "check"
        /\ \A u \in Threads : u # t => pc'[u] = pc[u]
        /\ path' = path /\ evicted' = evicted /\ shared_by' = shared_by
        /\ dk' = dk
        /\ dk_cache' = dk_cache
        /\ answer' = answer
        /\ lenient_note' = IF dk[t].mode = "lenient" THEN lenient_note \cup {path[t]} ELSE lenient_note \ {path[t]}
    BY <1>0, <1>8 DEF Typed, Record, Goto, Answer, shared, local, history
  <2>2. Entries' = Entries
    BY <2>1 DEF Entries
  <2>3. OneWorker'
    BY <1>0, <2>1 DEF OneWorker, WorkOn
  <2>4. path[t] \in Paths /\ dk[t] \in Handles /\ dk[t].path = path[t]
    BY <1>0, <2>1 DEF CallsKnow, WithHandle
  <2>5. path[t] \notin shared_by => (dk[t].mode = "lenient" <=> Handle(path[t], "lenient") \in Entries)
    BY <1>0, <1>h, <2>1, <2>4 DEF AloneCache
  <2>6. \A p \in Paths : p # path[t] => (p \in lenient_note' <=> p \in lenient_note)
    BY <2>1
  <2>7. path[t] \in lenient_note' <=> dk[t].mode = "lenient"
    BY <2>1
  <2>8. AloneCache'
    BY <1>0, <1>k, <2>1, <2>2, <2>4, <2>5, <2>6, <2>7 DEF AloneCache
  <2>9. AloneEvicted'
    BY <1>0, <1>k, <2>1, <2>2, <2>4, <2>5, <2>6, <2>7 DEF AloneEvicted
  <2>10. AloneNotes'
    BY <1>0, <1>k, <2>1, <2>2, <2>4, <2>5, <2>6, <2>7 DEF AloneNotes
  <2>11. SeparateAnswers'
    BY <1>0, <1>k, <2>1, <2>4, <2>5, <2>6, <2>7 DEF SeparateAnswers
  <2> QED BY <2>3, <2>8, <2>9, <2>10, <2>11 DEF Alone
<1>9. ASSUME NEW t \in Threads, Check(t) PROVE Alone'
  <2>1. /\ pc[t] = "check"
        /\ pc'[t] \in {"evict", "execute"}
        /\ \A u \in Threads : u # t => pc'[u] = pc[u]
        /\ path' = path /\ evicted' = evicted /\ shared_by' = shared_by
        /\ dk' = dk
        /\ lenient_note' = lenient_note
        /\ dk_cache' = dk_cache
        /\ answer' = answer
    BY <1>0, <1>9 DEF Typed, Check, Goto, Answer, shared, local, history
  <2>2. Entries' = Entries
    BY <2>1 DEF Entries
  <2>3. OneWorker'
    BY <1>0, <2>1 DEF OneWorker, WorkOn
  <2>4. AloneCache'
    BY <1>0, <1>k, <2>1, <2>2 DEF AloneCache
  <2>5. AloneEvicted'
    BY <1>0, <1>k, <2>1, <2>2 DEF AloneEvicted
  <2>6. AloneNotes'
    BY <1>0, <1>k, <2>1, <2>2 DEF AloneNotes
  <2>7. SeparateAnswers'
    BY <1>0, <1>k, <2>1 DEF SeparateAnswers
  <2> QED BY <2>3, <2>4, <2>5, <2>6, <2>7 DEF Alone
<1>10. ASSUME NEW t \in Threads, Forget(t) PROVE Alone'
  <2>1. /\ pc[t] = "forget"
        /\ pc'[t] = "check"
        /\ \A u \in Threads : u # t => pc'[u] = pc[u]
        /\ path' = path /\ evicted' = evicted /\ shared_by' = shared_by
        /\ dk' = dk
        /\ dk_cache' = dk_cache
        /\ answer' = answer
        /\ lenient_note' = lenient_note \ {evicted[t]}
    BY <1>0, <1>10 DEF Typed, Forget, Goto, Answer, shared, local, history
  <2>2. Entries' = Entries
    BY <2>1 DEF Entries
  <2>3. OneWorker'
    BY <1>0, <2>1 DEF OneWorker, WorkOn
  <2>4. evicted[t] \notin shared_by => Handle(evicted[t], "lenient") \notin Entries
    BY <1>0, <2>1 DEF AloneEvicted, Handle
  <2>5. AloneCache'
    BY <1>0, <1>k, <2>1, <2>2, <2>4 DEF AloneCache
  <2>6. AloneEvicted'
    BY <1>0, <1>k, <2>1, <2>2, <2>4 DEF AloneEvicted
  <2>7. AloneNotes'
    BY <1>0, <1>k, <2>1, <2>2, <2>4 DEF AloneNotes
  <2>8. SeparateAnswers'
    BY <1>0, <1>k, <2>1, <2>4 DEF SeparateAnswers
  <2> QED BY <2>3, <2>5, <2>6, <2>7, <2>8 DEF Alone
<1>11. ASSUME NEW t \in Threads, Execute(t) PROVE Alone'
  <2>1. /\ pc[t] = "execute"
        /\ pc'[t] = "annotate"
        /\ \A u \in Threads : u # t => pc'[u] = pc[u]
        /\ path' = path /\ evicted' = evicted /\ shared_by' = shared_by
        /\ dk' = dk
        /\ lenient_note' = lenient_note
        /\ dk_cache' = dk_cache
        /\ answer' = answer
    BY <1>0, <1>11 DEF Typed, Execute, Goto, Answer, shared, local, history
  <2>2. Entries' = Entries
    BY <2>1 DEF Entries
  <2>3. OneWorker'
    BY <1>0, <2>1 DEF OneWorker, WorkOn
  <2>4. AloneCache'
    BY <1>0, <1>k, <2>1, <2>2 DEF AloneCache
  <2>5. AloneEvicted'
    BY <1>0, <1>k, <2>1, <2>2 DEF AloneEvicted
  <2>6. AloneNotes'
    BY <1>0, <1>k, <2>1, <2>2 DEF AloneNotes
  <2>7. SeparateAnswers'
    BY <1>0, <1>k, <2>1 DEF SeparateAnswers
  <2> QED BY <2>3, <2>4, <2>5, <2>6, <2>7 DEF Alone
<1>12. ASSUME NEW t \in Threads, Annotate(t) PROVE Alone'
  <2>1. /\ pc[t] = "annotate"
        /\ pc'[t] = "done"
        /\ \A u \in Threads : u # t => pc'[u] = pc[u]
        /\ path' = path /\ evicted' = evicted /\ shared_by' = shared_by
        /\ dk' = dk
        /\ lenient_note' = lenient_note
        /\ dk_cache' = dk_cache
        /\ \A u \in Threads : u # t => answer'[u] = answer[u]
        /\ answer'[t].noted <=> path[t] \in lenient_note
    <3> DEFINE noted == path[t] \in lenient_note
    <3>1. answer'[t] = [kind |-> "result", noted |-> noted]
      BY <1>0, <1>12 DEF Typed, Annotate, Answer
    <3> HIDE DEF noted
    <3>2. answer'[t].noted = noted
      BY <3>1
    <3> QED BY <1>0, <1>12, <3>2 DEF Typed, Annotate, Goto, Answer, shared, local, history, noted
  <2>2. Entries' = Entries
    BY <2>1 DEF Entries
  <2>3. OneWorker'
    BY <1>0, <2>1 DEF OneWorker, WorkOn
  <2>4. path[t] \in Paths /\ dk[t] \in Handles /\ dk[t].path = path[t]
    BY <1>0, <2>1 DEF CallsKnow, WithHandle
  <2>5. path[t] \notin shared_by => (dk[t].mode = "lenient" <=> Handle(path[t], "lenient") \in Entries)
    BY <1>0, <1>h, <2>1, <2>4 DEF AloneCache
  <2>6. path[t] \notin shared_by => (path[t] \in lenient_note <=> Handle(path[t], "lenient") \in Entries)
    BY <1>0, <2>1, <2>4 DEF AloneNotes, OneWorker, WorkOn
  <2>7. AloneCache'
    BY <1>0, <1>k, <2>1, <2>2, <2>4, <2>5, <2>6 DEF AloneCache
  <2>8. AloneEvicted'
    BY <1>0, <1>k, <2>1, <2>2, <2>4, <2>5, <2>6 DEF AloneEvicted
  <2>9. AloneNotes'
    BY <1>0, <1>k, <2>1, <2>2, <2>4, <2>5, <2>6 DEF AloneNotes
  <2>10. SeparateAnswers'
    BY <1>0, <2>1, <2>4, <2>5, <2>6 DEF SeparateAnswers
  <2> QED BY <2>3, <2>7, <2>8, <2>9, <2>10 DEF Alone
<1>13. ASSUME NEW t \in Threads, Evict(t), dk_cache # <<>> PROVE Alone'
  <2> DEFINE q == Head(dk_cache).path
  <2>1. /\ pc[t] = "evict" /\ pc'[t] = "forget" /\ evicted'[t] = q
        /\ \A u \in Threads : u # t => pc'[u] = pc[u] /\ evicted'[u] = evicted[u]
        /\ path' = path /\ dk' = dk /\ answer' = answer /\ lenient_note' = lenient_note
        /\ dk_cache' = Tail(dk_cache)
        /\ shared_by' = shared_by \cup {p \in Paths : p = q /\ WorkOn(p) # {}}
    BY <1>0, <1>13 DEF Typed, Evict, Goto, Answer
  <2>2. q \in Paths /\ Entries' = {h \in Entries : h.path # q}
    BY <1>0, <1>13, <2>1, EntriesEvicted
  <2> HIDE DEF q
  <2>3. /\ \A p \in Paths \ shared_by' : p \notin shared_by
        /\ q \notin shared_by' => WorkOn(q) = {}
    BY <2>1, <2>2
  <2>4. q \notin shared_by' =>
          /\ \A u \in Threads : path[u] = q => pc[u] = "done"
          /\ \A u \in Threads : pc[u] = "forget" => evicted[u] # q
    BY <2>3 DEF WorkOn
  <2>5. \A p \in Paths : p # q => (Handle(p, "lenient") \in Entries' <=> Handle(p, "lenient") \in Entries)
    BY <2>2 DEF Handle
  <2>6. OneWorker'
    BY <1>0, <2>1, <2>2, <2>3, <2>4 DEF OneWorker, WorkOn
  <2>7. AloneCache'
    <3> SUFFICES ASSUME NEW u \in Threads, path'[u] \in Paths \ shared_by'
                 PROVE  /\ pc'[u] \in {"touch", "fetch"} => \E h \in Entries' : h.path = path'[u]
                        /\ pc'[u] \in {"open_strict", "open_lenient", "insert"} =>
                             \A h \in Entries' : h.path # path'[u]
                        /\ pc'[u] \in {"record", "check", "evict", "forget", "execute", "annotate"} =>
                             dk'[u] \in Entries'
      BY DEF AloneCache
    <3>1. CASE u = t
      <4>1. path[t] # q
        BY <2>1, <2>4, <3>1
      <4>2. dk[t] \in Entries /\ dk[t].path = path[t]
        BY <1>0, <1>p, <2>1, <2>3, <3>1 DEF AloneCache
      <4> QED BY <2>1, <2>2, <3>1, <4>1, <4>2
    <3>2. CASE u # t /\ path[u] # q
      BY <1>0, <1>p, <2>1, <2>2, <2>3, <3>2 DEF AloneCache
    <3>3. CASE u # t /\ path[u] = q
      BY <2>1, <2>4, <3>3
    <3> QED BY <3>1, <3>2, <3>3
  <2>8. AloneEvicted'
    BY <1>0, <2>1, <2>2, <2>3, <2>4 DEF AloneEvicted
  <2>9. AloneNotes'
    BY <1>0, <2>1, <2>2, <2>3, <2>4, <2>5 DEF AloneNotes
  <2>10. SeparateAnswers'
    BY <1>0, <2>1, <2>3 DEF SeparateAnswers
  <2> QED BY <2>6, <2>7, <2>8, <2>9, <2>10 DEF Alone
<1>14. ASSUME NEW t \in Threads, Evict(t), dk_cache = <<>> PROVE Alone'
  <2>1. /\ pc[t] = "evict" /\ pc'[t] = "done"
        /\ \A u \in Threads : u # t => pc'[u] = pc[u] /\ answer'[u] = answer[u]
        /\ path' = path /\ dk' = dk /\ evicted' = evicted /\ lenient_note' = lenient_note
        /\ dk_cache' = dk_cache /\ shared_by' = shared_by
        /\ answer'[t] = [kind |-> "key_error", noted |-> FALSE]
    BY <1>0, <1>14 DEF Typed, Evict, Goto, Answer
  <2>2. Entries' = Entries
    BY <2>1 DEF Entries
  <2>3. OneWorker'
    BY <1>0, <2>1 DEF OneWorker, WorkOn
  <2>4. AloneCache' /\ AloneEvicted' /\ AloneNotes' /\ SeparateAnswers'
    BY <1>0, <2>1, <2>2 DEF AloneCache, AloneEvicted, AloneNotes, SeparateAnswers
  <2> QED BY <2>3, <2>4 DEF Alone
<1>15. ASSUME NEW t \in Threads, NEW p \in Paths \cup {NoPath}, Call(t, p) PROVE Alone'
  <2>1. /\ pc[t] = "done" /\ pc'[t] = "lookup" /\ path'[t] = p
        /\ \A u \in Threads : u # t =>
             pc'[u] = pc[u] /\ path'[u] = path[u] /\ dk'[u] = dk[u] /\ answer'[u] = answer[u]
        /\ answer'[t] = Waiting /\ evicted' = evicted
        /\ dk_cache' = dk_cache /\ lenient_note' = lenient_note
        /\ shared_by' = shared_by \cup {q \in Paths : q = p /\ WorkOn(q) # {}}
    BY <1>0, <1>15 DEF Typed, Call, Goto, shared
  <2>2. Entries' = Entries
    BY <2>1 DEF Entries
  <2>3. \A q \in Paths \ shared_by' : q \notin shared_by /\ (q = p => WorkOn(q) = {})
    BY <2>1
  <2>4. answer'[t].kind # "result"
    BY <2>1 DEF Waiting
  <2>5. OneWorker'
    <3> SUFFICES ASSUME NEW q \in Paths \ shared_by', NEW u \in WorkOn(q)', NEW v \in WorkOn(q)'
                 PROVE  u = v
      BY DEF OneWorker
    <3>1. CASE q = p
      BY <2>1, <2>3, <3>1 DEF WorkOn
    <3>2. CASE q # p
      <4>1. u # t /\ v # t
        BY <2>1, <3>2 DEF WorkOn
      <4>2. u \in WorkOn(q) /\ v \in WorkOn(q)
        BY <2>1, <4>1 DEF WorkOn
      <4> QED BY <1>0, <2>3, <4>2 DEF OneWorker
    <3> QED BY <3>1, <3>2
  <2>6. AloneCache'
    BY <1>0, <2>1, <2>2, <2>3 DEF AloneCache
  <2>7. AloneEvicted'
    BY <1>0, <2>1, <2>2, <2>3 DEF AloneEvicted
  <2>8. AloneNotes'
    BY <1>0, <2>1, <2>2, <2>3 DEF AloneNotes
  <2>9. SeparateAnswers'
    BY <1>0, <2>1, <2>3, <2>4 DEF SeparateAnswers
  <2> QED BY <2>5, <2>6, <2>7, <2>8, <2>9 DEF Alone
<1>16. ASSUME NEW p \in Paths, NEW c \in Contents, Write(p, c) PROVE Alone'
  BY <1>0, <1>16 DEF Write, shared, local, Alone, OneWorker, WorkOn, AloneCache, AloneEvicted,
     AloneNotes, SeparateAnswers, Entries
<1>17. CASE UNCHANGED vars
  BY <1>0, <1>17 DEF vars, shared, local, history, Alone, OneWorker, WorkOn, AloneCache,
     AloneEvicted, AloneNotes, SeparateAnswers, Entries
<1> QED
  BY <1>1, <1>2, <1>3, <1>4, <1>5, <1>6, <1>7, <1>8, <1>9, <1>10, <1>11, <1>12, <1>13, <1>14,
     <1>15, <1>16, <1>17 DEF Next, Step

\* At the start nothing is cached and nobody works.
LEMMA AloneInit == Init => Alone
<1> SUFFICES ASSUME Init PROVE Alone
  OBVIOUS
<1>1. /\ \A t \in Threads : pc[t] = "done" /\ answer[t].kind # "result"
      /\ dk_cache = <<>> /\ lenient_note = {}
  BY DEF Init, Waiting
<1>2. Entries = {}
  BY <1>1 DEF Entries
<1> QED BY <1>1, <1>2 DEF Alone, OneWorker, WorkOn, AloneCache, AloneEvicted, AloneNotes,
        SeparateAnswers

\* dispatch_tool: the cache is trimmed by the calls that filled it; a strict session
\* is announced as lenient only to a client that pipelines its calls, on a path whose
\* file has changed; on a path whose calls do not overlap the note is exact; and a
\* client that waits reads the note on every answer of a lenient session and meets no
\* KeyError of the cache.
THEOREM AnswersAreSound == Spec => []AnswersSound
<1>1. McpInv /\ Alone => AnswersSound
  BY DEF McpInv, Alone, AnswersSound, TypeOK
<1>2. McpInv /\ Alone /\ [Next]_vars => Alone'
  BY AloneStep
<1> QED BY <1>1, <1>2, AloneInit, McpInvariant, PTL DEF Spec

-----------------------------------------------------------------------------
\* Every step other than popitem keeps each path in the cache.
LEMMA OnlyEvictRemoves ==
    ASSUME McpInv, Next, ~\E t \in Threads : Evict(t) /\ dk_cache # <<>>,
           NEW i \in 1..Len(dk_cache)
    PROVE  \E j \in 1..Len(dk_cache') : dk_cache'[j].path = dk_cache[i].path
<1>0. Typed /\ OnePerPath /\ CallsKnow /\ Len(dk_cache) \in Nat /\ dk_cache \in Seq(Handles)
  BY DEF McpInv, Typed
<1>1. CASE dk_cache' = dk_cache
  BY <1>1
<1>2. ASSUME NEW t \in Threads, Touch(t), Cached(path[t])
      PROVE  \E j \in 1..Len(dk_cache') : dk_cache'[j].path = dk_cache[i].path
  <2>1. PICK k \in At(path[t]) : dk_cache' = Append(Erased(k), dk_cache[k])
    BY <1>2 DEF Touch
  <2>2. k \in 1..Len(dk_cache)
    BY <2>1 DEF At
  <2>3. /\ Len(dk_cache') = Len(dk_cache)
        /\ \A j \in 1..Len(dk_cache) :
             dk_cache'[j] = IF j < k THEN dk_cache[j] ELSE IF j = Len(dk_cache) THEN dk_cache[k]
                            ELSE dk_cache[j + 1]
    BY <1>0, <2>1, <2>2, MovedToEnd
  <2>4. \E j \in 1..Len(dk_cache) : dk_cache'[j] = dk_cache[i]
    BY <1>0, <2>2, <2>3, MovedCovers
  <2> QED BY <2>3, <2>4
<1>3. ASSUME NEW t \in Threads, Insert(t)
      PROVE  \E j \in 1..Len(dk_cache') : dk_cache'[j].path = dk_cache[i].path
  <2>1. dk[t] \in Handles /\ dk[t].path = path[t]
    BY <1>0, <1>3 DEF CallsKnow, WithHandle, Insert
  <2>2. CASE Cached(path[t])
    <3>1. dk_cache' = [j \in 1..Len(dk_cache) |-> IF j \in At(path[t]) THEN dk[t] ELSE dk_cache[j]]
      BY <1>3, <2>2 DEF Insert
    <3>2. dk_cache' \in Seq(Handles) /\ Len(dk_cache') = Len(dk_cache)
      <4> HIDE DEF Handles
      <4> QED BY <1>0, <2>1, <3>1
    <3>3. dk_cache'[i].path = dk_cache[i].path
      BY <2>1, <3>1 DEF At
    <3> QED BY <3>2, <3>3
  <2>3. CASE ~Cached(path[t])
    <3>1. dk_cache' = Append(dk_cache, dk[t])
      BY <1>3, <2>3 DEF Insert
    <3>2. Len(dk_cache') = Len(dk_cache) + 1 /\ dk_cache'[i] = dk_cache[i]
      <4> HIDE DEF Handles
      <4> QED BY <1>0, <2>1, <3>1
    <3> QED BY <1>0, <3>2
  <2> QED BY <2>2, <2>3
<1>4. ASSUME NEW t \in Threads, Step(t)
      PROVE  \/ dk_cache' = dk_cache
             \/ Insert(t)
             \/ Touch(t) /\ Cached(path[t])
  BY <1>4 DEF Step, Refuse, Lookup, Touch, Fetch, OpenStrict, OpenLenient, Record, Check, Evict,
     Forget, Execute, Annotate, shared
<1>5. \/ dk_cache' = dk_cache
      \/ \E t \in Threads : Step(t)
  BY DEF Next, Call, Write, shared
<1> QED BY <1>1, <1>2, <1>3, <1>4, <1>5

\* With a client that waits, popitem takes the path that was asked for least
\* recently: every path that stays was asked for later.
LEMMA EvictTakesTheOldest ==
    ASSUME McpInv, client = "waits", NEW t \in Threads, Evict(t), dk_cache # <<>>
    PROVE  LeastRecentLeaves
<1>0. /\ Typed /\ OneCall /\ SerialOrder /\ dk_cache \in Seq(Handles)
      /\ Len(dk_cache) \in Nat \ {0}
  BY DEF McpInv, Typed
<1>1. /\ pc[t] = "evict" /\ dk_cache' = Tail(dk_cache)
  BY DEF Evict
<1>2. /\ Len(dk_cache') = Len(dk_cache) - 1
      /\ \A j \in 1..(Len(dk_cache) - 1) : dk_cache'[j] = dk_cache[j + 1]
  <2> HIDE DEF Handles
  <2> QED BY <1>0, <1>1
<1>3. \A u \in Threads : pc[u] # "touch"
  BY <1>0, <1>1 DEF OneCall
<1>4. \A j \in 1..Len(dk_cache') :
        /\ j + 1 \in 1..Len(dk_cache) /\ 1 < j + 1 /\ dk_cache'[j] = dk_cache[j + 1]
  BY <1>0, <1>2
<1>5. \A j \in 1..Len(dk_cache') : last_use[dk_cache[1].path] < last_use[dk_cache'[j].path]
  BY <1>0, <1>3, <1>4 DEF SerialOrder
<1>6. ASSUME NEW i \in 1..Len(dk_cache), i # 1
      PROVE  \E j \in 1..Len(dk_cache') : dk_cache'[j].path = dk_cache[i].path
  <2>1. i - 1 \in 1..Len(dk_cache') /\ (i - 1) + 1 = i
    BY <1>0, <1>2, <1>6
  <2> QED BY <1>4, <2>1
<1> QED BY <1>5, <1>6 DEF LeastRecentLeaves

\* _get_dk: with a client that waits for its answers, what leaves the cache is
\* the path it asked for least recently.
THEOREM LeastRecentGoes == Spec => SerialLru
<1>1. McpInv /\ Next => (client = "waits" => LeastRecentLeaves)
  <2> SUFFICES ASSUME McpInv, Next, client = "waits" PROVE LeastRecentLeaves
    OBVIOUS
  <2>1. CASE \E t \in Threads : Evict(t) /\ dk_cache # <<>>
    BY <2>1, EvictTakesTheOldest
  <2>2. CASE ~\E t \in Threads : Evict(t) /\ dk_cache # <<>>
    BY <2>2, OnlyEvictRemoves DEF LeastRecentLeaves
  <2> QED BY <2>1, <2>2
<1> QED BY <1>1, McpInvariant, PTL DEF Spec, SerialLru
=============================================================================
