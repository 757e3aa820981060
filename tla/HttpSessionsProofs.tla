------------------------- MODULE HttpSessionsProofs ------------------------
(* Sessions and scratch directories have one owner each, the session cache   *)
(* keeps its bound and the conversations are well formed, for any uploads,   *)
(* deletions, analyses and sizes.                                            *)
EXTENDS HttpSessions, SequenceTheorems, TLAPS

\* The event loop belongs to the coroutine that is between two awaits.
LoopHeld ==
    /\ \A u \in Uploads :
         /\ pc[u] \in {"new", "open", "check", "evict", "close", "answered"}
         /\ loop = u <=> pc[u] \in {"check", "evict", "close"}
    /\ \A d \in Deletes : pc[d] \in {"new", "close", "answered"} /\ loop # d
    /\ \A a \in Analyses :
         /\ pc[a] \in {"new", "touch", "create", "tools", "answered"}
         /\ loop = a <=> pc[a] = "touch"

\* The sessions in a sequence, and that each is there once.
Holds(s) == {s[i] : i \in 1..Len(s)}
Once(s) == \A i, j \in 1..Len(s) : s[i] = s[j] => i = j

\* A session is registered once, from the end of its opening until a request
\* takes it to close it.
OneOwner ==
    /\ Once(sessions)
    /\ \A r \in Requests : /\ victim[r] # NoOne <=> pc[r] = "close"
                           /\ victim[r] \notin Registered
    /\ \A u \in Uploads : /\ u \in Registered => pc[u] \notin {"new", "open"}
                          /\ pc[u] = "open" => u \in dirs
    /\ \A u \in Uploads, r \in Requests : victim[r] = u => pc[u] \notin {"new", "open"}

\* An upload that is not answered has no status.
NotYetSent == \A u \in Uploads : pc[u] # "answered" => status[u] = 0

\* Up to position n, a reply is followed by its results.
MatchedTo(m, n) ==
    \A i \in 1..n : m[i].role = "assistant" =>
        i < Len(m) /\ m[i + 1] = [role |-> "results", blocks |-> m[i].blocks]

\* Between two calls of the model all replies have their results; while the
\* tools run, all but the last one.
Conversations ==
    \A a \in Analyses :
        /\ pc[a] = "create" =>
             /\ messages[a] # <<>> /\ MatchedTo(messages[a], Len(messages[a]))
             /\ turn[a] < MAX_TURNS
        /\ pc[a] = "tools" =>
             /\ messages[a] # <<>> /\ MatchedTo(messages[a], Len(messages[a]) - 1)
             /\ messages[a][Len(messages[a])].role = "assistant"
             /\ turn[a] < MAX_TURNS
        /\ pc[a] \in {"new", "touch"} => messages[a] = <<>> /\ turn[a] = 0

\* An upload that left its directory behind is over, and no request will close it.
LeaksKept ==
    \A u \in leaked : /\ pc[u] = "answered" /\ status[u] = 500
                      /\ u \in dirs /\ u \notin Registered
                      /\ \A r \in Requests : victim[r] # u

HttpInv ==
    /\ TypeOK /\ DirsOwned /\ NoOrphanSession /\ LoopHeld /\ OneOwner /\ NotYetSent
    /\ Conversations /\ LeaksKept
-----------------------------------------------------------------------------
(* What the operations of the cache do to the sessions it holds. *)

\* Registering a session that is not there.
LEMMA AppendHolds ==
    ASSUME NEW s \in Seq(Uploads), NEW u \in Uploads, u \notin Holds(s), Once(s)
    PROVE  /\ Append(s, u) \in Seq(Uploads) /\ Once(Append(s, u))
           /\ Len(Append(s, u)) = Len(s) + 1
           /\ Holds(Append(s, u)) = Holds(s) \cup {u}
BY DEF Holds, Once

\* Taking the oldest session.
LEMMA TailHolds ==
    ASSUME NEW s \in Seq(Uploads), s # <<>>, Once(s)
    PROVE  /\ Tail(s) \in Seq(Uploads) /\ Once(Tail(s))
           /\ Len(Tail(s)) = Len(s) - 1
           /\ Head(s) \in Holds(s)
           /\ Holds(Tail(s)) = Holds(s) \ {Head(s)}
<1>1. /\ Tail(s) \in Seq(Uploads) /\ Len(Tail(s)) = Len(s) - 1 /\ Len(s) \in Nat \ {0}
      /\ \A i \in 1..Len(Tail(s)) : Tail(s)[i] = s[i + 1]
      /\ Head(s) = s[1] /\ 1 \in 1..Len(s)
  OBVIOUS
<1>2. Once(Tail(s))
  BY <1>1 DEF Once
<1>3. Holds(Tail(s)) = Holds(s) \ {Head(s)}
  <2>1. ASSUME NEW x \in Holds(Tail(s)) PROVE x \in Holds(s) \ {Head(s)}
    BY <1>1 DEF Holds, Once
  <2>2. ASSUME NEW x \in Holds(s), x # Head(s) PROVE x \in Holds(Tail(s))
    <3>1. PICK i \in 1..Len(s) : x = s[i]
      BY DEF Holds
    <3>2. i - 1 \in 1..Len(Tail(s)) /\ Tail(s)[i - 1] = x
      BY <1>1, <2>2, <3>1
    <3> QED BY <3>2 DEF Holds
  <2> QED BY <2>1, <2>2
<1>4. Head(s) \in Holds(s)
  BY <1>1 DEF Holds
<1> QED BY <1>1, <1>2, <1>3, <1>4

\* Popping a registered session takes it, and nothing else.
LEMMA PoppedHolds ==
    ASSUME NEW s \in Registered, sessions \in Seq(Uploads), Once(sessions)
    PROVE  /\ Popped(s) \in Seq(Uploads) /\ Once(Popped(s))
           /\ Len(Popped(s)) = Len(sessions) - 1
           /\ Holds(Popped(s)) = Registered \ {s}
<1> DEFINE at == CHOOSE i \in 1..Len(sessions) : sessions[i] = s
           n == Len(sessions)
           rest == SubSeq(sessions, 1, at - 1) \o SubSeq(sessions, at + 1, n)
<1>1. at \in 1..n /\ sessions[at] = s /\ n \in Nat
  BY DEF Registered
<1>2. Popped(s) = rest
  BY DEF Popped
<1> HIDE DEF at
<1>3. /\ rest \in Seq(Uploads) /\ Len(rest) = n - 1
      /\ \A i \in 1..(n - 1) : rest[i] = sessions[IF i < at THEN i ELSE i + 1]
  <2> DEFINE front == SubSeq(sessions, 1, at - 1)
             back == SubSeq(sessions, at + 1, n)
  <2>1. /\ front \in Seq(Uploads) /\ Len(front) = at - 1
        /\ \A i \in 1..(at - 1) : front[i] = sessions[i]
    BY <1>1, SubSeqProperties
  <2>2. /\ back \in Seq(Uploads) /\ Len(back) = n - at
        /\ \A i \in 1..(n - at) : back[i] = sessions[at + i]
    BY <1>1, SubSeqProperties
  <2> HIDE DEF front, back
  <2>3. rest = front \o back
    BY DEF front, back
  <2> HIDE DEF rest
  <2>4. /\ rest \in Seq(Uploads) /\ Len(rest) = n - 1
        /\ \A i \in 1..(n - 1) : rest[i] = IF i <= at - 1 THEN front[i] ELSE back[i - (at - 1)]
    <3>1. /\ rest \in Seq(Uploads) /\ Len(rest) = Len(front) + Len(back)
          /\ \A i \in 1..(Len(front) + Len(back)) :
               rest[i] = IF i <= Len(front) THEN front[i] ELSE back[i - Len(front)]
      BY <2>1, <2>2, <2>3, ConcatProperties
    <3>2. Len(front) = at - 1 /\ Len(front) + Len(back) = n - 1
      BY <1>1, <2>1, <2>2
    <3> QED BY <3>1, <3>2
  <2>5. ASSUME NEW i \in 1..(n - 1) PROVE rest[i] = sessions[IF i < at THEN i ELSE i + 1]
    <3>1. CASE i < at
      <4>1. i \in 1..(at - 1) /\ i <= at - 1
        BY <1>1, <3>1
      <4> QED BY <2>1, <2>4, <3>1, <4>1
    <3>2. CASE ~(i < at)
      <4>1. i - (at - 1) \in 1..(n - at) /\ at + (i - (at - 1)) = i + 1 /\ ~(i <= at - 1)
        BY <1>1, <3>2
      <4> QED BY <1>1, <2>2, <2>4, <3>2, <4>1
    <3> QED BY <3>1, <3>2
  <2> QED BY <2>4, <2>5
<1> HIDE DEF rest
<1>4. Once(rest)
  <2> SUFFICES ASSUME NEW i \in 1..(n - 1), NEW j \in 1..(n - 1), rest[i] = rest[j] PROVE i = j
    BY <1>3 DEF Once
  <2> QED BY <1>1, <1>3 DEF Once
<1>5. Holds(rest) = Registered \ {s}
  <2>1. ASSUME NEW x \in Holds(rest) PROVE x \in Registered \ {s}
    <3>1. PICK i \in 1..(n - 1) : x = rest[i]
      BY <1>3 DEF Holds
    <3>2. (IF i < at THEN i ELSE i + 1) \in 1..n /\ (IF i < at THEN i ELSE i + 1) # at
      BY <1>1
    <3> QED BY <1>1, <1>3, <3>1, <3>2 DEF Registered, Once
  <2>2. ASSUME NEW x \in Registered, x # s PROVE x \in Holds(rest)
    <3>1. PICK i \in 1..n : x = sessions[i]
      BY DEF Registered
    <3>2. i # at
      BY <1>1, <2>2, <3>1
    <3>3. CASE i < at
      <4>1. i \in 1..(n - 1) /\ rest[i] = x
        BY <1>1, <1>3, <3>1, <3>3
      <4> QED BY <1>3, <4>1 DEF Holds
    <3>4. CASE i > at
      <4>1. i - 1 \in 1..(n - 1) /\ rest[i - 1] = x
        BY <1>1, <1>3, <3>1, <3>4
      <4> QED BY <1>3, <4>1 DEF Holds
    <3> QED BY <1>1, <3>2, <3>3, <3>4
  <2> QED BY <2>1, <2>2
<1> QED BY <1>2, <1>3, <1>4, <1>5

-----------------------------------------------------------------------------
(* What a message does to a conversation. *)

\* A reply at the end of a conversation whose replies all have their results.
LEMMA ReplyMatched ==
    ASSUME NEW m \in Seq(Message), NEW x \in Message, MatchedTo(m, Len(m))
    PROVE  /\ Append(m, x) # <<>> /\ MatchedTo(Append(m, x), Len(Append(m, x)) - 1)
           /\ Append(m, x)[Len(Append(m, x))] = x
<1>1. /\ Len(Append(m, x)) = Len(m) + 1 /\ Len(m) \in Nat
      /\ \A i \in 1..Len(m) : Append(m, x)[i] = m[i]
      /\ Append(m, x)[Len(m) + 1] = x /\ Append(m, x) # <<>>
  OBVIOUS
<1>2. ASSUME NEW i \in 1..Len(m), m[i].role = "assistant"
      PROVE  i + 1 \in 1..Len(m) /\ m[i + 1] = [role |-> "results", blocks |-> m[i].blocks]
  BY <1>1, <1>2 DEF MatchedTo
<1>3. MatchedTo(Append(m, x), Len(m))
  BY <1>1, <1>2 DEF MatchedTo
<1> QED BY <1>1, <1>3

\* The results of the last reply.
LEMMA ResultsMatched ==
    ASSUME NEW m \in Seq(Message), m # <<>>, MatchedTo(m, Len(m) - 1)
    PROVE  LET x == [role |-> "results", blocks |-> m[Len(m)].blocks]
           IN  Append(m, x) # <<>> /\ MatchedTo(Append(m, x), Len(Append(m, x)))
<1> DEFINE x == [role |-> "results", blocks |-> m[Len(m)].blocks]
<1>0. Len(m) \in Nat \ {0} /\ x.role # "assistant"
  OBVIOUS
<1>1. m[Len(m)] \in Message
  BY <1>0
<1>2. x \in Message
  BY <1>1 DEF Message
<1> HIDE DEF x
<1>3. /\ Len(Append(m, x)) = Len(m) + 1
      /\ \A i \in 1..Len(m) : Append(m, x)[i] = m[i]
      /\ Append(m, x)[Len(m) + 1] = x /\ Append(m, x) # <<>>
  BY <1>2
<1>4. SUFFICES ASSUME NEW i \in 1..(Len(m) + 1), Append(m, x)[i].role = "assistant"
      PROVE  /\ i < Len(m) + 1
             /\ Append(m, x)[i + 1] = [role |-> "results", blocks |-> Append(m, x)[i].blocks]
  BY <1>3 DEF MatchedTo, x
<1>5. i \in 1..Len(m) /\ i < Len(m) + 1 /\ Append(m, x)[i] = m[i]
  BY <1>0, <1>3, <1>4
<1>6. CASE i = Len(m)
  BY <1>0, <1>3, <1>5, <1>6 DEF x
<1>7. CASE i # Len(m)
  <2>1. i \in 1..(Len(m) - 1) /\ i + 1 \in 1..Len(m) /\ m[i].role = "assistant"
    BY <1>0, <1>4, <1>5, <1>7
  <2>2. m[i + 1] = [role |-> "results", blocks |-> m[i].blocks]
    BY <2>1 DEF MatchedTo
  <2>3. Append(m, x)[i + 1] = m[i + 1]
    BY <1>3, <2>1
  <2> QED BY <1>5, <2>2, <2>3
<1> QED BY <1>6, <1>7

-----------------------------------------------------------------------------
\* Every step keeps the invariant.
LEMMA NextHttp == HttpInv /\ [Next]_vars => HttpInv'
<1> SUFFICES ASSUME HttpInv, [Next]_vars PROVE HttpInv'
  OBVIOUS
<1>a. /\ Uploads \subseteq Requests /\ Deletes \subseteq Requests /\ Analyses \subseteq Requests
      /\ NoOne \notin Requests /\ Bogus \notin Requests /\ NoOne # Bogus
      /\ \A u \in Uploads : u \notin Deletes /\ u \notin Analyses
      /\ \A d \in Deletes : d \notin Analyses
      /\ SESSION_CACHE_MAX \in Nat /\ MAX_TURNS \in Nat /\ MaxBlocks \in Nat
  BY HttpAssumption DEF Requests
<1>b. \A r \in Requests : r \in Uploads \/ r \in Deletes \/ r \in Analyses
  BY DEF Requests
<1>0. TypeOK /\ DirsOwned /\ NoOrphanSession /\ LoopHeld
      /\ OneOwner /\ NotYetSent /\ Conversations /\ LeaksKept
  BY DEF HttpInv
<1>c. Registered \subseteq Uploads
  BY <1>0 DEF TypeOK, Registered
<1>1. ASSUME NEW u \in Uploads, Store(u) PROVE HttpInv'
  <2>1. /\ pc[u] = "new" /\ loop = NoOne /\ dirs' = dirs \cup {u}
        /\ loop' = loop /\ pc' = [pc EXCEPT ![u] = "open"] /\ target' = target
        /\ victim' = victim /\ status' = status /\ body' = body /\ leaked' = leaked
        /\ messages' = messages /\ turn' = turn /\ blocks' = blocks
    BY <1>1 DEF Store, Goto, stored, agent
  <2>2. sessions' = sessions /\ Registered' = Registered
    BY <1>1 DEF Store, Registered
  <2>3. /\ pc[u] = "new" /\ loop = NoOne /\ dirs' = dirs \cup {u}
        /\ loop' = loop /\ pc'[u] = "open"
        /\ \A r \in Requests : r # u => pc'[r] = pc[r]
        /\ target' = target /\ victim' = victim /\ status' = status
        /\ body' = body /\ leaked' = leaked /\ messages' = messages /\ turn' = turn
        /\ blocks' = blocks
    BY <1>a, <1>0, <2>1 DEF TypeOK
  <2>4. TypeOK'
    BY <1>a, <1>0, <2>1, <2>2 DEF TypeOK, LoopHeld
  <2>5. DirsOwned'
    BY <1>a, <1>c, <1>0, <2>2, <2>3 DEF DirsOwned, OneOwner, LoopHeld
  <2>6. NoOrphanSession'
    BY <1>a, <1>c, <1>0, <2>2, <2>3 DEF NoOrphanSession, LoopHeld, NotYetSent, OneOwner
  <2>7. LoopHeld'
    BY <1>a, <1>c, <1>0, <2>2, <2>3 DEF LoopHeld
  <2>8. OneOwner'
    BY <1>a, <1>c, <1>0, <2>2, <2>3 DEF OneOwner, LoopHeld, DirsOwned
  <2>9. NotYetSent'
    BY <1>a, <1>c, <1>0, <2>2, <2>3 DEF NotYetSent, LoopHeld
  <2>10. Conversations'
    BY <1>a, <1>c, <1>0, <2>2, <2>3 DEF Conversations, LoopHeld
  <2>11. LeaksKept'
    BY <1>a, <1>c, <1>0, <2>2, <2>3 DEF TypeOK, LeaksKept, LoopHeld, OneOwner
  <2> QED BY <2>4, <2>5, <2>6, <2>7, <2>8, <2>9, <2>10, <2>11 DEF HttpInv
<1>2. ASSUME NEW u \in Uploads, StoreFails(u) PROVE HttpInv'
  <2>1. /\ pc[u] = "new" /\ loop = NoOne /\ dirs' = dirs /\ loop' = loop
        /\ pc' = [pc EXCEPT ![u] = "answered"] /\ target' = target
        /\ victim' = victim /\ status' = [status EXCEPT ![u] = 500]
        /\ body' = body /\ leaked' = leaked /\ messages' = messages /\ turn' = turn
        /\ blocks' = blocks
    BY <1>2 DEF StoreFails, Goto, Send, stored, agent
  <2>2. sessions' = sessions /\ Registered' = Registered
    BY <1>2 DEF StoreFails, Registered
  <2>3. /\ pc[u] = "new" /\ loop = NoOne /\ dirs' = dirs /\ loop' = loop
        /\ pc'[u] = "answered"
        /\ \A r \in Requests : r # u => pc'[r] = pc[r]
        /\ target' = target /\ victim' = victim /\ status'[u] = 500
        /\ \A r \in Requests : r # u => status'[r] = status[r]
        /\ body' = body /\ leaked' = leaked /\ messages' = messages /\ turn' = turn
        /\ blocks' = blocks
    BY <1>a, <1>0, <2>1 DEF TypeOK
  <2>4. TypeOK'
    BY <1>a, <1>0, <2>1, <2>2 DEF TypeOK, LoopHeld
  <2>5. DirsOwned'
    BY <1>a, <1>c, <1>0, <2>2, <2>3 DEF DirsOwned, OneOwner, LoopHeld
  <2>6. NoOrphanSession'
    BY <1>a, <1>c, <1>0, <2>2, <2>3 DEF NoOrphanSession, LoopHeld, NotYetSent, OneOwner
  <2>7. LoopHeld'
    BY <1>a, <1>c, <1>0, <2>2, <2>3 DEF LoopHeld
  <2>8. OneOwner'
    BY <1>a, <1>c, <1>0, <2>2, <2>3 DEF OneOwner, LoopHeld, DirsOwned
  <2>9. NotYetSent'
    BY <1>a, <1>c, <1>0, <2>2, <2>3 DEF NotYetSent, LoopHeld
  <2>10. Conversations'
    BY <1>a, <1>c, <1>0, <2>2, <2>3 DEF Conversations, LoopHeld
  <2>11. LeaksKept'
    BY <1>a, <1>c, <1>0, <2>2, <2>3 DEF TypeOK, LeaksKept, LoopHeld, OneOwner
  <2> QED BY <2>4, <2>5, <2>6, <2>7, <2>8, <2>9, <2>10, <2>11 DEF HttpInv
<1>3. ASSUME NEW u \in Uploads, RefuseUpload(u) PROVE HttpInv'
  <2>1. /\ pc[u] = "open" /\ loop = NoOne /\ dirs' = dirs \ {u} /\ loop' = loop
        /\ pc' = [pc EXCEPT ![u] = "answered"] /\ target' = target
        /\ victim' = victim /\ status' = [status EXCEPT ![u] = 400]
        /\ body' = body /\ leaked' = leaked /\ messages' = messages /\ turn' = turn
        /\ blocks' = blocks
    BY <1>3 DEF RefuseUpload, Goto, Send, stored, agent
  <2>2. sessions' = sessions /\ Registered' = Registered
    BY <1>3 DEF RefuseUpload, Registered
  <2>3. /\ pc[u] = "open" /\ loop = NoOne /\ dirs' = dirs \ {u} /\ loop' = loop
        /\ pc'[u] = "answered"
        /\ \A r \in Requests : r # u => pc'[r] = pc[r]
        /\ target' = target /\ victim' = victim /\ status'[u] = 400
        /\ \A r \in Requests : r # u => status'[r] = status[r]
        /\ body' = body /\ leaked' = leaked /\ messages' = messages /\ turn' = turn
        /\ blocks' = blocks
    BY <1>a, <1>0, <2>1 DEF TypeOK
  <2>4. TypeOK'
    BY <1>a, <1>0, <2>1, <2>2 DEF TypeOK, LoopHeld
  <2>5. DirsOwned'
    BY <1>a, <1>c, <1>0, <2>2, <2>3 DEF DirsOwned, OneOwner, LoopHeld
  <2>6. NoOrphanSession'
    BY <1>a, <1>c, <1>0, <2>2, <2>3 DEF NoOrphanSession, LoopHeld, NotYetSent, OneOwner
  <2>7. LoopHeld'
    BY <1>a, <1>c, <1>0, <2>2, <2>3 DEF LoopHeld
  <2>8. OneOwner'
    BY <1>a, <1>c, <1>0, <2>2, <2>3 DEF OneOwner, LoopHeld, DirsOwned
  <2>9. NotYetSent'
    BY <1>a, <1>c, <1>0, <2>2, <2>3 DEF NotYetSent, LoopHeld
  <2>10. Conversations'
    BY <1>a, <1>c, <1>0, <2>2, <2>3 DEF Conversations, LoopHeld
  <2>11. LeaksKept'
    BY <1>a, <1>c, <1>0, <2>2, <2>3 DEF TypeOK, LeaksKept, LoopHeld, OneOwner
  <2> QED BY <2>4, <2>5, <2>6, <2>7, <2>8, <2>9, <2>10, <2>11 DEF HttpInv
<1>4. ASSUME NEW u \in Uploads, Register(u) PROVE HttpInv'
  <2>1. /\ pc[u] = "open" /\ loop = NoOne /\ dirs' = dirs /\ loop' = u
        /\ pc' = [pc EXCEPT ![u] = "check"] /\ target' = target
        /\ victim' = victim /\ status' = status /\ body' = body /\ leaked' = leaked
        /\ messages' = messages /\ turn' = turn /\ blocks' = blocks
    BY <1>4 DEF Register, Goto, stored, agent
  <2>2. sessions' \in Seq(Uploads) /\ Len(sessions') = Len(sessions) + 1 /\ Once(sessions')
        /\ Registered' = Registered \cup {u}
    <3>1. u \notin Registered /\ sessions' = Append(sessions, u)
      BY <1>0, <1>4 DEF Register, OneOwner
    <3>2. Holds(sessions) = Registered /\ Registered' = Holds(sessions')
      BY DEF Holds, Registered
    <3> QED BY <1>0, <3>1, <3>2, AppendHolds DEF TypeOK, OneOwner
  <2>3. /\ pc[u] = "open" /\ loop = NoOne /\ dirs' = dirs /\ loop' = u
        /\ pc'[u] = "check"
        /\ \A r \in Requests : r # u => pc'[r] = pc[r]
        /\ target' = target /\ victim' = victim /\ status' = status
        /\ body' = body /\ leaked' = leaked /\ messages' = messages /\ turn' = turn
        /\ blocks' = blocks
    BY <1>a, <1>0, <2>1 DEF TypeOK
  <2>4. TypeOK'
    BY <1>a, <1>0, <2>1, <2>2 DEF TypeOK, LoopHeld
  <2>5. DirsOwned'
    BY <1>a, <1>c, <1>0, <2>2, <2>3 DEF DirsOwned, OneOwner, LoopHeld
  <2>6. NoOrphanSession'
    BY <1>a, <1>c, <1>0, <2>2, <2>3 DEF NoOrphanSession, LoopHeld, NotYetSent, OneOwner
  <2>7. LoopHeld'
    BY <1>a, <1>c, <1>0, <2>2, <2>3 DEF LoopHeld
  <2>8. OneOwner'
    BY <1>a, <1>c, <1>0, <2>2, <2>3 DEF OneOwner, LoopHeld, DirsOwned
  <2>9. NotYetSent'
    BY <1>a, <1>c, <1>0, <2>2, <2>3 DEF NotYetSent, LoopHeld
  <2>10. Conversations'
    BY <1>a, <1>c, <1>0, <2>2, <2>3 DEF Conversations, LoopHeld
  <2>11. LeaksKept'
    BY <1>a, <1>c, <1>0, <2>2, <2>3 DEF TypeOK, LeaksKept, LoopHeld, OneOwner
  <2> QED BY <2>4, <2>5, <2>6, <2>7, <2>8, <2>9, <2>10, <2>11 DEF HttpInv
<1>5. ASSUME NEW u \in Uploads, CheckSize(u) PROVE HttpInv'
  <2>1. CASE Len(sessions) > SESSION_CACHE_MAX
    <3>1. /\ pc[u] = "check" /\ loop = u /\ dirs' = dirs /\ loop' = loop
          /\ pc' = [pc EXCEPT ![u] = "evict"] /\ target' = target
          /\ victim' = victim /\ status' = status /\ body' = body /\ leaked' = leaked
          /\ messages' = messages /\ turn' = turn /\ blocks' = blocks
      BY <1>5, <2>1 DEF CheckSize, Goto, Send, stored, agent
    <3>2. sessions' = sessions /\ Registered' = Registered
      BY <1>5, <2>1 DEF CheckSize, Registered
    <3>3. /\ pc[u] = "check" /\ loop = u /\ dirs' = dirs /\ loop' = loop
          /\ pc'[u] = "evict"
          /\ \A r \in Requests : r # u => pc'[r] = pc[r]
          /\ target' = target /\ victim' = victim /\ status' = status
          /\ body' = body /\ leaked' = leaked /\ messages' = messages /\ turn' = turn
          /\ blocks' = blocks
      BY <1>a, <1>0, <3>1 DEF TypeOK
    <3>4. TypeOK'
      BY <1>a, <1>0, <3>1, <3>2, <2>1 DEF TypeOK, LoopHeld
    <3>5. DirsOwned'
      BY <1>a, <1>c, <1>0, <3>2, <3>3, <2>1 DEF DirsOwned, OneOwner, LoopHeld
    <3>6. NoOrphanSession'
      BY <1>a, <1>c, <1>0, <3>2, <3>3, <2>1 DEF NoOrphanSession, LoopHeld, NotYetSent, OneOwner
    <3>7. LoopHeld'
      BY <1>a, <1>c, <1>0, <3>2, <3>3, <2>1 DEF LoopHeld
    <3>8. OneOwner'
      BY <1>a, <1>c, <1>0, <3>2, <3>3, <2>1 DEF OneOwner, LoopHeld, DirsOwned
    <3>9. NotYetSent'
      BY <1>a, <1>c, <1>0, <3>2, <3>3, <2>1 DEF NotYetSent, LoopHeld
    <3>10. Conversations'
      BY <1>a, <1>c, <1>0, <3>2, <3>3, <2>1 DEF Conversations, LoopHeld
    <3>11. LeaksKept'
      BY <1>a, <1>c, <1>0, <3>2, <3>3, <2>1 DEF TypeOK, LeaksKept, LoopHeld, OneOwner
    <3> QED BY <3>4, <3>5, <3>6, <3>7, <3>8, <3>9, <3>10, <3>11 DEF HttpInv
  <2>2. CASE ~(Len(sessions) > SESSION_CACHE_MAX)
    <3>1. /\ pc[u] = "check" /\ loop = u /\ dirs' = dirs /\ loop' = NoOne
          /\ pc' = [pc EXCEPT ![u] = "answered"] /\ target' = target
          /\ victim' = victim /\ status' = [status EXCEPT ![u] = 200]
          /\ body' = body /\ leaked' = leaked /\ messages' = messages /\ turn' = turn
          /\ blocks' = blocks
      BY <1>5, <2>2 DEF CheckSize, Goto, Send, stored, agent
    <3>2. sessions' = sessions /\ Registered' = Registered
      BY <1>5, <2>2 DEF CheckSize, Registered
    <3>3. /\ pc[u] = "check" /\ loop = u /\ dirs' = dirs /\ loop' = NoOne
          /\ pc'[u] = "answered"
          /\ \A r \in Requests : r # u => pc'[r] = pc[r]
          /\ target' = target /\ victim' = victim /\ status'[u] = 200
          /\ \A r \in Requests : r # u => status'[r] = status[r]
          /\ body' = body /\ leaked' = leaked /\ messages' = messages /\ turn' = turn
          /\ blocks' = blocks
      BY <1>a, <1>0, <3>1 DEF TypeOK
    <3>4. TypeOK'
      BY <1>a, <1>0, <3>1, <3>2, <2>2 DEF TypeOK, LoopHeld
    <3>5. DirsOwned'
      BY <1>a, <1>c, <1>0, <3>2, <3>3, <2>2 DEF DirsOwned, OneOwner, LoopHeld
    <3>6. NoOrphanSession'
      BY <1>a, <1>c, <1>0, <3>2, <3>3, <2>2 DEF NoOrphanSession, LoopHeld, NotYetSent, OneOwner
    <3>7. LoopHeld'
      BY <1>a, <1>c, <1>0, <3>2, <3>3, <2>2 DEF LoopHeld
    <3>8. OneOwner'
      BY <1>a, <1>c, <1>0, <3>2, <3>3, <2>2 DEF OneOwner, LoopHeld, DirsOwned
    <3>9. NotYetSent'
      BY <1>a, <1>c, <1>0, <3>2, <3>3, <2>2 DEF NotYetSent, LoopHeld
    <3>10. Conversations'
      BY <1>a, <1>c, <1>0, <3>2, <3>3, <2>2 DEF Conversations, LoopHeld
    <3>11. LeaksKept'
      BY <1>a, <1>c, <1>0, <3>2, <3>3, <2>2 DEF TypeOK, LeaksKept, LoopHeld, OneOwner
    <3> QED BY <3>4, <3>5, <3>6, <3>7, <3>8, <3>9, <3>10, <3>11 DEF HttpInv
  <2> QED BY <2>1, <2>2
<1>6. ASSUME NEW u \in Uploads, EvictOldest(u) PROVE HttpInv'
  <2>1. CASE sessions = <<>>
    <3>1. /\ pc[u] = "evict" /\ loop = u /\ dirs' = dirs /\ loop' = NoOne
          /\ pc' = [pc EXCEPT ![u] = "answered"] /\ target' = target
          /\ victim' = victim /\ status' = [status EXCEPT ![u] = 500]
          /\ body' = body /\ leaked' = leaked /\ messages' = messages /\ turn' = turn
          /\ blocks' = blocks
      BY <1>6, <2>1 DEF EvictOldest, Goto, Send, stored, agent
    <3>2. sessions' = sessions /\ Registered' = Registered
      BY <1>6, <2>1 DEF EvictOldest, Registered
    <3>3. /\ pc[u] = "evict" /\ loop = u /\ dirs' = dirs /\ loop' = NoOne
          /\ pc'[u] = "answered"
          /\ \A r \in Requests : r # u => pc'[r] = pc[r]
          /\ target' = target /\ victim' = victim /\ status'[u] = 500
          /\ \A r \in Requests : r # u => status'[r] = status[r]
          /\ body' = body /\ leaked' = leaked /\ messages' = messages /\ turn' = turn
          /\ blocks' = blocks
      BY <1>a, <1>0, <3>1 DEF TypeOK
    <3>4. TypeOK'
      BY <1>a, <1>0, <3>1, <3>2, <2>1 DEF TypeOK, LoopHeld
    <3>5. DirsOwned'
      BY <1>a, <1>c, <1>0, <3>2, <3>3, <2>1 DEF DirsOwned, OneOwner, LoopHeld
    <3>6. NoOrphanSession'
      <4>1. Registered = {}
        BY <2>1 DEF Registered
      <4> QED BY <3>2, <4>1 DEF NoOrphanSession
    <3>7. LoopHeld'
      BY <1>a, <1>c, <1>0, <3>2, <3>3, <2>1 DEF LoopHeld
    <3>8. OneOwner'
      BY <1>a, <1>c, <1>0, <3>2, <3>3, <2>1 DEF OneOwner, LoopHeld, DirsOwned
    <3>9. NotYetSent'
      BY <1>a, <1>c, <1>0, <3>2, <3>3, <2>1 DEF NotYetSent, LoopHeld
    <3>10. Conversations'
      BY <1>a, <1>c, <1>0, <3>2, <3>3, <2>1 DEF Conversations, LoopHeld
    <3>11. LeaksKept'
      BY <1>a, <1>c, <1>0, <3>2, <3>3, <2>1 DEF TypeOK, LeaksKept, LoopHeld, OneOwner
    <3> QED BY <3>4, <3>5, <3>6, <3>7, <3>8, <3>9, <3>10, <3>11 DEF HttpInv
  <2>2. CASE sessions # <<>>
    <3>1. /\ pc[u] = "evict" /\ loop = u /\ dirs' = dirs /\ loop' = loop
          /\ pc' = [pc EXCEPT ![u] = "close"] /\ target' = target
          /\ victim' = [victim EXCEPT ![u] = Head(sessions)] /\ status' = status
          /\ body' = body /\ leaked' = leaked /\ messages' = messages /\ turn' = turn
          /\ blocks' = blocks
      BY <1>6, <2>2 DEF EvictOldest, Goto, Send, stored, agent
    <3>2. /\ sessions' \in Seq(Uploads) /\ Len(sessions') = Len(sessions) - 1 /\ Once(sessions')
         /\ Head(sessions) \in Registered /\ Registered' = Registered \ {Head(sessions)}
         /\ Registered \subseteq Uploads
      <4>1. Holds(sessions) = Registered /\ Registered' = Holds(sessions')
        BY DEF Holds, Registered
      <4>2. sessions' = Tail(sessions) /\ sessions \in Seq(Uploads) /\ Once(sessions)
        BY <1>0, <1>6, <2>2 DEF EvictOldest, TypeOK, OneOwner
      <4>3. Registered \subseteq Uploads
        BY <4>2 DEF Registered
      <4> QED BY <2>2, <4>1, <4>2, <4>3, TailHolds
    <3>3. /\ pc[u] = "evict" /\ loop = u /\ dirs' = dirs /\ loop' = loop
          /\ pc'[u] = "close"
          /\ \A r \in Requests : r # u => pc'[r] = pc[r]
          /\ target' = target /\ victim'[u] = Head(sessions)
          /\ \A r \in Requests : r # u => victim'[r] = victim[r]
          /\ status' = status /\ body' = body /\ leaked' = leaked /\ messages' = messages
          /\ turn' = turn /\ blocks' = blocks
      BY <1>a, <1>0, <3>1 DEF TypeOK
    <3>4. TypeOK'
      BY <1>a, <1>0, <3>1, <3>2, <2>2 DEF TypeOK, LoopHeld
    <3>5. DirsOwned'
      <4>1. ASSUME NEW x \in dirs
            PROVE  \/ x \in Uploads /\ pc'[x] = "open"
                   \/ x \in Registered'
                   \/ \E q \in Requests : victim'[q] = x
                   \/ x \in leaked'
        <5>1. CASE x \in Uploads /\ pc[x] = "open"
          BY <1>a, <3>3, <5>1
        <5>2. CASE x \in Registered
          BY <1>a, <3>2, <3>3, <5>2
        <5>3. CASE \E q \in Requests : victim[q] = x
          <6>1. PICK q \in Requests : victim[q] = x
            BY <5>3
          <6>2. x # NoOne /\ victim[u] = NoOne
            BY <1>a, <1>0, <3>3 DEF TypeOK, OneOwner
          <6> QED BY <3>3, <6>1, <6>2
        <5>4. CASE x \in leaked
          BY <3>3, <5>4
        <5> QED BY <1>0, <5>1, <5>2, <5>3, <5>4 DEF DirsOwned
      <4>2. Registered' \subseteq dirs'
        BY <1>0, <3>2, <3>3 DEF DirsOwned
      <4>3. ASSUME NEW p \in Requests, NEW q \in Requests, victim'[p] # NoOne, victim'[p] = victim'[q]
            PROVE  p = q
        <5>1. \A r \in Requests : r # u => victim'[r] = victim[r] /\ victim[r] # Head(sessions)
          BY <1>0, <3>2, <3>3 DEF OneOwner
        <5>2. victim'[u] = Head(sessions)
          BY <3>3
        <5> QED BY <1>0, <4>3, <5>1, <5>2 DEF DirsOwned
      <4> QED BY <3>3, <4>1, <4>2, <4>3 DEF DirsOwned
    <3>6. NoOrphanSession'
      BY <1>a, <1>c, <1>0, <3>2, <3>3, <2>2 DEF NoOrphanSession, LoopHeld, NotYetSent, OneOwner
    <3>7. LoopHeld'
      BY <1>a, <1>c, <1>0, <3>2, <3>3, <2>2 DEF LoopHeld
    <3>8. OneOwner'
      BY <1>a, <1>c, <1>0, <3>2, <3>3, <2>2 DEF OneOwner, LoopHeld, DirsOwned
    <3>9. NotYetSent'
      BY <1>a, <1>c, <1>0, <3>2, <3>3, <2>2 DEF NotYetSent, LoopHeld
    <3>10. Conversations'
      BY <1>a, <1>c, <1>0, <3>2, <3>3, <2>2 DEF Conversations, LoopHeld
    <3>11. LeaksKept'
      BY <1>a, <1>c, <1>0, <3>2, <3>3, <2>2 DEF TypeOK, LeaksKept, LoopHeld, OneOwner
    <3> QED BY <3>4, <3>5, <3>6, <3>7, <3>8, <3>9, <3>10, <3>11 DEF HttpInv
  <2> QED BY <2>1, <2>2
<1>7. ASSUME NEW u \in Uploads, CloseVictim(u) PROVE HttpInv'
  <2>1. /\ pc[u] = "close" /\ loop = u /\ dirs' = dirs \ {victim[u]}
        /\ loop' = loop /\ pc' = [pc EXCEPT ![u] = "check"] /\ target' = target
        /\ victim' = [victim EXCEPT ![u] = NoOne] /\ status' = status
        /\ body' = body /\ leaked' = leaked /\ messages' = messages /\ turn' = turn
        /\ blocks' = blocks
    BY <1>7 DEF CloseVictim, Goto, stored, agent
  <2>2. sessions' = sessions /\ Registered' = Registered
    BY <1>7 DEF CloseVictim, Registered
  <2>3. /\ pc[u] = "close" /\ loop = u /\ dirs' = dirs \ {victim[u]}
        /\ loop' = loop /\ pc'[u] = "check"
        /\ \A r \in Requests : r # u => pc'[r] = pc[r]
        /\ target' = target /\ victim'[u] = NoOne
        /\ \A r \in Requests : r # u => victim'[r] = victim[r]
        /\ status' = status /\ body' = body /\ leaked' = leaked /\ messages' = messages
        /\ turn' = turn /\ blocks' = blocks
    BY <1>a, <1>0, <2>1 DEF TypeOK
  <2>4. TypeOK'
    BY <1>a, <1>0, <2>1, <2>2 DEF TypeOK, LoopHeld
  <2>5. DirsOwned'
    BY <1>a, <1>c, <1>0, <2>2, <2>3 DEF DirsOwned, OneOwner, LoopHeld
  <2>6. NoOrphanSession'
    BY <1>a, <1>c, <1>0, <2>2, <2>3 DEF NoOrphanSession, LoopHeld, NotYetSent, OneOwner
  <2>7. LoopHeld'
    BY <1>a, <1>c, <1>0, <2>2, <2>3 DEF LoopHeld
  <2>8. OneOwner'
    BY <1>a, <1>c, <1>0, <2>2, <2>3 DEF OneOwner, LoopHeld, DirsOwned
  <2>9. NotYetSent'
    BY <1>a, <1>c, <1>0, <2>2, <2>3 DEF NotYetSent, LoopHeld
  <2>10. Conversations'
    BY <1>a, <1>c, <1>0, <2>2, <2>3 DEF Conversations, LoopHeld
  <2>11. LeaksKept'
    BY <1>a, <1>c, <1>0, <2>2, <2>3 DEF TypeOK, LeaksKept, LoopHeld, OneOwner
  <2> QED BY <2>4, <2>5, <2>6, <2>7, <2>8, <2>9, <2>10, <2>11 DEF HttpInv
<1>8. ASSUME NEW d \in Deletes, CloseDropped(d) PROVE HttpInv'
  <2>1. /\ pc[d] = "close" /\ dirs' = dirs \ {victim[d]} /\ loop' = loop
        /\ pc' = [pc EXCEPT ![d] = "answered"] /\ target' = target
        /\ victim' = [victim EXCEPT ![d] = NoOne]
        /\ status' = [status EXCEPT ![d] = 200] /\ body' = body /\ leaked' = leaked
        /\ messages' = messages /\ turn' = turn /\ blocks' = blocks
    BY <1>8 DEF CloseDropped, Goto, Send, stored, agent
  <2>2. sessions' = sessions /\ Registered' = Registered
    BY <1>8 DEF CloseDropped, Registered
  <2>3. /\ pc[d] = "close" /\ dirs' = dirs \ {victim[d]} /\ loop' = loop
        /\ pc'[d] = "answered"
        /\ \A r \in Requests : r # d => pc'[r] = pc[r]
        /\ target' = target /\ victim'[d] = NoOne
        /\ \A r \in Requests : r # d => victim'[r] = victim[r]
        /\ status'[d] = 200
        /\ \A r \in Requests : r # d => status'[r] = status[r]
        /\ body' = body /\ leaked' = leaked /\ messages' = messages /\ turn' = turn
        /\ blocks' = blocks
    BY <1>a, <1>0, <2>1 DEF TypeOK
  <2>4. TypeOK'
    BY <1>a, <1>0, <2>1, <2>2 DEF TypeOK, LoopHeld
  <2>5. DirsOwned'
    BY <1>a, <1>c, <1>0, <2>2, <2>3 DEF DirsOwned, OneOwner, LoopHeld
  <2>6. NoOrphanSession'
    BY <1>a, <1>c, <1>0, <2>2, <2>3 DEF NoOrphanSession, LoopHeld, NotYetSent, OneOwner
  <2>7. LoopHeld'
    BY <1>a, <1>c, <1>0, <2>2, <2>3 DEF LoopHeld
  <2>8. OneOwner'
    BY <1>a, <1>c, <1>0, <2>2, <2>3 DEF OneOwner, LoopHeld, DirsOwned
  <2>9. NotYetSent'
    BY <1>a, <1>c, <1>0, <2>2, <2>3 DEF NotYetSent, LoopHeld
  <2>10. Conversations'
    BY <1>a, <1>c, <1>0, <2>2, <2>3 DEF Conversations, LoopHeld
  <2>11. LeaksKept'
    BY <1>a, <1>c, <1>0, <2>2, <2>3 DEF TypeOK, LeaksKept, LoopHeld, OneOwner
  <2> QED BY <2>4, <2>5, <2>6, <2>7, <2>8, <2>9, <2>10, <2>11 DEF HttpInv
<1>9. ASSUME NEW d \in Deletes, NEW s \in Uploads \cup {Bogus}, Drop(d, s) PROVE HttpInv'
  <2>1. CASE s \in Registered
    <3>1. /\ pc[d] = "new" /\ dirs' = dirs /\ loop' = loop
          /\ pc' = [pc EXCEPT ![d] = "close"]
          /\ target' = [target EXCEPT ![d] = s]
          /\ victim' = [victim EXCEPT ![d] = s] /\ status' = status
          /\ body' = body /\ leaked' = leaked /\ messages' = messages /\ turn' = turn
          /\ blocks' = blocks
      BY <1>9, <2>1 DEF Drop, Goto, Send, stored, agent
    <3>2. /\ sessions' \in Seq(Uploads) /\ Len(sessions') = Len(sessions) - 1 /\ Once(sessions')
         /\ Registered' = Registered \ {s} /\ Registered \subseteq Uploads
      <4>1. Registered' = Holds(sessions')
        BY DEF Holds, Registered
      <4>2. sessions' = Popped(s) /\ sessions \in Seq(Uploads) /\ Once(sessions)
        BY <1>0, <1>9, <2>1 DEF Drop, TypeOK, OneOwner
      <4>3. Registered \subseteq Uploads
        BY <4>2 DEF Registered
      <4> QED BY <2>1, <4>1, <4>2, <4>3, PoppedHolds
    <3>3. /\ pc[d] = "new" /\ dirs' = dirs /\ loop' = loop /\ pc'[d] = "close"
          /\ \A r \in Requests : r # d => pc'[r] = pc[r]
          /\ target'[d] = s
          /\ \A r \in Requests : r # d => target'[r] = target[r]
          /\ victim'[d] = s
          /\ \A r \in Requests : r # d => victim'[r] = victim[r]
          /\ status' = status /\ body' = body /\ leaked' = leaked /\ messages' = messages
          /\ turn' = turn /\ blocks' = blocks
      BY <1>a, <1>0, <3>1 DEF TypeOK
    <3>4. TypeOK'
      BY <1>a, <1>0, <3>1, <3>2, <2>1 DEF TypeOK, LoopHeld
    <3>5. DirsOwned'
      <4>1. ASSUME NEW x \in dirs
            PROVE  \/ x \in Uploads /\ pc'[x] = "open"
                   \/ x \in Registered'
                   \/ \E q \in Requests : victim'[q] = x
                   \/ x \in leaked'
        <5>1. CASE x \in Uploads /\ pc[x] = "open"
          BY <1>a, <3>3, <5>1
        <5>2. CASE x \in Registered
          BY <1>a, <3>2, <3>3, <5>2
        <5>3. CASE \E q \in Requests : victim[q] = x
          <6>1. PICK q \in Requests : victim[q] = x
            BY <5>3
          <6>2. x # NoOne /\ victim[d] = NoOne
            BY <1>a, <1>0, <3>3 DEF TypeOK, OneOwner
          <6> QED BY <3>3, <6>1, <6>2
        <5>4. CASE x \in leaked
          BY <3>3, <5>4
        <5> QED BY <1>0, <5>1, <5>2, <5>3, <5>4 DEF DirsOwned
      <4>2. Registered' \subseteq dirs'
        BY <1>0, <3>2, <3>3 DEF DirsOwned
      <4>3. ASSUME NEW p \in Requests, NEW q \in Requests, victim'[p] # NoOne, victim'[p] = victim'[q]
            PROVE  p = q
        <5>1. \A r \in Requests : r # d => victim'[r] = victim[r] /\ victim[r] # s
          BY <1>0, <3>2, <3>3, <2>1 DEF OneOwner
        <5>2. victim'[d] = s
          BY <3>3
        <5> QED BY <1>0, <4>3, <5>1, <5>2 DEF DirsOwned
      <4> QED BY <3>3, <4>1, <4>2, <4>3 DEF DirsOwned
    <3>6. NoOrphanSession'
      BY <1>a, <1>c, <1>0, <3>2, <3>3, <2>1 DEF NoOrphanSession, LoopHeld, NotYetSent, OneOwner
    <3>7. LoopHeld'
      BY <1>a, <1>c, <1>0, <3>2, <3>3, <2>1 DEF LoopHeld
    <3>8. OneOwner'
      BY <1>a, <1>c, <1>0, <3>2, <3>3, <2>1 DEF OneOwner, LoopHeld, DirsOwned
    <3>9. NotYetSent'
      BY <1>a, <1>c, <1>0, <3>2, <3>3, <2>1 DEF NotYetSent, LoopHeld
    <3>10. Conversations'
      BY <1>a, <1>c, <1>0, <3>2, <3>3, <2>1 DEF Conversations, LoopHeld
    <3>11. LeaksKept'
      BY <1>a, <1>c, <1>0, <3>2, <3>3, <2>1 DEF TypeOK, LeaksKept, LoopHeld, OneOwner
    <3> QED BY <3>4, <3>5, <3>6, <3>7, <3>8, <3>9, <3>10, <3>11 DEF HttpInv
  <2>2. CASE s \notin Registered
    <3>1. /\ pc[d] = "new" /\ dirs' = dirs /\ loop' = loop
          /\ pc' = [pc EXCEPT ![d] = "answered"]
          /\ target' = [target EXCEPT ![d] = s] /\ victim' = victim
          /\ status' = [status EXCEPT ![d] = 404] /\ body' = body /\ leaked' = leaked
          /\ messages' = messages /\ turn' = turn /\ blocks' = blocks
      BY <1>9, <2>2 DEF Drop, Goto, Send, stored, agent
    <3>2. sessions' = sessions /\ Registered' = Registered
      BY <1>9, <2>2 DEF Drop, Registered
    <3>3. /\ pc[d] = "new" /\ dirs' = dirs /\ loop' = loop /\ pc'[d] = "answered"
          /\ \A r \in Requests : r # d => pc'[r] = pc[r]
          /\ target'[d] = s
          /\ \A r \in Requests : r # d => target'[r] = target[r]
          /\ victim' = victim /\ status'[d] = 404
          /\ \A r \in Requests : r # d => status'[r] = status[r]
          /\ body' = body /\ leaked' = leaked /\ messages' = messages /\ turn' = turn
          /\ blocks' = blocks
      BY <1>a, <1>0, <3>1 DEF TypeOK
    <3>4. TypeOK'
      BY <1>a, <1>0, <3>1, <3>2, <2>2 DEF TypeOK, LoopHeld
    <3>5. DirsOwned'
      BY <1>a, <1>c, <1>0, <3>2, <3>3, <2>2 DEF DirsOwned, OneOwner, LoopHeld
    <3>6. NoOrphanSession'
      BY <1>a, <1>c, <1>0, <3>2, <3>3, <2>2 DEF NoOrphanSession, LoopHeld, NotYetSent, OneOwner
    <3>7. LoopHeld'
      BY <1>a, <1>c, <1>0, <3>2, <3>3, <2>2 DEF LoopHeld
    <3>8. OneOwner'
      BY <1>a, <1>c, <1>0, <3>2, <3>3, <2>2 DEF OneOwner, LoopHeld, DirsOwned
    <3>9. NotYetSent'
      BY <1>a, <1>c, <1>0, <3>2, <3>3, <2>2 DEF NotYetSent, LoopHeld
    <3>10. Conversations'
      BY <1>a, <1>c, <1>0, <3>2, <3>3, <2>2 DEF Conversations, LoopHeld
    <3>11. LeaksKept'
      BY <1>a, <1>c, <1>0, <3>2, <3>3, <2>2 DEF TypeOK, LeaksKept, LoopHeld, OneOwner
    <3> QED BY <3>4, <3>5, <3>6, <3>7, <3>8, <3>9, <3>10, <3>11 DEF HttpInv
  <2> QED BY <2>1, <2>2
<1>10. ASSUME NEW a \in Analyses, NEW s \in Uploads \cup {Bogus}, GetSession(a, s) PROVE HttpInv'
  <2>1. CASE s \in Registered
    <3>1. /\ pc[a] = "new" /\ loop = NoOne /\ dirs' = dirs /\ loop' = a
          /\ pc' = [pc EXCEPT ![a] = "touch"]
          /\ target' = [target EXCEPT ![a] = s] /\ victim' = victim
          /\ status' = status /\ body' = body /\ leaked' = leaked /\ messages' = messages
          /\ turn' = turn /\ blocks' = blocks
      BY <1>10, <2>1 DEF GetSession, Goto, Send, stored, agent
    <3>2. sessions' = sessions /\ Registered' = Registered
      BY <1>10, <2>1 DEF GetSession, Registered
    <3>3. /\ pc[a] = "new" /\ loop = NoOne /\ dirs' = dirs /\ loop' = a
          /\ pc'[a] = "touch"
          /\ \A r \in Requests : r # a => pc'[r] = pc[r]
          /\ target'[a] = s
          /\ \A r \in Requests : r # a => target'[r] = target[r]
          /\ victim' = victim /\ status' = status /\ body' = body /\ leaked' = leaked
          /\ messages' = messages /\ turn' = turn /\ blocks' = blocks
      BY <1>a, <1>0, <3>1 DEF TypeOK
    <3>4. TypeOK'
      BY <1>a, <1>0, <3>1, <3>2, <2>1 DEF TypeOK, LoopHeld
    <3>5. DirsOwned'
      BY <1>a, <1>c, <1>0, <3>2, <3>3, <2>1 DEF DirsOwned, OneOwner, LoopHeld
    <3>6. NoOrphanSession'
      BY <1>a, <1>c, <1>0, <3>2, <3>3, <2>1 DEF NoOrphanSession, LoopHeld, NotYetSent, OneOwner
    <3>7. LoopHeld'
      BY <1>a, <1>c, <1>0, <3>2, <3>3, <2>1 DEF LoopHeld
    <3>8. OneOwner'
      BY <1>a, <1>c, <1>0, <3>2, <3>3, <2>1 DEF OneOwner, LoopHeld, DirsOwned
    <3>9. NotYetSent'
      BY <1>a, <1>c, <1>0, <3>2, <3>3, <2>1 DEF NotYetSent, LoopHeld
    <3>10. Conversations'
      BY <1>a, <1>c, <1>0, <3>2, <3>3, <2>1 DEF Conversations, LoopHeld
    <3>11. LeaksKept'
      BY <1>a, <1>c, <1>0, <3>2, <3>3, <2>1 DEF TypeOK, LeaksKept, LoopHeld, OneOwner
    <3> QED BY <3>4, <3>5, <3>6, <3>7, <3>8, <3>9, <3>10, <3>11 DEF HttpInv
  <2>2. CASE s \notin Registered
    <3>1. /\ pc[a] = "new" /\ loop = NoOne /\ dirs' = dirs /\ loop' = loop
          /\ pc' = [pc EXCEPT ![a] = "answered"]
          /\ target' = [target EXCEPT ![a] = s] /\ victim' = victim
          /\ status' = [status EXCEPT ![a] = 404] /\ body' = body /\ leaked' = leaked
          /\ messages' = messages /\ turn' = turn /\ blocks' = blocks
      BY <1>10, <2>2 DEF GetSession, Goto, Send, stored, agent
    <3>2. sessions' = sessions /\ Registered' = Registered
      BY <1>10, <2>2 DEF GetSession, Registered
    <3>3. /\ pc[a] = "new" /\ loop = NoOne /\ dirs' = dirs /\ loop' = loop
          /\ pc'[a] = "answered"
          /\ \A r \in Requests : r # a => pc'[r] = pc[r]
          /\ target'[a] = s
          /\ \A r \in Requests : r # a => target'[r] = target[r]
          /\ victim' = victim /\ status'[a] = 404
          /\ \A r \in Requests : r # a => status'[r] = status[r]
          /\ body' = body /\ leaked' = leaked /\ messages' = messages /\ turn' = turn
          /\ blocks' = blocks
      BY <1>a, <1>0, <3>1 DEF TypeOK
    <3>4. TypeOK'
      BY <1>a, <1>0, <3>1, <3>2, <2>2 DEF TypeOK, LoopHeld
    <3>5. DirsOwned'
      BY <1>a, <1>c, <1>0, <3>2, <3>3, <2>2 DEF DirsOwned, OneOwner, LoopHeld
    <3>6. NoOrphanSession'
      BY <1>a, <1>c, <1>0, <3>2, <3>3, <2>2 DEF NoOrphanSession, LoopHeld, NotYetSent, OneOwner
    <3>7. LoopHeld'
      BY <1>a, <1>c, <1>0, <3>2, <3>3, <2>2 DEF LoopHeld
    <3>8. OneOwner'
      BY <1>a, <1>c, <1>0, <3>2, <3>3, <2>2 DEF OneOwner, LoopHeld, DirsOwned
    <3>9. NotYetSent'
      BY <1>a, <1>c, <1>0, <3>2, <3>3, <2>2 DEF NotYetSent, LoopHeld
    <3>10. Conversations'
      BY <1>a, <1>c, <1>0, <3>2, <3>3, <2>2 DEF Conversations, LoopHeld
    <3>11. LeaksKept'
      BY <1>a, <1>c, <1>0, <3>2, <3>3, <2>2 DEF TypeOK, LeaksKept, LoopHeld, OneOwner
    <3> QED BY <3>4, <3>5, <3>6, <3>7, <3>8, <3>9, <3>10, <3>11 DEF HttpInv
  <2> QED BY <2>1, <2>2
<1>11. ASSUME NEW a \in Analyses, TouchSession(a) PROVE HttpInv'
  <2>1. CASE target[a] \in Registered
    <3>1. /\ pc[a] = "touch" /\ loop = a /\ dirs' = dirs /\ loop' = NoOne
          /\ pc' = [pc EXCEPT ![a] = IF MAX_TURNS > 0 THEN "create" ELSE "answered"]
          /\ target' = target /\ victim' = victim
          /\ status' = [status EXCEPT ![a] = 200] /\ body' = body /\ leaked' = leaked
          /\ messages' = [messages EXCEPT ![a] = <<[role |-> "user", blocks |-> 0]>>]
          /\ turn' = turn /\ blocks' = blocks
      BY <1>11, <2>1 DEF TouchSession, Goto, Send, stored, agent
    <3>2. /\ sessions' \in Seq(Uploads) /\ Len(sessions') = Len(sessions) /\ Once(sessions')
         /\ Registered' = Registered
      <4> DEFINE p == Popped(target[a])
      <4>1. Registered' = Holds(sessions')
        BY DEF Holds, Registered
      <4>2. /\ sessions' = Append(p, target[a]) /\ sessions \in Seq(Uploads) /\ Once(sessions)
            /\ Len(sessions) \in Nat
        BY <1>0, <1>11, <2>1 DEF TouchSession, TypeOK, OneOwner
      <4>3. Registered \subseteq Uploads
        BY <4>2 DEF Registered
      <4>4. /\ p \in Seq(Uploads) /\ Once(p) /\ Len(p) = Len(sessions) - 1
            /\ Holds(p) = Registered \ {target[a]}
        BY <2>1, <4>2, PoppedHolds
      <4> HIDE DEF p
      <4>5. /\ Append(p, target[a]) \in Seq(Uploads) /\ Once(Append(p, target[a]))
            /\ Len(Append(p, target[a])) = Len(p) + 1
            /\ Holds(Append(p, target[a])) = Holds(p) \cup {target[a]}
        BY <2>1, <4>3, <4>4, AppendHolds
      <4> QED BY <2>1, <4>1, <4>2, <4>4, <4>5
    <3>3. /\ pc[a] = "touch" /\ loop = a /\ dirs' = dirs /\ loop' = NoOne
          /\ pc'[a] = IF MAX_TURNS > 0 THEN "create" ELSE "answered"
          /\ \A r \in Requests : r # a => pc'[r] = pc[r]
          /\ target' = target /\ victim' = victim /\ status'[a] = 200
          /\ \A r \in Requests : r # a => status'[r] = status[r]
          /\ body' = body /\ leaked' = leaked /\ messages'[a] = <<[role |-> "user", blocks |-> 0]>>
          /\ \A r \in Analyses : r # a => messages'[r] = messages[r]
          /\ turn' = turn /\ blocks' = blocks
      BY <1>a, <1>0, <3>1 DEF TypeOK
    <3>4. TypeOK'
      <4>1. <<[role |-> "user", blocks |-> 0]>> \in Seq(Message)
        BY <1>a, <1>0 DEF TypeOK, Message
      <4>2. messages' \in [Analyses -> Seq(Message)]
        BY <1>0, <3>1, <4>1 DEF TypeOK
      <4> HIDE DEF Message
      <4> QED BY <1>a, <1>0, <3>1, <3>2, <4>2, <2>1 DEF TypeOK, LoopHeld, Conversations
    <3>5. DirsOwned'
      BY <1>a, <1>c, <1>0, <3>2, <3>3, <2>1 DEF DirsOwned, OneOwner, LoopHeld
    <3>6. NoOrphanSession'
      BY <1>a, <1>c, <1>0, <3>2, <3>3, <2>1 DEF NoOrphanSession, LoopHeld, NotYetSent, OneOwner
    <3>7. LoopHeld'
      BY <1>a, <1>c, <1>0, <3>2, <3>3, <2>1 DEF LoopHeld
    <3>8. OneOwner'
      BY <1>a, <1>c, <1>0, <3>2, <3>3, <2>1 DEF OneOwner, LoopHeld, DirsOwned
    <3>9. NotYetSent'
      BY <1>a, <1>c, <1>0, <3>2, <3>3, <2>1 DEF NotYetSent, LoopHeld
    <3>10. Conversations'
      <4>1. MatchedTo(messages'[a], Len(messages'[a])) /\ messages'[a] # <<>>
        BY <3>3 DEF MatchedTo
      <4>2. turn[a] = 0
        BY <1>0, <3>3 DEF Conversations
      <4>3. ASSUME NEW b \in Analyses, b # a PROVE pc'[b] = pc[b] /\ messages'[b] = messages[b]
        BY <1>a, <3>3, <4>3
      <4>4. /\ pc'[a] \in {"create", "answered"} /\ turn' = turn
            /\ pc'[a] = "create" => turn'[a] < MAX_TURNS
        BY <1>a, <3>3, <4>2
      <4> QED BY <1>0, <4>1, <4>3, <4>4 DEF Conversations
    <3>11. LeaksKept'
      BY <1>a, <1>c, <1>0, <3>2, <3>3, <2>1 DEF TypeOK, LeaksKept, LoopHeld, OneOwner
    <3> QED BY <3>4, <3>5, <3>6, <3>7, <3>8, <3>9, <3>10, <3>11 DEF HttpInv
  <2>2. CASE target[a] \notin Registered
    <3>1. /\ pc[a] = "touch" /\ loop = a /\ dirs' = dirs /\ loop' = NoOne
          /\ pc' = [pc EXCEPT ![a] = "answered"] /\ target' = target
          /\ victim' = victim /\ status' = [status EXCEPT ![a] = 500]
          /\ body' = body /\ leaked' = leaked /\ messages' = messages /\ turn' = turn
          /\ blocks' = blocks
      BY <1>11, <2>2 DEF TouchSession, Goto, Send, stored, agent
    <3>2. sessions' = sessions /\ Registered' = Registered
      BY <1>11, <2>2 DEF TouchSession, Registered
    <3>3. /\ pc[a] = "touch" /\ loop = a /\ dirs' = dirs /\ loop' = NoOne
          /\ pc'[a] = "answered"
          /\ \A r \in Requests : r # a => pc'[r] = pc[r]
          /\ target' = target /\ victim' = victim /\ status'[a] = 500
          /\ \A r \in Requests : r # a => status'[r] = status[r]
          /\ body' = body /\ leaked' = leaked /\ messages' = messages /\ turn' = turn
          /\ blocks' = blocks
      BY <1>a, <1>0, <3>1 DEF TypeOK
    <3>4. TypeOK'
      BY <1>a, <1>0, <3>1, <3>2, <2>2 DEF TypeOK, LoopHeld
    <3>5. DirsOwned'
      BY <1>a, <1>c, <1>0, <3>2, <3>3, <2>2 DEF DirsOwned, OneOwner, LoopHeld
    <3>6. NoOrphanSession'
      BY <1>a, <1>c, <1>0, <3>2, <3>3, <2>2 DEF NoOrphanSession, LoopHeld, NotYetSent, OneOwner
    <3>7. LoopHeld'
      BY <1>a, <1>c, <1>0, <3>2, <3>3, <2>2 DEF LoopHeld
    <3>8. OneOwner'
      BY <1>a, <1>c, <1>0, <3>2, <3>3, <2>2 DEF OneOwner, LoopHeld, DirsOwned
    <3>9. NotYetSent'
      BY <1>a, <1>c, <1>0, <3>2, <3>3, <2>2 DEF NotYetSent, LoopHeld
    <3>10. Conversations'
      BY <1>a, <1>c, <1>0, <3>2, <3>3, <2>2 DEF Conversations, LoopHeld
    <3>11. LeaksKept'
      BY <1>a, <1>c, <1>0, <3>2, <3>3, <2>2 DEF TypeOK, LeaksKept, LoopHeld, OneOwner
    <3> QED BY <3>4, <3>5, <3>6, <3>7, <3>8, <3>9, <3>10, <3>11 DEF HttpInv
  <2> QED BY <2>1, <2>2
<1>12. ASSUME NEW a \in Analyses, CreateFails(a) PROVE HttpInv'
  <2>1. /\ pc[a] = "create" /\ loop = NoOne /\ dirs' = dirs /\ loop' = loop
        /\ pc' = [pc EXCEPT ![a] = "answered"] /\ target' = target
        /\ victim' = victim /\ status' = status /\ body' = body /\ leaked' = leaked
        /\ messages' = messages /\ turn' = turn /\ blocks' = blocks
    BY <1>12 DEF CreateFails, Goto, stored, agent
  <2>2. sessions' = sessions /\ Registered' = Registered
    BY <1>12 DEF CreateFails, Registered
  <2>3. /\ pc[a] = "create" /\ loop = NoOne /\ dirs' = dirs /\ loop' = loop
        /\ pc'[a] = "answered"
        /\ \A r \in Requests : r # a => pc'[r] = pc[r]
        /\ target' = target /\ victim' = victim /\ status' = status
        /\ body' = body /\ leaked' = leaked /\ messages' = messages /\ turn' = turn
        /\ blocks' = blocks
    BY <1>a, <1>0, <2>1 DEF TypeOK
  <2>4. TypeOK'
    BY <1>a, <1>0, <2>1, <2>2 DEF TypeOK, LoopHeld
  <2>5. DirsOwned'
    BY <1>a, <1>c, <1>0, <2>2, <2>3 DEF DirsOwned, OneOwner, LoopHeld
  <2>6. NoOrphanSession'
    BY <1>a, <1>c, <1>0, <2>2, <2>3 DEF NoOrphanSession, LoopHeld, NotYetSent, OneOwner
  <2>7. LoopHeld'
    BY <1>a, <1>c, <1>0, <2>2, <2>3 DEF LoopHeld
  <2>8. OneOwner'
    BY <1>a, <1>c, <1>0, <2>2, <2>3 DEF OneOwner, LoopHeld, DirsOwned
  <2>9. NotYetSent'
    BY <1>a, <1>c, <1>0, <2>2, <2>3 DEF NotYetSent, LoopHeld
  <2>10. Conversations'
    BY <1>a, <1>c, <1>0, <2>2, <2>3 DEF Conversations, LoopHeld
  <2>11. LeaksKept'
    BY <1>a, <1>c, <1>0, <2>2, <2>3 DEF TypeOK, LeaksKept, LoopHeld, OneOwner
  <2> QED BY <2>4, <2>5, <2>6, <2>7, <2>8, <2>9, <2>10, <2>11 DEF HttpInv
<1>13. ASSUME NEW a \in Analyses, NEW n \in 0..MaxBlocks, CreateEnds(a, n) PROVE HttpInv'
  <2>1. /\ pc[a] = "create" /\ loop = NoOne /\ dirs' = dirs /\ loop' = loop
        /\ pc' = [pc EXCEPT ![a] = "answered"] /\ target' = target
        /\ victim' = victim /\ status' = status /\ body' = body /\ leaked' = leaked
        /\ messages' = [messages EXCEPT ![a] = Append(messages[a], [role |-> "assistant", blocks |-> n])]
        /\ turn' = turn /\ blocks' = blocks
    BY <1>13 DEF CreateEnds, Goto, Said, stored, agent
  <2>2. sessions' = sessions /\ Registered' = Registered
    BY <1>13 DEF CreateEnds, Registered
  <2>3. /\ pc[a] = "create" /\ loop = NoOne /\ dirs' = dirs /\ loop' = loop
        /\ pc'[a] = "answered"
        /\ \A r \in Requests : r # a => pc'[r] = pc[r]
        /\ target' = target /\ victim' = victim /\ status' = status
        /\ body' = body /\ leaked' = leaked
        /\ messages'[a] = Append(messages[a], [role |-> "assistant", blocks |-> n])
        /\ \A r \in Analyses : r # a => messages'[r] = messages[r]
        /\ turn' = turn /\ blocks' = blocks
    BY <1>a, <1>0, <2>1 DEF TypeOK
  <2>4. TypeOK'
    <3>1. messages[a] \in Seq(Message) /\ [role |-> "assistant", blocks |-> n] \in Message
      BY <1>a, <1>0, <1>13 DEF TypeOK, Message
    <3> HIDE DEF Message
    <3>2. Append(messages[a], [role |-> "assistant", blocks |-> n]) \in Seq(Message)
      BY <3>1
    <3>3. messages' \in [Analyses -> Seq(Message)]
      BY <1>0, <2>1, <3>2 DEF TypeOK
    <3> QED BY <1>a, <1>0, <2>1, <2>2, <3>3 DEF TypeOK, LoopHeld
  <2>5. DirsOwned'
    BY <1>a, <1>c, <1>0, <2>2, <2>3 DEF DirsOwned, OneOwner, LoopHeld
  <2>6. NoOrphanSession'
    BY <1>a, <1>c, <1>0, <2>2, <2>3 DEF NoOrphanSession, LoopHeld, NotYetSent, OneOwner
  <2>7. LoopHeld'
    BY <1>a, <1>c, <1>0, <2>2, <2>3 DEF LoopHeld
  <2>8. OneOwner'
    BY <1>a, <1>c, <1>0, <2>2, <2>3 DEF OneOwner, LoopHeld, DirsOwned
  <2>9. NotYetSent'
    BY <1>a, <1>c, <1>0, <2>2, <2>3 DEF NotYetSent, LoopHeld
  <2>10. Conversations'
    BY <1>a, <1>c, <1>0, <2>2, <2>3 DEF Conversations, LoopHeld
  <2>11. LeaksKept'
    BY <1>a, <1>c, <1>0, <2>2, <2>3 DEF TypeOK, LeaksKept, LoopHeld, OneOwner
  <2> QED BY <2>4, <2>5, <2>6, <2>7, <2>8, <2>9, <2>10, <2>11 DEF HttpInv
<1>14. ASSUME NEW a \in Analyses, NEW n \in 0..MaxBlocks, CreateAsks(a, n) PROVE HttpInv'
  <2>1. /\ pc[a] = "create" /\ loop = NoOne /\ dirs' = dirs /\ loop' = loop
        /\ pc' = [pc EXCEPT ![a] = "tools"] /\ target' = target
        /\ victim' = victim /\ status' = status /\ body' = body /\ leaked' = leaked
        /\ messages' = [messages EXCEPT ![a] = Append(messages[a], [role |-> "assistant", blocks |-> n])]
        /\ turn' = turn /\ blocks' = [blocks EXCEPT ![a] = n]
    BY <1>14 DEF CreateAsks, Goto, Said, stored, agent
  <2>2. sessions' = sessions /\ Registered' = Registered
    BY <1>14 DEF CreateAsks, Registered
  <2>3. /\ pc[a] = "create" /\ loop = NoOne /\ dirs' = dirs /\ loop' = loop
        /\ pc'[a] = "tools"
        /\ \A r \in Requests : r # a => pc'[r] = pc[r]
        /\ target' = target /\ victim' = victim /\ status' = status
        /\ body' = body /\ leaked' = leaked
        /\ messages'[a] = Append(messages[a], [role |-> "assistant", blocks |-> n])
        /\ \A r \in Analyses : r # a => messages'[r] = messages[r]
        /\ turn' = turn /\ blocks'[a] = n
        /\ \A r \in Analyses : r # a => blocks'[r] = blocks[r]
    BY <1>a, <1>0, <2>1 DEF TypeOK
  <2>4. TypeOK'
    <3>1. messages[a] \in Seq(Message) /\ [role |-> "assistant", blocks |-> n] \in Message
      BY <1>a, <1>0, <1>14 DEF TypeOK, Message
    <3> HIDE DEF Message
    <3>2. Append(messages[a], [role |-> "assistant", blocks |-> n]) \in Seq(Message)
      BY <3>1
    <3>3. messages' \in [Analyses -> Seq(Message)]
      BY <1>0, <2>1, <3>2 DEF TypeOK
    <3> QED BY <1>a, <1>0, <2>1, <2>2, <3>3 DEF TypeOK, LoopHeld
  <2>5. DirsOwned'
    BY <1>a, <1>c, <1>0, <2>2, <2>3 DEF DirsOwned, OneOwner, LoopHeld
  <2>6. NoOrphanSession'
    BY <1>a, <1>c, <1>0, <2>2, <2>3 DEF NoOrphanSession, LoopHeld, NotYetSent, OneOwner
  <2>7. LoopHeld'
    BY <1>a, <1>c, <1>0, <2>2, <2>3 DEF LoopHeld
  <2>8. OneOwner'
    BY <1>a, <1>c, <1>0, <2>2, <2>3 DEF OneOwner, LoopHeld, DirsOwned
  <2>9. NotYetSent'
    BY <1>a, <1>c, <1>0, <2>2, <2>3 DEF NotYetSent, LoopHeld
  <2>10. Conversations'
    <3> DEFINE m == messages[a]
               x == [role |-> "assistant", blocks |-> n]
    <3>1. m \in Seq(Message) /\ x \in Message /\ MatchedTo(m, Len(m)) /\ turn[a] < MAX_TURNS
      BY <1>0, <1>14, <2>3 DEF TypeOK, Message, Conversations
    <3>2. x.role = "assistant"
      OBVIOUS
    <3> HIDE DEF m, x
    <3>3. /\ Append(m, x) # <<>> /\ MatchedTo(Append(m, x), Len(Append(m, x)) - 1)
          /\ Append(m, x)[Len(Append(m, x))] = x
      BY <3>1, ReplyMatched
    <3>4. messages'[a] = Append(m, x)
      BY <2>3 DEF m, x
    <3>5. ASSUME NEW b \in Analyses, b # a PROVE pc'[b] = pc[b] /\ messages'[b] = messages[b]
      BY <1>a, <2>3, <3>5
    <3> QED BY <1>a, <1>0, <2>3, <3>1, <3>2, <3>3, <3>4, <3>5 DEF Conversations
  <2>11. LeaksKept'
    BY <1>a, <1>c, <1>0, <2>2, <2>3 DEF TypeOK, LeaksKept, LoopHeld, OneOwner
  <2> QED BY <2>4, <2>5, <2>6, <2>7, <2>8, <2>9, <2>10, <2>11 DEF HttpInv
<1>15. ASSUME NEW a \in Analyses, ExecuteTool(a) PROVE HttpInv'
  <2>1. /\ pc[a] = "tools" /\ loop = NoOne /\ blocks[a] > 0 /\ dirs' = dirs
        /\ loop' = loop /\ pc' = pc /\ target' = target /\ victim' = victim
        /\ status' = status /\ body' = body /\ leaked' = leaked /\ messages' = messages
        /\ turn' = turn /\ blocks' = [blocks EXCEPT ![a] = blocks[a] - 1]
    BY <1>15 DEF ExecuteTool, stored, agent
  <2>2. sessions' = sessions /\ Registered' = Registered
    BY <1>15 DEF ExecuteTool, Registered
  <2>3. /\ pc[a] = "tools" /\ loop = NoOne /\ blocks[a] > 0 /\ dirs' = dirs
        /\ loop' = loop /\ pc' = pc /\ target' = target /\ victim' = victim
        /\ status' = status /\ body' = body /\ leaked' = leaked /\ messages' = messages
        /\ turn' = turn /\ blocks'[a] = blocks[a] - 1
        /\ \A r \in Analyses : r # a => blocks'[r] = blocks[r]
    BY <1>a, <1>0, <2>1 DEF TypeOK
  <2>4. TypeOK'
    BY <1>a, <1>0, <2>1, <2>2 DEF TypeOK, LoopHeld
  <2>5. DirsOwned'
    BY <1>a, <1>c, <1>0, <2>2, <2>3 DEF DirsOwned, OneOwner, LoopHeld
  <2>6. NoOrphanSession'
    BY <1>a, <1>c, <1>0, <2>2, <2>3 DEF NoOrphanSession, LoopHeld, NotYetSent, OneOwner
  <2>7. LoopHeld'
    BY <1>a, <1>c, <1>0, <2>2, <2>3 DEF LoopHeld
  <2>8. OneOwner'
    BY <1>a, <1>c, <1>0, <2>2, <2>3 DEF OneOwner, LoopHeld, DirsOwned
  <2>9. NotYetSent'
    BY <1>a, <1>c, <1>0, <2>2, <2>3 DEF NotYetSent, LoopHeld
  <2>10. Conversations'
    BY <1>a, <1>c, <1>0, <2>2, <2>3 DEF Conversations, LoopHeld
  <2>11. LeaksKept'
    BY <1>a, <1>c, <1>0, <2>2, <2>3 DEF TypeOK, LeaksKept, LoopHeld, OneOwner
  <2> QED BY <2>4, <2>5, <2>6, <2>7, <2>8, <2>9, <2>10, <2>11 DEF HttpInv
<1>16. ASSUME NEW a \in Analyses, EndTurn(a) PROVE HttpInv'
  <2>1. /\ pc[a] = "tools" /\ loop = NoOne /\ blocks[a] = 0 /\ dirs' = dirs
        /\ loop' = loop
        /\ pc' = [pc EXCEPT ![a] = IF turn[a] + 1 < MAX_TURNS THEN "create" ELSE "answered"]
        /\ target' = target /\ victim' = victim /\ status' = status
        /\ body' = body /\ leaked' = leaked
        /\ messages' = [messages EXCEPT ![a] = Append(messages[a], [role |-> "results", blocks |-> messages[a][Len(messages[a])].blocks])]
        /\ turn' = [turn EXCEPT ![a] = turn[a] + 1] /\ blocks' = blocks
    BY <1>16 DEF EndTurn, Goto, Said, stored, agent
  <2>2. sessions' = sessions /\ Registered' = Registered
    BY <1>16 DEF EndTurn, Registered
  <2>3. /\ pc[a] = "tools" /\ loop = NoOne /\ blocks[a] = 0 /\ dirs' = dirs
        /\ loop' = loop
        /\ pc'[a] = IF turn[a] + 1 < MAX_TURNS THEN "create" ELSE "answered"
        /\ \A r \in Requests : r # a => pc'[r] = pc[r]
        /\ target' = target /\ victim' = victim /\ status' = status
        /\ body' = body /\ leaked' = leaked
        /\ messages'[a] = Append(messages[a], [role |-> "results", blocks |-> messages[a][Len(messages[a])].blocks])
        /\ \A r \in Analyses : r # a => messages'[r] = messages[r]
        /\ turn'[a] = turn[a] + 1
        /\ \A r \in Analyses : r # a => turn'[r] = turn[r]
        /\ blocks' = blocks
    BY <1>a, <1>0, <2>1 DEF TypeOK
  <2>4. TypeOK'
    <3> DEFINE m == messages[a]
    <3>0. m \in Seq(Message) /\ m # <<>> /\ turn[a] < MAX_TURNS /\ turn[a] \in 0..MAX_TURNS
      BY <1>a, <1>0, <2>1 DEF TypeOK, Conversations
    <3>1. m[Len(m)] \in Message
      BY <3>0
    <3>2. [role |-> "results", blocks |-> m[Len(m)].blocks] \in Message
      BY <3>1 DEF Message
    <3>3. Append(m, [role |-> "results", blocks |-> m[Len(m)].blocks]) \in Seq(Message)
      BY <3>0, <3>2
    <3>4. messages' \in [Analyses -> Seq(Message)]
      BY <1>0, <2>1, <3>3 DEF TypeOK
    <3>5. turn[a] + 1 \in 0..MAX_TURNS
      BY <1>a, <3>0
    <3>6. turn' \in [Analyses -> 0..MAX_TURNS]
      BY <1>0, <2>1, <3>5 DEF TypeOK
    <3> HIDE DEF m
    <3> QED BY <1>a, <1>0, <2>1, <2>2, <3>4, <3>6 DEF TypeOK, LoopHeld
  <2>5. DirsOwned'
    BY <1>a, <1>c, <1>0, <2>2, <2>3 DEF DirsOwned, OneOwner, LoopHeld
  <2>6. NoOrphanSession'
    BY <1>a, <1>c, <1>0, <2>2, <2>3 DEF NoOrphanSession, LoopHeld, NotYetSent, OneOwner
  <2>7. LoopHeld'
    BY <1>a, <1>c, <1>0, <2>2, <2>3 DEF LoopHeld
  <2>8. OneOwner'
    BY <1>a, <1>c, <1>0, <2>2, <2>3 DEF OneOwner, LoopHeld, DirsOwned
  <2>9. NotYetSent'
    BY <1>a, <1>c, <1>0, <2>2, <2>3 DEF NotYetSent, LoopHeld
  <2>10. Conversations'
    <3> DEFINE m == messages[a]
               x == [role |-> "results", blocks |-> m[Len(m)].blocks]
    <3>1. m \in Seq(Message) /\ m # <<>> /\ MatchedTo(m, Len(m) - 1)
      BY <1>0, <2>3 DEF TypeOK, Conversations
    <3>2. Append(m, x) # <<>> /\ MatchedTo(Append(m, x), Len(Append(m, x)))
      BY <3>1, ResultsMatched
    <3>3. messages'[a] = Append(m, x)
      BY <2>3
    <3> HIDE DEF m, x
    <3>4. ASSUME NEW b \in Analyses, b # a
          PROVE  pc'[b] = pc[b] /\ messages'[b] = messages[b] /\ turn'[b] = turn[b]
      BY <1>a, <2>3, <3>4
    <3>5. pc'[a] \in {"create", "answered"} /\ (pc'[a] = "create" => turn'[a] < MAX_TURNS)
      BY <2>3
    <3> QED BY <1>a, <1>0, <3>2, <3>3, <3>4, <3>5 DEF Conversations
  <2>11. LeaksKept'
    BY <1>a, <1>c, <1>0, <2>2, <2>3 DEF TypeOK, LeaksKept, LoopHeld, OneOwner
  <2> QED BY <2>4, <2>5, <2>6, <2>7, <2>8, <2>9, <2>10, <2>11 DEF HttpInv
<1>17. ASSUME Shutdown PROVE HttpInv'
  <2>1. /\ \A r \in Requests : pc[r] \in {"new", "answered"}
        /\ dirs' = dirs \ Registered /\ loop' = loop
        /\ pc' = [r \in Requests |-> "answered"] /\ target' = target
        /\ victim' = victim /\ status' = status /\ body' = body /\ leaked' = leaked
        /\ messages' = messages /\ turn' = turn /\ blocks' = blocks
    BY <1>17 DEF Shutdown, stored, agent
  <2>2. sessions' = <<>> /\ Registered' = {} /\ Once(sessions') /\ Len(sessions') = 0 /\ sessions' \in Seq(Uploads)
        /\ Len(sessions) \in Nat
    BY <1>0, <1>17 DEF Shutdown, Registered, Once, TypeOK
  <2>3. /\ \A r \in Requests : pc[r] \in {"new", "answered"}
        /\ dirs' = dirs \ Registered /\ loop' = loop
        /\ \A r \in Requests : pc'[r] = "answered"
        /\ target' = target /\ victim' = victim /\ status' = status
        /\ body' = body /\ leaked' = leaked /\ messages' = messages /\ turn' = turn
        /\ blocks' = blocks
    BY <1>a, <1>0, <2>1 DEF TypeOK
  <2>4. TypeOK'
    BY <1>a, <1>0, <2>1, <2>2 DEF TypeOK, LoopHeld
  <2>5. DirsOwned'
    BY <1>a, <1>c, <1>0, <2>2, <2>3 DEF DirsOwned, OneOwner, LoopHeld
  <2>6. NoOrphanSession'
    BY <1>a, <1>c, <1>0, <2>2, <2>3 DEF NoOrphanSession, LoopHeld, NotYetSent, OneOwner
  <2>7. LoopHeld'
    BY <1>a, <1>c, <1>0, <2>2, <2>3 DEF LoopHeld
  <2>8. OneOwner'
    BY <1>a, <1>c, <1>0, <2>2, <2>3 DEF OneOwner, LoopHeld, DirsOwned
  <2>9. NotYetSent'
    BY <1>a, <1>c, <1>0, <2>2, <2>3 DEF NotYetSent, LoopHeld
  <2>10. Conversations'
    BY <1>a, <1>c, <1>0, <2>2, <2>3 DEF Conversations, LoopHeld
  <2>11. LeaksKept'
    BY <1>a, <1>c, <1>0, <2>2, <2>3 DEF TypeOK, LeaksKept, LoopHeld, OneOwner
  <2> QED BY <2>4, <2>5, <2>6, <2>7, <2>8, <2>9, <2>10, <2>11 DEF HttpInv
<1>18. ASSUME NEW u \in Uploads, SizeFails(u) PROVE HttpInv'
  <2>1. /\ pc[u] = "open" /\ loop = NoOne /\ dirs' = dirs /\ loop' = loop
        /\ pc' = [pc EXCEPT ![u] = "answered"] /\ target' = target
        /\ victim' = victim /\ status' = [status EXCEPT ![u] = 500]
        /\ body' = body /\ leaked' = leaked \cup {u} /\ messages' = messages /\ turn' = turn
        /\ blocks' = blocks
    BY <1>18 DEF SizeFails, Goto, Send, stored, agent
  <2>2. sessions' = sessions /\ Registered' = Registered
    BY <1>18 DEF SizeFails, Registered
  <2>3. /\ pc[u] = "open" /\ loop = NoOne /\ dirs' = dirs /\ loop' = loop
        /\ pc'[u] = "answered"
        /\ \A r \in Requests : r # u => pc'[r] = pc[r]
        /\ target' = target /\ victim' = victim /\ status'[u] = 500
        /\ \A r \in Requests : r # u => status'[r] = status[r]
        /\ body' = body /\ leaked' = leaked \cup {u} /\ messages' = messages /\ turn' = turn
        /\ blocks' = blocks
    BY <1>a, <1>0, <2>1 DEF TypeOK
  <2>4. TypeOK'
    BY <1>a, <1>0, <2>1, <2>2 DEF TypeOK, LoopHeld
  <2>5. DirsOwned'
    BY <1>a, <1>c, <1>0, <2>2, <2>3 DEF DirsOwned, OneOwner, LoopHeld
  <2>6. NoOrphanSession'
    BY <1>a, <1>c, <1>0, <2>2, <2>3 DEF NoOrphanSession, LoopHeld, NotYetSent, OneOwner
  <2>7. LoopHeld'
    BY <1>a, <1>c, <1>0, <2>2, <2>3 DEF LoopHeld
  <2>8. OneOwner'
    BY <1>a, <1>c, <1>0, <2>2, <2>3 DEF OneOwner, LoopHeld, DirsOwned
  <2>9. NotYetSent'
    BY <1>a, <1>c, <1>0, <2>2, <2>3 DEF NotYetSent, LoopHeld
  <2>10. Conversations'
    BY <1>a, <1>c, <1>0, <2>2, <2>3 DEF Conversations, LoopHeld
  <2>11. LeaksKept'
    BY <1>a, <1>c, <1>0, <2>2, <2>3 DEF TypeOK, LeaksKept, LoopHeld, OneOwner
  <2> QED BY <2>4, <2>5, <2>6, <2>7, <2>8, <2>9, <2>10, <2>11 DEF HttpInv
<1>19. CASE UNCHANGED vars
  <2>1. TypeOK'
    BY <1>0, <1>19 DEF vars, stored, agent, TypeOK
  <2>2. DirsOwned'
    BY <1>0, <1>19 DEF vars, stored, agent, DirsOwned, Registered
  <2>3. NoOrphanSession'
    BY <1>0, <1>19 DEF vars, stored, agent, NoOrphanSession, Registered
  <2>4. LoopHeld'
    BY <1>0, <1>19 DEF vars, stored, agent, LoopHeld
  <2>5. OneOwner'
    BY <1>0, <1>19 DEF vars, stored, agent, OneOwner, Registered
  <2>6. NotYetSent'
    BY <1>0, <1>19 DEF vars, stored, agent, NotYetSent
  <2>7. Conversations'
    BY <1>0, <1>19 DEF vars, stored, agent, Conversations
  <2>8. LeaksKept'
    BY <1>0, <1>19 DEF vars, stored, LeaksKept, Registered
  <2> QED BY <2>1, <2>2, <2>3, <2>4, <2>5, <2>6, <2>7, <2>8 DEF HttpInv
<1> QED BY <1>1, <1>2, <1>3, <1>4, <1>5, <1>6, <1>7, <1>8, <1>9, <1>10, <1>11, <1>12, <1>13, <1>14, <1>15, <1>16, <1>17, <1>18, <1>19 DEF Next, UploadStep, AgentStep
-----------------------------------------------------------------------------
\* No request has arrived: nothing is registered and no directory exists.
LEMMA InitHttp == Init => HttpInv
<1> SUFFICES ASSUME Init PROVE HttpInv
  OBVIOUS
<1>1. Registered = {} /\ Once(sessions) /\ sessions \in Seq(Uploads) /\ Len(sessions) = 0
  BY DEF Init, Registered, Once
<1>2. /\ Uploads \subseteq Requests /\ Deletes \subseteq Requests /\ Analyses \subseteq Requests
      /\ NoOne \notin Requests
      /\ SESSION_CACHE_MAX \in Nat /\ MAX_TURNS \in Nat /\ MaxBlocks \in Nat
  BY HttpAssumption DEF Requests
<1>3. TypeOK
  BY <1>1, <1>2 DEF Init, TypeOK
<1>4. DirsOwned /\ NoOrphanSession
  BY <1>1, <1>2 DEF Init, DirsOwned, NoOrphanSession
<1>5. LoopHeld
  BY <1>2 DEF Init, LoopHeld
<1>6. OneOwner /\ NotYetSent
  BY <1>1, <1>2 DEF Init, OneOwner, NotYetSent
<1>7. Conversations /\ LeaksKept
  BY <1>2 DEF Init, Conversations, LeaksKept
<1> QED BY <1>3, <1>4, <1>5, <1>6, <1>7 DEF HttpInv

\* The inductive invariant: the loop, the sessions and the directories have
\* one owner each, and every conversation has the results its replies ask for.
THEOREM HttpInvariant == Spec => []HttpInv
BY InitHttp, NextHttp, PTL DEF Spec

\* In every behaviour the LRU keeps its bound, no scratch directory is orphaned
\* or closed twice, every session is a client's or about to be, and the model is
\* never called with a reply whose results are missing (server.py).
THEOREM SessionsAreOwned == Spec => []SessionsOwned
<1>1. HttpInv => SessionsOwned
  <2> SUFFICES ASSUME HttpInv PROVE SessionsOwned
    OBVIOUS
  <2>1. TypeOK /\ DirsOwned /\ LeftBehind /\ NoOrphanSession /\ Conversations
    BY DEF HttpInv, LeaksKept, LeftBehind
  <2>2. ResultsMatchCalls
    BY <2>1 DEF Conversations, ResultsMatchCalls, MatchedTo
  <2> QED BY <2>1, <2>2 DEF SessionsOwned
<1> QED BY <1>1, HttpInvariant, PTL
=============================================================================
