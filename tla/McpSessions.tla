---------------------------- MODULE McpSessions ----------------------------
(* The sessions of the MCP server (src/dexllm/mcp_server.py): an LRU of open *)
(* DexKit handles by path, and the note that a handle was opened leniently.  *)
(*                                                                           *)
(* Every tool call runs dispatch_tool in a worker thread (asyncio.to_thread) *)
(* and no lock protects _dk_cache and _dk_lenient_note: each step below is   *)
(* one dictionary operation, or one native call, between two of which the    *)
(* interpreter may run another call.                                         *)
EXTENDS SessionOpen, Sequences, FiniteSets

CONSTANTS Threads,      \* worker threads that run a call
          Paths,        \* resolved paths clients ask about
          NoPath,       \* a call without apk_path
          Contents,     \* what a path may hold, a set of containers
          DK_CACHE_MAX,
          MaxCalls,     \* bound: calls in one behaviour
          MaxWrites     \* bound: changes of a file on disk

ASSUME McpAssumption ==
    /\ NoPath \notin Paths
    /\ Contents \subseteq Container
    /\ DK_CACHE_MAX \in Nat \ {0}
    /\ {MaxCalls, MaxWrites} \subseteq Nat
    /\ IsFiniteSet(Threads)

VARIABLES
    client,             \* "waits" for each answer, or "pipelines" its calls
    disk,               \* the container at each path
    dk_cache,           \* _dk_cache: handles, least recently used first
    lenient_note,       \* _dk_lenient_note: the paths that have a note
    pc,                 \* where each call is
    path,               \* its apk_path
    strict,             \* dexes its strict attempt has loaded
    dk,                 \* the handle it will use, or has opened
    evicted,            \* the path it has just evicted
    answer,             \* what it has returned
    calls, writes,      \* bounds only
    last_use,           \* history: the call that last asked for a path
    changed,            \* history: paths whose file has changed
    shared_by           \* history: paths that two calls have worked on at once

shared == <<dk_cache, lenient_note>>
local == <<path, strict, dk, evicted, answer>>
history == <<last_use, changed, shared_by>>
vars == <<client, disk, shared, pc, local, calls, writes, history>>

Handle(p, mode) == [path |-> p, mode |-> mode]
NoHandle == Handle(NoPath, "none")
Waiting == [kind |-> "none", noted |-> FALSE]

At(p) == {i \in 1..Len(dk_cache) : dk_cache[i].path = p}
Cached(p) == At(p) # {}
\* The queue of handles without the one at position i.
Erased(i) == SubSeq(dk_cache, 1, i - 1) \o SubSeq(dk_cache, i + 1, Len(dk_cache))

Goto(t, where) == pc' = [pc EXCEPT ![t] = where]
\* The call returns a tool's result or an error.
Answer(t, kind, noted) ==
    /\ answer' = [answer EXCEPT ![t] = [kind |-> kind, noted |-> noted]]
    /\ Goto(t, "done")

-----------------------------------------------------------------------------
Init ==
    /\ client \in {"waits", "pipelines"}
    /\ disk \in [Paths -> Contents]
    /\ dk_cache = <<>> /\ lenient_note = {}
    /\ pc = [t \in Threads |-> "done"]
    /\ path = [t \in Threads |-> NoPath]
    /\ strict = [t \in Threads |-> 0]
    /\ dk = [t \in Threads |-> NoHandle]
    /\ evicted = [t \in Threads |-> NoPath]
    /\ answer = [t \in Threads |-> Waiting]
    /\ calls = 0 /\ writes = 0
    /\ last_use = [p \in Paths |-> 0]
    /\ changed = {} /\ shared_by = {}

\* A file is overwritten, at any time: nothing ties it to the calls.
Write(p, c) ==
    /\ writes < MaxWrites /\ writes' = writes + 1
    /\ c # disk[p] /\ disk' = [disk EXCEPT ![p] = c]
    /\ changed' = changed \cup {p}
    /\ UNCHANGED <<client, shared, pc, local, calls, last_use, shared_by>>

\* The calls at work on path p, in whose name it was called for or evicted.
WorkOn(p) ==
    {t \in Threads : \/ pc[t] # "done" /\ path[t] = p
                     \/ pc[t] = "forget" /\ evicted[t] = p}

\* _call_tool hands dispatch_tool to a thread. A client that waits for its answers
\* has one call in progress, whichever thread runs it.
Call(t, p) ==
    /\ pc[t] = "done"
    /\ client = "waits" => \A u \in Threads : pc[u] = "done"
    /\ calls < MaxCalls /\ calls' = calls + 1
    /\ path' = [path EXCEPT ![t] = p]
    /\ strict' = [strict EXCEPT ![t] = 0]
    /\ dk' = [dk EXCEPT ![t] = NoHandle]
    /\ answer' = [answer EXCEPT ![t] = Waiting]
    /\ Goto(t, "lookup")
    /\ shared_by' = shared_by \cup {q \in Paths : q = p /\ WorkOn(q) # {}}
    /\ UNCHANGED <<client, disk, shared, evicted, writes, last_use, changed>>

Refuse(t) ==
    /\ pc[t] = "lookup" /\ path[t] = NoPath
    /\ Answer(t, "no_path", FALSE)
    /\ UNCHANGED <<client, disk, shared, path, strict, dk, evicted, calls, writes, history>>

\* if p in _dk_cache.
Lookup(t) ==
    /\ pc[t] = "lookup" /\ path[t] # NoPath
    /\ Goto(t, IF Cached(path[t]) THEN "touch" ELSE "open_strict")
    /\ last_use' = [last_use EXCEPT ![path[t]] = calls]
    /\ UNCHANGED <<client, disk, shared, local, calls, writes, changed, shared_by>>

\* Mutant: a hit does not count as a use.
TouchNothing(t) ==
    /\ pc[t] = "touch"
    /\ Goto(t, "fetch")
    /\ UNCHANGED <<client, disk, shared, local, calls, writes, history>>
\* _dk_cache.move_to_end(p), a KeyError if p has gone.
Touch(t) ==
    /\ pc[t] = "touch"
    /\ IF Cached(path[t])
       THEN /\ \E i \in At(path[t]) : dk_cache' = Append(Erased(i), dk_cache[i])
            /\ Goto(t, "fetch")
            /\ UNCHANGED answer
       ELSE Answer(t, "key_error", FALSE) /\ UNCHANGED dk_cache
    /\ UNCHANGED <<client, disk, lenient_note, path, strict, dk, evicted, calls, writes, history>>

\* return _dk_cache[p].
Fetch(t) ==
    /\ pc[t] = "fetch"
    /\ IF Cached(path[t])
       THEN /\ \E i \in At(path[t]) : dk' = [dk EXCEPT ![t] = dk_cache[i]]
            /\ Goto(t, "execute")
            /\ UNCHANGED answer
       ELSE Answer(t, "key_error", FALSE) /\ UNCHANGED dk
    /\ UNCHANGED <<client, disk, shared, path, strict, evicted, calls, writes, history>>

-----------------------------------------------------------------------------
(* open_strict_then_lenient: two reads of the file. *)

OpenStrict(t) ==
    LET c == disk[path[t]]
    IN  /\ pc[t] = "open_strict"
        /\ strict' = [strict EXCEPT ![t] = c.strict]
        /\ dk' = [dk EXCEPT ![t] =
                     IF c.strict > 0 THEN Handle(path[t], "strict") ELSE NoHandle]
        /\ Goto(t, IF StrictSuffices(c) THEN "insert" ELSE "open_lenient")
        /\ UNCHANGED <<client, disk, shared, path, evicted, answer, calls, writes, history>>

OpenLenient(t) ==
    LET c == disk[path[t]]
    IN  /\ pc[t] = "open_lenient"
        /\ \/ /\ TakeLenient(strict[t], c)
              /\ dk' = [dk EXCEPT ![t] = Handle(path[t], "lenient")]
              /\ Goto(t, "insert") /\ UNCHANGED answer
           \/ /\ ~TakeLenient(strict[t], c) /\ strict[t] > 0
              /\ Goto(t, "insert") /\ UNCHANGED <<dk, answer>>
           \/ /\ ~TakeLenient(strict[t], c) /\ strict[t] = 0
              /\ Answer(t, "unopenable", FALSE) /\ UNCHANGED dk
        /\ UNCHANGED <<client, disk, shared, path, strict, evicted, calls, writes, history>>

-----------------------------------------------------------------------------
\* _dk_cache[p] = dk: a path that is there again keeps its place.
Insert(t) ==
    /\ pc[t] = "insert"
    /\ dk_cache' = IF Cached(path[t])
                   THEN [i \in 1..Len(dk_cache) |->
                            IF i \in At(path[t]) THEN dk[t] ELSE dk_cache[i]]
                   ELSE Append(dk_cache, dk[t])
    /\ Goto(t, "record")
    /\ UNCHANGED <<client, disk, lenient_note, local, calls, writes, history>>

\* Mutant: a refused dex is noted although the strict handle is kept.
RecordRefusal(t) ==
    /\ pc[t] = "record"
    /\ lenient_note' = IF strict[t] < disk[path[t]].total THEN lenient_note \cup {path[t]}
                                                          ELSE lenient_note \ {path[t]}
    /\ Goto(t, "check")
    /\ UNCHANGED <<client, disk, dk_cache, local, calls, writes, history>>
\* Mutant: the note is not taken.
RecordNothing(t) ==
    /\ pc[t] = "record"
    /\ lenient_note' = lenient_note \ {path[t]}
    /\ Goto(t, "check")
    /\ UNCHANGED <<client, disk, dk_cache, local, calls, writes, history>>
Record(t) ==
    /\ pc[t] = "record"
    /\ lenient_note' = IF dk[t].mode = "lenient" THEN lenient_note \cup {path[t]}
                                                 ELSE lenient_note \ {path[t]}
    /\ Goto(t, "check")
    /\ UNCHANGED <<client, disk, dk_cache, local, calls, writes, history>>

\* Mutant: the cache is let grow one over its size.
CheckOneMore(t) ==
    /\ pc[t] = "check"
    /\ Goto(t, IF Len(dk_cache) > DK_CACHE_MAX + 1 THEN "evict" ELSE "execute")
    /\ UNCHANGED <<client, disk, shared, local, calls, writes, history>>
\* while len(_dk_cache) > _DK_CACHE_MAX.
Check(t) ==
    /\ pc[t] = "check"
    /\ Goto(t, IF Len(dk_cache) > DK_CACHE_MAX THEN "evict" ELSE "execute")
    /\ UNCHANGED <<client, disk, shared, local, calls, writes, history>>

\* _dk_cache.popitem(last=False), a KeyError if others have emptied the cache.
Evict(t) ==
    /\ pc[t] = "evict"
    /\ IF dk_cache # <<>>
       THEN /\ evicted' = [evicted EXCEPT ![t] = Head(dk_cache).path]
            /\ dk_cache' = Tail(dk_cache)
            /\ shared_by' = shared_by \cup {q \in Paths : q = Head(dk_cache).path /\ WorkOn(q) # {}}
            /\ Goto(t, "forget")
            /\ UNCHANGED answer
       ELSE Answer(t, "key_error", FALSE) /\ UNCHANGED <<evicted, dk_cache, shared_by>>
    /\ UNCHANGED <<client, disk, lenient_note, path, strict, dk, calls, writes, last_use, changed>>

\* _dk_lenient_note.pop(evicted, None).
Forget(t) ==
    /\ pc[t] = "forget"
    /\ lenient_note' = lenient_note \ {evicted[t]}
    /\ Goto(t, "check")
    /\ UNCHANGED <<client, disk, dk_cache, local, calls, writes, history>>

-----------------------------------------------------------------------------
\* dxtools.execute on the handle.
Execute(t) ==
    /\ pc[t] = "execute"
    /\ Goto(t, "annotate")
    /\ UNCHANGED <<client, disk, shared, local, calls, writes, history>>

\* The note is looked up again, by path, and put on the answer.
Annotate(t) ==
    /\ pc[t] = "annotate"
    /\ Answer(t, "result", path[t] \in lenient_note)
    /\ UNCHANGED <<client, disk, shared, path, strict, dk, evicted, calls, writes, history>>

Step(t) ==
    \/ Refuse(t) \/ Lookup(t) \/ Touch(t) \/ Fetch(t) \/ OpenStrict(t) \/ OpenLenient(t)
    \/ Insert(t) \/ Record(t) \/ Check(t) \/ Evict(t) \/ Forget(t)
    \/ Execute(t) \/ Annotate(t)

Next ==
    \/ \E t \in Threads : \/ \E p \in Paths \cup {NoPath} : Call(t, p)
                          \/ Step(t)
    \/ \E p \in Paths, c \in Contents : Write(p, c)

Spec == Init /\ [][Next]_vars

-----------------------------------------------------------------------------
Handles == [path : Paths, mode : {"strict", "lenient"}]

Typed ==
    /\ client \in {"waits", "pipelines"}
    /\ disk \in [Paths -> Contents]
    /\ dk_cache \in Seq(Handles)
    /\ lenient_note \subseteq Paths
    /\ pc \in [Threads -> {"done", "lookup", "touch", "fetch", "open_strict", "open_lenient",
                           "insert", "record", "check", "evict", "forget", "execute",
                           "annotate"}]
    /\ path \in [Threads -> Paths \cup {NoPath}]
    /\ strict \in [Threads -> 0..2]
    /\ dk \in [Threads -> {NoHandle} \cup Handles]
    /\ evicted \in [Threads -> Paths \cup {NoPath}]
    /\ answer \in [Threads -> [kind : {"none", "no_path", "unopenable", "key_error", "result"},
                               noted : BOOLEAN]]
    /\ calls \in Nat /\ writes \in Nat
    /\ last_use \in [Paths -> Nat]
    /\ changed \subseteq Paths /\ shared_by \subseteq Paths

\* A path has one handle.
OnePerPath ==
    \A i, j \in 1..Len(dk_cache) : dk_cache[i].path = dk_cache[j].path => i = j

\* The cache exceeds _DK_CACHE_MAX by no more than the calls that have inserted
\* a handle and are not yet through with the size.
Trimming == {t \in Threads : pc[t] \in {"record", "check", "evict", "forget"}}
CacheBounded == Len(dk_cache) <= DK_CACHE_MAX + Cardinality(Trimming)

\* Type invariant, with the size of the cache.
TypeOK == Typed /\ OnePerPath /\ CacheBounded

\* A strict session is announced as lenient only to a client that pipelines its
\* calls, and only on a path whose file has changed: line 143 reads the note of the
\* session that is in the cache by then.
NoteIsTrue ==
    \A t \in Threads : answer[t].kind = "result" /\ answer[t].noted =>
        dk[t].mode = "lenient" \/ (client = "pipelines" /\ path[t] \in changed)

\* On a path that no two calls have worked on at once (neither opened nor evicted
\* while another uses it) the note is exact, whatever the calls on other paths do
\* and whether its file changes or not.
SeparateAnswers ==
    \A t \in Threads : answer[t].kind = "result" /\ path[t] \notin shared_by =>
        (answer[t].noted <=> dk[t].mode = "lenient")

\* mcp_server.py: "a session opened leniently says so on EVERY answer".
NoteOnEveryAnswer ==
    \A t \in Threads : answer[t].kind = "result" /\ dk[t].mode = "lenient" => answer[t].noted

\* dispatch_tool: "or an {"error": ...} dict on a missing/unopenable APK", and
\* on nothing else.
ErrorOnlyWhenUnopenable == \A t \in Threads : answer[t].kind # "key_error"

\* A step that evicts takes what was asked for least recently.
LeastRecentLeaves ==
    \A i \in 1..Len(dk_cache) :
        (\A j \in 1..Len(dk_cache') : dk_cache'[j].path # dk_cache[i].path) =>
            \A j \in 1..Len(dk_cache') :
                last_use[dk_cache[i].path] < last_use[dk_cache'[j].path]

\* A client that waits reads the note of a lenient session on every answer of
\* it, also after evictions, reopenings and a change of the file, and is told of
\* an error only about an APK that cannot be opened: no KeyError of the cache
\* reaches it.
SerialAnswers == client = "waits" => NoteOnEveryAnswer /\ ErrorOnlyWhenUnopenable

\* What every client can rely on (the cache is trimmed by those who filled it, a
\* strict session is announced as lenient only where a file has changed, and the
\* note is exact on a path whose calls do not overlap) and what one that waits for
\* its answers can.  To one that pipelines, "EVERY answer" is not kept: a handle is
\* in the cache before its note is (lines 71 and 73), and line 78 may pop the note
\* of a session opened again after line 77.
AnswersSound == TypeOK /\ NoteIsTrue /\ SeparateAnswers /\ SerialAnswers

\* With a client that waits, what leaves the cache is what it asked for least
\* recently.
SerialLru == [][client = "waits" => LeastRecentLeaves]_vars
=============================================================================
