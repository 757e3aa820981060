---------------------------- MODULE HttpSessions ---------------------------
(* The HTTP backend (src/dexllm/server.py): uploads that become sessions, an *)
(* LRU of sessions that own a scratch directory each, and the agent loop     *)
(* that answers a prompt about a session.                                    *)
(*                                                                           *)
(* Coroutine handlers (upload, analyze) run on the event loop and give it up *)
(* only at an await; "loop" is held while one of them is between two steps   *)
(* without an await. DELETE is a plain function and runs in a worker thread, *)
(* beside whatever the loop is doing.                                        *)
EXTENDS SessionOpen, Sequences, FiniteSets

CONSTANTS Uploads,      \* upload requests; an upload is the id of its session
          Deletes, Analyses,
          Bogus,        \* an id no upload has
          NoOne,
          Contents,     \* what may be uploaded
          SESSION_CACHE_MAX, MAX_TURNS,
          MaxBlocks     \* bound: tool_use blocks in one reply of the model

Requests == Uploads \cup Deletes \cup Analyses

ASSUME HttpAssumption ==
    /\ {NoOne, Bogus} \cap Requests = {} /\ NoOne # Bogus
    /\ Uploads \cap (Deletes \cup Analyses) = {} /\ Deletes \cap Analyses = {}
    /\ Contents \subseteq Container
    /\ {SESSION_CACHE_MAX, MAX_TURNS, MaxBlocks} \subseteq Nat

VARIABLES
    sessions,           \* _sessions, least recently used first
    dirs,               \* scratch directories that exist, by their upload
    loop,               \* the coroutine that holds the event loop
    pc,                 \* where each request is
    target,             \* the session a request is about
    victim,             \* the session it has popped and will close
    status,             \* its HTTP status, 0 until it is sent
    body,               \* what was uploaded
    leaked,             \* uploads that failed after their try and left their directory
    messages,           \* the conversation of an analysis
    turn, blocks        \* its turn, and the tool_use blocks still to run

agent == <<messages, turn, blocks>>
stored == <<body, leaked>>
vars == <<sessions, dirs, loop, pc, target, victim, status, stored, agent>>

Registered == {sessions[i] : i \in 1..Len(sessions)}
\* The session ids that clients have been given.
Known == {u \in Uploads : status[u] = 200}

Goto(r, where) == pc' = [pc EXCEPT ![r] = where]
Send(r, code) == status' = [status EXCEPT ![r] = code]
\* _sessions.pop(sid): the one entry of a session that is registered.
Popped(s) ==
    LET at == CHOOSE i \in 1..Len(sessions) : sessions[i] = s
    IN  SubSeq(sessions, 1, at - 1) \o SubSeq(sessions, at + 1, Len(sessions))

-----------------------------------------------------------------------------
Init ==
    /\ sessions = <<>> /\ dirs = {} /\ loop = NoOne
    /\ pc = [r \in Requests |-> "new"]
    /\ target = [r \in Requests |-> NoOne]
    /\ victim = [r \in Requests |-> NoOne]
    /\ status = [r \in Requests |-> 0]
    /\ body \in [Uploads -> Contents] /\ leaked = {}
    /\ messages = [r \in Analyses |-> <<>>]
    /\ turn = [r \in Analyses |-> 0]
    /\ blocks = [r \in Analyses |-> 0]

(* POST /upload. *)

\* Mutant: the session is registered as soon as its body is stored.
StoreRegistering(u) ==
    /\ pc[u] = "new" /\ loop = NoOne
    /\ dirs' = dirs \cup {u}
    /\ sessions' = Append(sessions, u)
    /\ Goto(u, "open")
    /\ UNCHANGED <<loop, target, victim, status, stored, agent>>
\* mkdtemp and the copy of the body.
Store(u) ==
    /\ pc[u] = "new" /\ loop = NoOne
    /\ dirs' = dirs \cup {u}
    /\ Goto(u, "open")
    /\ UNCHANGED <<sessions, loop, target, victim, status, stored, agent>>

\* Either of them fails: the directory is removed again.
StoreFails(u) ==
    /\ pc[u] = "new" /\ loop = NoOne
    /\ Send(u, 500)
    /\ Goto(u, "answered")
    /\ UNCHANGED <<sessions, dirs, loop, target, victim, stored, agent>>

Loads(c) == StrictSuffices(c) \/ TakeLenient(c.strict, c) \/ c.strict > 0

\* open_strict_then_lenient, in a thread, raised.
RefuseUpload(u) ==
    /\ pc[u] = "open" /\ loop = NoOne
    /\ ~Loads(body[u])
    /\ dirs' = dirs \ {u}
    /\ Send(u, 400)
    /\ Goto(u, "answered")
    /\ UNCHANGED <<sessions, loop, target, victim, stored, agent>>

\* Mutant: the session is registered before the response is read together.
FailRegistered(u) ==
    /\ pc[u] = "open" /\ loop = NoOne
    /\ Loads(body[u])
    /\ sessions' = Append(sessions, u)
    /\ Send(u, 500)
    /\ Goto(u, "answered")
    /\ UNCHANGED <<dirs, loop, target, victim, stored, agent>>
\* It returned, and os.path.getsize of the stored copy raises: no handler is
\* left around it, so the answer is a plain 500 and nobody removes the directory.
SizeFails(u) ==
    /\ pc[u] = "open" /\ loop = NoOne
    /\ Loads(body[u])
    /\ leaked' = leaked \cup {u}
    /\ Send(u, 500)
    /\ Goto(u, "answered")
    /\ UNCHANGED <<sessions, dirs, loop, target, victim, body, agent>>

\* It returned: the loop is taken until the answer, and the session registered.
Register(u) ==
    /\ pc[u] = "open" /\ loop = NoOne
    /\ Loads(body[u])
    /\ loop' = u
    /\ sessions' = Append(sessions, u)
    /\ Goto(u, "check")
    /\ UNCHANGED <<dirs, target, victim, status, stored, agent>>

\* Mutant: one session too many.
CheckOneMore(u) ==
    /\ pc[u] = "check" /\ loop = u
    /\ IF Len(sessions) > SESSION_CACHE_MAX + 1
       THEN Goto(u, "evict") /\ UNCHANGED <<loop, status>>
       ELSE Goto(u, "answered") /\ Send(u, 200) /\ loop' = NoOne
    /\ UNCHANGED <<sessions, dirs, target, victim, stored, agent>>
\* while len(_sessions) > SESSION_CACHE_MAX; the answer when it is not.
CheckSize(u) ==
    /\ pc[u] = "check" /\ loop = u
    /\ IF Len(sessions) > SESSION_CACHE_MAX
       THEN Goto(u, "evict") /\ UNCHANGED <<loop, status>>
       ELSE Goto(u, "answered") /\ Send(u, 200) /\ loop' = NoOne
    /\ UNCHANGED <<sessions, dirs, target, victim, stored, agent>>

\* Mutant: the oldest session is closed and stays registered.
EvictPeek(u) ==
    /\ pc[u] = "evict" /\ loop = u
    /\ victim' = [victim EXCEPT ![u] = Head(sessions)]
    /\ Goto(u, "close")
    /\ UNCHANGED <<sessions, dirs, loop, target, status, stored, agent>>
\* _sessions.popitem(last=False); a DELETE may have been here since the test.
EvictOldest(u) ==
    /\ pc[u] = "evict" /\ loop = u
    /\ IF sessions = <<>>
       THEN /\ Send(u, 500) /\ Goto(u, "answered") /\ loop' = NoOne
            /\ UNCHANGED <<sessions, victim>>
       ELSE /\ victim' = [victim EXCEPT ![u] = Head(sessions)]
            /\ sessions' = Tail(sessions)
            /\ Goto(u, "close")
            /\ UNCHANGED <<loop, status>>
    /\ UNCHANGED <<dirs, target, stored, agent>>

\* victim.close().
CloseVictim(u) ==
    /\ pc[u] = "close" /\ loop = u
    /\ dirs' = dirs \ {victim[u]}
    /\ victim' = [victim EXCEPT ![u] = NoOne]
    /\ Goto(u, "check")
    /\ UNCHANGED <<sessions, loop, target, status, stored, agent>>

-----------------------------------------------------------------------------
(* DELETE /session/{sid}, in a worker thread. *)

\* Mutant: the session is looked up and stays registered.
DropWithoutPop(d, s) ==
    /\ pc[d] = "new" /\ s \in Known \cup {Bogus}
    /\ target' = [target EXCEPT ![d] = s]
    /\ IF s \in Registered
       THEN /\ victim' = [victim EXCEPT ![d] = s]
            /\ Goto(d, "close")
            /\ UNCHANGED <<sessions, status>>
       ELSE /\ Send(d, 404) /\ Goto(d, "answered")
            /\ UNCHANGED <<sessions, victim>>
    /\ UNCHANGED <<dirs, loop, stored, agent>>
\* _sessions.pop(sid, None).
Drop(d, s) ==
    /\ pc[d] = "new" /\ s \in Known \cup {Bogus}
    /\ target' = [target EXCEPT ![d] = s]
    /\ IF s \in Registered
       THEN /\ sessions' = Popped(s)
            /\ victim' = [victim EXCEPT ![d] = s]
            /\ Goto(d, "close")
            /\ UNCHANGED status
       ELSE /\ Send(d, 404) /\ Goto(d, "answered")
            /\ UNCHANGED <<sessions, victim>>
    /\ UNCHANGED <<dirs, loop, stored, agent>>

CloseDropped(d) ==
    /\ pc[d] = "close"
    /\ dirs' = dirs \ {victim[d]}
    /\ victim' = [victim EXCEPT ![d] = NoOne]
    /\ Send(d, 200) /\ Goto(d, "answered")
    /\ UNCHANGED <<sessions, loop, target, stored, agent>>

-----------------------------------------------------------------------------
(* POST /analyze. *)

\* _sessions.get(sid).
GetSession(a, s) ==
    /\ pc[a] = "new" /\ loop = NoOne /\ s \in Known \cup {Bogus}
    /\ target' = [target EXCEPT ![a] = s]
    /\ IF s \in Registered
       THEN loop' = a /\ Goto(a, "touch") /\ UNCHANGED status
       ELSE Send(a, 404) /\ Goto(a, "answered") /\ UNCHANGED loop
    /\ UNCHANGED <<sessions, dirs, victim, stored, agent>>

\* _sessions.move_to_end(sid), a KeyError if a DELETE has come in between; then
\* _run_agent starts with the prompt, and ends at once if it may take no turn.
TouchSession(a) ==
    /\ pc[a] = "touch" /\ loop = a
    /\ loop' = NoOne
    /\ IF target[a] \in Registered
       THEN /\ sessions' = Append(Popped(target[a]), target[a])
            /\ Send(a, 200) /\ Goto(a, IF MAX_TURNS > 0 THEN "create" ELSE "answered")
            /\ messages' = [messages EXCEPT ![a] = <<[role |-> "user", blocks |-> 0]>>]
       ELSE /\ Send(a, 500) /\ Goto(a, "answered")
            /\ UNCHANGED <<sessions, messages>>
    /\ UNCHANGED <<dirs, target, victim, stored, turn, blocks>>

Said(a, role, n) ==
    messages' = [messages EXCEPT ![a] = Append(@, [role |-> role, blocks |-> n])]

\* client.messages.create raises: an error event ends the stream.
CreateFails(a) ==
    /\ pc[a] = "create" /\ loop = NoOne
    /\ Goto(a, "answered")
    /\ UNCHANGED <<sessions, dirs, loop, target, victim, status, stored, agent>>

\* Any stop_reason but "tool_use" ends the stream.
CreateEnds(a, n) ==
    /\ pc[a] = "create" /\ loop = NoOne
    /\ Said(a, "assistant", n)
    /\ Goto(a, "answered")
    /\ UNCHANGED <<sessions, dirs, loop, target, victim, status, stored, turn, blocks>>

\* A reply that asks for n tools.
CreateAsks(a, n) ==
    /\ pc[a] = "create" /\ loop = NoOne
    /\ Said(a, "assistant", n)
    /\ blocks' = [blocks EXCEPT ![a] = n]
    /\ Goto(a, "tools")
    /\ UNCHANGED <<sessions, dirs, loop, target, victim, status, stored, turn>>

\* dxtools.execute, in a thread; the session may be closed by now.
ExecuteTool(a) ==
    /\ pc[a] = "tools" /\ loop = NoOne
    /\ blocks[a] > 0
    /\ blocks' = [blocks EXCEPT ![a] = @ - 1]
    /\ UNCHANGED <<sessions, dirs, loop, pc, target, victim, status, stored, messages, turn>>

\* Mutant: the results are sent without waiting for the last tool.
EndTurnEarly(a) ==
    LET asked == messages[a][Len(messages[a])].blocks
    IN  /\ pc[a] = "tools" /\ loop = NoOne
        /\ blocks[a] <= 1
        /\ Said(a, "results", asked - blocks[a])
        /\ turn' = [turn EXCEPT ![a] = @ + 1]
        /\ blocks' = [blocks EXCEPT ![a] = 0]
        /\ Goto(a, IF turn[a] + 1 < MAX_TURNS THEN "create" ELSE "answered")
        /\ UNCHANGED <<sessions, dirs, loop, target, victim, status, stored>>
\* All results are there: the next turn, or the end after MAX_TURNS of them.
EndTurn(a) ==
    LET asked == messages[a][Len(messages[a])].blocks
    IN  /\ pc[a] = "tools" /\ loop = NoOne
        /\ blocks[a] = 0
        /\ Said(a, "results", asked)
        /\ turn' = [turn EXCEPT ![a] = @ + 1]
        /\ Goto(a, IF turn[a] + 1 < MAX_TURNS THEN "create" ELSE "answered")
        /\ UNCHANGED <<sessions, dirs, loop, target, victim, status, stored, blocks>>

-----------------------------------------------------------------------------
\* The server stops: _lifespan closes what is registered.
Shutdown ==
    /\ \A r \in Requests : pc[r] \in {"new", "answered"}
    /\ sessions # <<>>
    /\ dirs' = dirs \ Registered
    /\ sessions' = <<>>
    /\ pc' = [r \in Requests |-> "answered"]
    /\ UNCHANGED <<loop, target, victim, status, stored, agent>>

UploadStep(u) ==
    \/ RefuseUpload(u) \/ SizeFails(u) \/ Register(u)
    \/ CheckSize(u) \/ EvictOldest(u) \/ CloseVictim(u)

AgentStep(a) ==
    \/ TouchSession(a) \/ CreateFails(a) \/ ExecuteTool(a) \/ EndTurn(a)
    \/ \E n \in 0..MaxBlocks : CreateEnds(a, n) \/ CreateAsks(a, n)

Next ==
    \/ \E u \in Uploads : Store(u) \/ StoreFails(u) \/ UploadStep(u)
    \/ \E d \in Deletes : CloseDropped(d) \/ \E s \in Uploads \cup {Bogus} : Drop(d, s)
    \/ \E a \in Analyses : AgentStep(a) \/ \E s \in Uploads \cup {Bogus} : GetSession(a, s)
    \/ Shutdown

Spec == Init /\ [][Next]_vars
\* Threads are scheduled, the loop resumes coroutines, and native calls, tools
\* and the model's API return.
Fairness ==
    /\ \A u \in Uploads : WF_vars(UploadStep(u))
    /\ \A d \in Deletes : WF_vars(CloseDropped(d))
    /\ \A a \in Analyses : WF_vars(AgentStep(a))
FairSpec == Spec /\ Fairness

-----------------------------------------------------------------------------
Message == [role : {"user", "assistant", "results"}, blocks : 0..MaxBlocks]

\* Type invariant; at most SESSION_CACHE_MAX sessions are kept once an upload is
\* answered, and an analysis takes at most MAX_TURNS turns.
TypeOK ==
    /\ sessions \in Seq(Uploads)
    /\ Len(sessions) <= SESSION_CACHE_MAX + (IF loop \in Uploads THEN 1 ELSE 0)
    /\ dirs \subseteq Uploads
    /\ loop \in Requests \cup {NoOne}
    /\ pc \in [Requests -> {"new", "open", "check", "evict", "close", "touch", "create",
                            "tools", "answered"}]
    /\ target \in [Requests -> Uploads \cup {NoOne, Bogus}]
    /\ victim \in [Requests -> Uploads \cup {NoOne}]
    /\ status \in [Requests -> {0, 200, 400, 404, 500}]
    /\ body \in [Uploads -> Contents] /\ leaked \subseteq Uploads
    /\ messages \in [Analyses -> Seq(Message)]
    /\ turn \in [Analyses -> 0..MAX_TURNS]
    /\ blocks \in [Analyses -> 0..MaxBlocks]

\* A scratch directory belongs to an upload that is being opened, to a
\* registered session, or to a session that is being closed. The one exception
\* is an upload that failed between its last handler and its registration (see
\* LeftBehind). A registered session has its directory, and no two requests
\* close the same one.
DirsOwned ==
    /\ dirs \subseteq {u \in Uploads : pc[u] = "open"} \cup Registered
                          \cup {victim[r] : r \in Requests} \cup leaked
    /\ Registered \subseteq dirs
    /\ \A r, q \in Requests : victim[r] # NoOne /\ victim[r] = victim[q] => r = q

\* What such an upload leaves: its directory, which nothing that runs later
\* removes, a client with a 500, and no session.
LeftBehind ==
    \A u \in leaked : u \in dirs /\ status[u] = 500 /\ u \notin Registered

\* A session stays registered only with a client that has its id, or is about
\* to get it: registration is the last thing in an upload that can fail.
NoOrphanSession ==
    \A u \in Registered : status[u] = 200 \/ (status[u] = 0 /\ loop = u)

\* What the API requires of the conversation: a reply that asks for tools is
\* followed by exactly their results before the model is called again.
ResultsMatchCalls ==
    \A a \in Analyses : pc[a] = "create" =>
        \A i \in 1..Len(messages[a]) : messages[a][i].role = "assistant" =>
            /\ i < Len(messages[a])
            /\ messages[a][i + 1] = [role |-> "results", blocks |-> messages[a][i].blocks]

\* Between any two steps of uploads, evictions, deletions and analyses: the LRU
\* keeps its bound, every session and every directory has one owner, and the
\* conversations are well formed.
SessionsOwned ==
    TypeOK /\ DirsOwned /\ LeftBehind /\ NoOrphanSession /\ ResultsMatchCalls

\* Every accepted request is answered, and an analysis ends.
EveryRequestEnds ==
    \A r \in Requests : pc[r] # "new" ~> pc[r] = "answered"
=============================================================================
