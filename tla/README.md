# TLA+ specifications of dexllm

dexllm loads Android packages (APK, dex, dex containers), indexes them with a
vendored copy of DexKit, decompiles methods with a C++ port of Androguard's DAD,
and offers the result to language models through a Python API, an MCP server and
an HTTP backend. This directory holds TLA+ models of its stateful parts and of
the algorithms at its core, the TLC runs that check them on small instances, and
TLAPS proofs of the properties that matter most for every instance.
`PROJECT.json` lists the components, the source lines behind every definition,
the runs, a broken variant of the code for every checked property, the hazards
and the theorems.

## Inventory of the system

### Native load boundary (`native/core_ext/dexkit_ext.cpp`, `dex_verifier.cpp`)
*State:* the list of sources, one verdict per logical dex (`verify_status_`), the
next dex id, the images handed to the core, the core's `dex_items` and
`class_declare_dex_map`. *Operations:* construct a session from a file, a zip or
a list of images, isolated or like the Android runtime, strict or lenient; verify
a dex, down to every instruction of every code item. *Hard:* dexes are split and
numbered twice, once by the gate and once by the core; a bad dex among good ones
forces copies; v41 containers tie dexes together; ids are 16 bits wide; DexItems
are built by a pool in any order; everything after the gate trusts its verdict.
*Correct when:* the core holds exactly what was accepted, under the same ids, and
a code item is accepted exactly when it is legal.

### Query gate and warm-up (`vendor/.../dexkit.cpp`, `dex_item.cpp`)
*State:* `active_query_count`, `warmup_inflight`, `pending_warmup_flags`, a queue
of tickets, the limit on queries; per dex the published, failed and claimed
parts of its caches. *Operations:* `EnterQueryExecution`,
`LeaveQueryExecution`, `SetMaxConcurrentQueries`, `InitDexCache`. *Hard:*
queries read the caches without a lock, so a warm-up must run alone; a warm-up
can fail with tickets and flags held; a claim that is never retired blocks
everyone. *Correct when:* nobody reads a part being built, an admitted query
finds its parts, every caller returns.

### Query scheduler (`vendor/.../query_scheduler.h`, `query_executor.h`)
*State:* a slot per query (pending and running tasks, budgets, dispatch numbers),
two queues of runnable queries, the number of tasks in flight. *Operations:*
attach, submit, activate, detach, a task's end, each followed by the dispatch
loop. *Hard:* limits move whenever a query comes or goes; queues are rebuilt
under the entries they hold; a query may leave before its tasks.
*Correct when:* queues hold exactly what may run, no worker idles over waiting
work, nothing is counted twice or forgotten.

### Call-site analysis (`native/core_ext/invoke_args.cpp`, `dexkit_ext.cpp`, `vendor/.../dex_item.cpp`)
*State:* per dex the callers of each method and the readers and writers of each
field, moved between dexes by threads; an index for resolving names, built on
first use. *Operations:* warm up, find the call sites of an API, of a method, of
a field, resolve the arguments of a call by a bounded backward analysis of
registers. *Hard:* a class may be declared in several dexes; the analysis visits
a window of blocks once, in one order, without a fixpoint; the index is built in
place behind a flag. *Correct when:* the rows are those of a scan of every body,
and an argument that is given a value has it on every run.

### Decompiler (`native/dad_cpp`)
The facade keeps an LRU list of texts and an index of string views into it; it
decompiles outside its lock. *Correct when:* no index entry outlives its node,
and an answer belongs to its question. Behind it is a sequential pipeline over
one method: `method_snapshot_builder` cuts the code item into blocks;
`basic_blocks` and `instruction_dispatch` translate them; `dataflow` finds
definitions, splits registers into variables, removes and moves code, places
declarations; `graph` and `control_flow` split, simplify and structure;
`writer` and `dast` walk the result. *Hard:* every pass edits tables that others
computed (chains, edges, follows, latches) in place. *Correct when:* what is
written does what the bytecode does, and every pass ends.

### Python layer (`src/dexllm`)
`_open.py` opens strictly and falls back to a lenient session. `mcp_server.py`
keeps an LRU of handles and a note for each lenient one; its calls run in worker
threads without a lock. `server.py` keeps an LRU of sessions, each with a scratch
directory, and runs an agent loop with the model; coroutines share an event loop
with DELETE handlers in threads. `safe.py` puts a deadline on a decompilation.
The tools (`tools.py`, `components.py`, `dangerous_api.py`, `tls_trust.py`, ...)
are queries over a session.

### How the parts interact
A Python call reaches the binding, which holds the GIL except around
decompilation; the extension asks the core; the core's queries pass the gate,
warm caches up with a pool of their own, and run their tasks on the shared
scheduler. Decompilation reads the dex items and its own cache only. The two
servers share nothing but `_open.py`.

## Modules

| module | models | state and actions |
| --- | --- | --- |
| `LoadGate` | the constructor of a session | one step per source, entry and phase; pool threads build DexItems in any order |
| `DexInsns` | the slicer's instruction table, widths and decoder | operators |
| `CodeVerifier` | `VerifyCodeItem`, `VerifyInsns` | operators |
| `SnapshotBuilder` | the stages of `MethodSnapshotBuilder` | operators |
| `DexCode` | verification, then the snapshot builder | one step per stage |
| `DadGraph`, `DadStructure` | `graph.cpp`, `basic_blocks.cpp`; `control_flow.cpp` | operators, one per pass and idea |
| `DadEmitters` | the walks of `writer.cpp` and `dast.cpp` | operators |
| `ProgramFlow` | reference: what a graph does, what a written program does | operators, independent of the code |
| `Structuring` | the structural half of `BuildProcessedGraph`, `IdentifyStructures`, both emitters | one step per pass |
| `DadIr`, `DadOpcodes` | the classes of the intermediate representation; the handler of each opcode | operators, one per class and handler |
| `DadDataflow` | `dataflow.cpp` | operators |
| `DalvikFlow` | reference: what the bytecode does and what the Java it prints does | operators, independent of the code |
| `Dataflow` | the data-flow half of `BuildProcessedGraph` | one step per pass |
| `InvokeArgs` | `invoke_args.cpp` | operators |
| `CrossRefs` | the cross-reference tables and the queries over them | operators |
| `CallSites` | warm-up, index, queries, and a machine that runs the bodies | one step per dex, per append and clear of a moving thread, per dex of the index; one per instruction of the machine |
| `QueryGate` | `EnterQueryExecution` / `LeaveQueryExecution` | one step between two points where the mutex is taken or given up; variables keep the members' names; the warm-up is its promise, `WarmUpOutcome` |
| `DexCacheInit` | `InitDexCache` with `BeginInitCache` ... `AbortBuildCrossRefAggregates` | one step per claim, submission, task, retirement; rounds init, cross, aggregates |
| `CacheWarmUp` | the promise of `InitDexCache` | abstract specification; `DexCacheInit!WarmUpPromise` is the refinement |
| `QueryScheduler` | the scheduler and its executors | one step per operation, one per turn of the dispatch loop |
| `DecompileCache` | the decompiler facade | one step per critical section; the list holds nodes with addresses, the index maps to addresses |
| `SessionOpen` | `_open.py` | operators used by both servers |
| `McpSessions` | the MCP server's handle cache | one step per dictionary operation |
| `HttpSessions` | the HTTP backend | one step between two awaits, one per operation where a thread can interfere |
| `DecompileCacheProofs`, `QueryGateProofs`, `DexCacheInitProofs`, `HttpSessionsProofs`, `McpSessionsProofs`, `QuerySchedulerProofs`, `LoadGateProofs`, `DexCodeProofs` | | theorems about the module each is named for, and the lemmas about its operators |
| `MC*` | | instances for TLC |

`DexCode` and `CallSites` share `SnapshotBuilder`, `CodeVerifier` and `DexInsns`:
the call-site analysis runs on the bodies the verifier accepts. `Structuring` and
`Dataflow` share `DadGraph`: in the code one graph goes through both halves; the
data-flow passes do not look at the structure and the structuring passes do not
look inside instructions, which is why the two halves are checked apart.

The abstractions, module by module:

* `LoadGate`: an image is a sequence of units the size of a header; what the
  verifier finds wrong inside one dex is a quality of its header.
* `DexCode`: instructions are sequences of 16-bit units and decoded for real. An
  image ends with the handler list. TLC's integers have 32 bits, so an unsigned
  32-bit value of 2^31 or more is capped (`Large`, `TooWide`) where only its being
  out of any range matters; a signed leb128 is its 32-bit two's complement, five
  bytes and truncated ones included (FF FF FF FF 0F is -1); a byte offset cast to 32 bits is a unit offset modulo 2^31
  (`Unsigned`). The loops of the verifier and the builder are recursive functions
  of the position (and of the entries left), so that they can be reasoned about.
  A code item carries, beside its units, what its try table encodes (`said`), laid
  out entry by entry; `SaidAssumption` checks it against the bytes.
* `Structuring`: an instruction is the block and the position it comes from; a
  condition is the test it makes and whether it is negated.
* `Dataflow`: what a class of the intermediate representation prints is left out;
  each is one record with its operands, its family of `replace()` and its type.
  Types are a few names.
* `CallSites`: a name is a class and a member; a body is units, as in `DexCode`.
  The budgets `kMaxWork` and `kMaxWindowEntries` are part of the session, so that
  some sessions exhaust them.
* `QueryGate`: a caller sleeps by an explicit flag, so that a notification that
  comes between its test and its sleep is lost as it is in the code.
  `SetMaxConcurrentQueries` stores and notifies in two steps without the mutex.
  What a warm-up may do is `Outcome` of `WarmUpOutcome`, the very operator the
  abstract specification of `InitDexCache` is made of.
* `DexCacheInit`: which part of which dex throws is a constant. Failing to create
  or feed a pool is a choice at every point where the code creates or feeds one.
* `QueryScheduler`: tasks of one query are counted, not named; they are taken in
  the order of submission, so which of them has finished is only a renaming.
  Handing a task to the pool after the unlock is merged with its dispatch.
  A task's future is ready before its completion guard runs.
* `DecompileCache`: a text is the descriptor it is about and whether it is an
  error text. The allocator may reuse an address once the node is gone.
* `McpSessions`: which of the two clients a behaviour has is chosen at the start: one
  that waits for each answer, or one that pipelines its calls. Files change at any
  time under either. Histories record which files have changed and which paths two
  calls have worked on at once (one called for, or evicted, while a call uses it).
* `McpSessions`, `HttpSessions`: a container is how many dexes it has and how
  many of them each mode loads; the model's reply is a number of tool calls.

## Runs

| run | instance | what it shows |
| --- | --- | --- |
| `load_gate` | files, zips and lists of images of up to six units, all qualities, both modes, containers that begin with no dex, end inside one or are cut by the id limit of six | `SessionExact`: an opened session has as many dexes as were accepted, under ids below the limit, of closed images these very ones, and the first declaration of a class wins; `SalvageSound`: a copy splits into its accepted dexes exactly when it is closed (it begins with a dex, and precisely its accepted dexes end in it), and isolated sessions lose none; `ArtViewExact`: `art_open` and `matches_art` agree with a definition of ART's rule over the whole source |
| `query_gate` | three callers, two parts of which one cannot be built, limits 0, 1, 2, three calls, two changes of limit, one shortage | warm-ups run alone, admitted queries have their parts, no ticket is stranded, no overtaking, every caller returns |
| `dex_cache_init` | two dexes, five parts, one dex broken in each round, one aggregate that throws, pools failing anywhere, four calls | claims retired, parts built once, what a shortage of threads leaves behind: nothing in the rounds `init` and `cross`, dead parts in the aggregates (`ClaimsSettled`), refinement of `CacheWarmUp` (`WarmUpPromise`), termination |
| `scheduler` | three queries of up to two tasks, three workers; the first query may fail or hurry | counts, queues and work conservation (`SlotsExact`), service order, every task runs and every slot goes |
| `decompile_cache` | two threads, four descriptors, capacities 0 (no bound), 1 and 2, one failing allocation | no dangling entry, list and index agree, bound, recency, answers belong to their questions |
| `mcp` | three paths, cache of two, four calls (three if a file changes under two overlapping calls); a client that waits and one that pipelines two calls | `AnswersSound`: notes exact and errors only for containers that do not open for the first client; for both the bound, exact notes on paths whose calls do not overlap, and elsewhere a false note only after a change of the file; LRU order |
| `http_sessions` | three uploads, two deletions, one analysis, cache of one | directories, sessions and conversation (`SessionsOwned`), what an upload that fails between opening and registration leaves (`LeftBehind`), every request ends |
| `structuring` | every method of five families: three blocks of any kind (switches included), five with forward edges, five with loops, six with handlers, six with a handler that leads into two conditions | dominators exact, fixpoints reached (every merge of conditions removes a node), the two emitters agree (catch bodies included), nothing lost, the text means the graph, the passes keep the flow |
| `dataflow` | one method per opcode; short methods in straight line, with a branch, a loop, a handler or a reused receiver | chains exact, renaming and dead-code removal change nothing, propagation changes no store, test or result, declarations reach their reads |
| `dexcode` | every opcode with several operand values; branches and switches to every place of small bodies, the middle of an instruction or a payload included; oversized and hidden payloads; whole, shared and broken try tables, their leb128 numbers in one to five bytes, negative and out-of-range ones included; strict and lenient | the gate accepts exactly the legal bodies, what it accepts is built without a throw or a loss, no payload read leaves the code, the blocks pass control as the instructions do, covered instructions keep their handlers |
| `call_sites` | one dex: every opcode, branch graphs, loops, handlers, switches, exhausted budgets, depths 0 to 2; three dexes: every combination of who declares a class and who names it, interleaved moves, index builds that fail half way | rows are those of a scan, reported arguments are what the machine holds, one more level never loses a value |
| `dataflow_null_split` (violation) | a register that is null on one path and used as an integer and as a reference | `SplitConflatedVersion` is not a pure renaming: the integer version is read unassigned (quoted under "findings") |

### Preconditions of the properties
Nested statements cannot say everything a graph can, and the structuring passes,
taken over from DAD, do not claim to. What holds and where:

* `DominatorsExact`, `PassesConverge`, `EmittersAgree`, `FlowPreserved`: for
  every method of the run, irreducible ones and handlers included.
* `NothingLost`: where the method does not begin with a loop header and every
  loop has one back edge (`SimpleLoops`), and no loop coexists with a handler.
* `WrittenMeansGraph`: in addition no handlers, joins that do not cross
  (`Uncrossed`), and at most one loop, which has one exit (`OneExit`), on the
  false branch if it is a do-while (`ExitsOnFalse`), and no switch beside it.
* `FlowExact`: handlers start on instructions (`HandlersOnInsns`), switch payloads
  fit (`PayloadsFit`) and no case target wraps around 2^31 units back into the body
  (`CasesDoNotWrap`), which is what the runtime's own verifier demands.
* `ArgsSound`: bodies the strict gate accepts, as the code itself requires.

The cases outside are listed under "Observations".

### Why the bounds are enough
Every bound is a named constant of its module. The races of the gate involve one
caller that warms up, one that waits and one that arrives; a third caller is
also what it takes to have two tickets in the queue and one query active. A
limit that changes twice can go down and up again. Two dexes are enough for one
to fail while the other succeeds; more dexes only repeat. The scheduler's three
queries give one that runs, one that joins (the limit falls) and one that leaves
(it rises); three workers for two queries give a share that does not divide.
Capacity 1 makes every insertion an eviction, 2 makes recency visible, 0 turns
the bound off.

Five blocks hold a loop with a branch inside and code behind it, and two nested or
consecutive loops; six hold two guarded blocks with a handler each and a join;
the short-circuit patterns need four, a switch three. The methods of data flow
hold a definition, a reassignment on one of two paths, a use behind the join and
a store between. `RunBound` lets the machine go round each loop of its bodies
twice, and a value that survives two rounds has met every edge. Three dexes are
what it takes for a class declared twice and named in a third.

Runs with liveness cannot use symmetry, so interchangeable callers are named in
the order in which they appear: queries in the order of activation
(`ActivateInOrder`; ids only break ties that never occur), callers in the order
in which they first ask (`AskInOrder`), requests in the order in which they
arrive (`ArriveInOrder`), paths and threads in the order of first use
(`MCMcpSessions!InOrder`). Such a restriction leaves one representative of each
class of renamed behaviours and guards only steps that no fairness forces.

`CHECK_DEADLOCK FALSE` stands where the bounded number of requests is used up or
a pipeline has reached its last stage.

### Fairness
Weak fairness of each thread's next step: the operating system runs every
thread, and a mutex is eventually granted. Of the condition variable only what
the code notifies is assumed; there are no spurious wake-ups to rescue a caller.
An admitted query is assumed to leave (its work is finite). Nothing is assumed
of clients: no upload, deletion, submission or change of limit has to come.
`QueryScheduler!Fairness` writes weak fairness out with the guards in place of
ENABLED.

## Proofs

Each theorem holds for every value of the constants that satisfies the module's
assumption; TLC shows the same formula on one instance. Every safety theorem
rests on an inductive invariant, which TLC checked first: the initial states
satisfy it and each action keeps it, one lemma per action.

`DecompileCacheProofs` (any threads, descriptors, nodes, capacities):
`TypeCorrect`, `IndexNeverDangles` (`IndexSound`), `AnswersAreRight`
(`AnswersMatch`) and `CacheStaysLru` (`CacheIsLru`). `CacheInv` adds to them that
live nodes have distinct addresses, that every node holds the text of its own
descriptor, and what a call in progress knows: without the addresses a splice or
an eviction could redirect an entry, and without the knowledge of the call a text
could be stored under another descriptor. `LruInv` says that the list is a prefix
of the history of uses, in which a descriptor is once, until an insertion has run
out of memory; with distinct keys the index has as many entries as the list
(`KeyCount`), which is what the bound is about.

`QueryGateProofs` (any callers, parts, limits, failures): `GateTypeCorrect`,
`WarmUpsRunAlone` (`WarmUpAlone`), `AdmittedQueriesAreServed`
(`ReadyWhenActive`), `NoStrandedTicket` (`QueueIsLive`) and
`AdmissionIsOrderly` (`NoOvertaking`). `WarmUpAlone` is not inductive: `GateInv`
adds that the counter is the number of active callers (`Counted`, a cardinality,
with lemmas for one more and one fewer), that the mutex has the owner the
program counters say (`MutexOwner`), that `warmup_inflight` is set for as long as anyone is in a
warm-up (`InflightCovers`), and that a caller that no longer asks for a warm-up
has its parts (`NeedKnown`), which survives the time it sleeps because parts are
never taken back. `QueueInv` adds that a ticket has one holder who is inside and
was drawn in the past (`TicketsHeld`), so that drawing one keeps the queue
sorted and giving one back removes exactly that one.

`DexCacheInitProofs` (any dexes, parts, faulty parts, requests):
`EveryClaimIsSettled` (`ClaimsSettled`) and `InitKeepsPromise`
(`WarmUpPromise`): every step of `InitDexCache` is a step of `CacheWarmUp` or a
stutter. `CacheInv` says what a claim is at every stage: in the current round the
claimed parts of a dex are its job's until the task has run, and known
(published or failed) from then on (`JobsAreClaims`); the aggregates have their own
invariant (`NextShortages`), because there alone a shortage is latched; a part is never both
published and failed; a round reaches no part that the one before has not
published in every dex (`RoundsInOrder`). The refinement needs the last two: the
abstract call ends well exactly when nothing it asked for is missing, while the
code looks at one round and one dex at a time. Together with
`AdmittedQueriesAreServed`, whose module runs the same `Outcome` as its
warm-up, this closes the gap between the gate and the code behind it.

`HttpSessionsProofs` (any uploads, deletions, analyses, sizes):
`SessionsAreOwned` (`SessionsOwned`). `HttpInv` adds who holds the event loop,
that a session is in the cache once or in the hands of one request that closes it
(`OneOwner`), up to where a conversation is complete at each await
(`Conversations`), and that no request will close a directory left behind by a
failed upload (`LeaksKept`).

`McpSessionsProofs` (any threads, paths, file contents, sizes):
`AnswersAreSound` (`AnswersSound`) and `LeastRecentGoes` (`SerialLru`). Much of
what they say holds only for a client that waits for its answers, so `McpInv` has
two parts: for any client, that a path is cached once, what each call in
progress holds, and that while a file has not changed the mode of its handles and
its note follow from its content (`SameFiles`); for one that waits, that at most one
call runs (`OneCall`), what it may rely
on (`SerialCache`), that notes and lenient handles correspond but for the path
whose note is about to change (`NotesMatch`), and that the cache is in the order
of last use (`SerialOrder`). `Alone` says the same of a single path for any client,
as long as no two calls have worked on it at once: one call at most is at work on
it, which knows whether it is in the cache, and its note is that of its handle
but while that call is between the two.

`QuerySchedulerProofs` (any numbers of queries, workers, tasks):
`BookkeepingIsExact` (`SlotsExact`) and `ServiceIsInOrder` (`ServedInOrder`).
`SchedulerInv` says that the share last computed is the current one and that
each queue holds, in order and once, the queries that may be served from it
(`Fits`, stated with a set of queries an operation has not put back yet, which is
how it holds in the middle of one), that the counts are those of the pool, that
no worker idles, and where each query's own thread is. The rest is finite
orders: `Ranked` lists a finite set in the order of a relation by counting, since
induction is not available; from it come the minimum of a set of numbers, the
existence of the sorted queues, and that an insertion at the place the code
searches keeps the order.

`LoadGateProofs` (any sources, images, dexes and orders of the pool's work):
`SessionIsExact` (`SessionExact`), `SalvageIsSound` (`SalvageSound`) and
`ArtViewIsExact` (`ArtViewExact`). The facts about the operators come first.
The gate's split and the core's are recursive functions; a list that begins at an
offset and goes on where the dex before it ends (`WalkFrom`) is what both compute,
and there is only one (`OneWalk`), by the least position where two would differ.
From the same argument come the loop of ART's rule in closed form
(`ArtLoopMeans`), ids that count the accepted slices (`IdsInOrder`), and that the
part of an image that holds a run of its slices is split into exactly these
(`WalkOfPart`), so that a part that begins with a dex is split into the dexes that
end in it and any other part from bytes that are no slice (`PartMeans`), and closed
copies into the dexes they were made for, in order (`KeptParts`). `LoadInv` then says, of the rows, that each is about a dex of
an image that was passed and tells what ART makes of it (`RowsSound`), that no dex
has two and each that was passed has one (`RowsUnique`, `RowsComplete`), and that
the valid ones carry the ids below `next_dex_id`, each once (`IdsExact`); of the
flag `broken`, that it is what the entries before this one say (`BrokenExact`); of
the images kept so far, that each is part of an image that was passed and was kept
for an accepted dex (`PartsExact`), that until the ids run out every dex that begins
in one is accepted and in no other (`RangesExact`), and that, all of them closed, the
core would split them into one dex per id, from where its row says (`OriginsExact`,
where one more image keeps the old ones closed because dexes of different entries
have nothing to do with each other, `Joined`); and of the class map, that no entry is behind
a slot that was built and declares the name (`DeclaredExact`). `ArtViewExact` and
`SalvageSound` speak of the whole source, and only the rows of every entry passed
connect the walk with it.

`DexCodeProofs` (any code items): `StagesInvariant`, `BodyKeptInvariant`
(`BodyKept`), `PayloadReadsInBoundsInvariant` (`PayloadReadsInBounds`),
`FlowExactInvariant` (`FlowExact`, under the conditions it names),
`VerdictExactInvariant` (`VerdictExact`) and `CoveredKeepHandlersInvariant`
(`CoveredKeepHandlers`): every property of the `dexcode` run. The state is easy
and the data is not. The invariant, `Stages`, says that each stage holds what its
function made of the results before it; the work is in what the functions compute.
The library's induction takes a property as a parameter, which this prover cannot
instantiate, so `Recursion` and `Descent` state what is needed with sets in its
place: a recursion that calls itself once, at something that measures less, has a
solution, and a set that inherits membership along a measure is everything; both
rest on the least number of a set. From them follow what the decoder lists, in order
and without overlap (`DecodeMeans`), that the verifier's loop accepts exactly when
it is content wherever the sweep stands (`VerifyMeans`), hence that the decoder
cannot throw on what the strict gate passed (`StrictDecodes`), and what the handler
readers yield for any bytes. `AscOrder`, by counting, makes the leaders a list in
ascending order; with it every offset from the first leader on lies in one block
(`BlockAt`), and so does every instruction.

`FlowExact` compares two ways to go on: by blocks, through those that hold no
instruction, and by offsets, to the first instruction at or after one (`Landing`).
A block's start lands on its first instruction, or on what its end lands on; what
follows its last instruction is what its end lands on (`BlockLands`); and an empty
block leads to the next or to nothing (`EmptyLeadsOn`), so by going through the blocks
from the last to the first, control that enters a block continues where its start
lands (`BehindLands`). Hence the block looked up for a leader, for the end of
a block or for an offset past the body is the right one (`IntoLands`). It remains that the
offsets looked up are those: the gate put branches and payloads inside the body, so
that the cast keeps them (`BranchInside`), a payload that fits is read as
declared (`PayloadExact`), a case target is a leader or outside (`CaseLands`), and no
leader falls inside a block, so that only its last instruction may end one
(`InsideFallsThrough`).

`VerdictExact` has two halves. For the instructions: the registers the verifier's
flags check are the highest of those a format names (`RegistersMean`), and its
loop visits what the sweep visits (`VerdictOnInsns`). For the try table: `said` tells
what the bytes encode, list by list with the place of each clause, or up to where
they break off, and `SaidAssumption` that it tells the truth; a single clause is
read by the leb128 readers, and what is proved is all that is built from them.
From place to place the verifier's loop goes through a list unless a clause is
illegal (`TypedFollow`), so a whole list yields where it ends (`WholeVerdict`) and
one cut short, or whose size is outside -65536..65536, fails (`CutVerdict`); the offsets it collects are then the places of
the lists (`OffsetsFollow`), to one of which every try item has to point
(`VerdictOnTable`). The builder's readers, which stop where the verifier's fail,
go through the same places and keep the same clauses (`ClausesFollow`,
`HandlerRead`, `TriesRead`). For `CoveredKeepHandlers` the accepted ranges ascend
(`ParsedAscend`); a block that holds a covered instruction begins in the range,
whose start is a leader (`BeginsInRange`); so exactly one range contributes its
handlers (`OneRange`), and every clause's address is a leader and has a block
(`EveryClauseKept`).

None of this assumes anything of the containers the headers claim: a source of
`LoadGate` is any sequence of headers. What the code does not check appears in the
statements instead, as `Closed`, and `SalvageExact` says that a copy splits into the
accepted dexes exactly then.

The assumptions are named in the modules (`ConstantsAssumption`, `GateAssumption`,
`BrokenAssumption`, `InitAssumption`, `HttpAssumption`, `McpAssumption`,
`SchedulerAssumption`, `MaxDexesAssumption`, `InputsAssumption`, `CodesAssumption`,
`SaidAssumption`) and TLC evaluates them on every run: the sets the constants come
from, that callers and threads are finite in number, that requests of different
kinds differ, that a session has a dex, that the fields of a code item have their
widths and its units fit in a file with a u4 size, that its `said` is what its bytes
encode, that the MCP cache may hold something, and that a part is broken or not for good.

Only model-checked: the liveness properties, which are beyond this prover; that a
leb128 of the `dexcode` run has the value it was written with (the run's encoder
and `SaidAssumption`, which TLC evaluates, say so for its code items); and the
decompiler and the call-site analysis, which compute with recursive operators over
data, where the prover has no translation.

## Observations

Behaviour the models exhibit and a reader of the code may want to know. Nothing
here is a run of its own.

Concurrency and sessions:
* `decompiler.cpp:175` returns and caches the text of a failed decompilation
  where `decompiler.h:38` says it throws.
* `dexkit_ext.cpp:986-988` says of a copied container "the sibling rule guaranteed
  every dex in that range is accepted and it fits ... so the core splits the copy
  into exactly those dexes". The first half is what the code does until the ids run
  out (`RangesAccepted`). The second does not follow: the rule does not ask whether a
  dex begins where the container does, nor whether the dexes of the range end in it.
  If `header_offset` points into the dex before, the core splits the copy from those
  bytes; if a later dex is longer than the container the first one claims, the copy
  has fewer dexes than were accepted. Nor can a container be kept whole that the id
  limit cuts: its copy also holds the dexes that got no id. `SalvageExact` says that
  a copy is split as the comment has it exactly when it is closed. A session whose
  numbers then differ is refused, but `AssertLoadedDexesWereVerified`
  (`dexkit_ext.cpp:1070`) compares numbers: where they agree the session opens
  with a dex the report has no accepted row for, against its own "refusing to run on
  an unverified dex". `load_gate` has such inputs (`NoStart`, `Longer`, the limits).
* A shortage of threads during the aggregates is latched for good
  (`dexkit.cpp:1829-1831`): the part is never built in that session and every
  later query that asks for it fails. The comment at `dexkit.cpp:1753-1757` has a
  pool that throws retried, "latching would turn a one-instant resource shortage
  into a permanently dead DexKit"; it speaks of the two rounds before, and the
  aggregates create pools too (1564, 1658). `ShortagesAbandon`, in `ClaimsSettled`
  and in the theorem `EveryClaimIsSettled`, states what the code does; a model
  that gives the claim back as the rounds do (`ReleaseOnShortage`) violates it.
* Whoever runs a merged warm-up gets its failure, also for parts it did not ask
  for (`dexkit.cpp:238`); a caller waiting for the active queries to drain is not
  woken by the end of the warm-up itself, only by a leaving query.
* `mcp_server.py:141-143` says "a session opened leniently says so on EVERY answer,
  because the model may never call verify_report and must not mistake it for a
  clean load". For calls that overlap on a path that is not kept: line 71 makes a
  handle visible before line 73 records its note, so that a concurrent hit answers
  without it, and line 78 may pop the note of a session opened again after line 77.
  If the file changes between two overlapping opens, the note of one session is on
  the answer of the other, and a strict session is announced as lenient. An
  eviction between a membership test and the access raises a KeyError, reported as
  a failure to open. `AnswersSound` states exactly where the promise holds.
* `server.py:111`: a deletion between the lookup and the move to the end of the
  LRU is a KeyError, hence status 500, where 404 is meant.
* `server.py:226-228` reads all that the response needs before it registers the
  session, "a raise after that point would orphan a session whose id the client never
  received". No session is orphaned, but a raise of `os.path.getsize` or `dex_count`
  at lines 229-230 is outside both handlers, and the scratch directory of that upload
  stays for good. `DirsOwned` allows exactly these directories (`LeftBehind`).

Structuring:
* `control_flow.cpp:466-481` says of `ShortCircuitStruct` that its loop
  "occasionally fails to reach a fixed point on real APK classes" and that some
  orders "let MergeShortCircuit keep introducing new ShortCircuitBlocks each
  iteration so the loop never converges"; it bails at `max(10 * nodes, 1000)`
  rounds. The comment is older than the fix at `graph.cpp:162-178`, which removes a
  removed node's own edges, and than the sorted order of lines 432-446. `PassesConverge`
  checks round by round what the cap's comment expects of "a healthy run": a merge
  finds both its nodes in the graph, so it takes two and adds one, and every round
  but the last merges. Where that holds the rounds are at most one more than the
  nodes, whatever the size of the method, and the cap is not reached. The graphs of
  the run are far too small to reach a cap of 1000 themselves; what they decide is
  the step, and with the `remove_node` of before the fix (`RemoveKeepingOwn`) a
  handler that leads into a merged condition makes a merge add a node.
* The predecessors a merge counts leave out those in a handler
  (`graph.cpp:59-67`): a condition that a handler also jumps to is merged with the
  one before it, and the handler's jump is renamed to both.
* A condition with the same block on both sides is an expression statement of the
  AST (`dast.cpp:592`) and a comment of the text (`writer.cpp:1008-1028`): what it
  calls is evaluated in one and only remarked in the other. The properties count
  both as written, and as tested at that place.
* A do-while whose latch leaves on the true branch is written inverted. A loop
  header with two back edges, a method that begins with a loop header and has
  another loop behind it, crossing joins, and loops beside handlers can lose
  code.
* Catch clauses come out in reverse order (`control_flow.cpp:647`, against the
  comment at 643); a split keeps one catch type when two handlers meet.

Data flow, most of it inherited from DAD:
* Calls may move: past field reads, from before a branch into one of its arms,
  and in the order of evaluation; a static read may move past calls and stores; a
  cast or unary operation over a call reports no side effect.
* A copy of a parameter propagates past a reassignment of that parameter, since
  parameters count as constants; `PropagationSound` therefore leaves assigned
  parameters out. Only the definitions at the end of a block reach its handlers.
* `ushr` prints as `>>`; `filled-new-array/range` passes its first and last
  register only; `cmpl` and `cmpg` print alike; the index of an `aput` is replaced
  in the wrong place (`instruction.cpp:417`). The families of traces leave these
  out. A result kept from an earlier call may be moved later
  (`instruction_dispatch.cpp:608-615`).

Dex code:
* The end of a try range is not a leader, so a block that runs past the range keeps its
  handlers; hence `CoveredKeepHandlers` says "covered implies listed", not the
  converse. A handler that starts inside an instruction cuts the fall-through of
  an empty block. "Target in-range by construction" in
  `method_snapshot_builder.cpp` is not true of lenient loads, and yet `BodyKept`
  and `PayloadReadsInBounds` hold there.
* `ComputeLeaders` drops a case target outside insns[]
  (`method_snapshot_builder.cpp`, near 400), `ComputeChildEdges` looks its cast to
  32 bits up (near 690): a target of about -2^31 units has the offset of a block
  that exists. Nothing checks case targets, strict or lenient; hence
  `CasesDoNotWrap`.
* An `invoke-polymorphic` with a count above five passes the format check; the
  class ordering check at `dex_verifier.cpp:1779` can never fire.

Call sites:
* `invoke_args.cpp:337` and 785 say acyclic code is analysed completely; with
  arms of different depth knowledge is lost, never wrong.
* The comment on the last sort of the field rows (`dexkit_ext.cpp`, near 2919)
  says no case out of order could be constructed. One is: a class declared in
  dexes 1 and 2, accessed from dex 3. The mutant of `FieldSitesExact` drops the
  sort.
* An unmatched inherited reference stops the aggregation of the later references
  of its class; these queries do not depend on it.

## Not modelled

* `InferCascadeTypes` and the other heuristics that choose a declared type
  (`dataflow.cpp` 506-3078): a large set of rules without a definition of a right
  answer to check them against.
* The verifier's sections other than code items: one bounds check per field.
* The layout of the text (`writer.cpp` below the walk, `smali_render.cpp`),
  MUTF-8 and literals, the binding's conversions, the code source that copies
  from the dex, `analysis.cpp`, the listings of strings and type references, and
  the matching of queries: sequential and without state worth a model.
* `SetThreadNum` and the teardown of the pool, the leaked worker of a deadline
  (`safe.py:45`), cancellation of requests, and the tasks an exception leaves
  referring to a query that is gone: questions of object lifetime that the
  models' granularity does not show.
* The vendored core beyond scheduler, gate and cross references; data tables, the
  SDK, scripts and benchmarks.

## What could come next
A module for deadlines composed with `DecompileCache`, and
one for the lifetime of the pool.
