--------------------------- MODULE DecompileCache ---------------------------
(* The text cache of the decompiler facade (native/dad_cpp/decompiler.cpp):  *)
(* a std::list of (descriptor, text) nodes in LRU order, an unordered_map    *)
(* whose keys are string_views into those nodes, and callers that look the   *)
(* key up under the lock, decompile WITHOUT it (the binding released the     *)
(* GIL), and take it again to insert.                                        *)
EXTENDS Integers, Sequences, FiniteSets

CONSTANTS Threads,      \* Python threads inside decompile_* calls
          Keys,         \* method descriptors a caller may ask for
          Located,      \* the descriptors LocateMethod finds
          Malformed,    \* located methods whose pipeline always throws
          Classes,      \* the method lists LocateClassMethods can return
          Capacities,   \* arguments of SetCacheCapacity (0 = unbounded)
          DefaultCapacity,  \* kDefaultCacheCapacity
          Nodes,        \* addresses of list nodes
          MaxFailures   \* bound on failed allocations

ASSUME ConstantsAssumption ==
    /\ Located \subseteq Keys
    /\ Malformed \subseteq Located
    /\ Classes \subseteq Seq(Located) \ {<<>>}
    /\ Capacities \subseteq Nat /\ DefaultCapacity \in Capacities
    /\ MaxFailures \in Nat

VARIABLES cache_list,   \* the LRU list, most recently used first
          cache_index,  \* descriptor -> list node
          cache_capacity,
          failures,     \* allocations that failed while inserting
          lastUse,      \* history: keys by last use since the last clear
          pc, mode,     \* per thread: where the call is, which entry point
          asked,        \* per thread: the descriptors this call decompiles
          text,         \* per thread: the pipeline's result
          out           \* per thread: the answers so far

shared == <<cache_list, cache_index, cache_capacity, failures, lastUse>>
vars == <<shared, pc, mode, asked, text, out>>

\* What a caller can be given for a descriptor: Java text, the text
\* "// DECOMPILE ERROR: ...", the empty string, or (from DecompileClass
\* only) a "// METHOD ERROR" line; "threw" is an exception to the caller.
Kinds == {"java", "error", "empty", "threw"}
Answer(k, kind) == [key |-> k, kind |-> kind]
Texts == [key : Keys, kind : {"java", "error"}]
Entries == [node : Nodes, key : Keys, text : Texts]

Key(t) == asked[t][Len(out[t]) + 1]
ListNodes == {cache_list[i].node : i \in 1..Len(cache_list)}
\* The list position cache_index sends k to (it->second).
Pos(k) == CHOOSE i \in 1..Len(cache_list) : cache_list[i].node = cache_index[k]

Init ==
    /\ cache_list = <<>>
    /\ cache_index = <<>>
    /\ cache_capacity = DefaultCapacity
    /\ failures = 0
    /\ lastUse = <<>>
    /\ pc = [t \in Threads |-> "idle"]
    /\ mode = [t \in Threads |-> "method"]
    /\ asked = [t \in Threads |-> <<>>]
    /\ text = [t \in Threads |-> <<>>]
    /\ out = [t \in Threads |-> <<>>]

-----------------------------------------------------------------------------
(* List and index operations, all under cache_mutex_. *)

\* The history of uses once k is used: k comes first, the others keep order.
Touch(k) ==
    LET n == Len(lastUse)
        at == IF \E i \in 1..n : lastUse[i] = k THEN CHOOSE i \in 1..n : lastUse[i] = k
                                               ELSE n + 1
    IN  [j \in 1..(IF at > n THEN at ELSE n) |->
            IF j = 1 THEN k ELSE IF j <= at THEN lastUse[j - 1] ELSE lastUse[j]]

\* Mutant: the hit returns the text without moving the node.
SpliceNothing(s, i) == s
\* splice(begin, list, it): node i becomes the front, the others keep order.
SpliceToFront(s, i) ==
    [j \in 1..Len(s) |-> IF j = 1 THEN s[i] ELSE IF j <= i THEN s[j-1] ELSE s[j]]

\* The eviction loop keeps the first cap nodes (all of them when cap = 0).
KeptLen(s, cap) == IF cap = 0 \/ Len(s) <= cap THEN Len(s) ELSE cap

EvictList(s, cap) == SubSeq(s, 1, KeptLen(s, cap))

\* Mutant: pop_back first, then erase back(): the victim's entry stays.
EraseAfterPop(f, s, cap) ==
    [k \in DOMAIN f \ {s[i].key : i \in KeptLen(s, cap)..(Len(s)-1)} |-> f[k]]
\* Each evicted node first erases the index entry that EQUALS its key.
EvictIndex(f, s, cap) ==
    [k \in DOMAIN f \ {s[i].key : i \in (KeptLen(s, cap)+1)..Len(s)} |-> f[k]]

-----------------------------------------------------------------------------
(* One call. *)

\* DecompileMethod returns (or throws): DecompileClass appends and goes on.
GiveAnswer(t, a) ==
    /\ out' = [out EXCEPT ![t] = Append(@, a)]
    /\ text' = [text EXCEPT ![t] = <<>>]
    /\ pc' = [pc EXCEPT ![t] = IF Len(out[t]) + 1 = Len(asked[t])
                               THEN "done" ELSE "lookup"]
    /\ UNCHANGED <<mode, asked>>

CallMethod(t, k) ==
    /\ pc[t] = "idle"
    /\ mode' = [mode EXCEPT ![t] = "method"]
    /\ asked' = [asked EXCEPT ![t] = <<k>>]
    /\ pc' = [pc EXCEPT ![t] = "lookup"]
    /\ UNCHANGED <<shared, text, out>>

CallClass(t, ks) ==
    /\ pc[t] = "idle"
    /\ mode' = [mode EXCEPT ![t] = "class"]
    /\ asked' = [asked EXCEPT ![t] = ks]
    /\ pc' = [pc EXCEPT ![t] = "lookup"]
    /\ UNCHANGED <<shared, text, out>>

\* DecompileMethodWithPcMap: the same pipeline, no cache.
CallWithPcMap(t, k) ==
    /\ pc[t] = "idle"
    /\ mode' = [mode EXCEPT ![t] = "pcmap"]
    /\ asked' = [asked EXCEPT ![t] = <<k>>]
    /\ pc' = [pc EXCEPT ![t] = "pipeline"]
    /\ UNCHANGED <<shared, text, out>>

\* Mutant: the text is taken from the front of the list before the splice.
ReturnFront(t) ==
    /\ Key(t) \in DOMAIN cache_index
    /\ cache_list' = SpliceToFront(cache_list, Pos(Key(t)))
    /\ lastUse' = Touch(Key(t))
    /\ GiveAnswer(t, cache_list[1].text)
    /\ UNCHANGED <<cache_index, cache_capacity, failures>>
\* A cached entry: moved to the front, its text returned.
ReturnCached(t) ==
    /\ Key(t) \in DOMAIN cache_index
    /\ cache_list' = SpliceToFront(cache_list, Pos(Key(t)))
    /\ lastUse' = Touch(Key(t))
    /\ GiveAnswer(t, cache_list[Pos(Key(t))].text)
    /\ UNCHANGED <<cache_index, cache_capacity, failures>>

Hit(t) == pc[t] = "lookup" /\ ReturnCached(t)

Miss(t) ==
    /\ pc[t] = "lookup"
    /\ Key(t) \notin DOMAIN cache_index
    /\ pc' = [pc EXCEPT ![t] = "pipeline"]
    /\ UNCHANGED <<shared, mode, asked, text, out>>

NotLocated(t) ==
    /\ pc[t] = "pipeline"
    /\ Key(t) \notin Located
    /\ GiveAnswer(t, Answer(Key(t), "empty"))
    /\ UNCHANGED shared

\* Any std::exception, a failed allocation included, becomes an error text.
PipelineOutcomes(k) == IF k \in Malformed THEN {"error"} ELSE {"java", "error"}

RunPipeline(t) ==
    /\ pc[t] = "pipeline"
    /\ Key(t) \in Located
    /\ \E kind \in PipelineOutcomes(Key(t)) :
          IF mode[t] = "pcmap"
          THEN GiveAnswer(t, Answer(Key(t), kind))
          ELSE /\ text' = [text EXCEPT ![t] = Answer(Key(t), kind)]
               /\ pc' = [pc EXCEPT ![t] = "insert"]
               /\ UNCHANGED <<mode, asked, out>>
    /\ UNCHANGED shared

\* Another caller inserted the key meanwhile: its entry wins.
InsertRace(t) == pc[t] = "insert" /\ ReturnCached(t)

Insert(t) ==
    /\ pc[t] = "insert"
    /\ Key(t) \notin DOMAIN cache_index
    /\ \E n \in Nodes \ ListNodes :
          LET s == <<[node |-> n, key |-> Key(t), text |-> text[t]]>> \o cache_list
              f == [k \in DOMAIN cache_index \cup {Key(t)} |->
                       IF k = Key(t) THEN n ELSE cache_index[k]]
          IN  /\ cache_list' = EvictList(s, cache_capacity)
              /\ cache_index' = EvictIndex(f, s, cache_capacity)
    /\ lastUse' = Touch(Key(t))
    /\ GiveAnswer(t, text[t])
    /\ UNCHANGED <<cache_capacity, failures>>

\* cache_index_.emplace throws after emplace_front succeeded: the node stays
\* in the list without an index entry and the eviction loop is not reached.
InsertFails(t) ==
    /\ pc[t] = "insert"
    /\ Key(t) \notin DOMAIN cache_index
    /\ failures < MaxFailures
    /\ failures' = failures + 1
    /\ \E n \in Nodes \ ListNodes :
          cache_list' = <<[node |-> n, key |-> Key(t), text |-> text[t]]>> \o cache_list
    /\ GiveAnswer(t, Answer(Key(t), "threw"))
    /\ UNCHANGED <<cache_index, cache_capacity, lastUse>>

Return(t) ==
    /\ pc[t] = "done"
    /\ pc' = [pc EXCEPT ![t] = "idle"]
    /\ out' = [out EXCEPT ![t] = <<>>]
    /\ asked' = [asked EXCEPT ![t] = <<>>]
    /\ UNCHANGED <<shared, mode, text>>

ClearCache ==
    /\ cache_list # <<>>
    /\ cache_index' = <<>>
    /\ cache_list' = <<>>
    /\ lastUse' = <<>>
    /\ UNCHANGED <<cache_capacity, failures, pc, mode, asked, text, out>>

SetCacheCapacity(cap) ==
    /\ cache_capacity' = cap
    /\ cache_list' = EvictList(cache_list, cap)
    /\ cache_index' = EvictIndex(cache_index, cache_list, cap)
    /\ UNCHANGED <<failures, lastUse, pc, mode, asked, text, out>>

Step(t) ==
    \/ Hit(t) \/ Miss(t) \/ NotLocated(t) \/ RunPipeline(t)
    \/ InsertRace(t) \/ Insert(t) \/ InsertFails(t) \/ Return(t)

Next ==
    \/ \E t \in Threads :
          \/ \E k \in Keys : CallMethod(t, k) \/ CallWithPcMap(t, k)
          \/ \E ks \in Classes : CallClass(t, ks)
          \/ Step(t)
    \/ ClearCache
    \/ \E cap \in Capacities : SetCacheCapacity(cap)

Spec == Init /\ [][Next]_vars

-----------------------------------------------------------------------------
CacheTypeOK ==
    /\ cache_list \in Seq(Entries)
    /\ DOMAIN cache_index \subseteq Keys
    /\ \A k \in DOMAIN cache_index : cache_index[k] \in Nodes
    /\ cache_capacity \in Capacities
    /\ failures \in 0..MaxFailures

CallTypeOK ==
    /\ pc \in [Threads -> {"idle", "lookup", "pipeline", "insert", "done"}]
    /\ mode \in [Threads -> {"method", "class", "pcmap"}]
    /\ asked \in [Threads -> Seq(Keys)]
    /\ text \in [Threads -> Texts \cup {<<>>}]
    /\ out \in [Threads -> Seq([key : Keys, kind : Kinds])]

\* Type invariant of the cache (decompiler.h's cache_list_, cache_index_,
\* cache_capacity_) and of the calls in progress.
TypeOK == CacheTypeOK /\ CallTypeOK

\* Every index entry leads to a live list node that holds the very descriptor
\* it is filed under: no string_view or iterator of the index outlives its node, in any
\* interleaving of lookups, insertions, evictions, clears and failed inserts.
IndexSound ==
    \A k \in DOMAIN cache_index :
        \E i \in 1..Len(cache_list) :
            /\ cache_list[i].node = cache_index[k]
            /\ cache_list[i].key = k

\* The facade is an LRU cache. Between two locked sections no more descriptors
\* can be looked up than the capacity allows, also right after it was lowered;
\* and as long as no insertion ran out of memory, the list holds in order the
\* most recently used descriptors since the last clear, each of which the index
\* knows, so that no entry is out of a lookup's reach.
CacheIsLru ==
    /\ cache_capacity # 0 => Cardinality(DOMAIN cache_index) <= cache_capacity
    /\ failures = 0 =>
          /\ Len(cache_list) <= Len(lastUse)
          /\ \A i \in 1..Len(cache_list) : cache_list[i].key = lastUse[i]
          /\ DOMAIN cache_index = {cache_list[i].key : i \in 1..Len(cache_list)}
          /\ Cardinality(DOMAIN cache_index) = Len(cache_list)

\* The i-th answer of a call is about the i-th descriptor it asked for, a call
\* that is done has answered all of them (a class: every method once, in
\* LocateClassMethods order), and exactly the descriptors LocateMethod does
\* not find come back empty, whatever the other threads did meanwhile.
AnswersMatch ==
    \A t \in Threads :
        /\ pc[t] = "done" => Len(out[t]) = Len(asked[t])
        /\ \A i \in 1..Len(out[t]) :
              /\ i <= Len(asked[t])
              /\ out[t][i].key = asked[t][i]
              /\ out[t][i].kind = "empty" <=> asked[t][i] \notin Located
=============================================================================
