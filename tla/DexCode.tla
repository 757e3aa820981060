------------------------------- MODULE DexCode -------------------------------
(***************************************************************************)
(* From a code item's bytes to the basic blocks the decompiler works on:   *)
(* the load gate's VerifyCodeItem, strict or lenient, then the stages of   *)
(* MethodSnapshotBuilder::Build, one action each.                          *)
(*                                                                         *)
(* A code item also carries `said`, what its try table encodes: the ranges *)
(* with their clauses and the lists of clauses, in order, or ok = FALSE    *)
(* when its bytes are no such table: then the lists before the one that is *)
(* cut short, and that one.  Only the properties read it.                  *)
(***************************************************************************)
EXTENDS SnapshotBuilder

CONSTANT Codes   \* the code items tried: a sequence of sets

\* What a code item holds: u2 fields, as many u2 units as fit in a file whose
\* size is a u4, bytes and try items; `said` as above.  A list of `said` has the
\* place it begins at, its clauses, and the places where these begin and the
\* last ends.
MaxIds == 1073741823   \* an entry of an id table has four bytes or more
HandlerLists == [at : Nat, places : Seq(Nat), handlers : Seq(Int \X Nat)]
CodeItems ==
    [regs : U2, ins : U2, outs : U2, pad : U2,
     units : {u \in Seq(U2) : Len(u) <= MaxUnits}, bytes : Seq(U1),
     tries : Seq([start : Nat, count : Nat, off : Nat]),
     ids : [{"string", "type", "field", "method", "proto"} -> 0..MaxIds],
     said : [ok : BOOLEAN, tries : Seq([start : Nat, end : Nat, handlers : Seq(Int \X Nat)]),
             lists : Seq(HandlerLists), cut : HandlerLists]]
ASSUME CodesAssumption == Codes \in Seq(SUBSET CodeItems)

\* Clause x lies at p and ends at q.
ClauseAt(b, p, x, q) ==
    LET type == ReadUleb(b, p)
        addr == ReadUleb(b, type.p)
    IN  type.ok /\ addr.ok /\ x = <<type.v, addr.v>> /\ q = addr.p
TypedCount(b, l) == LET size == ReadSleb(b, l.at) IN IF size.v < 0 THEN -size.v ELSE size.v
SizeInRange(b, l) == -65536 <= ReadSleb(b, l.at).v /\ ReadSleb(b, l.at).v <= 65536
\* The first n typed clauses of list l, one after the other.
ListBegins(b, l, n) ==
    /\ l.at <= Len(b) /\ ReadSleb(b, l.at).ok
    /\ SizeInRange(b, l) /\ n <= TypedCount(b, l)
    /\ Len(l.handlers) >= n /\ Len(l.places) > n
    /\ l.places[1] = ReadSleb(b, l.at).p /\ \A k \in DOMAIN l.places : l.places[k] <= Len(b)
    /\ \A k \in 1..n : ClauseAt(b, l.places[k], l.handlers[k], l.places[k + 1])
\* All of list l: a size of 0 or less has a catch-all behind the typed ones.
WholeList(b, l) ==
    LET n == TypedCount(b, l)
        all == ReadUleb(b, l.places[n + 1])
        rest == IF ReadSleb(b, l.at).v > 0 THEN 0 ELSE 1
    IN  /\ ListBegins(b, l, n)
        /\ Len(l.handlers) = n + rest /\ Len(l.places) = n + rest + 1
        /\ rest = 1 => all.ok /\ l.handlers[n + 1] = <<CatchAll, all.v>> /\ l.places[n + 2] = all.p
\* A list that ends too early or declares too much.
CutList(b, l) ==
    LET n == Len(l.handlers)
        type == ReadUleb(b, l.places[n + 1])
    IN  /\ l.at <= Len(b)
        /\ \/ ~ReadSleb(b, l.at).ok
           \/ ~SizeInRange(b, l)
           \/ /\ ListBegins(b, l, n)
              /\ IF n < TypedCount(b, l) THEN ~type.ok \/ ~ReadUleb(b, type.p).ok
                 ELSE ReadSleb(b, l.at).v <= 0 /\ ~type.ok

\* Where list j begins: behind the number of lists, or behind the one before.
Place(c, j) ==
    IF j = 1 THEN ReadUleb(c.bytes, 0).p
    ELSE LET w == c.said.lists[j - 1].places IN w[Len(w)]
ListsFollow(c) ==
    \A j \in DOMAIN c.said.lists : /\ c.said.lists[j].at = Place(c, j)
                                  /\ WholeList(c.bytes, c.said.lists[j])
Headed(c) ==
    LET size == ReadUleb(c.bytes, 0)
    IN  /\ Len(c.units) % 2 = 1 => c.pad = 0
        /\ size.ok /\ size.v # 0 /\ size.v < 65536
Encoded(c) ==
    /\ Headed(c) /\ ReadUleb(c.bytes, 0).v = Len(c.said.lists) /\ ListsFollow(c)
    /\ DOMAIN c.said.tries = DOMAIN c.tries
    /\ \A t \in DOMAIN c.tries :
         /\ c.said.tries[t].start = c.tries[t].start
         /\ c.said.tries[t].end = c.tries[t].start + c.tries[t].count
         /\ \E j \in DOMAIN c.said.lists : /\ c.tries[t].off = c.said.lists[j].at
                                         /\ c.said.tries[t].handlers = c.said.lists[j].handlers
Malformed(c) ==
    LET n == Len(c.said.lists)
    IN  \/ ~Headed(c)
        \/ /\ n < ReadUleb(c.bytes, 0).v /\ ListsFollow(c)
           /\ c.said.cut.at = Place(c, n + 1) /\ CutList(c.bytes, c.said.cut)
        \/ /\ n = ReadUleb(c.bytes, 0).v /\ ListsFollow(c)
           /\ \E t \in DOMAIN c.tries : \A j \in 1..n : c.tries[t].off # c.said.lists[j].at
SaidTruly(c) ==
    /\ c.tries = <<>> => c.said.ok /\ c.said.tries = <<>> /\ c.said.lists = <<>>
    /\ c.tries # <<>> => IF c.said.ok THEN Encoded(c) ELSE Malformed(c)
ASSUME SaidAssumption == \A f \in DOMAIN Codes : \A c \in Codes[f] : SaidTruly(c)

VARIABLES code, strict,  \* the input and the gate's mode (check_insns)
          pc,            \* the next stage; "rejected" and "threw" are ends
          ins, leaders,  \* DecodePass
          tries,         \* ParsedTry
          blocks, entry  \* MethodSnapshot

vars == <<code, strict, pc, ins, leaders, tries, blocks, entry>>

Init ==
    /\ \E f \in DOMAIN Codes : code \in Codes[f]
    /\ strict \in BOOLEAN
    /\ pc = "verify"
    /\ ins = <<>> /\ leaders = {} /\ tries = <<>> /\ blocks = <<>> /\ entry = 0

Verify ==
    /\ pc = "verify"
    /\ pc' = IF VerifyCodeItem(code, strict) THEN "decode" ELSE "rejected"
    /\ UNCHANGED <<code, strict, ins, leaders, tries, blocks, entry>>

DecodeAllInsns ==
    /\ pc = "decode"
    /\ LET pass == DecodePass(code.units)
       IN  /\ pc' = IF pass[1] THEN "leaders" ELSE "threw"
           /\ ins' = IF pass[1] THEN pass[2] ELSE <<>>
    /\ UNCHANGED <<code, strict, leaders, tries, blocks, entry>>

FindLeaders ==
    /\ pc = "leaders"
    /\ leaders' = ComputeLeaders(code.units, ins)
    /\ pc' = "exceptions"
    /\ UNCHANGED <<code, strict, ins, tries, blocks, entry>>

ReadTries ==
    /\ pc = "exceptions"
    /\ tries' = ParseExceptions(code)
    /\ leaders' = leaders \cup ExceptionLeaders(tries')
    /\ pc' = "split"
    /\ UNCHANGED <<code, strict, ins, blocks, entry>>

Split ==
    /\ pc = "split"
    /\ blocks' = SplitIntoBlocks(ins, leaders, Len(code.units))
    /\ pc' = "edges"
    /\ UNCHANGED <<code, strict, ins, leaders, tries, entry>>

Connect ==
    /\ pc = "edges"
    /\ blocks' = ComputeChildEdges(code.units, ins, blocks, HandlerOffs(tries))
    /\ pc' = "handlers"
    /\ UNCHANGED <<code, strict, ins, leaders, tries, entry>>

Attach ==
    /\ pc = "handlers"
    /\ blocks' = AttachExceptionHandlers(blocks, tries)
    /\ pc' = "entry"
    /\ UNCHANGED <<code, strict, ins, leaders, tries, entry>>

\* The first instruction starting no block would be the builder's own throw.
ChooseEntry ==
    /\ pc = "entry"
    /\ entry' = EntryBlock(ins, blocks)
    /\ pc' = IF ins # <<>> /\ entry' = 0 THEN "threw" ELSE "done"
    /\ UNCHANGED <<code, strict, ins, leaders, tries, blocks>>

Next ==
    \/ Verify \/ DecodeAllInsns \/ FindLeaders \/ ReadTries
    \/ Split \/ Connect \/ Attach \/ ChooseEntry

Spec == Init /\ [][Next]_vars

-----------------------------------------------------------------------------
(* What a Dalvik code item means, stated on the units themselves. *)

\* Where the linear sweep of insns[] stands.
Starts(u) ==
    LET from[p \in 0..Len(u)] ==
            IF p = Len(u) THEN {}
            ELSE {p} \cup IF p + GetWidthFromBytecode(u, p) > Len(u) THEN {}
                          ELSE from[p + GetWidthFromBytecode(u, p)]
    IN  from[0]
\* The registers an instruction names; an invoke's are {vC, vD, vE, vF, vG},
\* as many of them as its count.
RegistersAt(u, p) ==
    LET d == DecodeInstruction(u, p)
        f == GetFormatFromOpcode(d.op)
        w == Unit(u, p)
        list == <<Nibble(Unit(u, p + 2), 0), Nibble(Unit(u, p + 2), 1), Nibble(Unit(u, p + 2), 2),
                  Nibble(Unit(u, p + 2), 3), InstA(w)>>
    IN  CASE f \in VarArgFormats -> {list[k] : k \in 1..Smaller(InstB(w), 5)}
          [] f \in RangeFormats -> Unit(u, p + 2)..(Unit(u, p + 2) + InstAA(w) - 1)
          [] OTHER -> (IF f \in RegAFormats THEN {d.A} \cup {x \in {d.A + 1} : d.op \in WideA} ELSE {})
                      \cup (IF f \in RegBFormats THEN {d.B} \cup {x \in {d.B + 1} : d.op \in WideB} ELSE {})
                      \cup (IF f = "23x" THEN {d.C} \cup {x \in {d.C + 1} : d.op \in WideC} ELSE {})

LegalInsns(c) ==
    \A p \in Starts(c.units) :
        LET d == DecodeInstruction(c.units, p)
        IN  /\ p + header_units(Unit(c.units, p)) <= Len(c.units)
            /\ p + GetWidthFromBytecode(c.units, p) <= Len(c.units)
            /\ ~IsPayloadMarker(Unit(c.units, p)) =>
                 /\ ~d.bad
                 /\ RegistersAt(c.units, p) \subseteq 0..(c.regs - 1)
                 /\ IndexOk(c, d)
                 /\ TargetOk(c, p, d)

LegalTries(c) ==
    /\ c.said.ok
    /\ \A j \in DOMAIN c.said.lists :
         LET l == c.said.lists[j]
         IN  \A h \in DOMAIN l.handlers : l.handlers[h][2] < Len(c.units) /\ l.handlers[h][1] < c.ids.type
    /\ \A t \in DOMAIN c.said.tries :
         LET r == c.said.tries[t]
         IN  /\ r.start < Len(c.units) /\ r.end <= Len(c.units)
             /\ t > 1 => c.said.tries[t - 1].end <= r.start

-----------------------------------------------------------------------------
(* Properties. *)

\* The gate accepts exactly the legal code items: the registers of every
\* format, the polymorphic invoke's shifted argument list included, the id
\* tables, the targets and the try table, the leb128 forms included.  The
\* lenient pass skips the instructions and nothing else.
VerdictExact ==
    pc \in {"decode", "rejected"} =>
        (pc = "decode" <=>
            /\ code.ins <= code.regs
            /\ code.outs <= 5 \/ code.outs <= code.regs
            /\ strict => LegalInsns(code)
            /\ LegalTries(code))

\* What the strict gate accepted is built without a throw, and no instruction
\* of what is built is lost: every decoded instruction lies in exactly one
\* block, wherever the leaders fall, and the entry block holds the first.
BodyKept ==
    /\ strict => pc # "threw"
    /\ pc = "done" =>
         /\ \A i \in DOMAIN ins :
              Cardinality({b \in DOMAIN blocks : blocks[b].first # 0 /\ blocks[b].first <= i /\ i <= blocks[b].last}) = 1
         /\ ins # <<>> => blocks[entry].first = 1

\* Payload sizes come straight from the dex, and a target may name any unit:
\* parsing never reads past insns[], in the lenient mode too.
PayloadReadsInBounds ==
    pc = "done" => \A i \in DOMAIN ins : PayloadOf(code.units, ins[i]).read <= Len(code.units)

\* The first instruction at or after t, 0 for none: where control that enters
\* at t continues.
Land(t) ==
    LET at == {i \in DOMAIN ins : ins[i].off >= t}
    IN  IF t < 0 \/ at = {} THEN 0 ELSE CHOOSE i \in at : \A j \in at : i <= j
\* The cases of the payload at p, when it lies inside insns[].
CasesAt(p) ==
    LET u == code.units
        n == Unit(u, p + 1)
    IN  CASE Unit(u, p) = PackedMark -> {<<S4At(u, p + 2) + k, S4At(u, p + 4 + 2 * k)>> : k \in 0..(n - 1)}
          [] Unit(u, p) = SparseMark -> {<<S4At(u, p + 2 + 2 * k), S4At(u, p + 2 + 2 * n + 2 * k)>> : k \in 0..(n - 1)}
          [] OTHER -> {}
\* Where an instruction passes control, as <<edge kind, case key, instruction>>.
Successors(i) ==
    LET x == ins[i]
        next == Land(x.off + x.len)
        to == Land(x.off + ExtractBranchOffset(DecodeInstruction(code.units, x.off)))
        all == CASE x.op \in (14..17) \cup {39} -> {}
                 [] x.op \in 40..42 -> {<<"branch", 0, to>>}
                 [] x.op \in 50..61 -> {<<"false", 0, next>>, <<"branch", 0, to>>}
                 [] x.op \in {43, 44} ->
                      {<<"default", 0, next>>}
                      \cup {<<"case", k[1], IF x.off + k[2] < 0 THEN 0 ELSE Land(x.off + k[2])>> : k \in CasesAt(x.payload)}
                 [] OTHER -> {<<"fall", 0, next>>}
    IN  {e \in all : e[3] # 0}
\* The instruction control finds in block b or, when b has none, behind it.
FirstIn[b \in DOMAIN blocks] ==
    IF blocks[b].first # 0 THEN blocks[b].first
    ELSE IF blocks[b].childs = <<>> THEN 0 ELSE FirstIn[blocks[b].childs[1].to]
Edges(b) ==
    {e \in {<<blocks[b].childs[k].kind, blocks[b].childs[k].label, FirstIn[blocks[b].childs[k].to]>> : k \in DOMAIN blocks[b].childs} :
        e[3] # 0}
\* Handlers that begin on an instruction, and switches whose payload fits and
\* whose case targets do not wrap around 2^31 units back into insns[].
HandlersOnInsns == \A h \in HandlerOffs(tries) : \E i \in DOMAIN ins : ins[i].off = h
PayloadsFit ==
    \A i \in DOMAIN ins : IsSwitch(ins[i].op) =>
        \/ Unit(code.units, ins[i].payload) \notin {PackedMark, SparseMark}
        \/ ins[i].payload + GetWidthFromBytecode(code.units, ins[i].payload) <= Len(code.units)
CasesDoNotWrap ==
    \A i \in DOMAIN ins : IsSwitch(ins[i].op) =>
        \A k \in CasesAt(ins[i].payload) :
            LET to == ins[i].off + k[2]
            IN  Unsigned(to) < Len(code.units) => Unsigned(to) = to

\* The blocks pass control exactly as the instructions do: the edges of a block
\* are the successors of its last instruction, keys included, every other
\* instruction just precedes the next, and a target between two instructions
\* (in a payload, in the middle of an instruction) leads to the one after it.
FlowExact ==
    (pc = "done" /\ strict /\ HandlersOnInsns /\ PayloadsFit /\ CasesDoNotWrap) =>
        \A b \in DOMAIN blocks : blocks[b].first # 0 =>
            /\ Edges(b) = Successors(blocks[b].last)
            /\ \A i \in blocks[b].first..(blocks[b].last - 1) : Successors(i) = {<<"fall", 0, i + 1>>}

\* Every instruction a try range covers is in a block that lists the range's
\* clauses in order, each with the block that starts at its handler.
CoveredKeepHandlers ==
    pc = "done" =>
        \A t \in DOMAIN code.said.tries : \A b \in DOMAIN blocks :
            (\E i \in blocks[b].first..blocks[b].last :
                i # 0 /\ code.said.tries[t].start <= ins[i].off /\ ins[i].off < code.said.tries[t].end) =>
                  [h \in DOMAIN blocks[b].handlers |->
                      <<blocks[b].handlers[h][1], blocks[blocks[b].handlers[h][2]].start>>]
                  = code.said.tries[t].handlers
=============================================================================
