----------------------------- MODULE DalvikFlow -----------------------------
(***************************************************************************)
(* What a method does, twice over: the Dalvik instructions by the meaning   *)
(* the bytecode gives them, and the intermediate representation by the      *)
(* meaning of the Java it prints.  Both are run symbolically along a path   *)
(* of the graph and leave a trace of what can be observed: calls, stores,   *)
(* tests, returns, each with the terms it works on.  A read of memory is a  *)
(* term of its operands, so a read that moves past a store is not seen.     *)
(* A handler starts from the state at the end of the block that threw.      *)
(***************************************************************************)
EXTENDS DadDataflow

T(tag, op, k, args) == [tag |-> tag, op |-> op, k |-> k, args |-> args]
Undef == T("undef", "", 0, <<>>)
Read(env, k) == IF k \in DOMAIN env THEN env[k] ELSE Undef

\* x - k and x + (-k) are one term.
Arith(op, x, y) ==
    IF op = "sub" /\ y.tag = "c" /\ y.op = "" THEN T("bin", "add", 0, <<x, [y EXCEPT !.k = -@]>>)
    ELSE T("bin", op, 0, <<x, y>>)

-----------------------------------------------------------------------------
(* Dalvik. *)

DalvikOps == <<"add", "sub", "mul", "div", "rem", "and", "or", "xor", "shl", "shr", "ushr">>
DalvikOp(n) == CASE n \in 1..11 -> DalvikOps[n] [] n \in 12..22 -> DalvikOps[n - 11]
                 [] n \in 23..27 -> DalvikOps[n - 22] [] n \in 28..32 -> DalvikOps[n - 27]
DalvikConst(d) ==
    LET short == ((d.B + 32768) % 65536) - 32768
    IN  CASE d.op = 18 -> T("c", "", ((d.B + 8) % 16) - 8, <<>>)
          [] d.op \in {19, 22} -> T("c", "", short, <<>>)
          [] d.op \in {20, 23, 24} -> T("c", "", d.B, <<>>)
          [] d.op = 21 -> T("c", "", short * 65536, <<>>)
          [] d.op = 25 -> T("c", "<<48", short, <<>>)

\* The registers an invoke names, and the first register of each argument.
InvokeRegsOf(d) ==
    CASE d.op \in (116..120) \cup {251, 253} -> [i \in 1..d.A |-> d.C + i - 1]
      [] d.op = 250 -> SubSeq(<<d.C>> \o d.args, 1, d.A)
      [] OTHER -> SubSeq(d.args, 1, d.A)
RECURSIVE ArgRegs(_, _)
ArgRegs(ps, regs) ==
    IF ps = <<>> THEN <<>>
    ELSE LET wide == Head(ps) \in {"J", "D"}
         IN  <<Head(regs)>> \o ArgRegs(Tail(ps), IF wide THEN Tail(Tail(regs)) ELSE Tail(regs))

DalvikCall(s, d) ==
    LET regs == InvokeRegsOf(d)
        class(c) == <<T("class", c, 0, <<>>)>>
        kind == CASE d.op \in {111, 117} -> "super" [] d.op \in {113, 119} -> "static"
                  [] d.op \in {252, 253} -> "custom" [] OTHER -> "instance"
        base == CASE kind = "super" -> class("super") [] kind = "static" -> class(d.ref.cls)
                  [] kind = "custom" -> class(d.ref.name) [] kind = "instance" -> <<Read(s.env, regs[1])>>
        own == ArgRegs(d.ref.ps, IF kind \in {"static", "custom"} THEN regs ELSE Tail(regs))
        call == T("call", d.ref.name, d.at, base \o [i \in 1..Len(own) |-> Read(s.env, own[i])])
    IN  [s EXCEPT !.ev = Append(@, call), !.res = call]

\* One instruction: registers, the last result, the trace.
DalvikStep(s, d) ==
    LET k == KindOf(d.op)
        r(x) == Read(s.env, x)
        set(v) == [s EXCEPT !.env = (d.A :> v) @@ @]
        do(tag, op, args) == [s EXCEPT !.ev = Append(@, T(tag, op, d.at, args))]
        tests == <<"==", "!=", "<", ">=", ">", "<=">>
        filled == T("filled", d.ref.t, d.at, [i \in 1..d.A |-> r(InvokeRegsOf(d)[i])])
    IN  CASE k = "move" -> set(r(d.B))
          [] k = "moveresult" -> set(s.res)
          [] k = "mex" -> set(T("exc", "", d.at, <<>>))
          [] k = "return" -> do("return", "", IF d.op = 14 THEN <<>> ELSE <<r(d.A)>>)
          [] k = "const" -> set(DalvikConst(d))
          [] k = "string" -> set(T("s", d.ref.name, 1, <<>>))
          [] k = "class" -> set(T("s", d.ref.t, 1, <<>>))
          [] k = "checkcast" -> set(T("checkcast", d.ref.t, 0, <<r(d.A)>>))
          [] k = "instanceof" -> set(T("bin", "instanceof", 0, <<r(d.B), T("class", d.ref.t, 0, <<>>)>>))
          [] k = "alen" -> set(T("alen", "", 0, <<r(d.B)>>))
          [] k = "new" -> set(T("new", d.ref.t, d.at, <<>>))
          [] k = "newarr" -> set(T("newarr", d.ref.t, d.at, <<r(d.B)>>))
          [] k = "filled" -> [s EXCEPT !.res = filled]
          [] k = "fill" -> do("fillarr", "", <<r(d.A)>>)
          [] k = "throw" -> do("ref", "throw", <<r(d.A)>>)
          [] k = "switch" -> do("switch", "", <<r(d.A)>>)
          [] k = "cmp" -> set(T("bin", "cmp", 0, <<r(d.B), r(d.C)>>))
          [] k = "if" -> do("cond", tests[d.op - 49], <<r(d.A), r(d.B)>>)
          [] k = "ifz" -> do("condz", tests[d.op - 55], <<r(d.A)>>)
          [] k = "aget" -> set(T("aget", "", 0, <<r(d.B), r(d.C)>>))
          [] k = "aput" -> do("aput", "", <<r(d.B), r(d.C), r(d.A)>>)
          [] k = "iget" -> set(T("iget", d.ref.name, 0, <<r(d.B)>>))
          [] k = "iput" -> do("iput", d.ref.name, <<r(d.B), r(d.A)>>)
          [] k = "sget" -> set(T("sget", d.ref.name, 0, <<>>))
          [] k = "sput" -> do("sput", d.ref.name, <<r(d.A)>>)
          [] k \in {"invoke", "custom"} -> DalvikCall(s, d)
          [] k = "unary" -> set(T("unary", IF d.op \in {124, 126} THEN "not" ELSE "neg", 0, <<r(d.B)>>))
          [] k = "cast" -> set(T("cast", <<"J", "F", "D", "I", "F", "D", "I", "J", "D", "I", "J", "F",
                                           "B", "C", "S">>[d.op - 128], 0, <<r(d.B)>>))
          [] k = "arith" -> set(Arith(DalvikOp(d.op - 143), r(d.B), r(d.C)))
          [] k = "arith2" -> set(Arith(DalvikOp(d.op - 175), r(d.A), r(d.B)))
          [] k = "lit" ->
               LET c == T("c", "", d.C, <<>>)
                   n == IF d.op < 216 THEN d.op - 207 ELSE d.op - 215
               IN  set(IF n = 2 THEN Arith("sub", c, r(d.B)) ELSE Arith(DalvikOps[n], r(d.B), c))
          [] OTHER -> s

-----------------------------------------------------------------------------
(* The intermediate representation. *)

JavaOp(op) ==
    CASE op = "+" -> "add" [] op = "-" -> "sub" [] op = "*" -> "mul" [] op = "/" -> "div" [] op = "%" -> "rem"
      [] op = "&" -> "and" [] op = "|" -> "or" [] op = "^" -> "xor" [] op = "<<" -> "shl" [] op = ">>" -> "shr"
      [] OTHER -> op

RECURSIVE EvalIr(_, _)
\* The value of an expression and the calls its evaluation makes, the operands
\* from left to right.
EvalIr(n, env) ==
    LET sub == Table([i \in 1..Len(n.a) |-> EvalIr(n.m[n.a[i]], env)])
        vals == [i \in 1..Len(n.a) |-> sub[i].val]
        evs == FlattenSeq([i \in 1..Len(n.a) |-> sub[i].ev])
        pure(v) == [val |-> v, ev |-> evs]
        call == T("call", n.x.op, n.x.k, vals)
    IN  CASE IsIdent(n) -> pure(Read(env, n.v))
          [] n.c = "const" -> pure(T(IF n.v[1] = "s" THEN "s" ELSE "c", n.x.op, n.x.k, <<>>))
          [] n.c = "base" -> pure(T("class", n.x.op, 0, <<>>))
          [] n.c = "invoke" -> [val |-> IF n.t = "V" THEN vals[1] ELSE call, ev |-> Append(evs, call)]
          [] n.c = "bin" -> pure(Arith(JavaOp(n.x.op), vals[1], vals[2]))
          [] OTHER -> pure(T(n.c, n.x.op, n.x.k, vals))

JavaStep(s, n) ==
    LET e == EvalIr(n, s.env)
        rhs == EvalIr(Rhs(n), s.env)
        set(v, ev) == [s EXCEPT !.env = IF n.lhs = NoKey THEN @ ELSE (n.lhs :> v) @@ @, !.ev = @ \o ev]
    IN  CASE n.c = "nop" -> s
          [] HasRhs(n) -> set(rhs.val, rhs.ev)
          [] n.c = "mex" -> set(T("exc", "", n.x.k, <<>>), <<>>)
          [] OTHER -> [s EXCEPT !.ev = @ \o Append(e.ev, e.val)]

-----------------------------------------------------------------------------
(* Paths. *)

RECURSIVE PathsFrom(_, _, _)
\* The ways through the graph that pass no node more than twice.
PathsFrom(g, path, n) ==
    LET p == Append(path, n)
        often(x) == Cardinality({i \in 1..Len(p) : p[i] = x})
        next == {s \in ToSet(all_sucs(g, n)) : often(s) < 2}
    IN  IF sucs(g, n) = <<>> THEN {p} \cup UNION {PathsFrom(g, p, s) : s \in next}
        ELSE UNION {PathsFrom(g, p, s) : s \in next}
Paths(g) == PathsFrom(g, <<>>, g.entry)

ParamTerm(i) == T("param", "", i, <<>>)
DalvikTrace(meth, walk, path) ==
    LET ps == ParamRegs(meth)
        env == [r \in {ps[i].reg : i \in 1..Len(ps)} |->
                  ParamTerm(CHOOSE i \in 1..Len(ps) : ps[i].reg = r)]
        code == FlattenSeq([i \in 1..Len(path) |-> meth.blocks[walk[path[i]]].code])
    IN  FoldLeft(DalvikStep, [env |-> env, res |-> Undef, ev |-> <<>>], code).ev
JavaTrace(m, path) ==
    LET env == [k \in ToSet(m.params) |-> ParamTerm(CHOOSE i \in 1..Len(m.params) : m.params[i] = k)]
        code(n) == [i \in 1..Len(LocsOf(m, n)) |-> m.ir[LocsOf(m, n)[i]]]
    IN  FoldLeft(JavaStep, [env |-> env, ev |-> <<>>],
                 FlattenSeq([i \in 1..Len(path) |-> code(path[i])])).ev
=============================================================================
