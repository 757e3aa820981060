------------------------------- MODULE DadIr -------------------------------
(***************************************************************************)
(* The intermediate representation of the decompiler                       *)
(* (native/dad_cpp/instruction.cpp and instruction.h): expressions that    *)
(* keep their operands in a var_map, and the substitution that rewrites     *)
(* them.                                                                   *)
(*                                                                         *)
(* A key is what Vid() returns: a register, the result of a call, a        *)
(* constant, a class.  A node is a record: `c` the C++ class, `v` its key, *)
(* `lhs` the register it defines, `a` the keys of its operands in order,   *)
(* `m` the var_map, `how` the family of its replace(), `x` the operator or  *)
(* member with a number (a value, or the instruction it was built from),    *)
(* `t` the type it carries.  The code shares a node between its users only  *)
(* when the node is a leaf, so nodes are values here.  What a class prints  *)
(* is left out; each class is one definition that fixes its family, its     *)
(* operands and their order.                                               *)
(***************************************************************************)
EXTENDS Integers, Sequences, SequencesExt, TLC

V(r) == <<"v", r>>
Tmp(n) == <<"tmp", n>>
NoKey == <<"none", 0>>
RhsKey == <<"rhs", 0>>

\* IRForm: no operands, no register.
IRForm ==
    [c |-> "nop", v |-> NoKey, lhs |-> NoKey, a |-> <<>>, m |-> <<>>,
     how |-> "none", x |-> [op |-> "", k |-> 0], t |-> ""]
NopExpression == IRForm

\* The operands' keys, and the map from each key to its node.
Form(c, how, ops, op, k, t) ==
    LET at(key) == CHOOSE i \in 1..Len(ops) : ops[i].v = key
    IN  [IRForm EXCEPT !.c = c, !.how = how, !.t = t,
                       !.x = [op |-> op, k |-> k],
                       !.a = [i \in 1..Len(ops) |-> ops[i].v],
                       !.m = [key \in {ops[i].v : i \in 1..Len(ops)} |-> ops[at(key)]]]

-----------------------------------------------------------------------------
(* Leaves. *)

Constant(n, type) == [IRForm EXCEPT !.c = "const", !.v = <<"c", n>>, !.x.k = n, !.t = type]
TextConstant(s, type) == [IRForm EXCEPT !.c = "const", !.v = <<"s", s>>, !.x.op = s, !.x.k = 1, !.t = type]
BaseClass(name) == [IRForm EXCEPT !.c = "base", !.v = <<"k", name>>, !.x.op = name]
Variable(key) == [IRForm EXCEPT !.c = "var", !.v = key]
Param(key) == [IRForm EXCEPT !.c = "param", !.v = key]
ThisParam(key) == [IRForm EXCEPT !.c = "this", !.v = key]

-----------------------------------------------------------------------------
(* Statements and expressions, one definition per class.  "many": replace() *)
(* looks the register up among several operands.  "one": it rewrites the    *)
(* only operand whatever its name.  "named": the only operand, if the       *)
(* register is the one it holds.                                           *)

AssignExpression(lhs, rhs) ==
    [IRForm EXCEPT !.c = "assign", !.how = "rhs", !.lhs = lhs, !.a = <<RhsKey>>, !.m = RhsKey :> rhs]
MoveExpression(lhs, rhs) == [Form("move", "one", <<rhs>>, "", 0, "") EXCEPT !.lhs = lhs]
MoveResultExpression(lhs, rhs) == [Form("moveres", "one", <<rhs>>, "", 0, "") EXCEPT !.lhs = lhs]
MoveExceptionExpression(ref, k, type) ==
    [Form("mex", "one", <<>>, "", k, type) EXCEPT !.lhs = ref.v]

ArrayStoreInstruction(rhs, array, index, k) == Form("aput", "many", <<array, index, rhs>>, "", k, "")
StaticInstruction(rhs, field, k) == Form("sput", "one", <<rhs>>, field, k, "")
InstanceInstruction(rhs, lhs, field, k) == Form("iput", "many", <<lhs, rhs>>, field, k, "")
ReturnInstruction(arg, k) == Form("return", "one", arg, "", k, "")
SwitchExpression(src, k) == Form("switch", "one", <<src>>, "", k, "")
RefExpression(ref, op, k) == Form("ref", "one", <<ref>>, op, k, "")
ThrowExpression(ref, k) == RefExpression(ref, "throw", k)
FillArrayExpression(reg, k) == Form("fillarr", "one", <<reg>>, "", k, "")
ConditionalExpression(op, arg1, arg2, k) == Form("cond", "many", <<arg1, arg2>>, op, k, "")
ConditionalZExpression(op, arg, k) == Form("condz", "named", <<arg>>, op, k, "")

NewInstance(type, k) == Form("new", "none", <<>>, type, k, type)
\* The base is operand 1; a static call's base is a BaseClass.
InvokeInstruction(name, base, args, k, rtype) == Form("invoke", "many", <<base>> \o args, name, k, rtype)
\* The receiver is the first of the arguments.
InvokeRangeInstruction(name, args, k, rtype) == InvokeInstruction(name, Head(args), Tail(args), k, rtype)
CheckCastExpression(arg, type) == Form("checkcast", "one", <<arg>>, type, 0, type)
ArrayLoadExpression(array, index) == Form("aget", "many", <<array, index>>, "", 0, "")
ArrayLengthExpression(array) == Form("alen", "one", <<array>>, "", 0, "I")
NewArrayExpression(size, type, k) == Form("newarr", "one", <<size>>, type, k, type)
FilledArrayExpression(args, type, k) == Form("filled", "many", args, type, k, type)
BinaryExpression(op, arg1, arg2, type) == Form("bin", "many", <<arg1, arg2>>, op, 0, type)
UnaryExpression(op, arg, type) == Form("unary", "named", <<arg>>, op, 0, type)
CastExpression(op, arg, type) == Form("cast", "named", <<arg>>, op, 0, type)
InstanceExpression(arg, field, type) == Form("iget", "named", <<arg>>, field, 0, type)
StaticExpression(field, type) == Form("sget", "none", <<>>, field, 0, type)

-----------------------------------------------------------------------------
(* Queries. *)

Operand(n, i) == n.m[n.a[i]]
\* get_rhs(): what an assignment or a move assigns; nothing for the others.
HasRhs(n) == n.c \in {"assign", "move", "moveres"}
Rhs(n) == Operand(n, 1)

IsIdent(n) == n.c \in {"var", "param", "this"}
RECURSIVE IsConst(_)
IsConst(n) ==
    \/ n.c \in {"const", "base", "param", "this"}
    \/ n.c \in {"checkcast", "cast"} /\ IsConst(Operand(n, 1))
IsLeaf(n) == IsIdent(n) \/ IsConst(n)
RECURSIVE IsCall(_)
IsCall(n) == n.c = "invoke" \/ (HasRhs(n) /\ IsCall(Rhs(n)))
RECURSIVE IsPropagable(_)
IsPropagable(n) ==
    /\ n.c \notin {"newarr", "fillarr", "ref", "mex"}
    /\ n.c \in {"assign", "moveres"} => IsPropagable(Rhs(n))
RECURSIVE HasSideEffect(_)
HasSideEffect(n) ==
    \/ n.c \in {"invoke", "aput", "sput", "iput", "mex"}
    \/ n.c \in {"assign", "moveres"} /\ HasSideEffect(Rhs(n))
    \/ n.c = "bin" /\ (HasSideEffect(Operand(n, 1)) \/ HasSideEffect(Operand(n, 2)))

\* get_used_vars(): the registers of the operands, in order, without repeats;
\* a call names its receiver last.
RECURSIVE UsedVars(_)
UsedVars(n) ==
    LET order == IF n.c = "invoke" THEN Append(Tail(n.a), Head(n.a)) ELSE n.a
        all == FlattenSeq([i \in 1..Len(order) |-> UsedVars(n.m[order[i]])])
    IN  IF IsIdent(n) THEN <<n.v>> ELSE FoldLeft(LAMBDA s, k : IF Contains(s, k) THEN s ELSE Append(s, k), <<>>, all)

\* get_type(): a register's type is its Variable's, kept in ty; "" until set.
RECURSIVE TypeOf(_, _)
TypeOf(n, ty) ==
    CASE IsIdent(n) -> IF n.v \in DOMAIN ty THEN ty[n.v] ELSE ""
      [] n.c = "invoke" /\ n.x.op = "<init>" -> TypeOf(Operand(n, 1), ty)
      [] n.c = "aget" -> LET at == TypeOf(Operand(n, 1), ty) IN IF at = "[A" THEN "A" ELSE at
      [] n.c = "unary" -> TypeOf(Operand(n, 1), ty)
      [] OTHER -> n.t

-----------------------------------------------------------------------------
(* Rewriting. *)

Rename(a, old, new) == [i \in 1..Len(a) |-> IF a[i] = old THEN new ELSE a[i]]
Bind(n, key, node) == [n EXCEPT !.m = (key :> node) @@ @]

\* replace() of an operand that is a leaf: an identifier takes the operand's
\* place under its own key, anything else is filed under the old key.
\* ArrayStoreInstruction renames the array when the index matches.
ReplaceLeaf(n, old, new) ==
    IF ~IsIdent(new) THEN Bind(n, old, new)
    ELSE [Bind(n, new.v, new) EXCEPT !.a =
            CASE n.how = "many" /\ n.c = "aput" ->
                   <<IF old \in {@[1], @[2]} THEN new.v ELSE @[1], @[2],
                     IF @[3] = old THEN new.v ELSE @[3]>>
              [] n.how = "many" /\ n.c # "aput" -> Rename(@, old, new.v)
              [] OTHER -> <<new.v>>]

RECURSIVE Replace(_, _, _)
Replace(n, old, new) ==
    LET deep(k) == ~IsLeaf(n.m[k])
        into(ks) == [n EXCEPT !.m = [k \in DOMAIN @ |->
                        IF k \in ks /\ deep(k) THEN Replace(@[k], old, new) ELSE @[k]]]
    IN  CASE n.how = "none" -> n
          [] n.how = "rhs" -> [n EXCEPT !.m[RhsKey] = Replace(@, old, new)]
          [] n.how = "many" ->
               IF old \in DOMAIN n.m
                 THEN IF deep(old) THEN into({old}) ELSE ReplaceLeaf(n, old, new)
                 ELSE into(Range(n.a))
          [] n.how \in {"one", "named"} ->
               IF n.a = <<>> THEN n
               ELSE IF deep(n.a[1]) THEN into({n.a[1]})
               ELSE IF n.how = "one" \/ old \in DOMAIN n.m THEN ReplaceLeaf(n, old, new)
               ELSE n

\* replace_var(): rename a direct operand.
ReplaceVar(n, old, new) ==
    LET renamed(e) ==
            IF e.a = <<>> THEN e
            ELSE [e EXCEPT !.a = IF e.how = "many" THEN Rename(@, old, new.v) ELSE <<new.v>>,
                           !.m = (new.v :> new) @@ [k \in DOMAIN @ \ {old} |-> @[k]]]
    IN  IF n.how = "rhs" THEN [n EXCEPT !.m[RhsKey] = renamed(@)] ELSE renamed(n)
ReplaceLhs(n, new) == [n EXCEPT !.lhs = new.v]
\* remove_defined_var(): only an AssignExpression forgets its register.
RemoveDefinedVar(n) == IF n.c = "assign" THEN [n EXCEPT !.lhs = NoKey] ELSE n
=============================================================================
