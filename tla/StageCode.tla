------------------------------ MODULE StageCode ------------------------------
(***************************************************************************)
(* The C++ that codegen.py makes of a function: every expression a tree of *)
(* FHE calls (fhe), calls of the cleartext reference's runtime (ref) or    *)
(* C++ operators (op), which one is decided by what the generator believes *)
(* to be encrypted.  That belief, s, goes from statement to statement:     *)
(*   enc, plain   the variables known to be ciphertexts, or not to be;     *)
(*   wires        [variable -> wire type it was loaded as];                *)
(*   types        [variable -> C++ type], where one was worth noting;      *)
(*   declared     the variables whose next let is an assignment.           *)
(* g is what does not change in a function: [ret, params, fns, consts,     *)
(* wires, twin]; twin: the cleartext reference is being generated.  A      *)
(* comprehension and a match are translated as the value of a let only,    *)
(* closures with one expression for a body.                                *)
(***************************************************************************)
EXTENDS Ast

CONSTANTS Encrypting,   \* builtins whose result is a ciphertext
          Plaintext,    \* builtins whose result is not
          Vectors       \* builtins whose result is a vector of doubles

Opaque == <<"opaque">>
Name(n) == <<n>>
NoBelief == [enc |-> {}, plain |-> {}, wires |-> <<>>, types |-> <<>>, declared |-> {}]
State(b) == IF b THEN "enc" ELSE "plain"

-----------------------------------------------------------------------------
(* Types.                                                                  *)

RECURSIVE HasEncType(_), CppType(_, _), TypeHasEnc(_, _, _)
HasEncType(t) ==
    /\ t # None
    /\ \/ t[1] = "enc"
       \/ t[1] = "vec" /\ HasEncType(t[2])
       \/ t[1] = "tuple" /\ \E k \in DOMAIN t[2] : HasEncType(t[2][k])

Slots == <<"vector", <<"prim", "f64">> >>
CppType(t, twin) ==
    IF t = None THEN <<"auto">>
    ELSE CASE t[1] = "enc" -> IF twin THEN Slots ELSE <<"ciphertext">>
           [] t[1] = "vec" -> <<"vector", CppType(t[2], twin)>>
           [] t[1] = "mat" -> <<"vector", <<"vector", CppType(t[2], twin)>> >>
           [] t[1] = "tuple" -> <<"tuple", [k \in DOMAIN t[2] |-> CppType(t[2][k], twin)]>>
           [] OTHER -> t

(* A ciphertext anywhere in a value of the type, also in a wire's field.   *)
TypeHasEnc(t, seen, g) ==
    /\ t # None
    /\ \/ t[1] = "enc"
       \/ t[1] \in {"vec", "mat"} /\ TypeHasEnc(t[2], seen, g)
       \/ t[1] = "tuple" /\ \E k \in DOMAIN t[2] : TypeHasEnc(t[2][k], seen, g)
       \/ /\ t[1] = "named" /\ t[2] \in DOMAIN g.wires \ seen
          /\ \E n \in DOMAIN g.wires[t[2]] : TypeHasEnc(g.wires[t[2]][n], seen \cup {t[2]}, g)

SignatureUsesFhe(f, g) ==
    TypeHasEnc(f.ret, {}, g) \/ \E k \in DOMAIN f.params : TypeHasEnc(f.params[k][2], {}, g)

(* What f calls, directly or not.                                          *)
RECURSIVE CalledFns(_, _)
CalledFns(fs, g) ==
    LET More(called) == IF called \subseteq fs THEN fs ELSE CalledFns(fs \cup called, g)
    IN  More(UNION {Called(g.fns[f].body) \cap DOMAIN g.fns : f \in fs})
FnUsesFhe(n, g) == \E f \in CalledFns({n}, g) : SignatureUsesFhe(g.fns[f], g)

-----------------------------------------------------------------------------
(* What is believed of an expression: enc, plain or unknown.               *)

NoWire == <<"no wire">>
LoadWireName(e) ==
    LET Of(args) == CASE args = <<>> -> NoWire
                      [] args # <<>> /\ args[1][2][1] = "id" -> args[1][2][2]
                      [] OTHER -> IF args[1][2][1] = "index" /\ args[1][2][2][1] = "id" THEN args[1][2][2][2] ELSE NoWire
    IN  IF IsCall(e) /\ Callee(e) \in {<<"load">>, <<"load_all">>} THEN Of(Positional(e)) ELSE NoWire

WireFieldState(e, s, g) ==
    LET Of(wire) == IF wire \in DOMAIN g.wires /\ e[3] \in DOMAIN g.wires[wire]
                    THEN State(HasEncType(g.wires[wire][e[3]])) ELSE "unknown"
    IN  Of(IF e[2][1] # "id" THEN LoadWireName(e[2])
           ELSE IF e[2][2] \in DOMAIN s.wires THEN s.wires[e[2][2]] ELSE NoWire)

CallState(f, g) ==
    IF f \in Encrypting THEN "enc"
    ELSE IF f \in Plaintext THEN "plain"
    ELSE IF f \in DOMAIN g.fns /\ g.fns[f].ret # None THEN State(HasEncType(g.fns[f].ret)) ELSE "unknown"

Params(n, g) == {k \in DOMAIN g.params : <<g.params[k][1]>> = n}

VariableState(n, s, g) ==
    IF n \in s.enc THEN "enc"
    ELSE IF n \in s.plain THEN "plain"
    ELSE IF Params(n, g) = {} THEN "unknown" ELSE State(\E k \in Params(n, g) : HasEncType(g.params[k][2]))

(* From annotations, builtins and earlier lets.                            *)
Joined(states) == IF "enc" \in states THEN "enc" ELSE IF states = {"plain"} THEN "plain" ELSE "unknown"
RECURSIVE StructState(_, _, _), IsEncrypted(_, _, _)
StructState(e, s, g) ==
    CASE e[1] = "lit" -> "plain"
      [] e[1] = "id" -> VariableState(e[2], s, g)
      [] IsCall(e) -> CallState(Callee(e), g)
      [] e[1] = "field" -> WireFieldState(e, s, g)
      [] e[1] \in {"index", "method"} -> StructState(e[2], s, g)
      [] e[1] = "un" -> StructState(e[3], s, g)
      [] e[1] = "bin" -> Joined({StructState(e[3], s, g), StructState(e[4], s, g)})
      [] e[1] = "pipe" -> IF IsCall(e[3]) /\ Callee(e[3]) \in Encrypting THEN "enc" ELSE StructState(e[2], s, g)
      [] OTHER -> "unknown"

(* What decides between an FHE call and an operator.                       *)
IsEncrypted(e, s, g) ==
    CASE e[1] = "id" -> VariableState(e[2], s, g) = "enc"
      [] IsCall(e) -> CallState(Callee(e), g) = "enc"
      [] e[1] = "field" -> WireFieldState(e, s, g) = "enc"
      [] e[1] = "bin" -> IsEncrypted(e[3], s, g) \/ IsEncrypted(e[4], s, g)
      [] e[1] \in {"index", "method"} -> IsEncrypted(e[2], s, g)
      [] e[1] = "pipe" -> (IsCall(e[3]) /\ Callee(e[3]) = <<"slot_sum">>) \/ IsEncrypted(e[2], s, g)
      [] OTHER -> FALSE

IsVector(e, s, g) ==
    CASE IsCall(e) -> \/ Callee(e) \in Vectors
                      \/ Callee(e) \in DOMAIN g.fns /\ CppType(g.fns[Callee(e)].ret, g.twin) = Slots
      [] e[1] = "id" -> IF e[2] \in DOMAIN s.types THEN s.types[e[2]][1] = "vector"
                        ELSE \E k \in Params(e[2], g) : /\ ~HasEncType(g.params[k][2])
                                                        /\ CppType(g.params[k][2], g.twin) = Slots
      [] OTHER -> e[1] = "array"

(* The C++ type of an expression, if it is known.                          *)
InferType(e, g) ==
    CASE e[1] = "cast" -> CppType(e[3], g.twin)
      [] e[1] = "index" /\ e[2][1] = "slice" -> Slots
      [] IsCall(e) -> IF Callee(e) \in Vectors THEN Slots
                      ELSE IF Callee(e) = <<"round">> THEN <<"prim", "f64">>
                      ELSE IF Callee(e) \notin DOMAIN g.fns THEN None
                      ELSE LET t == CppType(g.fns[Callee(e)].ret, g.twin)
                           IN  IF HasEncType(g.fns[Callee(e)].ret) \/ t[1] # "vector" THEN None ELSE t
      [] e[1] = "lit" -> <<"prim", IF e[2] = "int" THEN "i64" ELSE "f64">>
      [] OTHER -> None

-----------------------------------------------------------------------------
(* Names that are bound for a while.                                       *)

Bind(names, state, s) ==
    [s EXCEPT !.enc = IF state = "enc" THEN @ \cup names ELSE @ \ names,
              !.plain = IF state = "plain" THEN @ \cup names ELSE @ \ names]
Unbind(names, s, before) ==
    [s EXCEPT !.enc = (@ \ names) \cup (before.enc \cap names),
              !.plain = (@ \ names) \cup (before.plain \cap names)]

NamesOf(ns) == {Name(n) : n \in ToSet(ns)}

(* The variables of a loop over iter.                                      *)
IsEnumerate(e) == IsCall(e) /\ Callee(e) = <<"enumerate">>
PushLoop(names, iter, s, g) ==
    LET inner == IF iter[1] = "method" /\ iter[3] = "rev" THEN iter[2] ELSE iter
        element == CASE iter[1] = "method" /\ iter[3] = "replicate" -> "enc"
                     [] IsEnumerate(iter) -> StructState(iter[3][1][2], s, g)
                     [] OTHER -> "unknown"
    IN  IF Len(names) = 1
        THEN Bind(NamesOf(names), IF inner[1] = "range" THEN "plain" ELSE StructState(iter, s, g), s)
        ELSE Bind({Name(names[2])}, element, Bind({Name(names[1])}, "plain", s))

-----------------------------------------------------------------------------
(* Expressions.                                                            *)

FheOp == [o \in {"+", "-", "*", "*_norelin"} |->
            CASE o = "+" -> "EvalAdd" [] o = "-" -> "EvalSub" [] o = "*" -> "EvalMult" [] o = "*_norelin" -> "EvalMultNoRelin"]
RefOp == [o \in {"+", "-", "*", "*_norelin"} |-> CASE o = "+" -> "add" [] o = "-" -> "sub" [] OTHER -> "mul"]
Packed(v) == <<"packed", v>>

(* An operand: what it became, and what it is believed to be.              *)
Operand(e, code, s, g) == [code |-> code, enc |-> IsEncrypted(e, s, g), vec |-> IsVector(e, s, g)]
Lifted(x) == IF x.vec /\ ~x.enc THEN Packed(x.code) ELSE x.code

(* An operator one of whose operands is encrypted.  A vector is packed at  *)
(* the ciphertext's level first.                                           *)
EncryptedOp(op, l, r, g) ==
    CASE g.twin -> <<"ref", IF op = "+" /\ l.enc /\ r.enc THEN "nullsafe_add" ELSE RefOp[op], <<l.code, r.code>> >>
      [] ~g.twin /\ l.enc /\ r.enc /\ op = "+" -> <<"fhe", "NullSafeEvalAdd", <<l.code, r.code>> >>
      [] ~g.twin /\ l.vec /\ ~l.enc /\ op \in {"+", "*"} -> <<"fhe", FheOp[op], <<r.code, Lifted(l)>> >>
      [] OTHER -> <<"fhe", FheOp[op], <<Lifted(l), Lifted(r)>> >>

BinaryCode(op, l, r, g) ==
    IF op \in DOMAIN FheOp /\ (l.enc \/ r.enc) THEN EncryptedOp(op, l, r, g)
    ELSE IF op = "*_norelin" THEN <<"fhe", "EvalMultNoRelin", <<l.code, r.code>> >>
    ELSE <<"op", IF op = "~=" THEN "==" ELSE op, <<l.code, r.code>> >>

(* What the builtins become: what they do to a ciphertext, or to its twin. *)
BuiltinCode(f, args, g) ==
    LET Does(name, twin) == IF g.twin THEN <<"ref", twin, args>> ELSE <<"fhe", name, args>>
    IN  CASE f = <<"rotate">> -> Does("EvalRotate", "rotate")
          [] f = <<"slot_sum">> -> Does("EvalSum", "slot_sum")
          [] f = <<"negate">> -> Does("EvalNegate", "negate")
          [] f = <<"relin">> -> IF g.twin THEN args[1] ELSE <<"fhe", "Relinearize", args>>
          [] f = <<"bootstrap">> -> IF g.twin THEN args[1] ELSE <<"fhe", "EvalBootstrap", args>>
          [] f = <<"zero">> -> IF g.twin THEN <<"no slots">> ELSE <<"null">>
          [] f = <<"reduce">> ->
                IF args[1] = <<"id", <<"op", "+">> >> THEN <<"sum", IF g.twin THEN "ref" ELSE "fhe", args[2]>> ELSE Opaque
          [] f = <<"enumerate">> -> args[1]
          [] OTHER -> <<"call", f, f \in DOMAIN g.fns /\ ~g.twin /\ FnUsesFhe(f, g), args>>

(* The arguments of a call that names some: a parameter before the last    *)
(* one given takes its default.  Refused if that cannot be done.           *)
ArgumentOf(f, c, k) ==
    LET Of(given, named) == IF k <= Len(given) THEN given[k][2] ELSE IF named # <<>> THEN named[1][2] ELSE None
    IN  Of(Positional(c), NamedArg(c, f.params[k][1]))
LastGiven(f, c) ==
    CHOOSE k \in DOMAIN f.params : /\ ArgumentOf(f, c, k) # None
                                   /\ \A j \in k + 1 .. Len(f.params) : ArgumentOf(f, c, j) = None
ArgumentsFit(f, c) ==
    /\ Len(Positional(c)) <= Len(f.params)
    /\ \A a \in ToSet(c[3]) : a[1] # NoName => /\ \E k \in DOMAIN f.params : f.params[k][1] = a[1]
                                                                /\ k > Len(Positional(c))
                                               /\ Len(NamedArg(c, a[1])) = 1
    /\ \A k \in 1 .. LastGiven(f, c) : ArgumentOf(f, c, k) # None \/ f.params[k][3] # None
UserCallArgs(f, c) ==
    LET OrDefault(a, k) == IF a # None THEN a ELSE f.params[k][3]
    IN  [k \in 1 .. LastGiven(f, c) |-> OrDefault(ArgumentOf(f, c, k), k)]

(* The closure of map, zip_map and reduce sees elements of the collection. *)
ClosuresOf(c) == SelectSeq(Seconds(c[3]), LAMBDA a : a[1] = "closure")
Collection(c) == IF Callee(c) = <<"reduce">> /\ Len(c[3]) > 1 THEN c[3][2][2] ELSE c[3][1][2]
InCall(c, s, g) ==
    LET NamesIn(closures) == IF closures = <<>> THEN {} ELSE {Name(p[1]) : p \in ToSet(closures[1][2])}
        Sees(names) ==
            IF names = {} THEN s
            ELSE IF Callee(c) \in {<<"map">>, <<"zip_map">>, <<"reduce">>} THEN Bind(names, StructState(Collection(c), s, g), s)
            ELSE IF Callee(c) = <<"chebyshev">> THEN Bind(names, "plain", s) ELSE s
    IN  Sees(NamesIn(ClosuresOf(c)))

RECURSIVE ExprCode(_, _, _), ExprsCode(_, _, _)
ExprsCode(es, s, g) == IF es = <<>> THEN <<>> ELSE <<ExprCode(Head(es), s, g)>> \o ExprsCode(Tail(es), s, g)

CallCode(c, s, g) ==
    LET f == Callee(c)
        named == f \in DOMAIN g.fns /\ \E k \in DOMAIN c[3] : c[3][k][1] # NoName
    IN  IF named /\ ~ArgumentsFit(g.fns[f], c) THEN <<"refused">>
        ELSE BuiltinCode(f, ExprsCode(IF named THEN UserCallArgs(g.fns[f], c) ELSE Seconds(c[3]), s, g), g)

(* map and zip_map are loops over x, or i, in which the closure is applied *)
(* to the element.  If the collection is known to be encrypted, a closure  *)
(* that is one operator is that operation, of the element and what is on   *)
(* its right.                                                              *)
IsOperation(closure, ops) == closure[1] = "closure" /\ closure[3][1] = "bin" /\ closure[3][2] \in ops
Id(n) == <<"id", Name(n)>>
MapCode(c, s, g) ==
    LET coll == ExprCode(c[3][1][2], s, g)
        fn == c[3][2][2]
        p == fn[2][1][1]
        Loop(var, e) == <<"map", var, coll, e>>
    IN  IF fn = Id("relin") THEN Loop("ct", <<"fhe", "Relinearize", <<Id("ct")>> >>)
        ELSE IF IsOperation(fn, {"+", "-", "*"}) /\ IsEncrypted(c[3][1][2], s, g)
        THEN Loop(p, <<"fhe", FheOp[fn[3][2]], <<Id(p), ExprCode(fn[3][4], s, g)>> >>)
        ELSE Loop("x", <<"apply", ExprCode(fn, s, g), <<Id("x")>> >>)
ZipMapCode(c, s, g) ==
    LET fn == c[3][3][2]
        At(k) == <<"index", ExprCode(c[3][k][2], s, g), Id("i")>>
    IN  <<"zip", ExprCode(c[3][1][2], s, g),
          IF IsOperation(fn, {"+", "*"}) /\ IsEncrypted(c[3][1][2], s, g)
          THEN <<"fhe", FheOp[fn[3][2]], <<At(1), At(2)>> >> ELSE <<"apply", ExprCode(fn, s, g), <<At(1), At(2)>> >> >>

AnyCallCode(c, s, g) ==
    CASE Callee(c) = <<"map">> -> MapCode(c, s, g)
      [] Callee(c) = <<"zip_map">> -> ZipMapCode(c, s, g)
      [] OTHER -> CallCode(c, s, g)

(* A pipe into a user's function is a call without the crypto context.     *)
PipeCode(e, s, g) ==
    LET isCall == e[3][1] = "call"
        callee == IF isCall THEN e[3][2] ELSE e[3]
        args == <<ExprCode(e[2], s, g)>> \o IF isCall THEN ExprsCode(Seconds(e[3][3]), s, g) ELSE <<>>
    IN  IF (isCall /\ callee = Id("slot_sum")) \/ (~isCall /\ callee = Id("relin")) THEN BuiltinCode(callee[2], args, g)
        ELSE IF callee[1] = "id" THEN <<"call", callee[2], FALSE, args>> ELSE Opaque

(* The value of a block is its last expression; what comes before it in    *)
(* the block is not generated.                                             *)
BlockResult(b) ==
    IF b = None THEN None
    ELSE IF b[1] # "block" THEN b
    ELSE IF b[2] # <<>> /\ Last(b[2])[1] = "expr" THEN Last(b[2])[2] ELSE None
IfExprCode(e, s, g) ==
    LET a == BlockResult(e[3])
        b == BlockResult(e[4])
    IN  IF a = None \/ b = None THEN Opaque
        ELSE <<"cond", ExprCode(e[2], s, g), ExprCode(a, s, g), ExprCode(b, s, g)>>

ExprCode(e, s, g) ==
    CASE e[1] \in {"lit", "id"} -> e
      [] e[1] = "bin" -> BinaryCode(e[2], Operand(e[3], ExprCode(e[3], s, g), s, g), Operand(e[4], ExprCode(e[4], s, g), s, g), g)
      [] e[1] = "un" -> IF e[2] = "-" /\ IsEncrypted(e[3], s, g) THEN <<"fhe", "EvalNegate", <<ExprCode(e[3], s, g)>> >>
                        ELSE <<"op", e[2], <<ExprCode(e[3], s, g)>> >>
      [] e[1] = "cast" -> <<"cast", CppType(e[3], g.twin), ExprCode(e[2], s, g)>>
      [] e[1] = "pipe" -> PipeCode(e, s, g)
      [] IsCall(e) -> AnyCallCode(e, InCall(e, s, g), g)
      [] e[1] = "field" -> <<"field", ExprCode(e[2], s, g), e[3]>>
      [] e[1] = "index" /\ e[2][1] # "slice" -> <<"index", ExprCode(e[2], s, g), ExprCode(e[3], s, g)>>
      [] e[1] = "array" -> <<"braces", ExprsCode(e[2], s, g)>>
      [] e[1] = "closure" /\ e[3][1] # "block" ->
            <<"lambda", [k \in DOMAIN e[2] |-> e[2][k][1]], ExprCode(e[3], s, g)>>
      [] e[1] = "if expr" -> IfExprCode(e, s, g)
      [] OTHER -> Opaque

-----------------------------------------------------------------------------
(* Conditions that the constants decide: None, or a literal.               *)

ConstOf(n, g) ==
    LET cs == SelectSeq(g.consts, LAMBDA c : n \in {c[2], <<Last(c[2])>>} /\ c[4][1] = "lit" /\ c[4][2] \in {"int", "bool"})
    IN  IF cs = <<>> THEN None ELSE cs[1][4]
Truth(b) == <<"lit", "bool", IF b THEN 1 ELSE 0>>
Compared(op, a, b) ==
    CASE op = "==" -> Truth(a = b) [] op = "!=" -> Truth(a # b) [] op = "<" -> Truth(a < b)
      [] op = "<=" -> Truth(a <= b) [] op = ">" -> Truth(a > b) [] op = ">=" -> Truth(a >= b) [] OTHER -> None

RECURSIVE ConstValue(_, _)
ConstValue(e, g) ==
    LET l == ConstValue(e[3], g)
        r == ConstValue(e[4], g)
    IN  CASE e[1] = "lit" /\ e[2] \in {"int", "bool"} -> e
          [] e[1] = "id" -> ConstOf(e[2], g)
          [] e[1] = "un" /\ e[2] = "!" -> IF l = None THEN None ELSE Truth(l[3] = 0)
          [] e[1] = "bin" -> IF l = None \/ r = None THEN None
                             ELSE IF e[2] = "&&" THEN IF l[3] = 0 THEN l ELSE r
                             ELSE IF e[2] = "||" THEN IF l[3] # 0 THEN l ELSE r
                             ELSE IF l[2] # r[2] THEN None ELSE Compared(e[2], l[3], r[3])
          [] OTHER -> None

-----------------------------------------------------------------------------
(* Statements: each a sequence of C++ statements, and the belief after it. *)

Out(cs, s) == [out |-> cs, s |-> s]
Prepend(cs, r) == [r EXCEPT !.out = cs \o @]

(* The belief after a let of names.                                        *)
RecordTuple(names, e, s, g) ==
    LET ret == IF IsCall(e) /\ Callee(e) \in DOMAIN g.fns THEN g.fns[Callee(e)].ret ELSE None
        Of(b) == {Name(names[k]) : k \in {j \in DOMAIN names : names[j] # "_" /\ HasEncType(ret[2][j]) = b}}
    IN  IF ret = None \/ ret[1] # "tuple" \/ Len(ret[2]) # Len(names) THEN s
        ELSE Bind(Of(FALSE), "plain", Bind(Of(TRUE), "enc", s))
RecordLet(n, t, e, s, g) ==
    LET LoadedAs(wire) == IF wire = NoWire THEN s ELSE [s EXCEPT !.wires = (Name(n) :> wire) @@ @]
        Believed(state, b) == IF state = "unknown" THEN b ELSE Bind({Name(n)}, state, b)
    IN  Believed(IF t # None THEN State(HasEncType(t)) ELSE StructState(e, s, g), LoadedAs(LoadWireName(e)))

(* A let of a value that has become val; the second in a row assigns.      *)
LetCode(n, t, e, val, s, g) ==
    LET type == CppType(t, g.twin)
        known == IF t # None /\ ~HasEncType(t) THEN type ELSE InferType(e, g)
        typed == IF known = None THEN s ELSE [s EXCEPT !.types = (Name(n) :> known) @@ @]
    IN  IF IsCall(e) /\ Callee(e) = <<"zero">> /\ type = <<"ciphertext">> THEN Out(<< <<"decl", type, n, None>> >>, s)
        ELSE IF Name(n) \in s.declared THEN Out(<< <<"set", Id(n), val>> >>, typed)
        ELSE Out(<< <<"decl", type, n, val>> >>, [typed EXCEPT !.declared = @ \cup {Name(n)}])

LoopCode(names, iter, body, s, g) ==
    LET range == IF iter[1] = "method" /\ iter[3] = "rev" THEN iter[2] ELSE iter
        coll == IF IsEnumerate(iter) THEN iter[3][1][2] ELSE iter
    IN  IF Len(names) = 1 /\ range[1] = "range"
        THEN <<"count", names[1], ExprCode(range[3], s, g), ExprCode(range[4], s, g), range[2] = "..=" /\ range = iter, range # iter, body>>
        ELSE <<"each", names, ExprCode(coll, s, g), body>>

RECURSIVE StmtCode(_, _, _), StmtsCode(_, _, _), ArmsCode(_, _, _), IfCode(_, _, _), FoldedIfCode(_, _, _)
CodeAfter(one, ss, g) == Prepend(one.out, StmtsCode(ss, one.s, g))
StmtsCode(ss, s, g) ==
    IF ss = <<>> THEN Out(<<>>, s) ELSE CodeAfter(StmtCode(Head(ss), s, g), Tail(ss), g)

\* The bug of leaving a block's lets declared.
BugBlockCode(b, s, g) == StmtsCode(b[2], s, g)

(* A block's lets are forgotten at its end.                                *)
Forget(s, before) == [Bind(s.declared \ before.declared, "unknown", s) EXCEPT !.declared = before.declared]
BlockCode(b, s, g) == [StmtsCode(b[2], s, g) EXCEPT !.s = Forget(@, s)]

ElseCode(i, s, g) ==
    CASE i = None -> Out(<<>>, s)
      [] i # None /\ i[1] = "if" -> IfCode(i, s, g)
      [] OTHER -> BlockCode(i, s, g)
Branches(before, cond, yes, no) == Out(Append(before, <<"if", cond, yes.out, no.out>>), no.s)
IfOut(before, cond, yes, else, g) == Branches(before, cond, yes, ElseCode(else, yes.s, g))
IfCode(i, s, g) ==
    IfOut(<<>>, ExprCode(i[2], s, g), BlockCode(i[3], s, g), i[4], g)

(* Of an if that the constants decide only the block that runs is left.    *)
FoldedIfCode(i, s, g) ==
    LET Taken(branch) == IF branch = None THEN Out(<<>>, s)
                         ELSE IF branch[1] = "if" THEN FoldedIfCode(branch, s, g) ELSE BlockCode(branch, s, g)
        Decided(value) == IF value = None THEN IfCode(i, s, g) ELSE Taken(IF value[3] # 0 THEN i[3] ELSE i[4])
    IN  Decided(ConstValue(i[2], g))

ForCode(f, s, g) ==
    LET inside == PushLoop(f[2], f[3], s, g)
        Around(body) == Out(<<LoopCode(f[2], f[3], body.out, inside, g)>>, Unbind(NamesOf(f[2]), body.s, s))
    IN  Around(BlockCode(f[4], inside, g))

(* The arms of a match, a return of its value at the end of each; a return *)
(* of the program's own only in a statement.                               *)
ReturnAfter(r, e, g) == Out(Append(r.out, <<"return", ExprCode(e, r.s, g)>>), r.s)
ArmCode(body, s, g) ==
    IF body[1] = "return" THEN StmtCode(body, s, g)
    ELSE IF body[1] # "block" THEN ReturnAfter(Out(<<>>, s), body, g)
    ELSE IF BlockResult(body) = None THEN StmtsCode(body[2], s, g)
    ELSE ReturnAfter(StmtsCode(Front(body[2]), s, g), BlockResult(body), g)
ArmsCode(arms, s, g) ==
    LET After(one) == Prepend(<< <<Head(arms)[1], one.out>> >>, ArmsCode(Tail(arms), one.s, g))
    IN  IF arms = <<>> THEN Out(<<>>, s) ELSE After(ArmCode(Head(arms)[2], s, g))
MatchCode(m, s, g) ==
    LET arms == IF m[1] = "match" THEN m[3]
                ELSE [k \in DOMAIN m[3] |-> IF m[3][k][2][1] = "return" THEN <<m[3][k][1], <<"block", <<>> >> >> ELSE m[3][k]]
        Switch(r) == Out(<< <<"switch", ExprCode(m[2], s, g), r.out>> >>, r.s)
    IN  Switch(ArmsCode(arms, s, g))

(* A comprehension that ends in no loop: a vector, whose elements' type is *)
(* decided before the body's lets are known, and the loop.                 *)
ElementType(last, isRange, s, g) ==
    CASE last = None -> None
      [] last # None /\ isRange /\ last[1] = "cast" -> CppType(last[3], g.twin)
      [] OTHER -> IF IsEncrypted(last, s, g) THEN CppType(<<"enc", None>>, g.twin) ELSE None
DeclVector(n, type, last, isRange, element, s, g) ==
    CASE last = None \/ ~(isRange \/ type = <<"auto">>) -> <<"decl", type, n, None>>
      [] last # None /\ element # None /\ (isRange \/ type = <<"auto">>) -> <<"decl", <<"vector", element>>, n, None>>
      [] OTHER -> IF isRange THEN <<"decltype", n, ExprCode(last, s, g)>>
                  ELSE <<"decl", <<"vector", <<"prim", "i32">> >>, n, None>>
ForExprCode(n, type, f, s, g) ==
    LET isRange == f[3][1] = "range"
        loop == <<f[2][1]>>
        Push(last, r) == IF last = None THEN r.out ELSE Append(r.out, <<"push", n, ExprCode(last, r.s, g)>>)
        Around(body, b) == IF isRange THEN LoopCode(loop, f[3], body, b, g) ELSE <<"each", loop, ExprCode(f[3], b, g), body>>
        Coded(last, r, b) ==
            Out(<<DeclVector(n, type, last, isRange, ElementType(last, isRange, b, g), b, g), Around(Push(last, r), b)>>,
                Unbind(NamesOf(f[2]), r.s, s))
        Inside(last, b) == Coded(last, StmtsCode(IF last = None THEN f[4][2] ELSE Front(f[4][2]), b, g), b)
    IN  Inside(BlockResult(f[4]), PushLoop(f[2], f[3], s, g))

(* An if expression for a let: a conditional expression where both blocks  *)
(* have a value, else an if statement in which neither gives one.          *)
IfLetCode(n, type, i, s, g) ==
    LET else == IF i[4][1] = "block" THEN i[4] ELSE None
        Decl(code) == IF code # Opaque THEN Out(<< <<"decl", <<"auto">>, n, code>> >>, s)
                      ELSE IfOut(<< <<"decl", type, n, None>> >>, ExprCode(i[2], s, g), BlockCode(i[3], s, g), else, g)
    IN  Decl(IfExprCode(i, s, g))

LetStmtCode(n, t, e, s, g) ==
    LET Run(m) == LetCode(n, t, e, <<"run", m.out>>, m.s, g)
    IN  CASE e[1] = "for expr" -> ForExprCode(n, CppType(t, g.twin), e, s, g)
          [] e[1] = "if expr" -> IfLetCode(n, CppType(t, g.twin), e, s, g)
          [] e[1] = "match expr" -> Run(MatchCode(e, s, g))
          [] OTHER -> LetCode(n, t, e, ExprCode(e, s, g), s, g)

(* Several names: of an if expression with lists for values one condition  *)
(* each, else a structured binding.                                        *)
TupleCode(names, e, s, g) ==
    LET a == BlockResult(e[3])
        b == BlockResult(e[4])
        At(l, k) == IF l[1] = "array" /\ k <= Len(l[2]) THEN ExprCode(l[2][k], s, g) ELSE <<"lit", "int", 0>>
    IN  IF e[1] = "if expr" /\ a # None /\ b # None /\ a[1] = "array"
        THEN [k \in DOMAIN names |-> <<"decl", <<"auto">>, names[k], <<"cond", ExprCode(e[2], s, g), At(a, k), At(b, k)>> >>]
        ELSE << <<"bind", names, ExprCode(e, s, g)>> >>

(* return (a, b) makes the pair that the function's type asks for.         *)
ReturnCode(e, s, g) ==
    IF e = None THEN <<"return", None>>
    ELSE LET c == ExprCode(e, s, g)
             pair == c[1] = "braces" /\ g.ret # None /\ g.ret[1] = "tuple" /\ Len(g.ret[2]) = Len(c[2])
         IN  IF pair THEN <<"return", <<"tuple", c[2]>> >> ELSE <<"return", c>>

StmtCode(st, s, g) ==
    CASE st[1] = "let" -> LetStmtCode(st[2], st[3], st[4], RecordLet(st[2], st[3], st[4], s, g), g)
      [] st[1] = "let tuple" -> LET r == RecordTuple(st[2], st[3], s, g) IN Out(TupleCode(st[2], st[3], r, g), r)
      [] st[1] = "assign" -> Out(<< <<"set", ExprCode(st[2], s, g), ExprCode(st[3], s, g)>> >>, s)
      [] st[1] = "return" -> Out(<<ReturnCode(st[2], s, g)>>, s)
      [] st[1] = "assert" -> Out(<< <<"assert", ExprCode(st[2], s, g)>> >>, s)
      [] st[1] = "if" -> FoldedIfCode(st, s, g)
      [] st[1] = "for" -> ForCode(st, s, g)
      [] st[1] = "match" -> MatchCode(st, s, g)
      [] st[1] = "expr" -> Out(<< <<"do", ExprCode(st[2], s, g)>> >>, s)

-----------------------------------------------------------------------------
(* Functions.  One with a value returns its last expression.               *)

Returns(ss) == \E k \in DOMAIN ss : ss[k][1] = "return" /\ ss[k][2] # None
ReturnType(f, g) ==
    IF f.ret # None THEN CppType(f.ret, g.twin)
    ELSE IF Returns(f.body[2]) \/ \E st \in ToSet(f.body[2]) : st[1] = "if" /\ Returns(st[3][2])
    THEN <<"auto">> ELSE <<"void">>

Closed(r, result, g) == IF result = None THEN r.out ELSE ReturnAfter(r, result, g).out
FnCode(f, g) ==
    LET result == IF ReturnType(f, g) = <<"void">> THEN None ELSE BlockResult(f.body)
    IN  Closed(StmtsCode(IF result = None THEN f.body[2] ELSE Front(f.body[2]), NoBelief, g), result, g)

(* The header's view of a function: its parameters' types and defaults.    *)
Setting(f, items, twin) ==
    LET Of(tag) == SelectSeq(items, LAMBDA i : i[1] = tag)
        fns == Of("fn")
        wires == Of("wire")
    IN  [ret |-> f.ret, params |-> f.params, twin |-> twin, consts |-> Of("const"),
         fns |-> [n \in {fns[k][2].name : k \in DOMAIN fns} |-> (CHOOSE h \in ToSet(fns) : h[2].name = n)[2]],
         wires |-> [n \in {wires[k][2] : k \in DOMAIN wires} |->
                      LET w == CHOOSE v \in ToSet(wires) : v[2] = n
                      IN  [m \in {w[3][k][1] : k \in DOMAIN w[3]} |-> (CHOOSE x \in ToSet(w[3]) : x[1] = m)[2]]]]
=============================================================================
