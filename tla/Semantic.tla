------------------------------ MODULE Semantic -------------------------------
(***************************************************************************)
(* The semantic analyzer of the nb compiler, semantic.py and nb_types.py.  *)
(* Trees are those of Parser, but a literal is <<"lit", kind, value>>.     *)
(* A program is a sequence of items, its references resolved:              *)
(*   <<"enum", name, variants>>       names of the variants                *)
(*   <<"struct" | "wire", name, fields>>   fields: <<name, type>>          *)
(*   <<"const", name, type, value>>                                        *)
(*   <<"scheme", config>>             the fields that matter, as a record  *)
(*   <<"fn", f>>, f a record: name; params <<name, type, default>>; ret;   *)
(*      body; of its annotations sides (client, server), encryptors and    *)
(*      stage (NoName without them); io, its clauses                       *)
(* A type keeps its kind, depth and whether it is encrypted, and for a     *)
(* function what it returns, for a struct its fields: nothing else about   *)
(* it decides anything.  An analyzer is a record, passed on from step to   *)
(* step; its t is the type of the last expression.  A constant's value is  *)
(* <<kind, value>>, or None.                                               *)
(***************************************************************************)
EXTENDS Ast
CONSTANTS
    Builtins,           \* [name -> [returns: type kind, opaque: BOOLEAN]]
    ClientOnly,         \* CLIENT_ONLY_FNS
    Keys,               \* the types of keys that every program knows
    FitError(_, _),     \* how badly a degree approximates a closure's values
    MaxCallDepth,       \* of chebfit.py
    MathFns             \* names that take one argument

-----------------------------------------------------------------------------
(* chebfit.py: evaluating the closure of a chebyshev() call while the      *)
(* program is compiled, and choosing the degree of its approximation.      *)
(* Numbers are integers, a quotient is rounded down; how well a degree     *)
(* approximates a function is numerics and a parameter of SelectDegree.    *)
(* A value is [how |-> "value", v]; the other outcomes are the exceptions: *)
(* Unevaluable, an arithmetic one, and any other, which nobody catches.    *)

Degrees == <<5, 13, 27, 59, 119, 247, 495, 1007, 2031>>

Val(v) == [how |-> "value", v |-> v]
Unevaluable == [how |-> "unevaluable", v |-> 0]
Arithmetic == [how |-> "arithmetic", v |-> 0]
Uncaught == [how |-> "uncaught", v |-> 0]

Apply(op, l, r) ==
    CASE op = "+" -> Val(l + r)
      [] op = "-" -> Val(l - r)
      [] op \in {"*", "*_norelin"} -> Val(l * r)
      [] op = "/" -> IF r = 0 THEN Arithmetic ELSE Val(l \div r)
      [] op = "^" -> IF l = 0 /\ r < 0 THEN Arithmetic
                     ELSE IF r < 0 THEN Val(1 \div l ^ (-r)) ELSE Val(l ^ r)
      [] OTHER -> Unevaluable

(* What a function of the mathematical library gives; only abs() is exact. *)
MathValue(name, v) == IF name = <<"abs">> /\ v < 0 THEN -v ELSE v

-----------------------------------------------------------------------------
(* ClosureEvaluator: x is [consts, fns], a function [params, body].        *)

RECURSIVE Eval(_, _, _, _), EvalArgs(_, _, _, _, _), EvalBody(_, _, _, _), EvalBlock(_, _, _, _)

(* The values of the positional arguments, or the first exception.         *)
EvalArgs(as, env, depth, x, vs) ==
    IF as = <<>> THEN [how |-> "value", vs |-> vs]
    ELSE LET Then(v) == IF v.how # "value" THEN [how |-> v.how, vs |-> vs]
                        ELSE EvalArgs(Tail(as), env, depth, x, Append(vs, v.v))
         IN  Then(Eval(Head(as)[2], env, depth, x))

\* The bug of letting the called function see the caller's bindings.
BugEnter(fn, vs, env) == [p \in ToSet(fn.params) |-> vs[CHOOSE k \in DOMAIN vs : fn.params[k] = p]] @@ env

(* The bindings a called function starts with: its parameters.             *)
Enter(fn, vs, env) == [p \in ToSet(fn.params) |-> vs[CHOOSE k \in DOMAIN vs : fn.params[k] = p]]

EvalApplied(f, args, env, depth, x) ==
    CASE args.how # "value" -> [how |-> args.how, v |-> 0]
      [] args.how = "value" /\ f \in MathFns ->
            IF Len(args.vs) = 1 THEN Val(MathValue(f, args.vs[1])) ELSE Uncaught
      [] OTHER ->
            IF /\ f \in DOMAIN x.fns
               /\ depth < MaxCallDepth
               /\ Len(args.vs) = Len(x.fns[f].params)
            THEN EvalBody(x.fns[f].body, Enter(x.fns[f], args.vs, env), depth + 1, x)
            ELSE Unevaluable
EvalCall(c, env, depth, x) == EvalApplied(Callee(c), EvalArgs(Positional(c), env, depth, x, <<>>), env, depth, x)

EvalOp(op, l, r) ==
    IF l.how # "value" THEN l ELSE IF r.how # "value" THEN r ELSE Apply(op, l.v, r.v)
EvalBinary(e, env, depth, x) == EvalOp(e[2], Eval(e[3], env, depth, x), Eval(e[4], env, depth, x))

Eval(e, env, depth, x) ==
    CASE e # None /\ e[1] = "lit" -> IF e[2] \in {"int", "float"} THEN Val(e[3]) ELSE Unevaluable
      [] e # None /\ e[1] = "id" -> IF e[2] \in DOMAIN env THEN Val(env[e[2]])
                         ELSE IF e[2] \in DOMAIN x.consts THEN Val(x.consts[e[2]]) ELSE Unevaluable
      [] e # None /\ e[1] = "un" ->
            LET v == Eval(e[3], env, depth, x)
            IN  IF v.how # "value" THEN v ELSE IF e[2] = "-" THEN Val(-v.v) ELSE Unevaluable
      [] e # None /\ e[1] = "bin" -> EvalBinary(e, env, depth, x)
      [] e # None /\ IsCall(e) -> EvalCall(e, env, depth, x)
      [] OTHER -> Unevaluable

(* let bindings up to a return or an expression.  A let of several names   *)
(* binds the empty name.                                                   *)
EvalBlock(ss, env, depth, x) ==
    IF ss = <<>> THEN Unevaluable
    ELSE LET s == Head(ss)
             name == IF s[1] = "let" THEN <<s[2]>> ELSE <<NoName>>
             Then(value) == IF value.how # "value" \/ s[1] \in {"return", "expr"} THEN value
                            ELSE EvalBlock(Tail(ss), (name :> value.v) @@ env, depth, x)
         IN  IF s[1] \in {"let", "let tuple", "return", "expr"} THEN Then(Eval(Last(s), env, depth, x))
             ELSE Unevaluable

EvalBody(body, env, depth, x) ==
    IF body[1] = "block" THEN EvalBlock(body[2], env, depth, x) ELSE Eval(body, env, depth, x)

(* make_fn(): the closure at a point, 0 being the probe.                   *)
ValueAt(closure, point, x) ==
    IF Len(closure[2]) # 1 THEN Unevaluable
    ELSE EvalBody(closure[3], <<closure[2][1][1]>> :> point, 0, x)

-----------------------------------------------------------------------------
(* The least k with 2^k >= n.                                              *)
CeilLog2(n) == CHOOSE k \in 0 .. n : 2 ^ k >= n /\ \A j \in 0 .. k - 1 : 2 ^ j < n

DepthForDegree(d) == CeilLog2(d + 1) + 1

(* The first degree whose error is at most target; 0 if there is none.     *)
SelectDegree(errorOf, target) ==
    LET good == {k \in DOMAIN Degrees : errorOf[Degrees[k]] <= target}
    IN  IF good = {} THEN 0 ELSE Degrees[CHOOSE k \in good : \A j \in good : k <= j]

-----------------------------------------------------------------------------
(* Types.                                                                  *)

Ty(k) == [k |-> k, name |-> None, of |-> <<>>, fields |-> <<>>, d |-> 0, enc |-> FALSE]
Void == Ty("void")
Unknown == Ty("unknown")
EncOf == [Ty("enc") EXCEPT !.enc = TRUE]
VecOf(t) == [Ty("vec") EXCEPT !.enc = t.enc]
FnTy(ret) == [Ty("fn") EXCEPT !.of = <<ret>>]
StructTy(k, name, fields) == [Ty(k) EXCEPT !.name = name, !.fields = fields]

(* common_type(): of two encrypted operands the type, and the depth, of    *)
(* the left one.                                                           *)
CommonType(a, b) ==
    CASE a.k = "enc" -> a
      [] a.k # "enc" /\ b.k = "enc" -> b
      [] OTHER -> IF "float" \in {a.k, b.k} THEN Ty("float")
                  ELSE IF {a.k, b.k} = {"int"} THEN Ty("int") ELSE Unknown

-----------------------------------------------------------------------------
(* Symbol tables: scopes[1] is the global one, each [name -> type].        *)

Define(s, name, t) == [s EXCEPT !.scopes[Len(s.scopes)] = (name :> t) @@ @]
Enters(s) == [s EXCEPT !.scopes = Append(@, <<>>)]
LeavesTo(s, outer) == [s EXCEPT !.scopes = SubSeq(@, 1, Len(outer.scopes))]
Bound(s, name) == {k \in DOMAIN s.scopes : name \in DOMAIN s.scopes[k]}
Lookup(s, name) == s.scopes[CHOOSE k \in Bound(s, name) : \A j \in Bound(s, name) : j <= k][name]

RECURSIVE DefineAll(_, _, _)
DefineAll(s, names, t) ==
    IF names = <<>> THEN s ELSE DefineAll(Define(s, <<Head(names)>>, t), Tail(names), t)

Typed(s, t) == [s EXCEPT !.t = t]
Error(s, e) == [s EXCEPT !.errors = @ \cup {e}]
Warn(s, w) == [s EXCEPT !.warnings = @ \cup {w}]

RECURSIVE ResolveType(_, _)
ResolveType(te, s) ==
    CASE te # None /\ te[1] = "prim" -> Ty(Kind(te[2]))
      [] te # None /\ te[1] = "named" ->
            IF te[2] \in DOMAIN s.types THEN s.types[te[2]] ELSE Unknown
      [] te # None /\ te[1] = "enc" -> EncOf
      [] te # None /\ te[1] \in {"vec", "mat"} -> VecOf(ResolveType(te[2], s))
      [] te # None /\ te[1] = "fn type" -> FnTy(ResolveType(te[3], s))
      [] OTHER -> Unknown

-----------------------------------------------------------------------------
(* Constants.                                                              *)

Crash == <<"crash">>
Numeric(v) == v # None /\ v[1] \in {"int", "float", "bool"}

(* _eval_const(): None for what it does not know, a minus sign included;   *)
(* Crash for a division by zero and arithmetic on what is no number.       *)
ConstOrCrash(l, r, v) ==
    IF v.how # "value" THEN Crash ELSE <<IF "float" \in {l[1], r[1]} THEN "float" ELSE "int", v.v>>
EvalConstOp(op, l, r) ==
    IF Crash \in {l, r} THEN Crash
    ELSE IF None \in {l, r} \/ op \notin {"+", "-", "*", "/"} THEN None
    ELSE IF ~(Numeric(l) /\ Numeric(r)) THEN Crash ELSE ConstOrCrash(l, r, Apply(op, l[2], r[2]))
RECURSIVE EvalConst(_, _)
EvalConst(e, consts) ==
    CASE e[1] = "lit" -> <<e[2], e[3]>>
      [] e[1] = "id" -> IF e[2] \in DOMAIN consts THEN consts[e[2]] ELSE None
      [] e[1] = "bin" -> EvalConstOp(e[2], EvalConst(e[3], consts), EvalConst(e[4], consts))
      [] OTHER -> None

(* What a literal, or the name of a global constant, stands for, whatever  *)
(* the scopes around it bind that name to.                                 *)
ValueOf(e, consts) ==
    IF e[1] = "id" \/ (e[1] = "lit" /\ e[2] # "bool") THEN EvalConst(e, consts) ELSE None

(* A named argument of a call, None if it has none of the kinds.           *)
OfKind(v, kinds) == IF v = None THEN None ELSE IF v[1] \in kinds THEN v ELSE None
Resolved(c, name, kinds, s) ==
    LET Of(as) == IF as = <<>> THEN None ELSE OfKind(ValueOf(as[1][2], s.consts), kinds)
    IN  Of(NamedArg(c, name))

(* One end of domain: [lo, hi].                                            *)
End(e, s) ==
    LET minus == e[1] = "un" /\ e[2] = "-"
        Of(v) == IF ~Numeric(v) THEN None ELSE <<IF minus THEN -v[2] ELSE v[2]>>
    IN  Of(ValueOf(IF minus THEN e[3] ELSE e, s.consts))

FromTo(lo, hi) == IF None \in {lo, hi} THEN None ELSE lo \o hi
Interval(c, s) ==
    LET Of(as) == IF as = <<>> THEN None
                  ELSE IF as[1][2][1] # "array" \/ Len(as[1][2][2]) # 2 THEN None
                  ELSE FromTo(End(as[1][2][2][1], s), End(as[1][2][2][2], s))
    IN  Of(NamedArg(c, "domain"))

(* _select_chebyshev_degree(): the degree becomes the result s.degree, 0   *)
(* for none.  The closure is tried at 0, then at the points of the domain. *)
NoFit(why, s) == [Error(s, <<"fit", why>>) EXCEPT !.degree = 0]
Chosen(degree, s) == IF degree = 0 THEN NoFit("unreachable", s) ELSE [s EXCEPT !.degree = degree]
FitOver(closure, dom, target, known, s) ==
    LET HowAt(x) == ValueAt(closure, x, known).how
        errorOf == [d \in ToSet(Degrees) |-> FitError(closure, d)]
        Probed(how) ==
            CASE how = "uncaught" -> [s EXCEPT !.degree = 0, !.crashed = TRUE]
              [] how # "uncaught" /\ (how # "value" \/ dom[1] = dom[2]) -> NoFit("evaluation", s)
              [] OTHER -> IF {HowAt(x) : x \in dom[1] .. dom[2]} = {"value"}
                          THEN Chosen(SelectDegree(errorOf, target), s) ELSE NoFit("evaluation", s)
    IN  Probed(HowAt(0))
FitArgs(args, dom, target, s) ==
    LET known == [consts |-> [n \in {m \in DOMAIN s.consts : Numeric(s.consts[m])} |-> s.consts[n][2]],
                  fns |-> s.fns]
    IN  IF target = None THEN [s EXCEPT !.degree = 0]
        ELSE IF args = <<>> THEN NoFit("no closure", s)
        ELSE IF args[1][2][1] # "closure" THEN NoFit("no closure", s)
        ELSE IF dom = None THEN NoFit("no domain", s)
        ELSE FitOver(args[1][2], dom, target[2], known, s)
Fit(c, s) == FitArgs(Positional(c), Interval(c, s), Resolved(c, "max_error", {"int", "float", "bool"}, s), s)

-----------------------------------------------------------------------------
(* Expressions and statements.                                             *)

RECURSIVE Check(_, _), CheckAll(_, _, _), CheckArms(_, _)

(* One after the other; ts collects their types.                           *)
CheckAll(ns, s, ts) ==
    LET Then(c) == CheckAll(ns, c, Append(ts, c.t))
    IN  IF Len(ts) = Len(ns) THEN [s EXCEPT !.ts = ts] ELSE Then(Check(ns[Len(ts) + 1], s))

(* What two or more expressions below a node leave behind.                 *)
CheckKids(n, s, t) == Typed(CheckAll(Kids(n), s, <<>>), t)

CheckLoop(n, s) ==
    LET inner == DefineAll(Enters(Check(n[3], s)), n[2], Unknown)
        body == Check(n[4], [inner EXCEPT !.loop = @ + 1])
    IN  Typed([LeavesTo(body, s) EXCEPT !.loop = s.loop], Unknown)

\* The bug of checking no arm that is a block.
BugCheckArm(arm, s) ==
    IF arm[2][1] \in {"return", "block"} THEN s ELSE LeavesTo(Check(arm[2], Enters(s)), s)

(* An arm of a match; one that returns is not looked at.                   *)
CheckArm(arm, s) ==
    LET inner == IF arm[1][1] = "id pattern" THEN Define(Enters(s), arm[1][2], Unknown) ELSE Enters(s)
    IN  IF arm[2][1] = "return" THEN s ELSE LeavesTo(Check(arm[2], inner), s)

CheckArms(arms, s) ==
    IF arms = <<>> \/ s.crashed THEN Typed(s, Unknown) ELSE CheckArms(Tail(arms), CheckArm(Head(arms), s))

CheckName(name, s) ==
    IF Bound(s, name) # {} THEN Typed(s, Lookup(s, name))
    ELSE IF name \in DOMAIN s.types THEN Typed(s, s.types[name])
    ELSE Typed(Warn(s, <<"undefined", name>>), Unknown)

(* The depth d that an expression of type t reaches.                       *)
Reaches(t, d, s) ==
    [s EXCEPT !.observed = IF d > @ THEN d ELSE @,
              !.inLoop = @ \/ s.loop > 0,
              !.t = [t EXCEPT !.d = d]]

\* The bug of a product that is not a copy of its operand: the operand gets
\* the depth of the product.
BugMultiply(e, l, r, s) ==
    LET d == 1 + IF l.d > r.d THEN l.d ELSE r.d
        m == Reaches(CommonType(l, r), d, s)
    IN  IF e[3][1] = "id" /\ Bound(m, e[3][2]) # {} THEN Define(m, e[3][2], m.t) ELSE m

\* The bug of looking at the left factor alone.
BugLeftFactor(e, l, r, s) ==
    LET m == Reaches(CommonType(l, r), 1 + l.d, s)
    IN  IF 1 + l.d > s.max THEN Error(m, <<"depth", 1 + l.d>>) ELSE m

(* l * r of encrypted l or r; the result is a copy of the operand's type.  *)
Multiply(e, l, r, s) ==
    LET d == 1 + IF l.d > r.d THEN l.d ELSE r.d
        m == Reaches(CommonType(l, r), d, s)
    IN  IF d > s.max THEN Error(m, <<"depth", d>>) ELSE m

(* c has checked both operands; l and r are their types.                   *)
BinaryType(e, l, r, common, c) ==
    CASE e[2] = "*_norelin" ->
            LET d == Typed([c EXCEPT !.opaque = TRUE], common)
            IN  IF "unknown" \in {l.k, r.k} \/ l.enc \/ r.enc THEN d ELSE Error(d, <<"norelin">>)
      [] e[2] = "*" -> IF common.enc THEN Multiply(e, l, r, c) ELSE Typed(c, common)
      [] e[2] \in {"==", "!=", "~=", "<", ">", "<=", ">=", "&&", "||"} -> Typed(c, Ty("bool"))
      [] OTHER -> Typed(c, common)
CheckBinary(e, s) ==
    LET Of(c) == BinaryType(e, c.ts[1], c.ts[2], CommonType(c.ts[1], c.ts[2]), c)
    IN  Of(CheckAll(<<e[3], e[4]>>, s, <<>>))

(* A value that packs one column of many records: m[a..b, c].              *)
IsColumn(e) == e # None /\ e[1] = "index" /\ e[2][1] = "slice"

(* encrypt() where every record has an owner of its own.                   *)
CheckPacking(c, s) ==
    LET data == Positional(c)[2][2]
    IN  IF /\ Callee(c) = <<"encrypt">> /\ s.independent /\ Len(Positional(c)) > 1
           /\ IsColumn(data) \/ (data[1] = "id" /\ data[2] \in s.columns)
        THEN Error(s, <<"packing">>) ELSE s

(* chebyshev() of a degree: it takes DepthForDegree levels from the depth  *)
(* of its second positional argument on.                                   *)
CheckChebyshev(c, s) ==
    LET ps == Positional(c)
        k == CHOOSE j \in DOMAIN c[3] :
                /\ c[3][j][1] = NoName
                /\ Len(SelectSeq(SubSeq(c[3], 1, j), LAMBDA a : a[1] = NoName)) = 2
        d == DepthForDegree(s.degree) + IF Len(ps) > 1 THEN s.ts[k].d ELSE 0
        r == Reaches(EncOf, d, s)
    IN  IF d > s.max THEN Warn(r, <<"chebyshev", d>>) ELSE r

(* A call of f, whose name and arguments s has checked; ret is its type.   *)
CheckDomain(f, s) == IF s.domain = "server" /\ f \in ClientOnly THEN Error(s, <<"domain", f>>) ELSE s
Returning(f, ret, s) ==
    Typed([s EXCEPT !.opaque = @ \/ (f \in DOMAIN Builtins /\ Builtins[f].opaque)], ret)
Fitted(c, given, s) == IF given # None THEN [s EXCEPT !.degree = given[2]] ELSE Fit(c, s)
Approximated(c, ret, s) == IF s.degree > 0 THEN CheckChebyshev(c, s) ELSE Returning(Callee(c), ret, s)
CheckNamedCall(c, ret, s) ==
    IF Callee(c) = <<"chebyshev">> THEN Approximated(c, ret, Fitted(c, Resolved(c, "degree", {"int", "bool"}, s), s))
    ELSE Returning(Callee(c), ret, s)

CheckCallee(c, func) ==
    LET ret == IF func.t.k = "fn" THEN func.t.of[1] ELSE Unknown
        Of(args) == IF ~IsCall(c) THEN Typed(args, ret)
                    ELSE CheckNamedCall(c, ret, CheckPacking(c, CheckDomain(Callee(c), args)))
    IN  Of(CheckAll(Seconds(c[3]), func, <<>>))
CheckCall(c, s) == CheckCallee(c, Check(c[2], s))

(* obj.method(): only scheme.override(security: ...) means anything.       *)
CheckMethod(e, s) ==
    LET c == CheckKids(e, s, Unknown)
        isOverride == /\ e[2][1] = "id" /\ e[2][2] = <<"scheme">> /\ e[3] = "override"
                      /\ \E k \in DOMAIN e[4] : e[4][k][1] = "security"
    IN  [c EXCEPT !.override = @ \/ isOverride]

CheckStruct(e, s) ==
    LET c == CheckKids(e, s, IF e[2] \in DOMAIN s.types THEN s.types[e[2]] ELSE Unknown)
        RingDim(f) == f[1] = "ring_dim" /\ f[2] # None /\ f[2][1] = "lit" /\ f[2][2] = "int"
        dims == SelectSeq(e[3], RingDim)
    IN  [c EXCEPT !.ringDims = @ \cup {dims[k][2][3] : k \in DOMAIN dims}]

FieldType(fields, name) ==
    LET fs == {k \in DOMAIN fields : fields[k][1] = name}
    IN  IF fs = {} THEN Unknown ELSE fields[CHOOSE k \in fs : \A j \in fs : j <= k][2]
CheckField(e, s) == LET Of(c) == Typed(c, FieldType(c.t.fields, e[3])) IN Of(Check(e[2], s))

RECURSIVE DefineParams(_, _)
DefineParams(s, ps) ==
    IF ps = <<>> THEN s
    ELSE DefineParams(Define(s, <<Head(ps)[1]>>, ResolveType(Head(ps)[2], s)), Tail(ps))

CheckClosure(e, s) ==
    Typed(LeavesTo(Check(e[3], DefineParams(Enters(s), e[2])), s), Ty("closure"))

NoteColumn(name, e, s) == IF IsColumn(e) THEN [s EXCEPT !.columns = @ \cup {<<name>>}] ELSE s
CheckLet(e, s) ==
    LET Of(v) == Define(v, <<e[2]>>, IF e[3] = None THEN v.t ELSE ResolveType(e[3], s))
    IN  Of(NoteColumn(e[2], e[4], Check(e[4], s)))

CheckLetTuple(e, s) ==
    LET names == SelectSeq(e[2], LAMBDA n : n # "_")
        Of(v) == IF Len(e[2]) > 1 THEN DefineAll(v, names, Unknown) ELSE Define(v, <<NoName>>, v.t)
    IN  Of(NoteColumn(NoName, e[3], Check(e[3], s)))

(* A block has no scope of its own here.                                   *)
Check(n, s) ==
    CASE n[1] = "lit" -> Typed(s, Ty(n[2]))
      [] n[1] = "id" -> CheckName(n[2], s)
      [] n[1] = "bin" -> CheckBinary(n, s)
      [] n[1] = "un" -> IF n[2] = "!" THEN CheckKids(n, s, Ty("bool")) ELSE Check(n[3], s)
      [] n[1] = "cast" -> CheckKids(n, s, ResolveType(n[3], s))
      [] n[1] = "call" -> CheckCall(n, s)
      [] n[1] = "field" -> CheckField(n, s)
      [] n[1] = "method" -> CheckMethod(n, s)
      [] n[1] = "struct" -> CheckStruct(n, s)
      [] n[1] = "array" ->
            LET Of(c) == Typed(c, VecOf(IF n[2] = <<>> THEN Unknown ELSE Last(c.ts)))
            IN  Of(CheckAll(n[2], s, <<>>))
      [] n[1] = "closure" -> CheckClosure(n, s)
      [] n[1] = "let" -> CheckLet(n, s)
      [] n[1] = "let tuple" -> CheckLetTuple(n, s)
      [] n[1] \in {"for", "for expr"} -> CheckLoop(n, s)
      [] n[1] \in {"match", "match expr"} -> CheckArms(n[3], Check(n[2], s))
      [] OTHER -> CheckKids(n, s, Unknown)

-----------------------------------------------------------------------------
(* The passes.                                                             *)

RECURSIVE FieldTypes(_, _, _)
FieldTypes(fs, s, done) ==
    IF fs = <<>> THEN done
    ELSE FieldTypes(Tail(fs), s, Append(done, <<Head(fs)[1], ResolveType(Head(fs)[2], s)>>))

Constant(s, name, t, v) == [Define(s, name, t) EXCEPT !.consts = (name :> v) @@ @]

(* What one item adds to the tables: those behind it are not known yet.    *)
CollectType(item, s) ==
    CASE item[1] = "enum" ->
            LET t == [Ty("enum") EXCEPT !.name = item[2]]
                names == ToSet(item[3])
            IN  [s EXCEPT !.types = (item[2] :> t) @@ @,
                          !.scopes[1] = [n \in names |-> t] @@ @,
                          !.consts = [n \in names |-> <<"string", n>>] @@ @]
      [] item[1] \in {"struct", "wire"} ->
            [s EXCEPT !.types = (item[2] :> StructTy(item[1], item[2], FieldTypes(item[3], s, <<>>))) @@ @]
      [] item[1] = "const" ->
            LET Of(v) == IF v = Crash THEN [s EXCEPT !.crashed = TRUE]
                         ELSE Constant(s, item[2], ResolveType(item[3], s), v)
            IN  Of(EvalConst(item[4], s.consts))
      [] item[1] = "scheme" ->
            [s EXCEPT !.scheme = item[2] @@ @,
                      !.max = IF "depth" \in DOMAIN item[2] THEN item[2].depth ELSE @]
      [] OTHER -> s

CollectFunction(item, s) ==
    LET f == item[2]
        decl == [params |-> [k \in DOMAIN f.params |-> <<f.params[k][1]>>], body |-> f.body]
        ret == IF f.ret = None THEN Void ELSE ResolveType(f.ret, s)
    IN  IF item[1] # "fn" THEN s ELSE [Define(s, f.name, FnTy(ret)) EXCEPT !.fns = (f.name :> decl) @@ @]

(* The first annotation that names a side decides.                         *)
Domain(f) == IF f.sides = <<>> THEN "shared" ELSE f.sides[1]

CheckFunction(item, s) ==
    LET f == item[2]
        mode == IF f.encryptors \in {NoName, "independent", "single"} THEN s ELSE Error(s, <<"encryptors">>)
        inner == [DefineParams(Enters(mode), f.params) EXCEPT
                    !.domain = Domain(f), !.independent = f.encryptors = "independent", !.columns = {}]
    IN  IF item[1] # "fn" THEN s ELSE [LeavesTo(Check(f.body, inner), s) EXCEPT !.domain = "shared"]

(* The types of the fields of wires: a key or a function may not be one.   *)
VerifyWires(s) ==
    LET Bad(t) == {f \in ToSet(t.fields) : f[2].name = <<"SecretKey">> \/ f[2].k = "fn"}
        wires == {n \in DOMAIN s.types : s.types[n].k = "wire"}
    IN  [s EXCEPT !.errors = @ \cup UNION {{<<"wire", n, f[1]>> : f \in Bad(s.types[n])} : n \in wires}]

(* More than twice, and more than eight levels above, what was observed.   *)
OverProvisioned(s) ==
    /\ s.observed > 0 /\ ~s.inLoop /\ ~s.opaque
    /\ s.max > 2 * s.observed /\ s.max > s.observed + 8

(* The bits of modulus that a ring dimension supports at a security level. *)
RingDims == <<1024, 2048, 4096, 8192, 16384, 32768, 65536, 131072>>
MaxLogQ == [l128 |-> <<27, 54, 109, 218, 438, 881, 1772, 3524>>,
            l192 |-> <<19, 37, 75, 152, 305, 611, 1222, 2444>>,
            l256 |-> <<14, 29, 58, 118, 237, 476, 952, 1904>>]

LogQ(s) == s.scheme.first_mod + s.max * s.scheme.precision

(* _advise_parameters(): a warning for the ring dimensions that are too    *)
(* small, unless the program overrides its security.                       *)
Advise(s) ==
    LET known == s.scheme.security \in DOMAIN MaxLogQ /\ s.scheme.precision > 0 /\ s.max > 0
        enough == {k \in DOMAIN RingDims : MaxLogQ[s.scheme.security][k] >= LogQ(s)}
        least == RingDims[CHOOSE k \in enough : \A j \in enough : k <= j]
        low == IF enough = {} THEN s.ringDims ELSE {n \in s.ringDims : n < least}
    IN  IF known /\ low # {} /\ ~s.override THEN Warn(s, <<"ring dimension", low>>) ELSE s

(* The passes over the items; an exception nobody catches ends them.       *)
RECURSIVE CollectTypes(_, _), CollectFunctions(_, _), CheckFunctions(_, _)
CollectTypes(is, s) == IF is = <<>> \/ s.crashed THEN s ELSE CollectTypes(Tail(is), CollectType(Head(is), s))
CollectFunctions(is, s) == IF is = <<>> \/ s.crashed THEN s ELSE CollectFunctions(Tail(is), CollectFunction(Head(is), s))
CheckFunctions(is, s) == IF is = <<>> \/ s.crashed THEN s ELSE CheckFunctions(Tail(is), CheckFunction(Head(is), s))

NewAnalyzer == [
    types |-> [k \in {<<n>> : n \in Keys} |-> StructTy("struct", k, <<>>)],
    scopes |-> << [b \in DOMAIN Builtins |->
                     FnTy(IF Builtins[b].returns = "enc" THEN EncOf ELSE Ty(Builtins[b].returns))]
                  @@ [n \in {<<"op", o>> : o \in {"+", "-", "*", "/"}} \cup {<<"scheme">>, <<"not_set">>} |-> Unknown] >>,
    consts |-> <<>>, fns |-> <<>>, scheme |-> [security |-> "none", precision |-> 0, first_mod |-> 0],
    max |-> 23, observed |-> 0, loop |-> 0, inLoop |-> FALSE, opaque |-> FALSE,
    ringDims |-> {}, override |-> FALSE, domain |-> "shared", independent |-> FALSE, columns |-> {},
    degree |-> 0, crashed |-> FALSE, errors |-> {}, warnings |-> {}, t |-> Unknown, ts |-> <<>>]

(* analyze().  After such an exception what it would still add means       *)
(* nothing.                                                                *)
Analyze(items) ==
    LET Warned(s) == IF OverProvisioned(s) THEN Warn(s, <<"depth">>) ELSE s
    IN  Advise(Warned(VerifyWires(CheckFunctions(items, CollectFunctions(items, CollectTypes(items, NewAnalyzer))))))
==============================================================================
