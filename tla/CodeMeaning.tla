----------------------------- MODULE CodeMeaning -----------------------------
(***************************************************************************)
(* What functions of the nb language return, and what C++ as StageCode     *)
(* writes it returns, if a C++ compiler takes it.  A ciphertext, a vector  *)
(* and a number are a kind and one residue, which stands for what is in    *)
(* the slots.  None of this is code of the compiler.                       *)
(***************************************************************************)
EXTENDS StageCode

Prime == 9973
Num(n) == <<"num", n % Prime>>
Bad == <<"bad">>
Null == <<"null">>

NumOrBad(lit) == IF lit = None THEN Bad ELSE Num(lit[3])

Truth01(b) == IF b THEN 1 ELSE 0
Computed(op, a, b) ==
    CASE op = "+" -> a + b [] op = "-" -> a - b [] op \in {"*", "*_norelin"} -> a * b
      [] op = "<" -> Truth01(a < b) [] op = "==" -> Truth01(a = b)
Rotated(n, k) == 3 * n + k
Summed(n, k) == 5 * n + k

(* A stack of scopes, innermost last.                                      *)
Defines(env, n) == \E k \in DOMAIN env : n \in DOMAIN env[k]
ScopeOf(env, n) == CHOOSE k \in DOMAIN env : n \in DOMAIN env[k] /\ \A j \in k + 1 .. Len(env) : n \notin DOMAIN env[j]
Lookup(env, n) == IF Defines(env, n) THEN env[ScopeOf(env, n)][n] ELSE Bad
Assign(env, n, v) == LET k == ScopeOf(env, n) IN [env EXCEPT ![k] = (n :> v) @@ @]
Declare(env, n, v) == Append(Front(env), (n :> v) @@ Last(env))
Enter(env, scope) == Append(env, scope)

(* [env, ret, ok] after statements; ret is None while they run.            *)
Running(env) == [env |-> env, ret |-> None, ok |-> TRUE]
Wrong(env) == [env |-> env, ret |-> Bad, ok |-> FALSE]
Returned(env, v) == IF v = Bad THEN Wrong(env) ELSE [env |-> env, ret |-> v, ok |-> TRUE]
Leave(r) == [r EXCEPT !.env = Front(@)]

-----------------------------------------------------------------------------
(* The language.                                                           *)

OpOf(op, vs) ==
    LET kinds == {vs[k][1] : k \in DOMAIN vs}
        value == IF Len(vs) = 1 THEN -vs[1][2] ELSE Computed(op, vs[1][2], vs[2][2])
    IN  IF ~(kinds \subseteq {"ct", "vec", "num"}) THEN Bad
        ELSE <<IF "ct" \in kinds THEN "ct" ELSE IF "vec" \in kinds THEN "vec" ELSE "num", value % Prime>>
AtIndex(v, k) ==
    IF v[1] = "list" THEN IF k + 1 \in DOMAIN v[3] THEN v[3][k + 1] ELSE Bad
    ELSE IF v[1] = "vec" THEN Num(v[2] + k) ELSE Bad

RECURSIVE Value(_, _, _), ValuesOf(_, _, _), RunStmt(_, _, _), RunStmts(_, _, _), RunLoop(_, _, _, _, _), CallOf(_, _, _),
          MapOf(_, _, _, _), AddUp(_), Collect(_, _, _, _, _, _)
ValuesOf(es, env, p) == IF es = <<>> THEN <<>> ELSE <<Value(Head(es), env, p)>> \o ValuesOf(Tail(es), env, p)
AddUp(vs) == IF Len(vs) = 1 THEN vs[1] ELSE OpOf("+", <<AddUp(Front(vs)), Last(vs)>>)

(* A block, or an expression, as statements that return its value.         *)
Valued(body) ==
    IF body[1] = "return" THEN <<body>>
    ELSE IF body[1] # "block" THEN << <<"return", body>> >>
    ELSE IF BlockResult(body) = None THEN body[2] ELSE Append(Front(body[2]), <<"return", BlockResult(body)>>)

(* f of values, one for each parameter.                                    *)
OrBad(v) == IF v = None THEN Bad ELSE v
CallOf(f, vs, p) ==
    LET env == << [n \in {<<f.params[k][1]>> : k \in DOMAIN f.params} |->
                     vs[CHOOSE k \in DOMAIN vs : <<f.params[k][1]>> = n]] >>
    IN  IF Bad \in ToSet(vs) THEN Bad ELSE OrBad(RunStmts(f.body[2], env, p).ret)
ArgumentValues(f, c, env, p) ==
    LET Of(a, k) == IF a # None THEN Value(a, env, p) ELSE Value(f.params[k][3], <<>>, p)
    IN  [k \in DOMAIN f.params |-> Of(ArgumentOf(f, c, k), k)]
Applied(fn, vs, env, p) ==
    IF fn[1] = "closure"
    THEN Value(fn[3], Enter(env, [n \in {<<fn[2][k][1]>> : k \in DOMAIN fn[2]} |->
                                    vs[CHOOSE k \in DOMAIN vs : <<fn[2][k][1]>> = n]]), p)
    ELSE IF fn = Id("relin") THEN vs[1] ELSE CallOf(p.fns[fn[2]], vs, p)
Rows(lists) == [k \in DOMAIN lists[1][3] |-> [j \in DOMAIN lists |-> lists[j][3][k]]]
MapOf(fn, rows, env, p) ==
    IF rows = <<>> THEN <<>> ELSE <<Applied(fn, Head(rows), env, p)>> \o MapOf(fn, Tail(rows), env, p)
Wire(w, p) == <<"wire", [n \in DOMAIN p.wires[w] |-> IF HasEncType(p.wires[w][n]) THEN <<"ct", 11>> ELSE Num(13)]>>

Upto(lo, hi, inclusive) == [k \in 1 .. hi - lo + Truth01(inclusive) |-> Num(lo + k - 1)]

Value(e, env, p) ==
    LET args == Seconds(e[3])
        v1 == Value(args[1], env, p)
        v2 == Value(args[2], env, p)
        f == Callee(e)
        c == Value(e[2], env, p)
    IN  CASE e[1] = "lit" -> Num(e[3])
          [] e[1] = "id" -> IF Defines(env, e[2]) THEN Lookup(env, e[2])
                            ELSE NumOrBad(ConstOf(e[2], p))
          [] e[1] = "bin" -> OpOf(e[2], <<Value(e[3], env, p), Value(e[4], env, p)>>)
          [] e[1] = "un" -> OpOf(e[2], <<Value(e[3], env, p)>>)
          [] e[1] = "cast" -> c
          [] e[1] = "pipe" -> LET call == IF e[3][1] = "call" THEN e[3] ELSE <<"call", e[3], <<>>, None>>
                              IN  Value(<<"call", call[2], << <<NoName, e[2]>> >> \o call[3], None>>, env, p)
          [] e[1] = "index" -> AtIndex(c, Value(e[3], env, p)[2])
          [] e[1] = "field" -> c[2][e[3]]
          [] e[1] = "array" -> <<"tuple", ValuesOf(e[2], env, p)>>
          [] e[1] = "if expr" -> RunStmts(Valued(IF c[2] # 0 THEN e[3] ELSE e[4]), Enter(env, <<>>), p).ret
          [] e[1] = "match expr" -> RunStmt(<<"match", e[2], e[3]>>, env, p).ret
          [] e[1] = "for expr" -> <<"list", None, Collect(e, 1, Value(e[3], env, p)[3], <<>>, env, p)>>
          [] e[1] = "range" -> <<"list", None, Upto(Value(e[3], env, p)[2], Value(e[4], env, p)[2], e[2] = "..=")>>
          [] e[1] = "method" -> <<"list", None, Reverse(c[3])>>
          [] IsCall(e) /\ f \in DOMAIN p.fns -> CallOf(p.fns[f], ArgumentValues(p.fns[f], e, env, p), p)
          [] IsCall(e) /\ f \notin DOMAIN p.fns ->
                CASE f \in {<<"relin">>, <<"bootstrap">>} -> v1
                  [] f = <<"negate">> -> OpOf("-", <<v1>>)
                  [] f = <<"rotate">> -> <<v1[1], Rotated(v1[2], v2[2]) % Prime>>
                  [] f = <<"slot_sum">> -> <<v1[1], Summed(v1[2], v2[2]) % Prime>>
                  [] f = <<"zero">> -> <<"ct", 0>>
                  [] f = <<"tile">> -> <<"vec", v1[2]>>
                  [] f = <<"load">> -> Wire(args[1][2], p)
                  [] f = <<"reduce">> -> AddUp(v2[3])
                  [] f = <<"map">> -> <<"list", None, MapOf(args[2], Rows(<<v1>>), env, p)>>
                  [] f = <<"zip_map">> -> <<"list", None, MapOf(args[3], Rows(<<v1, v2>>), env, p)>>
                  [] f = <<"enumerate">> -> <<"list", None, [k \in DOMAIN v1[3] |-> <<"tuple", <<Num(k - 1), v1[3][k]>> >>]>>

Scope(names, v) ==
    IF Len(names) = 1 THEN Name(names[1]) :> v
    ELSE [n \in NamesOf(names) |-> v[2][CHOOSE k \in DOMAIN names : Name(names[k]) = n]]
Collect(e, k, vs, done, env, p) ==
    IF k > Len(vs) THEN done
    ELSE LET body == Append(Front(e[4][2]), <<"return", BlockResult(e[4])>>)
         IN  Collect(e, k + 1, vs, Append(done, RunStmts(body, Enter(env, Scope(e[2], vs[k])), p).ret), env, p)

(* A let assigns to a variable of its own block, or is a new variable.     *)
LetOf(n, v, env) == IF v = Bad THEN Wrong(env) ELSE Running(Declare(env, Name(n), v))
RunLoop(f, k, vs, env, p) ==
    LET Then(r) == IF r.ret # None THEN r ELSE RunLoop(f, k + 1, vs, r.env, p)
    IN  IF k > Len(vs) THEN Running(env) ELSE Then(Leave(RunStmts(f[4][2], Enter(env, Scope(f[2], vs[k])), p)))
Matches(pattern, v, p) ==
    CASE pattern[1] = "wildcard" -> TRUE
      [] pattern[1] = "lit pattern" -> Num(pattern[2]) = v
      [] pattern[1] = "id pattern" -> NumOrBad(ConstOf(pattern[2], p)) = v
Least(ks) == CHOOSE k \in ks : \A j \in ks : k <= j
FirstOf(arms, fits) == IF fits = {} THEN None ELSE arms[Least(fits)]
ArmOf(arms, v, p) == FirstOf(arms, {k \in DOMAIN arms : Matches(arms[k][1], v, p)})

Destructured(names, v, env) == IF v = Bad THEN Wrong(env) ELSE Running(Append(Front(env), Scope(names, v) @@ Last(env)))
RunBranch(b, env, p) ==
    IF b = None THEN Running(env)
    ELSE IF b[1] = "if" THEN RunStmt(b, env, p) ELSE Leave(RunStmts(b[2], Enter(env, <<>>), p))
RunArm(arm, env, p) == IF arm = None THEN Wrong(env) ELSE Leave(RunStmts(Valued(arm[2]), Enter(env, <<>>), p))

RunStmt(st, env, p) ==
    CASE st[1] = "let" -> LetOf(st[2], Value(st[4], env, p), env)
      [] st[1] = "let tuple" -> Destructured(st[2], Value(st[3], env, p), env)
      [] st[1] = "assign" -> Running(Assign(env, st[2][2], Value(st[3], env, p)))
      [] st[1] = "return" -> Returned(env, Value(st[2], env, p))
      [] st[1] = "if" -> RunBranch(IF Value(st[2], env, p)[2] # 0 THEN st[3] ELSE st[4], env, p)
      [] st[1] = "for" -> RunLoop(st, 1, Value(st[3], env, p)[3], env, p)
      [] st[1] = "match" -> RunArm(ArmOf(st[3], Value(st[2], env, p), p), env, p)
      [] OTHER -> Running(env)
RunAfter(r, ss, p) == IF r.ret # None THEN r ELSE RunStmts(ss, r.env, p)
RunStmts(ss, env, p) ==
    IF ss = <<>> THEN Running(env)
    ELSE IF Len(ss) = 1 /\ Len(env) = 1 /\ ss[1][1] = "expr" THEN Returned(env, Value(ss[1][2], env, p))
    ELSE RunAfter(RunStmt(Head(ss), env, p), Tail(ss), p)

-----------------------------------------------------------------------------
(* What C++ as StageCode writes it returns: Bad if a C++ compiler refuses  *)
(* what is run, or if what it does is undefined.                           *)


Both(vs, kinds) == {vs[k][1] : k \in DOMAIN vs} \subseteq kinds

(* The FHE library: at least one operand a ciphertext, none of them null.  *)
FheOn(fn, vs) ==
    LET value == CASE fn \in {"EvalAdd", "NullSafeEvalAdd"} -> vs[1][2] + vs[2][2]
                   [] fn = "EvalSub" -> vs[1][2] - vs[2][2]
                   [] fn \in {"EvalMult", "EvalMultNoRelin"} -> vs[1][2] * vs[2][2]
                   [] fn = "EvalNegate" -> -vs[1][2]
                   [] fn = "EvalRotate" -> Rotated(vs[1][2], vs[2][2])
                   [] fn = "EvalSum" -> Summed(vs[1][2], vs[2][2])
                   [] fn \in {"Relinearize", "EvalBootstrap"} -> vs[1][2]
        fits == CASE fn \in {"EvalAdd", "EvalMult"} -> \/ vs[1][1] = "ct" /\ vs[2][1] \in {"ct", "num", "pt"}
                                                       \/ vs[1][1] = "num" /\ vs[2][1] = "ct"
                  [] fn = "EvalSub" -> \/ vs[1][1] = "ct" /\ vs[2][1] \in {"ct", "num", "pt"}
                                       \/ vs[1][1] \in {"num", "pt"} /\ vs[2][1] = "ct"
                  [] fn \in {"EvalMultNoRelin", "NullSafeEvalAdd"} -> Both(vs, {"ct"})
                  [] fn \in {"EvalRotate", "EvalSum"} -> vs[1][1] = "ct" /\ vs[2][1] = "num"
                  [] OTHER -> vs[1][1] = "ct"
    IN  IF fn = "NullSafeEvalAdd" /\ vs[1] = Null /\ vs[2][1] \in {"ct", "null"} THEN vs[2]
        ELSE IF fits THEN <<"ct", value % Prime>> ELSE Bad

(* The cleartext reference's runtime: at least one operand a vector.       *)
RefOn(fn, vs) ==
    LET value == CASE fn \in {"add", "nullsafe_add"} -> vs[1][2] + vs[2][2]
                   [] fn = "sub" -> vs[1][2] - vs[2][2]
                   [] fn = "mul" -> vs[1][2] * vs[2][2]
                   [] fn = "negate" -> -vs[1][2]
                   [] fn = "rotate" -> Rotated(vs[1][2], vs[2][2])
                   [] fn = "slot_sum" -> Summed(vs[1][2], vs[2][2])
        fits == CASE fn \in {"add", "sub", "mul"} -> Both(vs, {"vec", "num"}) /\ ~Both(vs, {"num"})
                  [] fn \in {"nullsafe_add", "negate"} -> Both(vs, {"vec"})
                  [] OTHER -> vs[1][1] = "vec" /\ vs[2][1] = "num"
    IN  IF fits THEN <<"vec", value % Prime>> ELSE Bad

(* Types.                                                                  *)
TypeOf(v) ==
    CASE v[1] \in {"ct", "null"} -> <<"ciphertext">>
      [] v[1] = "vec" -> Slots
      [] v[1] = "num" -> <<"prim", "f64">>
      [] v[1] = "list" -> <<"vector", v[2]>>
      [] OTHER -> <<v[1]>>
RECURSIVE Fits(_, _)
Fits(t, v) ==
    CASE v = Bad -> FALSE
      [] t[1] = "auto" -> v[1] # "tuple"
      [] t[1] = "prim" -> v[1] = "num"
      [] t[1] = "tuple" -> v[1] = "tuple" /\ \A k \in DOMAIN v[2] : Fits(t[2][k], v[2][k])
      [] OTHER -> TypeOf(v) = t
Default(t) ==
    CASE t = <<"ciphertext">> -> Null
      [] t = Slots -> <<"vec", 0>>
      [] t[1] = "vector" /\ t # Slots -> <<"list", t[2], <<>> >>
      [] OTHER -> Bad

-----------------------------------------------------------------------------

(* The functions of a setting, compiled.                                   *)
CompiledFn(f, g) ==
    [body |-> FnCode(f, g), type |-> ReturnType(f, g),
     names |-> [k \in DOMAIN f.params |-> <<f.params[k][1]>>],
     types |-> [k \in DOMAIN f.params |-> CppType(f.params[k][2], g.twin)],
     defaults |-> [k \in {n \in DOMAIN f.params : f.params[n][3] # None} |-> ExprCode(f.params[k][3], NoBelief, g)]]
Compiled(s) ==
    s @@ "code" :> [n \in DOMAIN s.fns |-> CompiledFn(s.fns[n], [s EXCEPT !.ret = s.fns[n].ret, !.params = s.fns[n].params])]

RECURSIVE Cpp(_, _, _), CppAll(_, _, _), CppCall(_, _, _), Exec(_, _, _), ExecAll(_, _, _),
          CppLoop(_, _, _, _, _, _), CppSum(_, _), ExecLoop(_, _, _, _, _)
CppAll(es, env, p) == IF es = <<>> THEN <<>> ELSE <<Cpp(Head(es), env, p)>> \o CppAll(Tail(es), env, p)

(* A function of p, a parameter without an argument by its default.        *)
Result(r, type) == IF r.ok /\ r.ret # None /\ Fits(type, r.ret) THEN r.ret ELSE Bad
CallWith(c, vs, p) ==
    LET params == DOMAIN c.names
        env == << [n \in ToSet(c.names) |-> vs[CHOOSE k \in params : c.names[k] = n]] >>
    IN  IF DOMAIN vs = params /\ \A k \in params : Fits(c.types[k], vs[k])
        THEN Result(ExecAll(c.body, env, p), c.type) ELSE Bad
Filled(vs, c, p) == vs \o [k \in 1 .. Len(c.names) - Len(vs) |-> Cpp(c.defaults[k + Len(vs)], <<>>, p)]
CppCall(f, vs, p) == CallWith(p.code[f], Filled(vs, p.code[f], p), p)

(* The loops that map and zip_map make: r is their result so far.          *)
IfFits(type, v) == IF Fits(type, v) THEN v ELSE Bad
CppLoop(var, vs, e, type, env, p) ==
    IF vs = <<>> THEN <<>>
    ELSE <<IfFits(type, Cpp(e, Enter(env, Name("r") :> Bad @@ Name(var) :> Head(vs)), p))>>
         \o CppLoop(var, Tail(vs), e, type, env, p)
Whole(type, vs) == IF Bad \in ToSet(vs) THEN Bad ELSE <<"list", type, vs>>
CppSum(how, vs) ==
    IF Len(vs) = 1 THEN vs[1]
    ELSE IF how = "fhe" THEN FheOn("EvalAdd", <<CppSum(how, Front(vs)), Last(vs)>>)
    ELSE RefOn("add", <<CppSum(how, Front(vs)), Last(vs)>>)

CppApply(fn, vs, env, p) ==
    IF fn[1] = "lambda"
    THEN Cpp(fn[3], Enter(env, [n \in NamesOf(fn[2]) |-> vs[CHOOSE k \in DOMAIN vs : Name(fn[2][k]) = n]]), p)
    ELSE IF fn[1] = "id" /\ fn[2] \in DOMAIN p.fns /\ (p.twin \/ ~FnUsesFhe(fn[2], p)) THEN CppCall(fn[2], vs, p) ELSE Bad

Cpp(e, env, p) ==
    LET vs == CppAll(e[3], env, p)
        v == Cpp(e[2], env, p)
        v3 == Cpp(e[3], env, p)
        v4 == Cpp(e[4], env, p)
        takesCc == FnUsesFhe(e[2], p) /\ ~p.twin
    IN  CASE e[1] = "lit" -> Num(e[3])
          [] e[1] = "id" -> Value(e, env, p)
          [] e[1] = "op" -> IF Both(vs, {"num"}) THEN OpOf(e[2], vs) ELSE Bad
          [] e[1] = "fhe" -> IF p.twin \/ Bad \in ToSet(vs) THEN Bad ELSE FheOn(e[2], vs)
          [] e[1] = "ref" -> IF Bad \in ToSet(vs) THEN Bad ELSE RefOn(e[2], vs)
          [] e[1] = "packed" -> IF v[1] = "vec" /\ ~p.twin THEN <<"pt", v[2]>> ELSE Bad
          [] e[1] = "null" -> Null
          [] e[1] = "no slots" -> <<"vec", 0>>
          [] e[1] = "cast" -> IfFits(e[2], v3)
          [] e[1] = "call" -> IF e[2] \in DOMAIN p.fns THEN IF e[3] = takesCc THEN CppCall(e[2], CppAll(e[4], env, p), p) ELSE Bad
                              ELSE IF e[2] = <<"tile">> THEN <<"vec", Cpp(e[4][1], env, p)[2]>>
                              ELSE IF e[2] = <<"load">> THEN <<"wire", [n \in DOMAIN p.wires[e[4][1][2]] |->
                                      LET w == Wire(e[4][1][2], p)[2][n] IN IF p.twin /\ w[1] = "ct" THEN <<"vec", w[2]>> ELSE w]>>
                              ELSE Bad
          [] e[1] = "cond" -> IF v[1] # "num" \/ v3 = Bad \/ v4 = Bad \/ TypeOf(v3) # TypeOf(v4) THEN Bad
                              ELSE IF v[2] # 0 THEN v3 ELSE v4
          [] e[1] = "index" -> IF v[1] \in {"list", "vec"} /\ v3[1] = "num" THEN AtIndex(v, v3[2]) ELSE Bad
          [] e[1] = "field" -> IF v[1] = "wire" /\ e[3] \in DOMAIN v[2] THEN v[2][e[3]] ELSE Bad
          [] e[1] = "sum" -> IF v3[1] = "list" /\ v3[3] # <<>> /\ (e[2] = "ref" \/ ~p.twin) THEN CppSum(e[2], v3[3]) ELSE Bad
          [] e[1] = "map" -> IF v3[1] = "list" THEN Whole(v3[2], CppLoop(e[2], v3[3], e[4], v3[2], env, p)) ELSE Bad
          [] e[1] = "zip" -> IF v[1] = "list"
                             THEN Whole(v[2], CppLoop("i", [k \in DOMAIN v[3] |-> Num(k - 1)], e[3], v[2], env, p)) ELSE Bad
          [] e[1] = "apply" -> IF Bad \in ToSet(vs) THEN Bad ELSE CppApply(e[2], vs, env, p)
          [] e[1] \in {"tuple", "braces"} ->
                LET es == CppAll(e[2], env, p) IN IF Bad \in ToSet(es) THEN Bad ELSE <<"tuple", es>>
          [] OTHER -> Bad

-----------------------------------------------------------------------------

Introduce(env, n, v) == IF n \in DOMAIN Last(env) THEN Wrong(env) ELSE Running(Declare(env, n, v))
IntroduceVector(env, n, v) == IF v = Bad THEN Wrong(env) ELSE Introduce(env, n, <<"list", TypeOf(v), <<>> >>)
CppScope(names, v, k) == IF Len(names) = 1 THEN Name(names[1]) :> v ELSE Name(names[1]) :> Num(k) @@ Name(names[2]) :> v

LoopAfter(r, names, k, vs, body, w) ==
    IF r.ret # None THEN r ELSE ExecLoop(names, k, vs, body, [w EXCEPT !.env = r.env])
ExecLoop(names, k, vs, body, w) ==
    IF k > Len(vs) THEN Running(w.env)
    ELSE LoopAfter(Leave(ExecAll(body, Enter(w.env, CppScope(names, vs[k], k - 1)), w.p)), names, k + 1, vs, body, w)
Counted(lo, hi, incl, down) ==
    LET top == IF incl THEN hi ELSE hi - 1
        up == [k \in 1 .. top - lo + 1 |-> Num(lo + k - 1)]
    IN  IF down THEN Reverse(up) ELSE up

OrWrong(r) == IF r.ret = None THEN Wrong(r.env) ELSE r

(* An expression, or a lambda of statements that is called at once.        *)
ExecValue(e, env, p) ==
    IF e[1] # "run" THEN Returned(env, Cpp(e, env, p))
    ELSE OrWrong(Leave(ExecAll(e[2], Enter(env, <<>>), p)))

(* A variable of a type, as what r is about to return.                     *)
DeclareAs(n, type, r, env) ==
    IF n \in DOMAIN Last(env) \/ ~Fits(type, r.ret) THEN Wrong(env) ELSE Running(Declare(r.env, n, r.ret))
SetTo(target, r, env) ==
    IF target[1] # "id" \/ ~Defines(env, target[2]) \/ r.ret = Bad THEN Wrong(env)
    ELSE IF Lookup(env, target[2]) = Bad \/ TypeOf(Lookup(env, target[2])) # TypeOf(r.ret) THEN Wrong(env)
    ELSE Running(Assign(r.env, target[2], r.ret))
Pushed(n, list, v, env) ==
    IF list[1] # "list" THEN Wrong(env)
    ELSE IF ~Fits(list[2], v) THEN Wrong(env) ELSE Running(Assign(env, n, [list EXCEPT ![3] = Append(@, v)]))
Bound(names, v, env) ==
    IF v[1] # "tuple" \/ NamesOf(names) \cap DOMAIN Last(env) # {} THEN Wrong(env)
    ELSE Running(Append(Front(env), Scope(names, v) @@ Last(env)))

(* Statements in a block of their own, if cond has a value for a condition.*)
ExecIn(cond, ss, env, p) == IF cond[1] # "num" THEN Wrong(env) ELSE Leave(ExecAll(ss, Enter(env, <<>>), p))
ExecIf(cond, st, env, p) == ExecIn(cond, IF cond[2] # 0 THEN st[3] ELSE st[4], env, p)
ExecSwitch(v, arm, env, p) == IF arm = None THEN Wrong(env) ELSE ExecIn(v, arm[2], env, p)
ExecEach(v, st, env, p) ==
    IF v[1] # "list" THEN Wrong(env) ELSE ExecLoop(st[2], 1, v[3], st[4], [env |-> env, p |-> p])
ExecCount(lo, hi, st, env, p) ==
    IF ~Both(<<lo, hi>>, {"num"}) THEN Wrong(env)
    ELSE ExecLoop(<<st[2]>>, 1, Counted(lo[2], hi[2], st[5], st[6]), st[7], [env |-> env, p |-> p])

Exec(st, env, p) ==
    CASE st[1] = "decl" ->
            IF st[4] # None THEN DeclareAs(Name(st[3]), st[2], ExecValue(st[4], Declare(env, Name(st[3]), Bad), p), env)
            ELSE Introduce(env, Name(st[3]), Default(st[2]))
      [] st[1] = "decltype" -> IntroduceVector(env, Name(st[2]), Cpp(st[3], env, p))
      [] st[1] = "set" -> SetTo(st[2], ExecValue(st[3], env, p), env)
      [] st[1] = "return" -> Returned(env, Cpp(st[2], env, p))
      [] st[1] = "if" -> ExecIf(Cpp(st[2], env, p), st, env, p)
      [] st[1] = "count" -> ExecCount(Cpp(st[3], env, p), Cpp(st[4], env, p), st, env, p)
      [] st[1] = "each" -> ExecEach(Cpp(st[3], env, p), st, env, p)
      [] st[1] = "push" -> Pushed(Name(st[2]), Lookup(env, Name(st[2])), Cpp(st[3], env, p), env)
      [] st[1] = "switch" -> LET v == Cpp(st[2], env, p) IN ExecSwitch(v, ArmOf(st[3], v, p), env, p)
      [] st[1] = "bind" -> Bound(st[2], Cpp(st[3], env, p), env)
      [] OTHER -> IF Cpp(st[2], env, p) = Bad THEN Wrong(env) ELSE Running(env)
ExecAfter(r, ss, p) == IF r.ret # None THEN r ELSE ExecAll(ss, r.env, p)
ExecAll(ss, env, p) ==
    IF ss = <<>> THEN Running(env)
    ELSE ExecAfter(Exec(Head(ss), env, p), Tail(ss), p)

(* What the C++ returns is what the program returns.                       *)
RECURSIVE Same(_, _, _)
Same(v, w, twin) ==
    CASE w[1] = "list" -> v[1] = "list" /\ Len(v[3]) = Len(w[3]) /\ \A k \in DOMAIN w[3] : Same(v[3][k], w[3][k], twin)
      [] w[1] = "ct" -> v = <<IF twin THEN "vec" ELSE "ct", w[2]>> \/ (v = Null /\ w[2] = 0)
      [] OTHER -> v = w
=============================================================================
