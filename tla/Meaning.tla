------------------------------ MODULE Meaning -------------------------------
(***************************************************************************)
(* What programs of the nb language mean, as far as the compiler's         *)
(* analyses claim something about it: how many levels a circuit takes,     *)
(* which value a closure has, which stages an entry point runs on what.    *)
(* None of this is code of the compiler.                                   *)
(***************************************************************************)
EXTENDS Semantic

CONSTANT LevelsOfDegree(_)       \* what chebyshev() of a degree takes

S == INSTANCE StageSchedule

-----------------------------------------------------------------------------
(* Levels.  env gives the depth of every variable, -1 for one that is not  *)
(* encrypted; a function is inlined where it is called.                    *)

Greater(a, b) == IF a > b THEN a ELSE b

Deepest(ds) == CHOOSE d \in ds : \A e \in ds : e <= d

RECURSIVE Level(_, _, _), Returned(_, _, _)
InlinedEnv(f, vs) == [n \in ToSet(f.params) |-> vs[CHOOSE k \in DOMAIN vs : f.params[k] = n]]
CallLevels(c, env, fns) == [k \in DOMAIN c[3] |-> Level(c[3][k][2], env, fns)]
Level(e, env, fns) ==
    LET vs == CallLevels(e, env, fns)
        l == Level(e[3], env, fns)
        r == Level(e[4], env, fns)
    IN  CASE e[1] = "id" -> IF e[2] \in DOMAIN env THEN env[e[2]] ELSE -1
          [] e[1] = "bin" /\ e[2] \in {"*", "*_norelin"} -> IF l = -1 /\ r = -1 THEN -1 ELSE Greater(l, r) + 1
          [] e[1] = "bin" /\ e[2] \in {"+", "-"} -> Greater(l, r)
          [] e[1] = "un" -> l
          [] IsCall(e) ->
                IF Callee(e) \in DOMAIN fns
                THEN Returned(fns[Callee(e)].body[2], InlinedEnv(fns[Callee(e)], vs), fns)
                ELSE IF Callee(e) = <<"chebyshev">>
                THEN Level(Positional(e)[2][2], env, fns) + LevelsOfDegree(NamedArg(e, "degree")[1][2][3])
                ELSE IF Callee(e) = <<"bootstrap">> THEN 0
                ELSE IF Callee(e) = <<"rotate">> THEN vs[1] ELSE -1
          [] OTHER -> -1

(* The level of what the statements return; -1 if nothing.                 *)
Returned(ss, env, fns) ==
    IF ss = <<>> THEN -1
    ELSE LET s == Head(ss)
         IN  CASE s[1] = "let" -> Returned(Tail(ss), (<<s[2]>> :> Level(s[4], env, fns)) @@ env, fns)
               [] s[1] = "return" -> Level(s[2], env, fns)
               [] OTHER -> Returned(Tail(ss), env, fns)

(* Every level that the statements reach, with the scopes of the language. *)
RECURSIVE Levels(_, _, _)
LevelsOf(e, env, fns) == {Level(x, env, fns) : x \in ToSet(Nodes(e, {"closure"})) \ {None}}
Levels(ss, env, fns) ==
    IF ss = <<>> THEN {-1}
    ELSE LET s == Head(ss)
             inner == (CASE s[1] \in {"let", "return", "expr"} -> LevelsOf(Last(s), env, fns)
                         [] s[1] = "if" -> LevelsOf(s[2], env, fns) \cup Levels(s[3][2], env, fns) \cup
                                           Levels(s[4][2], env, fns)
                         [] OTHER -> {-1})
             after == IF s[1] = "let" THEN (<<s[2]>> :> Level(s[4], env, fns)) @@ env ELSE env
         IN  inner \cup Levels(Tail(ss), after, fns)

(* What a run of f on fresh ciphertexts needs.                             *)
IsEnc(te) == te # None /\ te[1] = "enc"
Fresh(f) == [n \in {<<f.params[k][1]>> : k \in DOMAIN f.params} |->
               IF \E k \in DOMAIN f.params : <<f.params[k][1]>> = n /\ IsEnc(f.params[k][2]) THEN 0 ELSE -1]
CircuitDepth(items, fns) ==
    Deepest({0} \cup UNION {Levels(i[2].body[2], Fresh(i[2]), fns) : i \in {j \in ToSet(items) : j[1] = "fn"}})

-----------------------------------------------------------------------------
(* The value of an expression without names: arithmetic.  Inline puts an   *)
(* expression for every name, and a function's body for a call of it.      *)

RECURSIVE Inline(_, _, _, _), InlineBody(_, _, _, _)
Inline(e, binding, fns, fuel) ==
    CASE e[1] = "id" -> IF e[2] \in DOMAIN binding THEN binding[e[2]] ELSE e
      [] e[1] = "un" -> <<"un", e[2], Inline(e[3], binding, fns, fuel)>>
      [] e[1] = "bin" -> <<"bin", e[2], Inline(e[3], binding, fns, fuel), Inline(e[4], binding, fns, fuel)>>
      [] IsCall(e) ->
            LET args == [k \in DOMAIN e[3] |-> Inline(e[3][k][2], binding, fns, fuel)]
                f == fns[Callee(e)]
            IN  IF Callee(e) \notin DOMAIN fns \/ fuel = 0
                THEN <<"call", e[2], [k \in DOMAIN args |-> <<NoName, args[k]>>], None>>
                ELSE InlineBody(f.body, [n \in ToSet(f.params) |->
                                  args[CHOOSE k \in DOMAIN args : f.params[k] = n]], fns, fuel - 1)
      [] OTHER -> e
InlineBody(body, binding, fns, fuel) ==
    IF body[1] # "block" THEN Inline(body, binding, fns, fuel)
    ELSE LET ss == body[2]
             s == Head(ss)
         IN  IF s[1] = "let"
             THEN InlineBody(<<"block", Tail(ss)>>, (<<s[2]>> :> Inline(s[4], binding, fns, fuel)) @@ binding, fns, fuel)
             ELSE Inline(Last(s), binding, fns, fuel)

Lit(v) == IF v < 0 THEN <<"un", "-", <<"lit", "int", -v>> >> ELSE <<"lit", "int", v>>

(* The closure at a point: its body, closed, with the constants.           *)
ClosedAt(closure, point, consts, fns) ==
    LET global == [n \in DOMAIN consts |-> Lit(consts[n])]
        inlined == InlineBody(closure[3], <<closure[2][1][1]>> :> Lit(point), fns, 4)
    IN  Inline(inlined, global, <<>>, 0)

-----------------------------------------------------------------------------
(* Runs of entry points.  A value is a literal, or the term of what was    *)
(* done: a call, an operator, a field; data for what no expression says.   *)

Data == <<"data">>
Ints(vs) == \A k \in DOMAIN vs : vs[k][1] = "lit" /\ vs[k][2] = "int"
Fold1(op, vs) ==
    IF ~Ints(vs) \/ op \notin {"+", "-", "*"} THEN <<"op", op, vs>>
    ELSE IF Len(vs) = 1 THEN S!IntLit(-vs[1][3]) ELSE S!IntLit(Apply(op, vs[1][3], vs[2][3]).v)

(* What e stands for in a running program.                                 *)
RECURSIVE Run(_, _, _), RunAll(_, _, _)
RunAll(es, env, p) == IF es = <<>> THEN <<>> ELSE <<Run(Head(es), env, p)>> \o RunAll(Tail(es), env, p)
Run(e, env, p) ==
    CASE e[1] = "lit" -> e
      [] e[1] = "id" -> IF e[2] \in DOMAIN env THEN env[e[2]]
                        ELSE IF e[2] \in DOMAIN p.consts THEN <<"lit">> \o p.consts[e[2]] ELSE Data
      [] e[1] = "field" -> <<"field", Run(e[2], env, p), e[3]>>
      [] e[1] = "un" -> Fold1(e[2], <<Run(e[3], env, p)>>)
      [] e[1] = "bin" -> Fold1(e[2], <<Run(e[3], env, p), Run(e[4], env, p)>>)
      [] IsCall(e) -> IF Callee(e) \in {<<"load">>} THEN Data
                      ELSE <<"call", Callee(e), RunAll(Seconds(e[3]), env, p)>>
      [] OTHER -> Data

(* The value of a symbolic expression of a schedule.                       *)
RECURSIVE Denotes(_, _, _), DenotesAll(_, _, _)
DenotesAll(xs, env, p) ==
    IF xs = <<>> THEN <<>> ELSE <<Denotes(Head(xs), env, p)>> \o DenotesAll(Tail(xs), env, p)
Denotes(x, env, p) ==
    CASE x[1] = "lit" -> x
      [] x[1] \in {"var", "arg"} -> env[x[2]]
      [] x[1] = "param" -> <<"lit">> \o p.consts[x[2]]
      [] x[1] = "field" -> <<"field", Denotes(x[2], env, p), x[3]>>
      [] x[1] = "op" -> Fold1(x[2], DenotesAll(x[3], env, p))
      [] x[1] = "call" -> <<"call", x[2], DenotesAll(x[3], env, p)>>

(* The files a run of a stage reads and writes: <<wire, path>> in order.   *)
LoadedWire(e) == IF e[1] = "index" THEN e[2][2] ELSE e[2]
RECURSIVE Files(_, _, _, _)
Files(ss, env, wires, p) ==
    IF ss = <<>> THEN <<>>
    ELSE LET s == Head(ss)
             e == Last(s)
             path == Run(NamedArg(e, IF Callee(e) = <<"load">> THEN "from" ELSE "to")[1][2], env, p)
             isState == IsCall(e) /\ Callee(e) \in {<<"load">>, <<"save">>}
             data == Positional(e)[1][2]
             wire == IF Callee(e) = <<"load">> THEN LoadedWire(data)
                     ELSE IF data[1] = "struct" THEN data[2] ELSE wires[data[2]]
             value == IF isState THEN Data ELSE Run(e, env, p)
             name == IF s[1] = "let" THEN <<s[2]>> ELSE s[2][2]
             isWire == isState \/ e[1] = "struct"
             keeps == IF ~isWire THEN wires
                      ELSE (name :> IF isState THEN wire ELSE e[2]) @@ wires
         IN  (IF isState THEN << <<Callee(e)[1], wire, path>> >> ELSE <<>>) \o
             (IF s[1] = "expr" THEN Files(Tail(ss), env, wires, p)
              ELSE Files(Tail(ss), (name :> value) @@ env, keeps, p))

(* The runs of stages that statements of an entry point make.              *)
RECURSIVE Runs(_, _, _), RunsFrom(_, _, _, _, _)
RunsFrom(k, hi, s, env, p) ==
    IF k >= hi THEN <<>>
    ELSE Runs(s[4][2], (<<s[2][1]>> :> S!IntLit(k)) @@ env, p) \o RunsFrom(k + 1, hi, s, env, p)
RunsOfLoop(s, env, p) ==
    RunsFrom(Run(s[3][3], env, p)[3], Run(s[3][4], env, p)[3] + (IF s[3][2] = "..=" THEN 1 ELSE 0), s, env, p)

RunOfStage(c, env, p) ==
    LET f == p.stages[Callee(c)]
        Argument(k) == IF S!Given(f, c, k) # <<>> THEN Run(S!Given(f, c, k)[1], env, p)
                       ELSE Run(f.params[k][3], <<>>, p)
        args == [k \in DOMAIN f.params |-> Argument(k)]
        inner == [n \in {<<f.params[k][1]>> : k \in DOMAIN f.params} |->
                    args[CHOOSE k \in DOMAIN args : <<f.params[k][1]>> = n]]
    IN  << <<f.stage, args, Files(f.body[2], inner, <<>>, p)>> >>

Runs(ss, env, p) ==
    IF ss = <<>> THEN <<>>
    ELSE (IF Head(ss)[1] = "for" THEN RunsOfLoop(Head(ss), env, p) ELSE RunOfStage(Head(ss)[2], env, p))
         \o Runs(Tail(ss), env, p)

(* The same of a schedule.                                                 *)
RECURSIVE Expanded(_, _, _), ExpandedFrom(_, _, _, _, _)
Places(entries, env, p) ==
    {<<entries[k][1], Denotes(entries[k][2][1], env, p)>> : k \in {j \in DOMAIN entries : entries[j][2] # <<>>}}
ExpandedFrom(k, hi, s, env, p) ==
    IF k >= hi THEN <<>>
    ELSE Expanded(s[5], (s[2] :> S!IntLit(k)) @@ env, p) \o ExpandedFrom(k + 1, hi, s, env, p)
ExpandedLoop(s, env, p) == ExpandedFrom(Denotes(s[3], env, p)[3], Denotes(s[4], env, p)[3], s, env, p)
ExpandedStep(s, env, p) ==
    << <<s[2], DenotesAll(s[3], env, p),
         Places(s[4], env, p), Places(s[5], env, p)>> >>
Expanded(ss, env, p) ==
    IF ss = <<>> THEN <<>>
    ELSE (IF Head(ss)[1] = "loop" THEN ExpandedLoop(Head(ss), env, p) ELSE ExpandedStep(Head(ss), env, p))
         \o Expanded(Tail(ss), env, p)

(* A run as the steps of a schedule describe it: the order of the files    *)
(* within a step is not kept.                                              *)
Summary(run) ==
    LET Of(how) == {<<run[3][k][2], run[3][k][3]>> : k \in {j \in DOMAIN run[3] : run[3][j][1] = how}}
    IN  <<run[1], run[2], Of("load"), Of("save")>>

RECURSIVE Summaries(_)
Summaries(runs) == IF runs = <<>> THEN <<>> ELSE <<Summary(Head(runs))>> \o Summaries(Tail(runs))

(* The schedule of f, for arguments args, is what f runs.                  *)
SameRuns(f, entry, args, p) == Expanded(entry.steps, args, p) = Summaries(Runs(f.body[2], args, p))
=============================================================================
