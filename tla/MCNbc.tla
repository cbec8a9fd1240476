-------------------------------- MODULE MCNbc --------------------------------
(***************************************************************************)
(* Compilations of small programs: circuits, compile-time values, sides,   *)
(* schedules and code, each with the options that matter to it.            *)
(***************************************************************************)
EXTENDS Nbc, Semantic

Sched == INSTANCE StageSchedule

(* OpenFHE's table of degrees and levels, as semantic.py:597 quotes it, and *)
(* GRAMMAR.md:445: "chebyshev() increments depth by ceil(log2(degree))".   *)
OpenFheTable == 5 :> 4 @@ 13 :> 5 @@ 27 :> 6 @@ 59 :> 7 @@ 119 :> 8
OpenFheLevels(degree) ==
    LET covering == {d \in DOMAIN OpenFheTable : degree <= d}
    IN  OpenFheTable[CHOOSE d \in covering : \A e \in covering : d <= e]
GrammarLevels(degree) == CeilLog2(degree)

M == INSTANCE Meaning WITH LevelsOfDegree <- OpenFheLevels
Grammar == INSTANCE Meaning WITH LevelsOfDegree <- GrammarLevels

(* From builtins_registry.py, of the builtins that the jobs call.          *)
C == INSTANCE CodeMeaning WITH
        Encrypting <- {<<"rotate">>, <<"bootstrap">>, <<"zero">>, <<"relin">>, <<"negate">>, <<"slot_sum">>, <<"reduce">>},
        Plaintext <- {<<"tile">>}, Vectors <- {<<"tile">>}

MCBuiltins ==
    LET B(ret, opaque) == [returns |-> ret, opaque |-> opaque]
    IN  <<"encrypt">> :> B("enc", FALSE) @@ <<"rotate">> :> B("enc", FALSE) @@
        <<"bootstrap">> :> B("enc", FALSE) @@ <<"chebyshev">> :> B("enc", TRUE) @@
        <<"decrypt">> :> B("unknown", FALSE) @@ <<"keygen">> :> B("struct", FALSE) @@
        <<"map">> :> B("unknown", TRUE) @@ <<"load">> :> B("unknown", FALSE) @@
        <<"save">> :> B("void", FALSE) @@ <<"str">> :> B("string", FALSE) @@
        <<"negate">> :> B("enc", FALSE) @@ <<"relin">> :> B("enc", FALSE) @@
        <<"slot_sum">> :> B("enc", FALSE) @@ <<"zero">> :> B("enc", FALSE) @@
        <<"tile">> :> B("plain", FALSE) @@ <<"reduce">> :> B("unknown", TRUE) @@
        <<"zip_map">> :> B("unknown", TRUE) @@ <<"enumerate">> :> B("unknown", FALSE)
MCClientOnly == {<<"decrypt">>, <<"keygen">>}
MCMathFns == {<<"abs">>, <<"exp">>}
(* Degree d meets a tolerance of 100 - d.                                  *)
MCFitError(closure, d) == 100 - d
MCScheduled(is, consts) == Sched!BuildSchedule(is, consts)

-----------------------------------------------------------------------------
(* Trees.                                                                  *)

V(n) == <<"id", <<n>> >>
N(k) == <<"lit", "int", k>>
Add(l, r) == <<"bin", "+", l, r>>
Mul(l, r) == <<"bin", "*", l, r>>
Neg(e) == <<"un", "-", e>>
Arg(e) == <<NoName, e>>
Call(f, es) == <<"call", V(f), [k \in DOMAIN es |-> Arg(es[k])], None>>
Let(n, e) == <<"let", n, None, e>>
Return(e) == <<"return", e>>
Do(e) == <<"expr", e>>
Block(ss) == <<"block", ss>>
Enc == <<"enc", <<"prim", "f64">> >>
U32 == <<"prim", "u32">>
Const(n, t, e) == <<"const", n, t, e>>
Depth(d) == <<"scheme", [depth |-> d]>>

F(name, side, ps, ret, ss) ==
    <<"fn", [name |-> <<name>>, params |-> ps, ret |-> ret, body |-> Block(ss), sides |-> side,
             encryptors |-> NoName, stage |-> NoName, io |-> <<>>]>>
Stage(f) == <<"fn", [f[2] EXCEPT !.stage = f[2].name[1]]>>
Job(is) == [items |-> is, sets |-> <<>>, schemes |-> <<>>, schedule |-> FALSE]

-----------------------------------------------------------------------------
(* Circuits of two functions over two ciphertexts.                         *)

XY == << <<"x", Enc, None>>, <<"y", Enc, None>> >>
x == V("x")
y == V("y")
Cheb(e, d) == <<"call", V("chebyshev"), << Arg(<<"closure", << <<"v", None>> >>, Mul(V("v"), V("v"))>>),
                                          Arg(e), <<"degree", N(d)>> >>, None>>
Once == {Add(x, y), Mul(x, y), Mul(x, N(2)), Neg(Mul(x, x)), Cheb(x, 5), Call("rotate", <<Mul(x, y), N(1)>>)}
Values == {x, y} \cup Once \cup {Add(x, Mul(y, y)), Mul(Mul(x, y), y), Mul(x, Mul(x, Mul(y, y)))}
Ends == {Add(y, Mul(x, x)), Mul(x, y), Mul(Add(x, y), Add(y, x)), Cheb(Mul(x, y), 13),
         Call("g", <<x, y>>), Mul(Call("g", <<y, x>>), x), Call("bootstrap", <<Mul(x, y)>>),
         Call("rotate", <<Call("g", <<x, x>>), N(1)>>)}
Branch(e) == <<"if", <<"bin", "<", N(1), N(2)>>, Block(<<Do(e)>>), Block(<<Let("z", e), Do(Mul(V("z"), V("z")))>>)>>

Circuits == {
    Job(<<Depth(d), F("g", <<>>, XY, Enc, <<Return(g)>>),
          F("f", <<"server">>, XY, Enc, <<Let("x", v), Branch(w), Let("y", w), Return(e)>>)>>) :
      d \in {1, 3, 20}, g \in {Mul(x, y), Add(x, y), Mul(x, Mul(x, y))}, v \in Values, w \in Once, e \in Ends}

-----------------------------------------------------------------------------
(* Closures that are tried at compile time, and --set of their constants.  *)

FitCall(body, lo, hi, err) ==
    <<"call", V("chebyshev"), << Arg(<<"closure", << <<"v", None>> >>, body>>), Arg(x),
                                 <<"domain", <<"array", <<lo, hi>> >> >>, <<"max_error", err>> >>, None>>
v1 == V("v")
Bodies == {Mul(v1, V("K")), Call("h", <<Add(v1, V("K"))>>), Call("h", <<Call("h", <<v1>>)>>), V("w"),
           Call("exp", <<v1, v1>>), Call("abs", <<Neg(v1)>>), <<"bin", "/", v1, Add(v1, N(1))>>,
           <<"bin", "^", v1, N(2)>>, Call("r", <<v1>>)}
Helper(e) == F("h", <<>>, << <<"w", <<"prim", "f64">>, None>> >>, <<"prim", "f64">>, <<Let("u", Add(V("w"), V("w"))), Return(e)>>)
Fits == {
    [Job(<<Const(<<"K">>, k, N(3)), Const(<<"lib", "K">>, U32, Add(N(1), V("K"))), Const(<<"LO">>, <<"prim", "i32">>, lo),
           Depth(20), Helper(e), F("r", <<>>, << <<"w", <<"prim", "f64">>, None>> >>, <<"prim", "f64">>, <<Return(Call("r", <<V("w")>>))>>),
           F("f", <<"server">>, XY, Enc, <<Return(FitCall(b, V("LO"), V("K"), err))>>)>>)
       EXCEPT !.sets = sets] :
      k \in {U32, <<"prim", "f64">>}, lo \in {N(0), Neg(N(1)), <<"bin", "/", N(1), N(0)>>},
      e \in {Mul(V("w"), V("u")), Add(V("v"), V("u"))}, b \in Bodies, err \in {N(50), V("K")},
      sets \in {<<>>, << [name |-> <<"LO">>, text |-> [int |-> -1, string |-> -1]] >>}}

Text(k) == IF k < 0 THEN [int |-> k, float |-> k, string |-> k] ELSE [int |-> k, float |-> k, string |-> k, word |-> k]
Word == [string |-> 0, word |-> 0]
Options == {None} \cup [name : {<<"K">>, <<"lib", "K">>, <<"LO">>, <<"M">>}, text : {Text(7), Text(-7), Word, [bool |-> 1, string |-> 1, word |-> 1]}]
SchemeOptions == {None} \cup [name : {"linear_transform_batch", "depth"}, text : {Text(7), [string |-> 1]}]
Batch == <<"scheme", [depth |-> 3, linear_transform_batch |-> [int |-> 1]]>>
OptionProgram(schemes) ==
    <<Const(<<"K">>, U32, N(3)), Const(<<"lib", "K">>, <<"prim", "f64">>, V("K")), Const(<<"LO">>, <<"prim", "i32">>, N(2)),
      Const(<<"M">>, <<"named", <<"T">>, NoName>>, <<"lit", "bool", 0>>)>> \o
    schemes
OptionJobs == {
    [Job(OptionProgram(b)) EXCEPT !.sets = sets] :
      b \in {<<>>, <<Batch>>}, sets \in UNION {[1 .. k -> Options] : k \in 0 .. 2}} \cup {
    [Job(OptionProgram(b)) EXCEPT !.schemes = schemes] :
      b \in {<<>>, <<Depth(3)>>, <<Batch>>}, schemes \in UNION {[1 .. k -> SchemeOptions] : k \in 0 .. 2}}

-----------------------------------------------------------------------------
(* Functions of one side or the other that call for a key somewhere.       *)

Arm(body) == <<"match", N(1), << << <<"id pattern", <<"w">> >>, body>>, << <<"wildcard">>, N(0)>> >> >>
Hiding(c) == {
    Do(c), Return(c), Let("z", Add(x, c)), <<"let tuple", <<"z", "_">>, c>>, <<"assign", x, c>>, <<"assert", c, NoName>>,
    Do(<<"closure", << <<"w", None>> >>, c>>), Do(Call("map", <<x, <<"closure", << <<"w", None>> >>, Block(<<Return(c)>>)>> >>)),
    <<"if", c, Block(<<>>), None>>, <<"if", x, Block(<<>>), <<"if", x, Block(<<>>), Block(<<Do(c)>>)>> >>,
    <<"for", <<"w">>, <<"range", "..", N(0), N(2)>>, Block(<<Do(c)>>)>>, Do(<<"for expr", <<"w">>, c, Block(<<>>)>>),
    Arm(c), Arm(Block(<<Do(c)>>)), Arm(Return(c)), Do(<<"pipe", x, c[2]>>), Do(<<"array", <<x, c>> >>),
    Do(<<"struct", <<"W">>, << <<"f", c>>, <<"g", None>> >> >>), Do(<<"index", <<"slice", x, N(0), c>>, N(1)>>),
    Do(<<"method", x, "f", << Arg(c) >> >>), Do(<<"field", c, "f">>), Do(<<"cast", c, U32>>), Do(Neg(c))}
Sides == {
    Job(<<F("h", s2, XY, None, <<Do(Call("keygen", <<>>))>>), F("f", s1, XY, None, <<b>>)>>) :
      s1, s2 \in {<<>>, <<"server">>, <<"client">>, <<"server", "client">>},
      b \in Hiding(Call("decrypt", <<x>>)) \cup Hiding(Call("h", <<x, y>>))}

-----------------------------------------------------------------------------
(* Schedules: an entry point that runs a stage, the stage, a helper.       *)

Dir(e) == Call("dir", <<e>>)
LoadW(e) == <<"call", V("load"), << Arg(V("W")), <<"from", e>> >>, None>>
SaveW(v, e) == Do(<<"call", V("save"), << Arg(v), <<"to", e>> >>, None>>)
W == <<"struct", <<"W">>, << <<"f", x>> >> >>
vi == V("i")
vj == V("j")
StageBodies == {
    <<Let("a", LoadW(Dir(vi))), SaveW(V("a"), Dir(vj))>>,
    <<Let("d", Dir(vi)), Let("d", Dir(Add(V("d"), vj))), Let("a", LoadW(V("d"))), SaveW(W, V("d"))>>,
    <<Let("k", Add(vi, V("R"))), SaveW(W, Dir(V("k"))), Let("i", V("k")), SaveW(W, Dir(vi))>>,
    <<Let("d", Dir(vi)), <<"assign", V("d"), Dir(vj)>>, SaveW(W, V("d"))>>,
    <<Let("i", Add(vi, N(1))), SaveW(W, Dir(vi))>>,
    <<Let("R", Mul(vi, vj)), SaveW(W, Dir(V("R")))>>,
    <<Let("w", W), SaveW(V("w"), Dir(Neg(vi))), Let("w", vi), SaveW(V("w"), Dir(vi))>>,
    <<SaveW(W, Dir(vi)), SaveW(W, Dir(vj)), SaveW(W, Dir(Add(vi, N(0))))>>,
    <<Let("d", vj), Let("j", Dir(V("d"))), Let("a", LoadW(vj)), Let("d", Add(V("R"), V("d"))), SaveW(W, V("d"))>>,
    <<Let("a", LoadW(Dir(vi))), <<"if", x, Block(<<SaveW(W, Dir(vi))>>), None>> >>}
ForIn(v, rel, lo, hi, ss) == <<"for", <<v>>, <<"range", rel, lo, hi>>, Block(ss)>>
va == V("a")
Keyed(k, e, args) == <<"call", V("s"), args \o << <<k, e>> >>, None>>
Entries == {
    <<ForIn("i", "..", N(0), V("R"), <<ForIn("j", "..=", vi, N(2), <<Do(Call("s", <<vi, vj>>))>>)>>)>>,
    <<ForIn("R", "..", va, N(3), <<Do(Call("s", <<V("R")>>))>>), Do(Call("s", <<va>>))>>,
    <<ForIn("a", "..=", va, Add(va, V("R")), <<Do(Keyed("j", Mul(va, N(3)), <<Arg(va)>>))>>)>>,
    <<Do(Keyed("i", V("R"), <<Arg(va)>>))>>,
    <<Do(Keyed("i", va, << <<"j", Neg(N(1))>> >>))>>, <<Do(Call("s", <<>>))>>,
    <<Do(Call("s", <<N(1), V("R")>>)), Let("b", va)>>, <<Do(Call("dir", <<va>>))>>}
IJ == << <<"i", U32, None>>, <<"j", U32, V("R")>> >>
Schedule(ss, side, es, R) ==
    [Job(<<<<"wire", <<"W">>, << <<"f", Enc>> >> >>, Const(<<"R">>, U32, R), F("dir", <<>>, << <<"n", U32, None>> >>, <<"prim", "path">>, <<Return(V("n"))>>),
           Stage(F("s", side, IJ, None, ss)), Stage(F("run", <<"server">>, << <<"a", U32, None>> >>, None, es))>>)
       EXCEPT !.schedule = TRUE]
Schedules == {Schedule(ss, side, es, R) :
                ss \in StageBodies, side \in {<<"server">>, <<"client">>}, es \in Entries, R \in {N(2), Neg(N(1))}}

-----------------------------------------------------------------------------
(* Functions to generate code of: two expressions in every kind of place.  *)

Sub(l, r) == <<"bin", "-", l, r>>
Vec(t) == <<"vec", t, None>>
F64 == <<"prim", "f64">>
Id(n, t) == <<n, t, None>>
vv == V("v")
kk == V("k")
xs == V("xs")
Pipe(l, r) == <<"pipe", l, r>>
With(f, es, named) == <<"call", V(f), [k \in DOMAIN es |-> Arg(es[k])] \o named, None>>
Lambda(ns, e) == <<"closure", [k \in DOMAIN ns |-> <<ns[k], None>>], e>>
Total(e) == Call("reduce", <<<<"id", <<"op", "+">> >>, e>>)
Load == Call("load", <<V("W")>>)
Zero == Call("zero", <<>>)

Tame == {
    x, <<"index", xs, N(1)>>, Add(x, y), Sub(x, y), Mul(kk, x), Sub(y, kk), Mul(vv, y), Sub(vv, x),
    Mul(Call("fill", <<kk>>), x), Call("rotate", <<x, N(1)>>), Pipe(x, Call("slot_sum", <<N(4)>>)),
    Pipe(Mul(x, y), V("relin")), <<"bin", "*_norelin", x, y>>, With("h", <<y>>, << <<"c", kk>> >>),
    With("h", <<>>, << <<"b", N(7)>>, <<"a", x>> >>), Total(xs), <<"field", Load, "c">>, Call("negate", <<y>>)}
Wild == {Neg(x), Mul(Neg(x), N(2)), Zero, Add(x, Zero), Add(Zero, x), Pipe(x, V("h")), Mul(kk, vv), Sub(kk, V("a")),
         With("h", <<x>>, << <<"a", y>> >>), <<"index", xs, N(3)>>, V("w")}
Places(e1, e2) == {
    <<Let("a", e1), Let("a", Mul(va, y)), Return(Add(va, e2))>>,
    << <<"let", "t", Enc, Zero>>, <<"for", <<"q">>, <<"range", "..=", N(0), N(2)>>, Block(<<
            Let("a", e1), <<"assign", V("t"), Add(V("t"), Mul(va, V("q")))>> >>)>>, Return(Mul(V("t"), e2))>>,
    << <<"let", "t", Enc, Zero>>, <<"for", <<"q", "w">>, Call("enumerate", <<xs>>), Block(<<
            Let("a", Mul(V("w"), V("q"))), <<"assign", V("t"), Add(V("t"), Mul(va, e1))>> >>)>>, Return(Mul(V("t"), e2))>>,
    << <<"if", <<"bin", "<", kk, N(1)>>, Block(<<Let("a", e1), Return(va)>>), Block(<<Let("a", e2), Return(Mul(va, x))>>)>> >>,
    << <<"if", <<"bin", "==", V("MODE"), N(2)>>, Block(<<Return(e1)>>), None>>, Let("a", e2), Return(Mul(va, x)) >>,
    << <<"let tuple", <<"a", "b">>, Call("two", <<e1>>)>>, Return(Mul(Add(va, V("b")), e2))>>,
    <<Let("z", <<"if expr", <<"bin", "<", kk, N(1)>>, Block(<<Do(e1)>>), Block(<<Do(e2)>>)>>), Return(Mul(V("z"), y))>>,
    <<Let("z", <<"match expr", kk, << << <<"lit pattern", 0>>, e1>>,
            << <<"wildcard">>, Block(<<Let("a", e2), Do(Mul(va, x))>>)>> >> >>), Return(Mul(V("z"), y))>>,
    << <<"match", kk, << << <<"id pattern", <<"MODE">> >>, <<"return", e1>> >>, << <<"wildcard">>, e2>> >> >> >>,
    <<Let("ys", <<"for expr", <<"q">>, <<"range", "..", N(0), N(3)>>, Block(<<Let("a", e1), Do(Mul(va, x))>>)>>),
            Return(Add(Total(V("ys")), e2))>> }
InMaps(e1, e2) == {
    <<Let("ys", Call("map", <<xs, Lambda(<<"w">>, Add(V("w"), e1))>>)), Return(Add(Total(V("ys")), e2))>>,
    <<Let("ys", Call("zip_map", <<xs, xs, Lambda(<<"w", "u">>, Mul(V("w"), V("u")))>>)),
            Let("m", Load), Return(Add(Total(V("ys")), Mul(e1, <<"field", V("m"), "n">>)))>> }
CodeJob(ss) ==
    Job(<<Const(<<"MODE">>, U32, N(2)), <<"wire", <<"W">>, << <<"c", Enc>>, <<"n", F64>> >> >>,
          F("h", <<>>, <<Id("a", Enc), <<"b", F64, N(2)>>, <<"c", F64, N(3)>> >>, Enc, <<Return(Sub(Mul(va, V("b")), V("c")))>>),
          F("two", <<>>, <<Id("a", Enc)>>, <<"tuple", <<Enc, F64>> >>, <<Let("b", Mul(va, va)), Return(<<"array", <<V("b"), N(5)>> >>)>>),
          F("fill", <<>>, <<Id("n", F64)>>, Vec(F64), <<Return(Call("tile", <<V("n"), N(4)>>))>>),
          F("f", <<"server">>, <<Id("x", Enc), Id("y", Enc), Id("v", Vec(F64)), Id("k", F64), Id("xs", Vec(Enc))>>, Enc, ss)>>)
TameJobs == {CodeJob(ss) : ss \in UNION {Places(e1, Mul(x, kk)) \cup Places(Sub(vv, x), e1) : e1 \in Tame}}
MapJobs == {CodeJob(ss) : ss \in UNION {InMaps(e1, Mul(x, kk)) : e1 \in Tame \ {Mul(vv, y), Sub(vv, x)}}}
WildJobs == {CodeJob(ss) : ss \in UNION {Places(e1, e2) \cup InMaps(e1, e2) \cup Places(e2, e1) : e1 \in Wild, e2 \in {Zero, Mul(kk, x)}}}
CodeJobs == TameJobs \cup MapJobs \cup WildJobs

(* Maps over a collection, the element on either side of the operator.     *)
Maps == {
    CodeJob(<<Let("ys", Call("map", <<xs, Lambda(<<"w">>, <<"bin", o, l, r>>)>>)), Return(Total(V("ys")))>>) :
      o \in {"+", "-", "*"}, l \in {V("w"), kk, y}, r \in {V("w"), kk, y}}

MCJobs == Circuits \cup Fits \cup OptionJobs \cup Sides \cup Schedules \cup CodeJobs
MCRebuilds == {Schedule(CHOOSE ss \in StageBodies : Len(ss) = 3, <<"server">>, es, N(2)) : es \in Entries}

-----------------------------------------------------------------------------
(* Properties.                                                             *)

Compiled == phase \in {"analyzed", "generated", "writing", "done"}
FnsOf(is) == [n \in {f[2].name : f \in {j \in ToSet(is) : j[1] = "fn"}} |->
                LET f == (CHOOSE g \in ToSet(is) : g[1] = "fn" /\ g[2].name = n)[2]
                IN  [params |-> [k \in DOMAIN f.params |-> <<f.params[k][1]>>], body |-> f.body]]

(* A circuit is not said to be deeper than it is, its calls inlined and a *)
(* chebyshev() taken to be what OpenFHE's table says; one that compiles and *)
(* is made of products, signs, lets, branches and chebyshev() is not said  *)
(* to be shallower.  Sums, calls and rotations lose levels (DepthEnforced); *)
(* loops and relinearisations put off are not among the circuits.          *)
Multiplies(is) ==
    \A n \in UNION {ToSet(Nodes(f[2].body, {})) : f \in {i \in ToSet(is) : i[1] = "fn"}} :
        /\ n[1] = "bin" => n[2] \in {"*", "<"}
        /\ IsCall(n) => Callee(n) = <<"chebyshev">>
DepthsRight ==
    job \in Circuits =>
      LET depth == M!CircuitDepth(items, FnsOf(items))
      IN  /\ analysis.observed <= depth
          /\ Compiled /\ Multiplies(items) => analysis.observed = depth

(* GRAMMAR.md:445: chebyshev() takes ceil(log2(degree)) levels, no more.   *)
DepthAsDocumented ==
    job \in Circuits => analysis.observed <= Grammar!CircuitDepth(items, FnsOf(items))

Of(n) == {Callee(c) : c \in ToSet(Calls(n, {}))} \cap ClientOnly
InReturnArm(n) ==
    UNION {UNION {Of(m[3][k][2]) : k \in {j \in DOMAIN m[3] : m[3][j][2][1] = "return"}} :
             m \in {o \in ToSet(Nodes(n, {})) : o[1] \in {"match", "match expr"}}}
ServerBodies == {f[2].body : f \in {g \in ToSet(items) : g[1] = "fn" /\ g[2].sides # <<>> /\ g[2].sides[1] = "server"}}

(* The secret key stays on the client: a program that compiles has no      *)
(* server function that calls for it, whatever statements, arms and        *)
(* closures the call is in, but for arms that only return; and a program   *)
(* is not refused for a call it does not make.                             *)
DomainsKept ==
    LET calls == UNION {Of(b) : b \in ServerBodies}
        excused == UNION {InReturnArm(b) : b \in ServerBodies}
        reported == {e[2] : e \in {d \in analysis.errors : d[1] = "domain"}}
    IN  /\ reported \subseteq calls
        /\ job \in Sides /\ Compiled => calls \subseteq excused

FitCalls == {c \in UNION {ToSet(Calls(b, {})) : b \in ServerBodies} : NamedArg(c, "max_error") # <<>>}

(* The approximation a program is given is one of its own function: where  *)
(* a closure has a value at compile time it is that of its body with every *)
(* call replaced by what is called and every constant, also one of --set,  *)
(* by its value; it has one at every point of the domain.                  *)
FitsTheFunction ==
    job \in Fits => \A c \in FitCalls :
        LET closure == Positional(c)[1][2]
            values == [n \in {m \in DOMAIN analysis.consts : Numeric(analysis.consts[m])} |-> analysis.consts[n][2]]
            dom == Interval(c, analysis)
            Meant(p) == Eval(M!ClosedAt(closure, p, values, FnsOf(items)), <<>>, 0, [consts |-> <<>>, fns |-> <<>>])
            Found(p) == ValueAt(closure, p, [consts |-> values, fns |-> FnsOf(items)])
        IN  /\ \A p \in -2 .. 2 : Found(p).how = "value" => Found(p) = Meant(p)
            /\ Compiled => \A p \in dom[1] .. dom[2] : Meant(p).how = "value"

(* A schedule is the program: for any arguments, its steps are the stages  *)
(* that the entry point runs, in that order, each with the arguments it is *)
(* given and the files that its body reads and writes.                     *)
ScheduleRuns ==
    job \in Schedules /\ phase = "writing" =>
      \A k \in DOMAIN schedule.entries :
        LET p == Sched!Program(items, analysis.consts)
            f == (CHOOSE i \in ToSet(items) : i[1] = "fn" /\ i[2].stage = schedule.entries[k].entry)[2]
        IN  \A n \in 0 .. 2 : M!SameRuns(f, schedule.entries[k], <<"a">> :> Sched!IntLit(n), p)

CodeInput(twin, k) ==
    LET ct(n) == IF twin THEN <<"vec", n>> ELSE <<"ct", n>>
    IN  <<ct(17), ct(29), <<"vec", 41>>, C!Num(k),
          <<"list", IF twin THEN C!Slots ELSE <<"ciphertext">>, <<ct(51), ct(63), ct(75)>> >> >>
Coded == Last(items)[2]
CodeReturns(twin, k) == C!CppCall(<<"f">>, CodeInput(twin, k), C!Compiled(C!Setting(Coded, items, twin)))
CodeRuns(ks) == {[twin |-> twin, k |-> k, value |-> CodeReturns(twin, k)] : twin \in BOOLEAN, k \in ks}
Means(v, twin, k) == C!Same(v, C!CallOf(Coded, CodeInput(FALSE, k), C!Setting(Coded, items, FALSE)), twin)
Returns(run, mayFail) == (run.value = C!Bad /\ mayFail) \/ Means(run.value, run.twin, run.k)

(* The C++ of a function returns what the function returns, and so does    *)
(* its cleartext twin: an operand believed to be what it is not makes C++  *)
(* that a compiler refuses (codegen.py:5479), never another value.  Both   *)
(* compile as long as nothing is negated by an operator, null, piped into  *)
(* a user's function, out of range or unknown; of a map over ciphertexts   *)
(* only the C++ does, its twin is made of the same FHE calls.              *)
CodeMeansSource ==
    phase = "generated" /\ job \in CodeJobs =>
      \A run \in CodeRuns({0, 2}) :
        Returns(run, job \notin TameJobs /\ (job \in MapJobs => run.twin))

(* NB_LANGUAGE.md: map applies its function to each element.               *)
MapsApplyTheirFunction ==
    phase = "generated" /\ job \in Maps =>
      \A run \in CodeRuns({2}) : Returns(run, TRUE)

(* GRAMMAR.md: a circuit deeper than scheme.depth is a compile error.      *)
DepthEnforced ==
    job \in Circuits /\ phase = "done" => M!CircuitDepth(items, FnsOf(items)) <= analysis.max
=============================================================================
