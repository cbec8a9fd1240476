--------------------------- MODULE StageSchedule ----------------------------
(***************************************************************************)
(* schedule.py: the steps of a server entry point, as data.  Items are     *)
(* those of Semantic.  None is a NoSchedule, its reason left out.          *)
(* A symbolic expression is a literal, <<"var" | "arg" | "param", name>>,  *)
(* <<"field", e, f>>, <<"op", o, args>> or <<"call", f, args>>.  A path is *)
(* its expression: the text and the variables of it follow from that.      *)
(* A step is [stage, args, reads, writes], a loop [for, from, to, body].   *)
(* A program p is [fns, stages, wires, consts]: every function and every   *)
(* stage by name, the names of the wires, the values of the constants.     *)
(***************************************************************************)
EXTENDS Ast

Nested == {"for", "if", "match", "for expr", "if expr", "match expr", "closure"}
StateCalls == {<<"load">>, <<"save">>, <<"load_all">>}

(* The last annotation that names a side decides.                          *)
Side(f) == IF f.sides = <<>> THEN "shared" ELSE Last(f.sides)
Stages(p) == DOMAIN p.stages

-----------------------------------------------------------------------------
(* Symbolic expressions.                                                   *)

IntLit(n) == <<"lit", "int", n>>
IsNumber(e) == e[1] = "lit" /\ e[2] \in {"int", "float"}

RECURSIVE Sym(_, _, _, _), SymAll(_, _, _, _)
SymAll(es, env, calls, p) ==
    IF es = <<>> THEN <<>> ELSE <<Sym(Head(es), env, calls, p)>> \o SymAll(Tail(es), env, calls, p)

(* e over env, [name -> expression], and the constants; with calls, calls  *)
(* of functions that are no stages are kept as they are.                   *)
Sym(e, env, calls, p) ==
    LET ks == CASE e[1] = "un" -> <<e[3]>>
                [] e[1] = "bin" -> <<e[3], e[4]>>
                [] e[1] = "field" -> <<e[2]>>
                [] OTHER -> Seconds(e[3])
        isOp == \/ e[1] = "un" /\ e[2] = "-"
                \/ e[1] = "bin" /\ e[2] \in {"+", "-", "*", "/", "%"}
        isCall == /\ calls /\ IsCall(e) /\ Len(Positional(e)) = Len(e[3])
                  /\ Callee(e) \notin Stages(p) \cup StateCalls
        Of(args) ==
            IF \E k \in DOMAIN args : args[k] = None THEN None
            ELSE CASE e[1] = "field" -> <<"field", args[1], e[3]>>
                   [] e[1] = "un" /\ IsNumber(args[1]) -> [args[1] EXCEPT ![3] = -@]
                   [] e[1] = "call" -> <<"call", Callee(e), args>>
                   [] OTHER -> <<"op", e[2], args>>
    IN  CASE e[1] = "lit" -> e
          [] e[1] = "id" ->
                IF e[2] \in DOMAIN env THEN env[e[2]]
                ELSE IF e[2] \notin DOMAIN p.consts THEN None
                ELSE IF p.consts[e[2]] = None THEN None ELSE <<"param", e[2]>>
          [] OTHER -> IF e[1] = "field" \/ isOp \/ isCall THEN Of(SymAll(ks, env, calls, p)) ELSE None

-----------------------------------------------------------------------------
(* What one stage reads and writes.  The state st of the walk over its     *)
(* body is [ok, env, wires, reads, writes]; wires says of which variable   *)
(* the value is known to be of which wire.                                 *)

Refuse(st) == [st EXCEPT !.ok = FALSE]
AddNew(entries, e) == IF e \in ToSet(entries) THEN entries ELSE Append(entries, e)
Without(f, names) == [n \in DOMAIN f \ names |-> f[n]]

(* The wire that load(W) or load(W[i]) names, and its index.               *)
LoadWire(c, p) ==
    LET Of(name, idx) == IF name[1] # "id" \/ name[2] \notin p.wires THEN None ELSE <<name[2], idx>>
        First(args) == IF args = <<>> THEN None
                       ELSE IF args[1][2][1] = "index" THEN Of(args[1][2][2], args[1][2][3])
                       ELSE Of(args[1][2], None)
    IN  First(Positional(c))

(* A named argument that is a path: none, or the one.                      *)
PathOf(c, arg, env, p) ==
    LET Of(as) == IF as = <<>> THEN <<>> ELSE <<Sym(as[1][2], env, TRUE, p)>> IN Of(NamedArg(c, arg))

Reads(wire, path, idx, st) ==
    IF path = <<None>> \/ idx = <<None>> THEN Refuse(st)
    ELSE [st EXCEPT !.reads = AddNew(@, <<wire, path, idx>>)]
Writes(wire, path, st) ==
    IF wire = None \/ path = <<>> \/ path = <<None>> THEN Refuse(st)
    ELSE [st EXCEPT !.writes = AddNew(@, <<wire, path, <<>> >>)]

Load(c, st, p) ==
    LET Index(idx) == IF idx = None THEN <<>> ELSE <<Sym(idx, st.env, FALSE, p)>>
        Of(w) == IF w = None THEN Refuse(st) ELSE Reads(w[1], PathOf(c, "from", st.env, p), Index(w[2]), st)
    IN  Of(LoadWire(c, p))

Save(c, st, p) ==
    LET Wire(args) ==
            CASE args = <<>> -> None
              [] args # <<>> /\ args[1][2][1] = "struct" /\ args[1][2][2] \in p.wires -> args[1][2][2]
              [] OTHER -> IF args[1][2][1] = "id" /\ args[1][2][2] \in DOMAIN st.wires
                          THEN st.wires[args[1][2][2]] ELSE None
    IN  Writes(Wire(Positional(c)), PathOf(c, "to", st.env, p), st)

RECURSIVE Effects(_, _, _)
Effects(cs, st, p) ==
    IF cs = <<>> \/ ~st.ok THEN st
    ELSE Effects(Tail(cs), CASE Callee(Head(cs)) = <<"load">> -> Load(Head(cs), st, p)
                             [] Callee(Head(cs)) = <<"save">> -> Save(Head(cs), st, p)
                             [] OTHER -> st, p)

Forget(st, names) == [st EXCEPT !.env = Without(@, names), !.wires = Without(@, names)]

(* let name = value: a wire, a symbolic value, or nothing known.           *)
BindLet(s, st, p) ==
    LET name == <<s[2]>>
        isLoad == IsCall(s[4]) /\ Callee(s[4]) = <<"load">>
        wire == IF isLoad THEN LoadWire(s[4], p)
                ELSE IF s[4][1] = "struct" /\ s[4][2] \in p.wires THEN <<s[4][2]>> ELSE None
        Known(free, value) == IF value = None THEN free ELSE [free EXCEPT !.env = (name :> value) @@ @]
        Of(free) == IF wire # None THEN [free EXCEPT !.wires = (name :> wire[1]) @@ @]
                    ELSE Known(free, Sym(s[4], free.env, TRUE, p))
    IN  Of(Forget(st, {name}))

Assigned(s) ==
    {n[2][2] : n \in {m \in ToSet(Nodes(s, {})) : m[1] = "assign" /\ m[2][1] = "id"}}

Binds(s, st, p) ==
    CASE s[1] = "let" -> BindLet(s, st, p)
      [] s[1] = "let tuple" -> Forget(st, {<<n>> : n \in ToSet(s[2])})
      [] OTHER -> st
Follow(st, s, p) ==
    LET Then(done) == IF ~done.ok THEN done ELSE Forget(Binds(s, done, p), Assigned(s))
    IN  Then(Effects(Calls(s, Nested), st, p))

RECURSIVE FollowAll(_, _, _)
FollowAll(ss, st, p) ==
    IF ss = <<>> \/ ~st.ok THEN st ELSE FollowAll(Tail(ss), Follow(st, Head(ss), p), p)

(* The clauses reads(...) and writes(...), read with the bindings that the *)
(* body ends with: a wire that it does not load or save, and paths.        *)
Clause(st, kind, t, p) ==
    LET writing == kind \in {"writes", "writes_plaintext"}
        entries == IF writing THEN st.writes ELSE st.reads
        Index(idx) == IF idx = None THEN <<>>
                      ELSE IF idx = <<"id", <<"*">> >> THEN <<idx>> ELSE <<Sym(idx, st.env, FALSE, p)>>
        Adds(entry) == IF entry[2] = <<None>> \/ entry[3] = <<None>> THEN Refuse(st)
                       ELSE IF writing THEN [st EXCEPT !.writes = AddNew(@, entry)]
                       ELSE [st EXCEPT !.reads = AddNew(@, entry)]
    IN  IF t[1] = "io path" THEN Adds(<<None, <<Sym(t[2], st.env, TRUE, p)>>, <<>> >>)
        ELSE IF \E k \in DOMAIN entries : entries[k][1] = t[2] THEN st
        ELSE Adds(<<t[2], <<>>, Index(t[3])>>)

RECURSIVE Clauses(_, _, _)
Clauses(io, st, p) ==
    IF io = <<>> \/ ~st.ok THEN st
    ELSE Clauses(Tail(io), FoldLeft(LAMBDA s, t : IF s.ok THEN Clause(s, io[1][1], t, p) ELSE s, st, io[1][2]), p)

(* The helpers that are called from n, also through one another.           *)
RECURSIVE Reach(_, _)
Reach(names, p) ==
    LET More(called) == IF called \subseteq names THEN names ELSE Reach(names \cup called, p)
    IN  More(UNION {Called(p.fns[h].body) : h \in names} \cap (DOMAIN p.fns \ Stages(p)))
Helpers(n, p) == Reach(Called(n) \cap (DOMAIN p.fns \ Stages(p)), p)

OfState(cs) == SelectSeq(cs, LAMBDA c : Callee(c) \in StateCalls)

(* A body whose effects on files no walk over its statements shows.        *)
Hides(f, p) ==
    LET body == f.body
        top == FlattenSeq([k \in DOMAIN body[2] |-> Calls(body[2][k], Nested)])
    IN  \/ f.ret # None
        \/ \E n \in ToSet(Nodes(body, {})) : n[1] = "return" /\ n[2] # None
        \/ Called(body) \cap (Stages(p) \cup {<<"load_all">>}) # {}
        \/ \E h \in Helpers(body, p) : Called(p.fns[h].body) \cap StateCalls # {}
        \/ Len(OfState(Calls(body, {}))) # Len(OfState(top))

(* state(): the reads and writes of one run of stage f with args.          *)
State(f, args, p) ==
    LET start == [ok |-> TRUE, env |-> args, wires |-> <<>>, reads |-> <<>>, writes |-> <<>>]
    IN  IF Hides(f, p) THEN Refuse(start) ELSE Clauses(f.io, FollowAll(f.body[2], start, p), p)

-----------------------------------------------------------------------------
(* Entry points.                                                           *)

(* The argument a call gives to the k-th parameter of f: <<>> for none.    *)
Given(f, call, k) ==
    LET Of(pos, named) == IF k <= Len(pos) THEN <<pos[k][2]>> ELSE IF named # <<>> THEN <<named[1][2]>> ELSE <<>>
    IN  Of(Positional(call), NamedArg(call, f.params[k][1]))

ParamIndex(f, name) == {k \in DOMAIN f.params : f.params[k][1] = name}

(* Every argument is for a parameter, and no parameter gets two.           *)
ArgsFit(f, call) ==
    LET n == Len(Positional(call))
        named == {k \in DOMAIN call[3] : call[3][k][1] # NoName}
    IN  /\ n <= Len(f.params)
        /\ \A k \in named : \E j \in ParamIndex(f, call[3][k][1]) : j > n
        /\ \A k, j \in named : call[3][k][1] = call[3][j][1] => k = j

\* The bug of reading a default with the bindings of the caller.
BugArgument(f, call, k, env, p) ==
    LET Of(given) == IF given # <<>> THEN Sym(given[1], env, FALSE, p)
                     ELSE IF f.params[k][3] # None THEN Sym(f.params[k][3], env, FALSE, p) ELSE None
    IN  Of(Given(f, call, k))

(* The k-th argument: given, or its default.                               *)
Argument(f, call, k, env, p) ==
    LET Of(given) == IF given # <<>> THEN Sym(given[1], env, FALSE, p)
                     ELSE IF f.params[k][3] # None THEN Sym(f.params[k][3], <<>>, FALSE, p) ELSE None
    IN  Of(Given(f, call, k))

StepOf(f, args, st) == IF st.ok THEN <<"step", f.stage, args, st.reads, st.writes>> ELSE None
StepWith(f, args, p) ==
    LET byName == [n \in {<<f.params[k][1]>> : k \in DOMAIN f.params} |->
                     args[CHOOSE k \in DOMAIN f.params : <<f.params[k][1]>> = n]]
    IN  IF \E k \in DOMAIN args : args[k] = None THEN None ELSE StepOf(f, args, State(f, byName, p))
Step(call, env, p) ==
    LET f == p.stages[Callee(call)]
    IN  IF Side(f) # "server" \/ ~ArgsFit(f, call) THEN None
        ELSE StepWith(f, [k \in DOMAIN f.params |-> Argument(f, call, k, env, p)], p)

RECURSIVE Steps(_, _, _)
(* A loop over lo..hi, or over lo..=hi, which ends behind hi.              *)
Behind(last) ==
    IF last[1] = "lit" /\ last[2] = "int" THEN IntLit(last[3] + 1) ELSE <<"op", "+", <<last, IntLit(1)>> >>
LoopOf(name, lo, last, inclusive, body) ==
    IF lo = None \/ last = None \/ body = <<None>> THEN None
    ELSE <<"loop", <<name>>, lo, IF inclusive THEN Behind(last) ELSE last, body>>
Loop(s, env, p) ==
    IF Len(s[2]) # 1 \/ s[3][1] # "range" THEN None
    ELSE LoopOf(s[2][1], Sym(s[3][3], env, FALSE, p), Sym(s[3][4], env, FALSE, p), s[3][2] # "..",
                Steps(s[4][2], (<<s[2][1]>> :> <<"var", <<s[2][1]>> >>) @@ env, p))

(* The steps of statements that are stage calls and loops; <<None>> if one *)
(* is anything else.                                                       *)
Steps(ss, env, p) ==
    LET s == Head(ss)
        isStep == s[1] = "expr" /\ IsCall(s[2]) /\ Callee(s[2]) \in Stages(p)
        OneThen(step, rest) == IF step = None \/ rest = <<None>> THEN <<None>> ELSE <<step>> \o rest
    IN  IF ss = <<>> THEN <<>>
        ELSE OneThen(CASE s[1] = "for" -> Loop(s, env, p) [] isStep -> Step(s[2], env, p) [] OTHER -> None,
                     Steps(Tail(ss), env, p))

(* entry(): [entry, defaults, steps], None without a schedule.             *)
Entry(f, p) ==
    LET env == [n \in {<<f.params[k][1]>> : k \in DOMAIN f.params} |-> <<"arg", n>>]
        Of(defaults, steps) ==
            IF \/ \E k \in DOMAIN defaults : defaults[k] = <<None>>
               \/ \E k \in DOMAIN f.io : f.io[k][1] \in {"writes", "writes_plaintext"}
               \/ steps = <<None>>
            THEN None ELSE [entry |-> f.stage, defaults |-> defaults, steps |-> steps]
    IN  Of([k \in DOMAIN f.params |->
              IF f.params[k][3] = None THEN <<>> ELSE <<Sym(f.params[k][3], <<>>, FALSE, p)>>],
           Steps(f.body[2], env, p))

IsEntry(f, p) == Side(f) = "server" /\ Called(f.body) \cap (Stages(p) \ {f.name}) # {}

Program(items, consts) ==
    LET fns == SelectSeq(items, LAMBDA i : i[1] = "fn")
        ByName(fs) == FoldLeft(LAMBDA t, i : (i[2].name :> i[2]) @@ t, <<>>, fs)
    IN  [fns |-> ByName(fns), stages |-> ByName(SelectSeq(fns, LAMBDA i : i[2].stage # NoName)),
         wires |-> {items[k][2] : k \in {j \in DOMAIN items : items[j][1] = "wire"}},
         consts |-> consts]

(* build(): the schedules, and the entry points that have none.            *)
BuildSchedule(items, consts) ==
    LET p == Program(items, consts)
        Adds(r, i, e) == IF e = None THEN [r EXCEPT !.refused = @ \cup {i[2].stage}]
                         ELSE [r EXCEPT !.entries = Append(@, e)]
        Build(r, i) == IF i[1] # "fn" THEN r
                       ELSE IF i[2].stage = NoName \/ ~IsEntry(i[2], p) THEN r
                       ELSE Adds(r, i, Entry(i[2], p))
    IN  FoldLeft(Build, [entries |-> <<>>, refused |-> {}], items)
=============================================================================
