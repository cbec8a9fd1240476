---------------------------- MODULE NameResolver ----------------------------
(***************************************************************************)
(* NameResolver of dsl_fhe/xcomp/modules.py: giving every reference of a   *)
(* module to a declaration its qualified name, and no local name one.      *)
(* A name is the sequence of its components.  Of the tree only references  *)
(* and bindings have a tag of their own:                                   *)
(*   <<"ref", name>>                     Ident, NamedType, a literal's type*)
(*   <<"id pattern", name>>, <<"struct pattern", name, <<field, pattern>>*>>*)
(*   <<"let", names, kids>>              kids: the annotation, the value   *)
(*   <<"for", names, iterable, body>>                                      *)
(*   <<"binder", names, kids>>           a function or a closure           *)
(*   <<"scope", kids>>                   a block, an arm of a match        *)
(*   <<"node", kids>>                    any other node, its fields        *)
(* A shorthand { f } of a struct literal has no reference in the tree.     *)
(***************************************************************************)
EXTENDS Integers, SequencesExt

CONSTANTS
    Module,     \* the name of the module; NoModule for a root without one
    NoModule,
    Declared,   \* decl_names: what the module declares
    Imports     \* what each module it imports declares: [name -> names]

None == <<>>
Error == <<>>
Fqn(m, n) == IF m = NoModule THEN <<n>> ELSE <<m, n>>
IsLocal(scopes, n) == \E k \in DOMAIN scopes : n \in scopes[k]

(* _canon(): the name a reference gets, or Error.                          *)
Canon(name, scopes) ==
    CASE Len(name) > 2 -> Error
      [] Len(name) = 2 ->
            IF name[1] = Module /\ name[2] \in Declared THEN Fqn(Module, name[2])
            ELSE IF name[1] # Module /\ name[1] \in DOMAIN Imports /\ name[2] \in Imports[name[1]]
            THEN name ELSE Error
      [] OTHER ->
            IF Module # NoModule /\ name[1] \in Declared /\ ~IsLocal(scopes, name[1])
            THEN Fqn(Module, name[1]) ELSE name

Push(names, scopes) == Append(scopes, ToSet(names))
Bind(names, scopes) ==
    IF scopes = <<>> THEN scopes ELSE [scopes EXCEPT ![Len(scopes)] = @ \cup ToSet(names)]

(* _walk(): the tree with its names, and the scopes after it.              *)
RECURSIVE Walk(_, _), WalkAll(_, _, _)

WalkAll(ns, scopes, done) ==
    IF ns = <<>> THEN [ns |-> done, scopes |-> scopes]
    ELSE LET w == Walk(Head(ns), scopes) IN WalkAll(Tail(ns), w.scopes, Append(done, w.n))

(* The fields of a struct pattern, each <<name, pattern>>.                 *)
RECURSIVE WalkFields(_, _, _)
WalkFields(fs, scopes, done) ==
    IF fs = <<>> THEN [ns |-> done, scopes |-> scopes]
    ELSE LET f == Head(fs)
             w == Walk(f[2], scopes)
         IN  IF f[2] = None THEN WalkFields(Tail(fs), Bind(<<f[1]>>, scopes), Append(done, f))
             ELSE WalkFields(Tail(fs), w.scopes, Append(done, <<f[1], w.n>>))

(* A declared name is an enum variant; any other is bound.                 *)
WalkIdPattern(n, scopes) ==
    IF Len(n[2]) > 1 \/ n[2][1] \in Declared
    THEN [n |-> <<"id pattern", Canon(n[2], scopes)>>, scopes |-> scopes]
    ELSE [n |-> n, scopes |-> Bind(n[2], scopes)]

\* The bug of binding the name of a let before its value is walked.
BugWalkLet(n, scopes) ==
    LET w == WalkAll(n[3], Bind(n[2], scopes), <<>>)
    IN  [n |-> <<"let", n[2], w.ns>>, scopes |-> w.scopes]

WalkLet(n, scopes) ==
    LET w == WalkAll(n[3], scopes, <<>>)
    IN  [n |-> <<"let", n[2], w.ns>>, scopes |-> Bind(n[2], w.scopes)]

WalkFor(n, scopes) ==
    LET iterable == Walk(n[3], scopes)
        body == Walk(n[4], Push(n[2], iterable.scopes))
    IN  [n |-> <<"for", n[2], iterable.n, body.n>>, scopes |-> Front(body.scopes)]

WalkBinder(n, scopes) ==
    LET w == WalkAll(n[3], Push(n[2], scopes), <<>>)
    IN  [n |-> <<"binder", n[2], w.ns>>, scopes |-> Front(w.scopes)]

WalkScope(n, scopes) ==
    LET w == WalkAll(n[2], Push(<<>>, scopes), <<>>)
    IN  [n |-> <<"scope", w.ns>>, scopes |-> Front(w.scopes)]

Walk(n, scopes) ==
    CASE n = None -> [n |-> n, scopes |-> scopes]
      [] n # None /\ n[1] = "ref" -> [n |-> <<"ref", Canon(n[2], scopes)>>, scopes |-> scopes]
      [] n # None /\ n[1] = "id pattern" -> WalkIdPattern(n, scopes)
      [] n # None /\ n[1] = "struct pattern" ->
            LET w == WalkFields(n[3], scopes, <<>>)
            IN  [n |-> <<"struct pattern", Canon(n[2], scopes), w.ns>>, scopes |-> w.scopes]
      [] n # None /\ n[1] = "let" -> WalkLet(n, scopes)
      [] n # None /\ n[1] = "for" -> WalkFor(n, scopes)
      [] n # None /\ n[1] = "binder" -> WalkBinder(n, scopes)
      [] n # None /\ n[1] = "scope" -> WalkScope(n, scopes)
      [] n # None /\ n[1] = "node" ->
            LET w == WalkAll(n[2], scopes, <<>>) IN [n |-> <<"node", w.ns>>, scopes |-> w.scopes]

(* resolve() for one item of the module.                                   *)
Resolve(item) == Walk(item, <<>>).n

-----------------------------------------------------------------------------
(* What a tree refers to, in order: each reference with whether a binding  *)
(* around it binds it.  variants are the names a pattern does not bind.    *)

RECURSIVE Binds(_, _)
Binds(n, variants) ==
    CASE n = None -> {}
      [] n # None /\ n[1] = "let" -> ToSet(n[2])
      [] n # None /\ n[1] = "id pattern" -> {n[2][k] : k \in {1} \ {j \in {1} : Len(n[2]) > 1}} \ variants
      [] n # None /\ n[1] = "struct pattern" ->
            UNION {IF n[3][k][2] = None THEN {n[3][k][1]} ELSE Binds(n[3][k][2], variants) :
                   k \in DOMAIN n[3]}
      [] OTHER -> {}

Use(name, local) == << <<name, Len(name) = 1 /\ name[1] \in local>> >>

RECURSIVE Uses(_, _, _), UsesIn(_, _, _)
UsesIn(ns, local, variants) ==
    IF ns = <<>> THEN <<>>
    ELSE Uses(Head(ns), local, variants) \o
         UsesIn(Tail(ns), local \cup Binds(Head(ns), variants), variants)
Uses(n, local, variants) ==
    CASE n = None -> <<>>
      [] n # None /\ n[1] = "ref" -> Use(n[2], local)
      [] n # None /\ n[1] = "id pattern" ->
            IF Binds(n, variants) = {} THEN Use(n[2], local) ELSE <<>>
      [] n # None /\ n[1] = "struct pattern" ->
            Use(n[2], local) \o
            FlattenSeq([k \in DOMAIN n[3] |->
                Uses(n[3][k][2],
                     local \cup UNION {IF n[3][j][2] = None THEN {n[3][j][1]} ELSE Binds(n[3][j][2], variants) :
                                       j \in 1 .. k - 1}, variants)])
      [] n # None /\ n[1] = "let" -> UsesIn(n[3], local, variants)
      [] n # None /\ n[1] = "for" ->
            Uses(n[3], local, variants) \o Uses(n[4], local \cup ToSet(n[2]), variants)
      [] n # None /\ n[1] = "binder" -> UsesIn(n[3], local \cup ToSet(n[2]), variants)
      [] n # None /\ n[1] \in {"scope", "node"} -> UsesIn(n[2], local, variants)

(* Resolving changes what no reference means: a local one stays as it is,  *)
(* whatever the module and the program around it declare, and one to a     *)
(* declaration of the module gets its qualified name.                      *)
MeansTheSame(item, resolved) ==
    LET before == Uses(item, {}, Declared)
        after == Uses(resolved, {}, IF Module = NoModule THEN Declared ELSE {})
        Meant(u) == IF u[2] \/ Len(u[1]) # 1 \/ u[1][1] \notin Declared THEN u[1]
                    ELSE Fqn(Module, u[1][1])
    IN  /\ Len(before) = Len(after)
        /\ \A k \in DOMAIN before :
             Canon(before[k][1], <<>>) # Error => after[k] = <<Meant(before[k]), before[k][2]>>
=============================================================================
