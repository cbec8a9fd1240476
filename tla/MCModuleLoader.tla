--------------------------- MODULE MCModuleLoader ---------------------------
(***************************************************************************)
(* Four families of worlds: every graph of imports over three modules and  *)
(* the root; files of modules scattered over two search directories, some  *)
(* of which do not lex or parse; schemes and capabilities; declarations    *)
(* and names.                                                              *)
(***************************************************************************)
EXTENDS ModuleLoader

CONSTANTS A, B, C, R    \* modules; R is the root's name where it has one

Src(dir, module, uses) ==
    [dir |-> dir, module |-> module, uses |-> uses, glob |-> "none", lexes |-> TRUE,
     parses |-> TRUE, decls |-> {}, refs |-> {}, scheme |-> NoScheme, caps |-> {}]

World(path, root, files) == [path |-> path, root |-> root, files |-> files]

UsesOf(s) == SelectSeq(<<A, B, C, R>>, LAMBDA n : n \in s)

Graphs ==
    { World(<<"lib">>, {1},
            << Src("app", R, UsesOf(r)), Src("lib", A, UsesOf(a)),
               Src("lib", B, UsesOf(b)), Src("lib", C, UsesOf(c)) >>) :
      r \in SUBSET {A, B, C} \ {{}}, a \in SUBSET {A, B, C, R},
      b \in SUBSET {A, C}, c \in SUBSET {A, B} }

Scattered ==
    { World(<<"one", "two">>, IF both THEN {1, 2} ELSE {1},
            << Src("app", NoModule, <<A>>) >> \o
            [i \in 1 .. 3 |->
               [Src(d[i], IF i = 3 THEN B ELSE m[i], IF i = 2 THEN <<B>> ELSE <<>>)
                  EXCEPT !.lexes = i # skip, !.parses = i # wrong]]) :
      both \in BOOLEAN, d \in [1 .. 3 -> {"one", "two"}],
      m \in [1 .. 2 -> {A, B, NoModule}], skip \in 0 .. 3, wrong \in 0 .. 3 }

Shapes == { << <<A, B>>, <<>>, <<>> >>, << <<A>>, <<B>>, <<>> >>, << <<A, B>>, <<B>>, <<>> >>,
            << <<B>>, <<>>, <<>> >> }

ThreeModules(shape, root, F(_, _)) ==
    World(<<"lib">>, {1},
          << F(1, Src("app", root, shape[1])), F(2, Src("lib", A, shape[2])),
             F(3, Src("lib", B, shape[3])) >>)

Schemed ==
    { ThreeModules(shape, NoModule,
                   LAMBDA i, f : [f EXCEPT !.scheme = s[i], !.caps = IF c[i] THEN {i} ELSE {}]) :
      shape \in Shapes, s \in [1 .. 3 -> {NoScheme, "CKKS", "BGV"}], c \in [1 .. 3 -> BOOLEAN] }

Named ==
    { ThreeModules(shape, root,
                   LAMBDA i, f : [f EXCEPT !.refs = {ref[i]}, !.glob = IF i = 1 THEN g ELSE @,
                                           !.decls = IF d[i] THEN {"x"} ELSE {}]) :
      shape \in Shapes, root \in {R, NoModule}, d \in [1 .. 3 -> BOOLEAN],
      ref \in [1 .. 3 -> {<<"x">>, <<A, "x">>, <<B, "x">>}],
      g \in {"none", "own", "foreign"} }

MCWorlds == Graphs \cup Scattered \cup Schemed \cup Named
=============================================================================
