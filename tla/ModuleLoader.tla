---------------------------- MODULE ModuleLoader ----------------------------
(***************************************************************************)
(* ModuleLoader of dsl_fhe/xcomp/modules.py: loading the modules a program *)
(* uses, resolving the names of each and merging them into one program.    *)
(*                                                                         *)
(* A world is what the loader finds on disk: the source files, the root's  *)
(* files, the search path.  A file is what its tokens say: its directory,  *)
(* the module it declares, the modules it uses, the names it declares, the *)
(* names it refers to outside any local binding (NameResolver has those),  *)
(* its scheme, its capabilities, whether it lexes and whether it parses.   *)
(* The files of a module are a set of positions in files, taken in the     *)
(* order of their positions.  A name is <<base>> or <<module, base>>.      *)
(* A Module object exists from the moment its files are found; _loading is *)
(* the code's list of the names whose _parse_module() has not returned.    *)
(***************************************************************************)
EXTENDS Integers, SequencesExt

CONSTANTS
    Worlds,     \* the worlds considered
    Names,      \* the names of modules
    NoModule,   \* "", the module of a file that declares none
    NoScheme    \* what a file without a scheme declaration has for one

(* The files are listed, and a program has one at least.                   *)
ASSUME WorldsAssumption ==
    \A w \in Worlds :
       /\ w.files \in Seq(ToSet(w.files))
       /\ w.root \subseteq DOMAIN w.files /\ w.root # {}

VARIABLES
    world,      \* what is on disk
    loading,    \* _loading: the root, and the imports being loaded under it
    modules,    \* the Module objects by name
    order,      \* the imported modules that are loaded, dependencies first
    outcome,    \* "start", "loading", "loaded" or the error raised
    program     \* {} or {the merged program}

vars == <<world, loading, modules, order, outcome, program>>

Loaded == ToSet(order)
Top == loading[Len(loading)]

(* What each file says, and what the files fs of one module say together,  *)
(* files in order.                                                         *)
Uses == [i \in DOMAIN world.files |-> world.files[i].uses]
Schemes ==
    [i \in DOMAIN world.files |->
        IF world.files[i].scheme = NoScheme THEN <<>> ELSE <<world.files[i].scheme>>]
Flat(fs, part) ==
    FlattenSeq([i \in DOMAIN world.files |-> IF i \in fs THEN part[i] ELSE <<>>])

Imports(fs) ==
    FoldLeft(LAMBDA seen, n : IF n \in ToSet(seen) THEN seen ELSE Append(seen, n),
             <<>>, Flat(fs, Uses))

Decls(fs) == UNION {world.files[i].decls : i \in fs}
Refs(fs) == UNION {world.files[i].refs : i \in fs}
Caps(fs) == UNION {world.files[i].caps : i \in fs}

(* left: the positions of the imports _parse_module() has yet to look at.  *)
Module(fs) == [files |-> fs, imports |-> Imports(fs), left |-> DOMAIN Imports(fs)]

(* The name a file is a candidate for: one that does not lex, for none.    *)
ScanModuleName(f) == IF f.lexes THEN f.module ELSE NoModule

Holding(d, name) ==
    {i \in DOMAIN world.files \ world.root :
        world.files[i].dir = d /\ ScanModuleName(world.files[i]) = name}

(* The files of the first search directory that has any of the module.     *)
FindModuleFiles(name) ==
    UNION {Holding(world.path[k], name) :
           k \in {k \in DOMAIN world.path :
                     \A j \in 1 .. k - 1 : Holding(world.path[j], name) = {}}}

-----------------------------------------------------------------------------
(* NameResolver._canon for a name no local binding shadows, in the module  *)
(* m: the declaration it stands for, or {} for an error.                   *)

Files(m) == modules[m].files

\* The bug of resolving names of any module that happens to be loaded.
BugKnown(m, q) == IF q = m \/ q \in Loaded THEN Decls(Files(q)) ELSE {}

Known(m, q) ==
    IF q = m \/ q \in ToSet(modules[m].imports) THEN Decls(Files(q)) ELSE {}

Fqn(q, n) == IF q = NoModule THEN <<n>> ELSE <<q, n>>

Canon(m, ref) ==
    IF Len(ref) = 2
    THEN IF ref[2] \in Known(m, ref[1]) THEN {Fqn(ref[1], ref[2])} ELSE {}
    ELSE IF ref[1] \in Decls(Files(m)) THEN {Fqn(m, ref[1])} ELSE {ref}

Resolves(m) == \A r \in Refs(Files(m)) : Canon(m, r) # {}

(* parse(): the type names it needs are those of the module and of what    *)
(* the module imports, all loaded before.                                  *)
Parses(m) == \A i \in Files(m) : world.files[i].parses

(* _check_use: `use x::...` names a file of the module only as shared::*,  *)
(* client::* or server::*.                                                 *)
UsesAllowed(m) == \A i \in Files(m) : world.files[i].glob # "foreign"

-----------------------------------------------------------------------------
(* _merge: the schemes that stay in the program and the modules a warning  *)
(* names, with the scheme that applies (the root's, or the first found).   *)

\* The bug of not remembering the scheme that was taken from an import.
BugMergeScheme(acc, ms) ==
    IF acc.applies = NoScheme THEN [acc EXCEPT !.kept = Append(@, ms[2])]
    ELSE IF ms[2] # acc.applies THEN [acc EXCEPT !.warned = @ \cup {ms[1]}] ELSE acc

MergeScheme(acc, ms) ==
    IF acc.applies = NoScheme
    THEN [applies |-> ms[2], kept |-> <<ms[2]>>, warned |-> acc.warned]
    ELSE IF ms[2] # acc.applies THEN [acc EXCEPT !.warned = @ \cup {ms[1]}] ELSE acc

SchemesOf(name) ==
    LET ss == Flat(Files(name), Schemes)
    IN  [i \in DOMAIN ss |-> <<name, ss[i]>>]

(* The schemes of the imported modules, one after the other, over mine.    *)
MergeSchemes(mine, theirs) ==
    LET merged[k \in 0 .. Len(theirs)] ==
          IF k = 0
          THEN [applies |-> IF mine = <<>> THEN NoScheme ELSE Head(mine),
                kept |-> <<>>, warned |-> {}]
          ELSE MergeScheme(merged[k - 1], theirs[k])
    IN  merged[Len(theirs)]

Merge(root) ==
    LET mine == Flat(Files(root), Schemes)
        merged == MergeSchemes(mine, FlattenSeq([i \in DOMAIN order |-> SchemesOf(order[i])]))
    IN  [items |-> Append(order, root),
         schemes |-> merged.kept \o mine, warned |-> merged.warned,
         caps |-> UNION {Caps(Files(n)) : n \in {root} \cup Loaded},
         bare |-> {c \in UNION {UNION {Canon(n, r) : r \in Refs(Files(n))} : n \in Loaded} :
                     Len(c) = 1}]

-----------------------------------------------------------------------------
Init ==
    /\ world \in Worlds
    /\ loading = <<>> /\ order = <<>> /\ program = {}
    /\ modules = [n \in {} |-> <<>>]
    /\ outcome = "start"

Raise(what) ==
    /\ outcome' = what
    /\ UNCHANGED <<world, loading, modules, order, program>>

RootModules == {world.files[i].module : i \in world.root}
RootLexes == \A i \in world.root : world.files[i].lexes

(* load(): the root's files are lexed first, and must agree on a module.   *)

Load(n) ==
    /\ outcome = "start" /\ RootLexes /\ RootModules = {n}
    /\ modules' = [o \in {n} |-> Module(world.root)]
    /\ loading' = <<n>>
    /\ outcome' = "loading"
    /\ UNCHANGED <<world, order, program>>

LoadFails ==
    /\ outcome = "start"
    /\ \/ ~RootLexes /\ Raise("lex")
       \/ RootLexes /\ Cardinality(RootModules) > 1 /\ Raise("mixed")

(* The loop of _parse_module() over the imports of the module on top.      *)
Position == CHOOSE k \in modules[Top].left : \A j \in modules[Top].left : k <= j
Importing(n) ==
    /\ outcome = "loading"
    /\ \E k \in modules[Top].left : k = Position /\ n = modules[Top].imports[k]
Advanced ==
    [modules EXCEPT ![Top] = [files |-> @.files, imports |-> @.imports,
                              left |-> @.left \ {Position}]]

\* The bug of refusing only the module that imports itself directly.
BugImportCycle(n) ==
    /\ Importing(n) /\ n = Top
    /\ Raise("cycle")

ImportCycle(n) ==
    /\ Importing(n) /\ n \in ToSet(loading)
    /\ Raise("cycle")

ImportLoaded(n) ==
    /\ Importing(n) /\ n \notin ToSet(loading) /\ n \in Loaded
    /\ modules' = Advanced
    /\ UNCHANGED <<world, loading, order, outcome, program>>

LoadImport(n) ==
    /\ Importing(n) /\ n \notin ToSet(loading) /\ n \notin Loaded
    /\ FindModuleFiles(n) # {}
    /\ modules' = [o \in DOMAIN modules \cup {n} |->
                     IF o = n THEN Module(FindModuleFiles(n)) ELSE Advanced[o]]
    /\ loading' = Append(loading, n)
    /\ UNCHANGED <<world, order, outcome, program>>

ImportMissing(n) ==
    /\ Importing(n) /\ n \notin ToSet(loading) /\ n \notin Loaded
    /\ FindModuleFiles(n) = {}
    /\ Raise("missing")

(* The rest of _parse_module(), and what its caller does with the module.  *)
Parsing == outcome = "loading" /\ modules[Top].left = {}
Good(m) == Parses(m) /\ UsesAllowed(m) /\ Resolves(m)

\* The bug of putting a module before what it imports.
BugFinishImport ==
    /\ Parsing /\ Len(loading) > 1 /\ Good(Top)
    /\ order' = <<Top>> \o order
    /\ loading' = Front(loading)
    /\ UNCHANGED <<world, modules, outcome, program>>

ParseFails ==
    /\ Parsing
    /\ \/ ~Parses(Top) /\ Raise("parse")
       \/ Parses(Top) /\ ~UsesAllowed(Top) /\ Raise("use")
       \/ Parses(Top) /\ UsesAllowed(Top) /\ ~Resolves(Top) /\ Raise("name")

FinishImport ==
    /\ Parsing /\ Len(loading) > 1 /\ Good(Top)
    /\ order' = Append(order, Top)
    /\ loading' = Front(loading)
    /\ UNCHANGED <<world, modules, outcome, program>>

FinishRoot ==
    /\ Parsing /\ Len(loading) = 1 /\ Good(Top)
    /\ program' = {Merge(Top)}
    /\ loading' = <<>>
    /\ outcome' = "loaded"
    /\ UNCHANGED <<world, modules, order>>

Next ==
    \/ \E n \in Names \cup {NoModule} : Load(n)
    \/ LoadFails
    \/ \E n \in Names :
          ImportCycle(n) \/ ImportLoaded(n) \/ LoadImport(n) \/ ImportMissing(n)
    \/ ParseFails \/ FinishImport \/ FinishRoot

Spec == Init /\ [][Next]_vars
FairSpec == Spec /\ WF_vars(Next)

-----------------------------------------------------------------------------
(* What the loader has to do, said of the graph of imports on disk.        *)

RootName == CHOOSE n \in RootModules : TRUE
FilesOf(n) == IF n = RootName THEN world.root ELSE FindModuleFiles(n)
Succ(n) == ToSet(Imports(FilesOf(n)))

(* The modules n reaches in one import or more: those in every set that    *)
(* holds the imports of n and of its own members.                          *)
Closed(S) == \A o \in S : Succ(o) \subseteq S
Reached(n) ==
    {m \in Names : \A S \in SUBSET Names : Succ(n) \subseteq S /\ Closed(S) => m \in S}

Program == {RootName} \cup Reached(RootName)

DeclaredBy(n) == Decls(FilesOf(n))

(* A reference of module n is good when it names a declaration of n itself *)
(* or of a module n imports, or is unqualified.                            *)
GoodRef(n, ref) ==
    Len(ref) = 2 => /\ ref[1] \in {n} \cup Succ(n)
                    /\ ref[2] \in DeclaredBy(ref[1])

WellFormed ==
    /\ RootLexes
    /\ RootModules = {RootName}
    /\ \A n \in Program :
          /\ n \notin Reached(n)
          /\ FilesOf(n) # {}
          /\ \A i \in FilesOf(n) : world.files[i].parses /\ world.files[i].glob # "foreign"
          /\ \A r \in Refs(FilesOf(n)) : GoodRef(n, r)

(***************************************************************************)
(* Properties.                                                             *)
(***************************************************************************)

Errors == {"lex", "mixed", "cycle", "missing", "parse", "use", "name"}

(* The loader's lists hold modules, the root at the bottom of _loading,    *)
(* and every module in them has its Module object.                         *)
TypeOK ==
    /\ outcome \in {"start", "loading", "loaded"} \cup Errors
    /\ loading \in Seq(Names \cup {NoModule}) /\ order \in Seq(Names)
    /\ outcome = "loading" => loading # <<>>
    /\ ToSet(loading) \cup ToSet(order) \subseteq DOMAIN modules

(* A program is loaded exactly when the graph of its imports is well       *)
(* formed; a cycle is refused wherever it closes, however many importers   *)
(* share the modules on it (_parse_module's test against _loading).        *)
LoadsWellFormed ==
    /\ outcome = "loaded" => WellFormed
    /\ outcome \in Errors => ~WellFormed

(* A module comes into the program once, behind everything it imports:     *)
(* what _merge() and the C++ that is generated from its result rely on.    *)
DependenciesFirst ==
    /\ \A i, j \in DOMAIN order : order[i] = order[j] => i = j
    /\ \A i \in DOMAIN order :
          \A k \in DOMAIN modules[order[i]].imports :
             \E j \in DOMAIN order : j < i /\ order[j] = modules[order[i]].imports[k]

(* The merged program holds every module it needs and no other, one scheme *)
(* (the root's where it has one), a warning for every module that declares *)
(* another one, and every capability any of them requires.                 *)
MergedWhole ==
    \A p \in program :
       /\ ToSet(p.items) = Program /\ Len(p.items) = Cardinality(Program)
       /\ LET schemes(n) == ToSet(Flat(FilesOf(n), Schemes))
              mine == Flat(world.root, Schemes)
          IN  /\ mine # <<>> => p.schemes = mine
              /\ mine = <<>> => Len(p.schemes) = IF \E n \in Program : schemes(n) # {} THEN 1 ELSE 0
              /\ p.schemes # <<>> =>
                    p.warned = {n \in Program \ {RootName} : schemes(n) \ {Head(p.schemes)} # {}}
       /\ p.caps = UNION {Caps(FilesOf(n)) : n \in Program}

(* Loading ends, whatever imports what.                                    *)
Ends == <>(outcome = "loaded" \/ outcome \in Errors)

(* What an imported module refers to without a qualifier and does not      *)
(* declare is a built-in, never a declaration of a root without a name: a  *)
(* module cannot import the program that imports it.                       *)
NothingOfTheRoot ==
    \A p \in program : RootName = NoModule =>
       \A c \in p.bare : c[1] \notin DeclaredBy(RootName)
=============================================================================
