--------------------------- MODULE CompilerProofs ---------------------------
(***************************************************************************)
(* The loader, for any worlds whatever: a program is loaded exactly if it  *)
(* is well formed, each imported module comes into the order once and      *)
(* behind everything it imports, and what is merged is whole.  IInv is     *)
(* about the modules in between: what a module on _loading has passed of   *)
(* its imports is loaded, or is the module above it.  WInv ties the        *)
(* loader's objects to the graph on disk, MInv adds what _merge() returns. *)
(*                                                                         *)
(* The driver, for any jobs and any analyzer and schedule builder: options *)
(* mean what they say, and files are written all or, after an error, not   *)
(* at all.  NbcInv says what has been made of the program at hand, and     *)
(* what there is of its files, on disk and still to be written.            *)
(***************************************************************************)
EXTENDS ModuleLoader, Nbc, SequenceTheorems, FiniteSetTheorems,
        FunctionTheorems, WellFoundedInduction, TLAPS

Apart ==
    /\ \A i, j \in 1 .. Len(order) : order[i] = order[j] => i = j
    /\ \A i, j \in 1 .. Len(loading) : loading[i] = loading[j] => i = j
    /\ \A i \in 1 .. Len(loading), j \in 1 .. Len(order) : loading[i] # order[j]

Passed ==
    \A i \in 1 .. Len(loading) :
       \A k \in DOMAIN modules[loading[i]].imports \ modules[loading[i]].left :
          \/ \E j \in 1 .. Len(order) : order[j] = modules[loading[i]].imports[k]
          \/ i < Len(loading) /\ loading[i + 1] = modules[loading[i]].imports[k]

Behind ==
    \A i \in 1 .. Len(order) :
       \A k \in DOMAIN modules[order[i]].imports :
          \E j \in 1 .. Len(order) : j < i /\ order[j] = modules[order[i]].imports[k]

Started == outcome = "start" => order = <<>>

Rooted == \A i \in 2 .. Len(loading) : loading[i] \in Names

IInv == TypeOK /\ Rooted /\ Started /\ Apart /\ Passed /\ Behind

-----------------------------------------------------------------------------
(* Sequences.                                                              *)

LEMMA AppendFacts ==
  ASSUME NEW S, NEW s \in Seq(S), NEW e \in S
  PROVE  /\ Append(s, e) \in Seq(S)
         /\ Len(Append(s, e)) = Len(s) + 1 /\ Len(s) \in Nat
         /\ \A i \in 1 .. Len(s) : Append(s, e)[i] = s[i]
         /\ Append(s, e)[Len(s) + 1] = e
  BY AppendProperties, LenProperties

LEMMA PrefixFacts ==
  ASSUME NEW S, NEW s \in Seq(S), NEW m \in 0 .. Len(s)
  PROVE  /\ SubSeq(s, 1, m) \in Seq(S)
         /\ Len(SubSeq(s, 1, m)) = m
         /\ \A i \in 1 .. m : SubSeq(s, 1, m)[i] = s[i]
  BY SMT

LEMMA FrontFacts ==
  ASSUME NEW S, NEW s \in Seq(S), s # <<>>
  PROVE  /\ Front(s) \in Seq(S)
         /\ Len(s) \in Nat \ {0} /\ Len(Front(s)) = Len(s) - 1
         /\ \A i \in 1 .. Len(s) - 1 : Front(s)[i] = s[i]
<1>1. Len(s) \in Nat \ {0}
  BY LenProperties, EmptySeq
<1>2. Len(s) - 1 \in 0 .. Len(s)
  BY <1>1
<1> QED BY <1>1, <1>2, PrefixFacts DEF Front

LEMMA RangeOf ==
  ASSUME NEW S, NEW s \in Seq(S)
  PROVE  /\ ToSet(s) = {s[i] : i \in 1 .. Len(s)}
         /\ DOMAIN s = 1 .. Len(s)
  BY LenProperties DEF ToSet

-----------------------------------------------------------------------------
(* The type invariant over numbered positions.                             *)

LEMMA Typed ==
  ASSUME TypeOK
  PROVE  /\ loading \in Seq(Names \cup {NoModule}) /\ order \in Seq(Names)
         /\ Len(loading) \in Nat /\ Len(order) \in Nat
         /\ ToSet(loading) = {loading[i] : i \in 1 .. Len(loading)}
         /\ ToSet(order) = {order[i] : i \in 1 .. Len(order)}
         /\ \A i \in 1 .. Len(loading) : loading[i] \in DOMAIN modules
         /\ \A i \in 1 .. Len(order) : order[i] \in DOMAIN modules
         /\ outcome = "loading" => Len(loading) > 0
<1>1. loading \in Seq(Names \cup {NoModule}) /\ order \in Seq(Names)
  BY DEF TypeOK
<1>2. ToSet(loading) = {loading[i] : i \in 1 .. Len(loading)}
  BY <1>1, RangeOf
<1>3. ToSet(order) = {order[i] : i \in 1 .. Len(order)}
  BY <1>1, RangeOf
<1>4. Len(loading) \in Nat /\ Len(order) \in Nat
  BY <1>1, LenProperties
<1>5. outcome = "loading" => Len(loading) > 0
  BY <1>1, <1>4, EmptySeq DEF TypeOK
<1> QED BY <1>1, <1>2, <1>3, <1>4, <1>5 DEF TypeOK

-----------------------------------------------------------------------------
(* One lemma for each action that changes what the invariant speaks of.    *)

LEMMA InitIInv == Init => IInv
<1> SUFFICES ASSUME Init PROVE IInv
  OBVIOUS
<1>1. loading = <<>> /\ order = <<>> /\ outcome = "start"
  BY DEF Init
<1>2. Len(<<>>) = 0 /\ \A S : <<>> \in Seq(S)
  BY EmptySeq
<1>3. ToSet(<<>>) = {}
  BY DEF ToSet
<1>4. TypeOK
  BY <1>1, <1>2, <1>3 DEF TypeOK
<1> QED BY <1>1, <1>2, <1>4 DEF IInv, Rooted, Started, Apart, Passed, Behind

LEMMA LoadIInv ==
  ASSUME IInv, NEW n \in Names \cup {NoModule}, Load(n)
  PROVE  IInv'
<1>1. /\ loading' = <<n>> /\ order' = <<>> /\ outcome' = "loading"
      /\ modules' = [o \in {n} |-> Module(world.root)]
  BY DEF Load, IInv, Started
<1>2. <<n>> \in Seq(Names \cup {NoModule}) /\ Len(<<n>>) = 1 /\ <<n>>[1] = n
  OBVIOUS
<1>3. <<>> \in Seq(Names) /\ Len(<<>>) = 0 /\ ToSet(<<>>) = {}
  BY EmptySeq DEF ToSet
<1>4. ToSet(<<n>>) = {n}
  BY DEF ToSet
<1>5. TypeOK'
  BY <1>1, <1>2, <1>3, <1>4 DEF TypeOK
<1>6. modules'[n].left = DOMAIN modules'[n].imports
  BY <1>1 DEF Module
<1>7. Passed'
  BY <1>1, <1>2, <1>6 DEF Passed
<1> QED BY <1>1, <1>2, <1>3, <1>5, <1>7 DEF IInv, Rooted, Started, Apart, Behind

LEMMA StutterIInv ==
  ASSUME IInv, UNCHANGED <<loading, modules, order>>,
         outcome' \in Errors \/ outcome' = outcome
  PROVE  IInv'
<1>1. TypeOK'
  BY DEF IInv, TypeOK, Errors
<1>2. Started'
  BY DEF IInv, Started, Errors
<1> QED BY <1>1, <1>2 DEF IInv, Rooted, Apart, Passed, Behind

LEMMA AdvancedFacts ==
  ASSUME NEW mods, mods = Advanced
  PROVE  /\ DOMAIN mods = DOMAIN modules
         /\ \A o \in DOMAIN modules : mods[o].imports = modules[o].imports
         /\ \A o \in DOMAIN modules : o # Top => mods[o] = modules[o]
         /\ Top \in DOMAIN modules => mods[Top].left = modules[Top].left \ {Position}
  BY DEF Advanced

LEMMA ImportLoadedIInv ==
  ASSUME IInv, NEW n \in Names, ImportLoaded(n)
  PROVE  IInv'
<1>1. /\ n = modules[Top].imports[Position] /\ n \in Loaded
      /\ modules' = Advanced
      /\ UNCHANGED <<loading, order, outcome>> /\ outcome = "loading"
  BY DEF ImportLoaded, Importing
<1>2. DOMAIN modules' = DOMAIN modules /\ loading' = loading /\ order' = order
  BY <1>1, AdvancedFacts
<1>3. /\ \A o \in DOMAIN modules : modules'[o].imports = modules[o].imports
      /\ \A o \in DOMAIN modules : o # Top => modules'[o] = modules[o]
  BY <1>1, AdvancedFacts
<1>4. Top \in DOMAIN modules => modules'[Top].left = modules[Top].left \ {Position}
  BY <1>1, AdvancedFacts
<1>5. TypeOK'
  BY <1>1, <1>2 DEF IInv, TypeOK
<1>6. Passed'
  <2>1. ASSUME NEW i \in 1 .. Len(loading),
               NEW k \in DOMAIN modules'[loading[i]].imports \ modules'[loading[i]].left
        PROVE  \/ \E j \in 1 .. Len(order) : order[j] = modules'[loading[i]].imports[k]
               \/ i < Len(loading) /\ loading[i + 1] = modules'[loading[i]].imports[k]
    <3>1. loading[i] \in DOMAIN modules
      BY Typed DEF IInv
    <3>2. \/ k \in DOMAIN modules[loading[i]].imports \ modules[loading[i]].left
          \/ loading[i] = Top /\ k = Position
      BY <3>1, <1>3, <1>4
    <3>3. CASE loading[i] = Top /\ k = Position
      <4>1. modules'[loading[i]].imports[k] = n
        BY <3>3, <3>1, <1>1, <1>3
      <4>2. \E j \in 1 .. Len(order) : order[j] = n
        BY <1>1, Typed DEF IInv, Loaded
      <4> QED BY <4>1, <4>2
    <3>4. CASE k \in DOMAIN modules[loading[i]].imports \ modules[loading[i]].left
      BY <3>4, <3>1, <1>3 DEF IInv, Passed
    <3> QED BY <3>2, <3>3, <3>4
  <2> QED BY <1>2, <2>1 DEF Passed
<1>7. Behind'
  <2>1. \A i \in 1 .. Len(order) : modules'[order[i]].imports = modules[order[i]].imports
    BY <1>3, Typed DEF IInv
  <2> SUFFICES ASSUME NEW i \in 1 .. Len(order), NEW k \in DOMAIN modules'[order[i]].imports
               PROVE  \E j \in 1 .. Len(order) : j < i /\ order[j] = modules'[order[i]].imports[k]
    BY <1>1 DEF Behind
  <2>2. k \in DOMAIN modules[order[i]].imports
    BY <2>1
  <2>3. \E j \in 1 .. Len(order) : j < i /\ order[j] = modules[order[i]].imports[k]
    BY <2>2 DEF IInv, Behind
  <2> QED BY <2>1, <2>3
<1> QED BY <1>1, <1>5, <1>6, <1>7 DEF IInv, Rooted, Started, Apart

LEMMA LoadImportIInv ==
  ASSUME IInv, NEW n \in Names, LoadImport(n)
  PROVE  IInv'
<1>1. /\ n = modules[Top].imports[Position] /\ n \notin ToSet(loading) /\ n \notin ToSet(order)
      /\ modules' = [o \in DOMAIN modules \cup {n} |->
                        IF o = n THEN Module(FindModuleFiles(n)) ELSE Advanced[o]]
      /\ loading' = Append(loading, n)
      /\ order' = order /\ outcome' = outcome /\ outcome = "loading"
  BY DEF LoadImport, Importing, Loaded
<1>a. order' = order
  BY <1>1
<1>2. /\ loading' \in Seq(Names \cup {NoModule}) /\ Len(loading') = Len(loading) + 1
      /\ \A i \in 1 .. Len(loading) : loading'[i] = loading[i]
      /\ loading'[Len(loading) + 1] = n
  BY <1>1, Typed, AppendFacts DEF IInv
<1>3. \A o \in DOMAIN modules : o # n => modules'[o].imports = modules[o].imports
  BY <1>1, AdvancedFacts
<1>4. \A o \in DOMAIN modules : o # n /\ o # Top => modules'[o].left = modules[o].left
  BY <1>1, AdvancedFacts
<1>5. Top \in DOMAIN modules /\ Top # n =>
         modules'[Top].left = modules[Top].left \ {Position}
  BY <1>1, AdvancedFacts
<1>6. modules'[n].left = DOMAIN modules'[n].imports
  BY <1>1 DEF Module
<1>7. \A i \in 1 .. Len(loading) : loading[i] # n
  BY <1>1, Typed DEF IInv
<1>8. \A i \in 1 .. Len(order) : order[i] # n
  BY <1>1, Typed DEF IInv
<1>9. TypeOK'
  <2>1. ToSet(loading') \subseteq ToSet(loading) \cup {n}
    BY <1>2, Typed, RangeOf DEF IInv
  <2>2. loading' # <<>>
    BY <1>2, Typed, EmptySeq DEF IInv
  <2> QED BY <1>1, <1>2, <2>1, <2>2 DEF IInv, TypeOK
<1>10. Apart'
  BY <1>1, <1>2, <1>7, <1>8, Typed DEF IInv, Apart
<1>11. Passed'
  <2> SUFFICES ASSUME NEW i \in 1 .. Len(loading'),
                      NEW k \in DOMAIN modules'[loading'[i]].imports \ modules'[loading'[i]].left
               PROVE  \/ \E j \in 1 .. Len(order) : order[j] = modules'[loading'[i]].imports[k]
                      \/ i < Len(loading') /\ loading'[i + 1] = modules'[loading'[i]].imports[k]
    BY <1>a DEF Passed
  <2>1. CASE i = Len(loading) + 1
    BY <2>1, <1>2, <1>6
  <2>2. CASE i \in 1 .. Len(loading) /\ loading[i] = Top /\ k = Position
    <3>1. loading[i] \in DOMAIN modules /\ loading[i] # n /\ loading'[i] = loading[i]
      BY <2>2, <1>2, <1>7, Typed DEF IInv
    <3>2. modules'[loading'[i]].imports[k] = n
      BY <2>2, <3>1, <1>1, <1>3
    <3>3. i = Len(loading)
      BY <2>2, Typed DEF IInv, Apart, Top
    <3> QED BY <3>2, <3>3, <1>2, Typed DEF IInv
  <2>3. CASE i \in 1 .. Len(loading) /\ ~(loading[i] = Top /\ k = Position)
    <3>1. loading[i] \in DOMAIN modules /\ loading[i] # n /\ loading'[i] = loading[i]
      BY <2>3, <1>2, <1>7, Typed DEF IInv
    <3>2. modules'[loading[i]].imports = modules[loading[i]].imports
      BY <3>1, <1>3
    <3>3. k \in DOMAIN modules[loading[i]].imports \ modules[loading[i]].left
      BY <2>3, <3>1, <3>2, <1>4, <1>5
    <3>4. \/ \E j \in 1 .. Len(order) : order[j] = modules[loading[i]].imports[k]
          \/ i < Len(loading) /\ loading[i + 1] = modules[loading[i]].imports[k]
      BY <2>3, <3>3 DEF IInv, Passed
    <3>5. i < Len(loading) => i + 1 \in 1 .. Len(loading) /\ i < Len(loading')
      BY <2>3, <1>2, Typed DEF IInv
    <3> QED BY <3>1, <3>2, <3>4, <3>5, <1>2
  <2> QED BY <2>1, <2>2, <2>3, <1>2, Typed DEF IInv
<1>12. Behind'
  <2> SUFFICES ASSUME NEW i \in 1 .. Len(order), NEW k \in DOMAIN modules'[order[i]].imports
               PROVE  \E j \in 1 .. Len(order) : j < i /\ order[j] = modules'[order[i]].imports[k]
    BY <1>a DEF Behind
  <2>1. modules'[order[i]].imports = modules[order[i]].imports
    BY <1>3, <1>8, Typed DEF IInv
  <2>2. \E j \in 1 .. Len(order) : j < i /\ order[j] = modules[order[i]].imports[k]
    BY <2>1 DEF IInv, Behind
  <2> QED BY <2>1, <2>2
<1>13. Rooted'
  <2> SUFFICES ASSUME NEW i \in 2 .. Len(loading') PROVE loading'[i] \in Names
    BY DEF Rooted
  <2>1. i \in 2 .. Len(loading) \/ i = Len(loading) + 1
    BY <1>2, Typed DEF IInv
  <2>2. CASE i \in 2 .. Len(loading)
    BY <2>2, <1>2, Typed DEF IInv, Rooted
  <2> QED BY <2>1, <2>2, <1>2
<1> QED BY <1>1, <1>9, <1>10, <1>11, <1>12, <1>13 DEF IInv, Started

LEMMA FinishImportIInv ==
  ASSUME IInv, FinishImport
  PROVE  IInv'
<1>1. /\ modules[Top].left = {} /\ Len(loading) > 1
      /\ order' = Append(order, Top) /\ loading' = Front(loading)
      /\ UNCHANGED <<modules, outcome>> /\ outcome = "loading"
  BY DEF FinishImport, Parsing
<1> DEFINE n == Len(loading)
<1>2. n \in Nat /\ n > 1 /\ loading # <<>> /\ Top = loading[n] /\ Top \in DOMAIN modules
  BY <1>1, Typed, EmptySeq DEF IInv, Top
<1>3. /\ loading' \in Seq(Names \cup {NoModule}) /\ Len(loading') = n - 1
      /\ \A i \in 1 .. n - 1 : loading'[i] = loading[i]
  BY <1>1, <1>2, Typed, FrontFacts DEF IInv
<1>4. /\ order' \in Seq(Names) /\ Len(order') = Len(order) + 1
      /\ \A i \in 1 .. Len(order) : order'[i] = order[i]
      /\ order'[Len(order) + 1] = Top
  <2>1. Top \in Names
    BY <1>2 DEF IInv, Rooted
  <2> QED BY <1>1, <2>1, Typed, AppendFacts DEF IInv
<1>5. modules' = modules /\ outcome' = outcome /\ outcome = "loading"
  BY <1>1
<1>6. loading' # <<>>
  BY <1>2, <1>3, EmptySeq
<1>7. ToSet(loading') \subseteq ToSet(loading) /\ ToSet(order') \subseteq ToSet(order) \cup {Top}
  <2>1. ToSet(loading') = {loading'[i] : i \in 1 .. Len(loading')}
    BY <1>3, RangeOf
  <2>2. ToSet(order') = {order'[i] : i \in 1 .. Len(order')}
    BY <1>4, RangeOf
  <2>3. ToSet(loading) = {loading[i] : i \in 1 .. n}
    BY Typed DEF IInv
  <2>4. ToSet(order) = {order[i] : i \in 1 .. Len(order)} /\ Len(order) \in Nat
    BY Typed DEF IInv
  <2>5. ToSet(loading') \subseteq ToSet(loading)
    BY <2>1, <2>3, <1>2, <1>3
  <2>6. \A i \in 1 .. Len(order') : i \in 1 .. Len(order) \/ i = Len(order) + 1
    BY <2>4, <1>4
  <2>7. ToSet(order') \subseteq ToSet(order) \cup {Top}
    BY <2>2, <2>4, <2>6, <1>4
  <2> QED BY <2>5, <2>7
<1>8. TypeOK'
  BY <1>2, <1>3, <1>4, <1>5, <1>6, <1>7 DEF IInv, TypeOK
<1>9. Rooted' /\ Started'
  BY <1>2, <1>3, <1>5 DEF IInv, Rooted, Started
<1>10. \A i \in 1 .. n - 1 : loading[i] # Top
  BY <1>2 DEF IInv, Apart
<1>11. \A j \in 1 .. Len(order) : order[j] # Top
  BY <1>2 DEF IInv, Apart
<1>12. Apart'
  <2>1. \A i, j \in 1 .. Len(order') : order'[i] = order'[j] => i = j
    BY <1>4, <1>11, Typed DEF IInv, Apart
  <2>2. \A i, j \in 1 .. Len(loading') : loading'[i] = loading'[j] => i = j
    BY <1>2, <1>3 DEF IInv, Apart
  <2>3. ASSUME NEW i \in 1 .. Len(loading'), NEW j \in 1 .. Len(order')
        PROVE  loading'[i] # order'[j]
    <3>1. i \in 1 .. n - 1 /\ i \in 1 .. n /\ loading'[i] = loading[i] /\ loading[i] # Top
      BY <1>2, <1>3, <1>10
    <3>2. j \in 1 .. Len(order) \/ j = Len(order) + 1
      BY <1>4, Typed DEF IInv
    <3>3. CASE j \in 1 .. Len(order)
      <4>1. loading[i] # order[j]
        BY <3>1, <3>3 DEF IInv, Apart
      <4> QED BY <1>4, <3>1, <3>3, <4>1
    <3>4. CASE j = Len(order) + 1
      BY <1>4, <3>1, <3>4
    <3> QED BY <3>2, <3>3, <3>4
  <2> QED BY <2>1, <2>2, <2>3 DEF Apart
<1>13. Passed'
  <2> SUFFICES ASSUME NEW i \in 1 .. Len(loading'),
                      NEW k \in DOMAIN modules[loading'[i]].imports \ modules[loading'[i]].left
               PROVE  \/ \E j \in 1 .. Len(order') : order'[j] = modules[loading'[i]].imports[k]
                      \/ i < Len(loading') /\ loading'[i + 1] = modules[loading'[i]].imports[k]
    BY <1>5 DEF Passed
  <2>1. i \in 1 .. n - 1 /\ i \in 1 .. Len(loading) /\ Len(loading) = n /\ loading'[i] = loading[i]
    BY <1>2, <1>3
  <2>2. \/ \E j \in 1 .. Len(order) : order[j] = modules[loading[i]].imports[k]
        \/ i < n /\ loading[i + 1] = modules[loading[i]].imports[k]
    BY <2>1, Zenon DEF IInv, Passed
  <2>3. CASE \E j \in 1 .. Len(order) : order[j] = modules[loading[i]].imports[k]
    BY <2>1, <2>3, <1>4, Typed DEF IInv
  <2>4. CASE i + 1 < n /\ loading[i + 1] = modules[loading[i]].imports[k]
    <3>1. i + 1 \in 1 .. n - 1 /\ i < Len(loading')
      BY <2>1, <2>4, <1>2, <1>3
    <3> QED BY <3>1, <2>1, <2>4, <1>3
  <2>5. CASE i + 1 = n /\ loading[i + 1] = modules[loading[i]].imports[k]
    <3>1. Len(order) + 1 \in 1 .. Len(order')
      BY <1>4, Typed DEF IInv
    <3> QED BY <3>1, <2>1, <2>5, <1>2, <1>4
  <2>6. i + 1 < n \/ i + 1 = n
    BY <2>1, <1>2
  <2> QED BY <2>2, <2>3, <2>4, <2>5, <2>6
<1>14. Behind'
  <2> SUFFICES ASSUME NEW i \in 1 .. Len(order'), NEW k \in DOMAIN modules[order'[i]].imports
               PROVE  \E j \in 1 .. Len(order') : j < i /\ order'[j] = modules[order'[i]].imports[k]
    BY <1>5 DEF Behind
  <2>1. CASE i \in 1 .. Len(order)
    <3>1. order'[i] = order[i]
      BY <2>1, <1>4
    <3>2. \E j \in 1 .. Len(order) : j < i /\ order[j] = modules[order[i]].imports[k]
      BY <2>1, <3>1 DEF IInv, Behind
    <3> QED BY <3>1, <3>2, <1>4, Typed DEF IInv
  <2>2. CASE i = Len(order) + 1
    <3>1. order'[i] = Top /\ k \in DOMAIN modules[Top].imports \ modules[Top].left
      BY <2>2, <1>1, <1>4
    <3>2. n \in 1 .. n /\ ~(n < n)
      BY <1>2
    <3>3. \E j \in 1 .. Len(order) : order[j] = modules[Top].imports[k]
      BY <3>1, <3>2, <1>2 DEF IInv, Passed
    <3> QED BY <2>2, <3>1, <3>3, <1>4, Typed DEF IInv
  <2>3. i \in 1 .. Len(order) \/ i = Len(order) + 1
    BY <1>4, Typed DEF IInv
  <2> QED BY <2>1, <2>2, <2>3
<1> QED BY <1>8, <1>9, <1>12, <1>13, <1>14 DEF IInv

LEMMA FinishRootIInv ==
  ASSUME IInv, FinishRoot
  PROVE  IInv'
<1>1. loading' = <<>> /\ order' = order /\ modules' = modules /\ outcome' = "loaded"
  BY DEF FinishRoot
<1>2. <<>> \in Seq(Names \cup {NoModule}) /\ Len(<<>>) = 0 /\ ToSet(<<>>) = {}
  BY EmptySeq DEF ToSet
<1>3. TypeOK'
  BY <1>1, <1>2 DEF IInv, TypeOK
<1>4. Rooted' /\ Started' /\ Passed'
  BY <1>1, <1>2 DEF Rooted, Started, Passed
<1>5. Apart' /\ Behind'
  BY <1>1, <1>2 DEF IInv, Apart, Behind
<1> QED BY <1>3, <1>4, <1>5 DEF IInv

-----------------------------------------------------------------------------
LEMMA NextIInv == IInv /\ [Next]_vars => IInv'
<1> SUFFICES ASSUME IInv, [Next]_vars PROVE IInv'
  OBVIOUS
<1>1. CASE \E n \in Names \cup {NoModule} : Load(n)
  BY <1>1, LoadIInv
<1>2. CASE LoadFails
  BY <1>2, StutterIInv DEF LoadFails, Raise, Errors
<1>3. CASE \E n \in Names : ImportCycle(n)
  BY <1>3, StutterIInv DEF ImportCycle, Raise, Errors
<1>4. CASE \E n \in Names : ImportLoaded(n)
  BY <1>4, ImportLoadedIInv
<1>5. CASE \E n \in Names : LoadImport(n)
  BY <1>5, LoadImportIInv
<1>6. CASE \E n \in Names : ImportMissing(n)
  BY <1>6, StutterIInv DEF ImportMissing, Raise, Errors
<1>7. CASE ParseFails
  BY <1>7, StutterIInv DEF ParseFails, Raise, Errors
<1>8. CASE FinishImport
  BY <1>8, FinishImportIInv
<1>9. CASE FinishRoot
  BY <1>9, FinishRootIInv
<1>10. CASE UNCHANGED vars
  BY <1>10, StutterIInv DEF vars
<1> QED BY <1>1, <1>2, <1>3, <1>4, <1>5, <1>6, <1>7, <1>8, <1>9, <1>10 DEF Next

(* The lists of the loader hold modules that have their objects.           *)
THEOREM LoaderTyped == Spec => []TypeOK
<1>1. IInv => TypeOK
  BY DEF IInv
<1> QED BY <1>1, InitIInv, NextIInv, PTL DEF Spec

(* A module comes into the program once, behind everything it imports:     *)
(* what _merge() and the code generator rely on when they put its          *)
(* declarations in this order.                                             *)
THEOREM LoadsDependenciesFirst == Spec => []DependenciesFirst
<1>1. IInv => DependenciesFirst
  BY Typed, RangeOf DEF IInv, Apart, Behind, DependenciesFirst
<1> QED BY <1>1, InitIInv, NextIInv, PTL DEF Spec
-----------------------------------------------------------------------------
(* Which programs load.  What is on disk does not change, so what is said  *)
(* of it is said of the first state and of the last.                       *)

LEMMA DiskStays ==
  ASSUME world' = world
  PROVE  /\ RootName' = RootName /\ RootModules' = RootModules /\ RootLexes' = RootLexes
         /\ \A n : FilesOf(n)' = FilesOf(n)
         /\ \A fs : Imports(fs)' = Imports(fs)
         /\ \A fs : Flat(fs, Schemes)' = Flat(fs, Schemes)
         /\ \A fs : Refs(fs)' = Refs(fs) /\ Decls(fs)' = Decls(fs) /\ Caps(fs)' = Caps(fs)
<1>1. RootName' = RootName /\ RootModules' = RootModules /\ RootLexes' = RootLexes
  BY DEF RootName, RootModules, RootLexes
<1>2. \A n : FilesOf(n)' = FilesOf(n)
  BY DEF FilesOf, RootName, RootModules, FindModuleFiles, Holding, ScanModuleName
<1>3. \A fs : Flat(fs, Uses)' = Flat(fs, Uses)
  BY DEF Flat, Uses
<1>4. ASSUME NEW fs PROVE Imports(fs)' = Imports(fs)
  <2>1. Flat(fs, Uses)' = Flat(fs, Uses)
    BY <1>3
  <2> QED BY <2>1 DEF Imports, FoldLeft, MapThenFoldSet
<1>5. \A fs : Flat(fs, Schemes)' = Flat(fs, Schemes)
  BY DEF Flat, Schemes
<1>6. \A fs : Refs(fs)' = Refs(fs) /\ Decls(fs)' = Decls(fs) /\ Caps(fs)' = Caps(fs)
  BY DEF Refs, Decls, Caps
<1> QED BY <1>1, <1>2, <1>4, <1>5, <1>6

GoodModule(n) ==
    /\ \A i \in FilesOf(n) : world.files[i].parses /\ world.files[i].glob # "foreign"
    /\ \A r \in Refs(FilesOf(n)) : GoodRef(n, r)

LEMMA GraphStays ==
  ASSUME world' = world
  PROVE  /\ \A n : Succ(n)' = Succ(n)
         /\ \A n : Reached(n)' = Reached(n)
         /\ \A n, r : GoodRef(n, r)' = GoodRef(n, r)
         /\ \A n : GoodModule(n)' = GoodModule(n)
         /\ Program' = Program /\ (WellFormed' <=> WellFormed)
<1>1. \A n : Succ(n)' = Succ(n)
  BY DiskStays DEF Succ, ToSet
<1>2. \A n : Reached(n)' = Reached(n)
  BY <1>1 DEF Reached, Closed
<1>3. \A n, r : GoodRef(n, r)' = GoodRef(n, r)
  BY <1>1, DiskStays DEF GoodRef, DeclaredBy
<1>4. \A n : GoodModule(n)' = GoodModule(n)
  BY <1>3, DiskStays DEF GoodModule
<1>5. Program' = Program
  BY <1>2, DiskStays DEF Program
<1>6. WellFormed <=> /\ RootLexes /\ RootModules = {RootName}
                     /\ \A n \in Program : /\ n \notin Reached(n)
                                           /\ FilesOf(n) # {} /\ GoodModule(n)
  BY DEF WellFormed, GoodModule
<1>7. WellFormed' <=> /\ RootLexes' /\ RootModules' = {RootName'}
                      /\ \A n \in Program' : /\ n \notin Reached(n)'
                                             /\ FilesOf(n)' # {} /\ GoodModule(n)'
  BY DEF WellFormed, GoodModule
<1>8. WellFormed' <=> WellFormed
  BY <1>2, <1>4, <1>5, <1>6, <1>7, DiskStays
<1> QED BY <1>1, <1>2, <1>3, <1>4, <1>5, <1>8

(* What a module reaches is closed, and the least closed set.              *)
LEMMA ReachedFirst ==
  ASSUME NEW n, NEW m \in Succ(n), m \in Names
  PROVE  m \in Reached(n)
  BY DEF Reached

LEMMA ReachedNext ==
  ASSUME NEW n, NEW o \in Reached(n), NEW m \in Succ(o), m \in Names
  PROVE  m \in Reached(n)
  BY DEF Reached, Closed

LEMMA ReachedLeast ==
  ASSUME NEW n, NEW S \in SUBSET Names, Succ(n) \subseteq S, Closed(S)
  PROVE  Reached(n) \subseteq S
  BY DEF Reached

-----------------------------------------------------------------------------
(* The objects of the loader are what is on disk; what it is parsing is a  *)
(* path from the root; what it has loaded is of the program and good.      *)

Objects ==
    \A o \in DOMAIN modules :
       /\ modules[o].files = FilesOf(o) /\ FilesOf(o) # {}
       /\ modules[o].imports = Imports(FilesOf(o))
       /\ modules[o].left \subseteq DOMAIN modules[o].imports

RootRight ==
    outcome = "loading" =>
       RootLexes /\ RootModules = {RootName} /\ loading[1] = RootName

Path == \A i, j \in 1 .. Len(loading) : i < j => loading[j] \in Reached(loading[i])

Needed ==
    \A j \in 1 .. Len(order) : order[j] \in Reached(RootName) /\ GoodModule(order[j])

WInv == IInv /\ world \in Worlds /\ Objects /\ RootRight /\ Path /\ Needed /\ LoadsWellFormed

LEMMA SuccIs ==
  ASSUME Objects, NEW n \in DOMAIN modules
  PROVE  Succ(n) = {modules[n].imports[k] : k \in DOMAIN modules[n].imports}
  BY DEF Objects, Succ, ToSet

(* The module on top, and the import it is at.                             *)
LEMMA TopFacts ==
  ASSUME WInv, outcome = "loading"
  PROVE  /\ Len(loading) \in Nat \ {0} /\ Top = loading[Len(loading)]
         /\ Top \in DOMAIN modules /\ Top \in Program
         /\ 1 < Len(loading) => Top \in Reached(RootName) /\ Top # RootName
         /\ Len(loading) = 1 => Top = RootName
<1>1. Len(loading) \in Nat \ {0} /\ Top = loading[Len(loading)] /\ Top \in DOMAIN modules
  BY Typed DEF WInv, IInv, Top
<1>2. loading[1] = RootName
  BY DEF WInv, RootRight
<1>3. 1 < Len(loading) => Top \in Reached(RootName)
  BY <1>1, <1>2 DEF WInv, Path
<1>4. 1 < Len(loading) => Top # RootName
  BY <1>1, <1>2 DEF WInv, IInv, Apart
<1> QED BY <1>1, <1>2, <1>3, <1>4 DEF Program

LEMMA ImportFacts ==
  ASSUME WInv, NEW n \in Names, Importing(n)
  PROVE  /\ n \in Succ(Top) /\ n \in Reached(RootName)
         /\ \A i \in 1 .. Len(loading) : n \in Reached(loading[i])
<1>1. outcome = "loading"
  BY DEF Importing
<1>2. PICK k \in modules[Top].left : n = modules[Top].imports[k]
  BY DEF Importing
<1>3. n \in Succ(Top)
  BY <1>1, <1>2, TopFacts, SuccIs DEF WInv, Objects
<1>4. ASSUME NEW i \in 1 .. Len(loading) PROVE n \in Reached(loading[i])
  <2>1. Len(loading) \in Nat /\ Top = loading[Len(loading)]
    BY <1>1, TopFacts
  <2>2. CASE i = Len(loading)
    BY <2>1, <2>2, <1>3, ReachedFirst
  <2>3. CASE i < Len(loading)
    <3>1. Top \in Reached(loading[i])
      BY <2>1, <2>3 DEF WInv, Path
    <3> QED BY <3>1, <1>3, ReachedNext
  <2> QED BY <2>1, <2>2, <2>3
<1>5. n \in Reached(RootName)
  BY <1>1, <1>4, TopFacts DEF WInv, RootRight
<1> QED BY <1>3, <1>4, <1>5

(* At the end of its imports a module has them all, and its references     *)
(* resolve exactly if they are good.                                       *)
LEMMA ImportsThere ==
  ASSUME WInv, Parsing
  PROVE  /\ Succ(Top) \subseteq Loaded
         /\ \A o \in Succ(Top) \cup {Top} : o \in DOMAIN modules
<1>1. outcome = "loading" /\ modules[Top].left = {}
  BY DEF Parsing
<1>2. Len(loading) \in Nat \ {0} /\ Top = loading[Len(loading)] /\ Top \in DOMAIN modules
  BY <1>1, TopFacts
<1>3. ASSUME NEW k \in DOMAIN modules[Top].imports
      PROVE  \E j \in 1 .. Len(order) : order[j] = modules[Top].imports[k]
  <2>1. Len(loading) \in 1 .. Len(loading) /\ ~(Len(loading) < Len(loading))
    BY <1>2
  <2> QED BY <2>1, <1>1, <1>2 DEF WInv, IInv, Passed
<1>4. Succ(Top) \subseteq Loaded
  BY <1>2, <1>3, SuccIs, Typed DEF WInv, IInv, Loaded
<1>5. Loaded \subseteq DOMAIN modules
  BY DEF WInv, IInv, TypeOK, Loaded
<1> QED BY <1>2, <1>4, <1>5

LEMMA ResolvesIfGood ==
  ASSUME WInv, Parsing
  PROVE  Good(Top) <=> GoodModule(Top)
<1>1. outcome = "loading"
  BY DEF Parsing
<1>2. Files(Top) = FilesOf(Top)
  BY <1>1, TopFacts DEF Files, WInv, Objects
<1>3. Parses(Top) /\ UsesAllowed(Top) <=>
         \A i \in FilesOf(Top) : world.files[i].parses /\ world.files[i].glob # "foreign"
  BY <1>2 DEF Parses, UsesAllowed
<1>4. ASSUME NEW q PROVE Known(Top, q) = IF q \in {Top} \cup Succ(Top) THEN DeclaredBy(q) ELSE {}
  <2>1. ToSet(modules[Top].imports) = Succ(Top)
    BY <1>1, TopFacts DEF WInv, Objects, Succ
  <2>2. q \in {Top} \cup Succ(Top) => Files(q) = FilesOf(q)
    BY ImportsThere DEF WInv, Objects, Files
  <2> QED BY <2>1, <2>2 DEF Known, DeclaredBy
<1>5. ASSUME NEW r PROVE Canon(Top, r) # {} <=> GoodRef(Top, r)
  <2>1. CASE Len(r) = 2
    <3>1. Canon(Top, r) # {} <=> r[2] \in Known(Top, r[1])
      BY <2>1 DEF Canon
    <3> QED BY <3>1, <2>1, <1>4 DEF GoodRef
  <2>2. CASE Len(r) # 2
    BY <2>2 DEF Canon, GoodRef
  <2> QED BY <2>1, <2>2
<1>6. Resolves(Top) <=> \A r \in Refs(FilesOf(Top)) : GoodRef(Top, r)
  BY <1>2, <1>5 DEF Resolves
<1> QED BY <1>3, <1>6 DEF Good, GoodModule

-----------------------------------------------------------------------------
LEMMA InitWInv == Init => WInv
<1> SUFFICES ASSUME Init PROVE WInv
  OBVIOUS
<1>1. loading = <<>> /\ order = <<>> /\ outcome = "start" /\ DOMAIN modules = {}
  BY DEF Init
<1>2. Len(<<>>) = 0
  BY EmptySeq
<1>3. world \in Worlds /\ LoadsWellFormed
  BY <1>1 DEF Init, LoadsWellFormed, Errors
<1> QED BY <1>1, <1>2, <1>3, InitIInv DEF WInv, Objects, RootRight, Path, Needed

LEMMA LoadWInv ==
  ASSUME WInv, NEW n \in Names \cup {NoModule}, Load(n)
  PROVE  WInv'
<1>1. /\ loading' = <<n>> /\ order' = <<>> /\ outcome' = "loading" /\ world' = world
      /\ modules' = [o \in {n} |-> Module(world.root)]
      /\ RootLexes /\ RootModules = {n}
  BY DEF Load, WInv, IInv, Started
<1>2. RootName = n
  BY <1>1 DEF RootName
<1>3. FilesOf(n) = world.root /\ world.root # {}
  BY <1>2, WorldsAssumption DEF FilesOf, WInv
<1>4. Len(<<n>>) = 1 /\ <<n>>[1] = n /\ Len(<<>>) = 0
  BY EmptySeq
<1>5. Objects'
  BY <1>1, <1>3, DiskStays DEF Objects, Module
<1>6. RootRight' /\ Path' /\ Needed'
  BY <1>1, <1>2, <1>4, DiskStays DEF RootRight, Path, Needed
<1>7. LoadsWellFormed'
  BY <1>1 DEF LoadsWellFormed, Errors
<1>8. IInv'
  BY LoadIInv DEF WInv
<1> QED BY <1>1, <1>5, <1>6, <1>7, <1>8 DEF WInv

(* An error is raised only when something is wrong on disk.                *)
LEMMA RaiseWInv ==
  ASSUME WInv, UNCHANGED <<world, loading, modules, order>>, outcome' \in Errors, ~WellFormed
  PROVE  WInv'
<1>1. IInv'
  BY StutterIInv DEF WInv
<1>2. Objects'
  BY DiskStays DEF WInv, Objects
<1>3. Path' /\ Needed'
  BY DiskStays, GraphStays DEF WInv, Path, Needed
<1>4. RootRight' /\ LoadsWellFormed'
  BY GraphStays DEF RootRight, LoadsWellFormed, Errors
<1> QED BY <1>1, <1>2, <1>3, <1>4 DEF WInv

LEMMA StutterWInv ==
  ASSUME WInv, UNCHANGED <<world, loading, modules, order, outcome>>
  PROVE  WInv'
<1>1. IInv'
  BY StutterIInv DEF WInv
<1>2. Objects'
  BY DiskStays DEF WInv, Objects
<1>3. Path' /\ Needed' /\ RootRight' /\ LoadsWellFormed'
  BY DiskStays, GraphStays DEF WInv, Path, Needed, RootRight, LoadsWellFormed
<1> QED BY <1>1, <1>2, <1>3 DEF WInv

LEMMA LoadFailsWInv == ASSUME WInv, LoadFails PROVE WInv'
<1>1. UNCHANGED <<world, loading, modules, order>> /\ outcome' \in Errors
  BY DEF LoadFails, Raise, Errors
<1>2. ~RootLexes \/ Cardinality(RootModules) > 1
  BY DEF LoadFails
<1>3. ~WellFormed
  <2>1. Cardinality({RootName}) = 1
    BY FS_Singleton
  <2> QED BY <1>2, <2>1 DEF WellFormed
<1> QED BY <1>1, <1>3, RaiseWInv

LEMMA ImportCycleWInv == ASSUME WInv, NEW n \in Names, ImportCycle(n) PROVE WInv'
<1>1. UNCHANGED <<world, loading, modules, order>> /\ outcome' \in Errors
  BY DEF ImportCycle, Raise, Errors
<1>2. PICK i \in 1 .. Len(loading) : n = loading[i]
  BY Typed DEF ImportCycle, WInv, IInv
<1>3. n \in Reached(n) /\ n \in Program
  BY <1>2, ImportFacts DEF ImportCycle, Program
<1>4. ~WellFormed
  BY <1>3 DEF WellFormed
<1> QED BY <1>1, <1>4, RaiseWInv

LEMMA ImportMissingWInv == ASSUME WInv, NEW n \in Names, ImportMissing(n) PROVE WInv'
<1>1. UNCHANGED <<world, loading, modules, order>> /\ outcome' \in Errors
  BY DEF ImportMissing, Raise, Errors
<1>2. /\ Importing(n) /\ n \notin ToSet(loading) /\ FindModuleFiles(n) = {}
      /\ outcome = "loading"
  BY DEF ImportMissing, Importing
<1>3. n # RootName
  <2>1. 1 \in 1 .. Len(loading) /\ loading[1] = RootName
    BY <1>2, TopFacts DEF WInv, RootRight
  <2> QED BY <2>1, <1>2, Typed DEF WInv, IInv
<1>4. n \in Program /\ FilesOf(n) = {}
  BY <1>2, <1>3, ImportFacts DEF Program, FilesOf
<1>5. ~WellFormed
  BY <1>4 DEF WellFormed
<1> QED BY <1>1, <1>5, RaiseWInv

LEMMA ParseFailsWInv == ASSUME WInv, ParseFails PROVE WInv'
<1>1. UNCHANGED <<world, loading, modules, order>> /\ outcome' \in Errors
  BY DEF ParseFails, Raise, Errors
<1>2. Parsing /\ ~Good(Top)
  BY DEF ParseFails, Good
<1>3. Top \in Program /\ ~GoodModule(Top)
  BY <1>2, ResolvesIfGood, TopFacts DEF Parsing
<1>4. ~WellFormed
  BY <1>3 DEF WellFormed, GoodModule
<1> QED BY <1>1, <1>4, RaiseWInv

LEMMA ImportLoadedWInv == ASSUME WInv, NEW n \in Names, ImportLoaded(n) PROVE WInv'
<1>1. modules' = Advanced /\ UNCHANGED <<world, loading, order, outcome>>
  BY DEF ImportLoaded
<1>2. Objects'
  <2>1. /\ DOMAIN modules' = DOMAIN modules
        /\ \A o \in DOMAIN modules : /\ modules'[o].imports = modules[o].imports
                                     /\ modules'[o].files = modules[o].files
                                     /\ modules'[o].left \subseteq modules[o].left
    BY <1>1 DEF Advanced
  <2> QED BY <1>1, <2>1, DiskStays DEF WInv, Objects
<1>3. Path' /\ Needed' /\ RootRight' /\ LoadsWellFormed'
  BY <1>1, DiskStays, GraphStays DEF WInv, Path, Needed, RootRight, LoadsWellFormed
<1>4. IInv'
  BY ImportLoadedIInv DEF WInv
<1> QED BY <1>1, <1>2, <1>3, <1>4 DEF WInv

LEMMA LoadImportWInv == ASSUME WInv, NEW n \in Names, LoadImport(n) PROVE WInv'
<1>1. /\ Importing(n) /\ n \notin ToSet(loading) /\ FindModuleFiles(n) # {}
      /\ outcome = "loading"
      /\ modules' = [o \in DOMAIN modules \cup {n} |->
                        IF o = n THEN Module(FindModuleFiles(n)) ELSE Advanced[o]]
      /\ loading' = Append(loading, n)
      /\ world' = world /\ order' = order /\ outcome' = outcome
  BY DEF LoadImport, Importing
<1>2. loading[1] = RootName /\ 1 \in 1 .. Len(loading)
  BY <1>1, TopFacts DEF WInv, RootRight
<1>3. n # RootName
  BY <1>1, <1>2, Typed DEF WInv, IInv
<1>4. /\ Len(loading') = Len(loading) + 1 /\ Len(loading) \in Nat
      /\ \A i \in 1 .. Len(loading) : loading'[i] = loading[i]
      /\ loading'[Len(loading) + 1] = n
  BY <1>1, Typed, AppendFacts DEF WInv, IInv
<1>5. Objects'
  <2>1. \A o \in DOMAIN modules : /\ Advanced[o].imports = modules[o].imports
                                  /\ Advanced[o].files = modules[o].files
                                  /\ Advanced[o].left \subseteq modules[o].left
    BY DEF Advanced
  <2>2. FilesOf(n) = FindModuleFiles(n)
    BY <1>3 DEF FilesOf
  <2>3. /\ modules'[n].files = FilesOf(n) /\ FilesOf(n) # {}
        /\ modules'[n].imports = Imports(FilesOf(n))
        /\ modules'[n].left \subseteq DOMAIN modules'[n].imports
    BY <1>1, <2>2 DEF Module
  <2>4. \A o \in DOMAIN modules : o # n =>
           /\ modules'[o].files = FilesOf(o) /\ FilesOf(o) # {}
           /\ modules'[o].imports = Imports(FilesOf(o))
           /\ modules'[o].left \subseteq DOMAIN modules'[o].imports
    BY <1>1, <2>1 DEF WInv, Objects
  <2>5. DOMAIN modules' = DOMAIN modules \cup {n}
    BY <1>1
  <2> QED BY <1>1, <2>3, <2>4, <2>5, DiskStays DEF Objects
<1>6. Path'
  <2>1. \A i, j \in 1 .. Len(loading') : i < j => loading'[j] \in Reached(loading'[i])
    BY <1>1, <1>4, ImportFacts DEF WInv, Path
  <2> QED BY <1>1, <2>1, GraphStays DEF Path
<1>7. Needed' /\ LoadsWellFormed'
  BY <1>1, DiskStays, GraphStays DEF WInv, Needed, LoadsWellFormed
<1>8. RootRight'
  BY <1>1, <1>2, <1>4, DiskStays DEF WInv, RootRight
<1>9. IInv'
  BY LoadImportIInv DEF WInv
<1> QED BY <1>1, <1>5, <1>6, <1>7, <1>8, <1>9 DEF WInv

LEMMA FinishImportWInv == ASSUME WInv, FinishImport PROVE WInv'
<1>1. /\ Parsing /\ Len(loading) > 1 /\ Good(Top)
      /\ order' = Append(order, Top) /\ loading' = Front(loading)
      /\ UNCHANGED <<world, modules, outcome>> /\ outcome = "loading"
  BY DEF FinishImport, Parsing
<1>2. /\ Top \in Reached(RootName) /\ GoodModule(Top) /\ Top \in Names
      /\ Len(loading) \in Nat
  BY <1>1, TopFacts, ResolvesIfGood DEF Reached
<1>3. Len(loading') = Len(loading) - 1 /\ \A i \in 1 .. Len(loading) - 1 : loading'[i] = loading[i]
  BY <1>1, Typed, FrontFacts, EmptySeq DEF WInv, IInv
<1>4. /\ Len(order') = Len(order) + 1 /\ Len(order) \in Nat
      /\ \A i \in 1 .. Len(order) : order'[i] = order[i]
      /\ order'[Len(order) + 1] = Top
  BY <1>1, <1>2, Typed, AppendFacts DEF WInv, IInv
<1>5. Objects'
  BY <1>1, DiskStays DEF WInv, Objects
<1>6. RootRight'
  BY <1>1, <1>2, <1>3, DiskStays DEF WInv, RootRight
<1>7. Path'
  <2>1. \A i, j \in 1 .. Len(loading') : i < j => loading'[j] \in Reached(loading'[i])
    <3>1. \A i \in 1 .. Len(loading') : i \in 1 .. Len(loading) /\ loading'[i] = loading[i]
      BY <1>2, <1>3
    <3> QED BY <3>1 DEF WInv, Path
  <2> QED BY <1>1, <2>1, GraphStays DEF Path
<1>8. Needed'
  <2>1. \A j \in 1 .. Len(order') : order'[j] \in Reached(RootName) /\ GoodModule(order'[j])
    BY <1>2, <1>4 DEF WInv, Needed
  <2> QED BY <1>1, <2>1, DiskStays, GraphStays DEF Needed
<1>9. LoadsWellFormed'
  BY <1>1, GraphStays DEF WInv, LoadsWellFormed
<1>10. IInv'
  BY FinishImportIInv DEF WInv
<1> QED BY <1>1, <1>5, <1>6, <1>7, <1>8, <1>9, <1>10 DEF WInv

(* At the end what is loaded is what the root reaches, and the order of    *)
(* loading shows that nothing reaches itself.                              *)
LEMMA RootFinds ==
  ASSUME WInv, Parsing, Len(loading) = 1
  PROVE  /\ Reached(RootName) = Loaded /\ Top = RootName /\ RootName \notin Loaded
         /\ \A n \in Program : n \notin Reached(n)
<1>1. /\ Top = RootName /\ loading[1] = RootName /\ outcome = "loading"
      /\ Len(order) \in Nat
      /\ Loaded = {order[j] : j \in 1 .. Len(order)} /\ Loaded \subseteq Names
  <2>1. Loaded \subseteq Names
    BY Typed DEF WInv, IInv, Loaded
  <2> QED BY <2>1, TopFacts, Typed DEF Parsing, WInv, IInv, RootRight, Loaded
<1>2. ASSUME NEW i \in 1 .. Len(order)
      PROVE  Succ(order[i]) \subseteq {order[j] : j \in 1 .. i - 1}
  <2>1. order[i] \in DOMAIN modules
    BY Typed DEF WInv, IInv
  <2>2. \A k \in DOMAIN modules[order[i]].imports :
           \E j \in 1 .. Len(order) : j < i /\ order[j] = modules[order[i]].imports[k]
    BY DEF WInv, IInv, Behind
  <2> QED BY <2>1, <2>2, SuccIs DEF WInv
<1>3. Reached(RootName) \subseteq Loaded
  <2>1. Succ(RootName) \subseteq Loaded
    BY <1>1, ImportsThere
  <2>2. Closed(Loaded)
    <3>1. ASSUME NEW i \in 1 .. Len(order) PROVE Succ(order[i]) \subseteq Loaded
      <4>1. 1 .. i - 1 \subseteq 1 .. Len(order)
        BY <1>1
      <4> QED BY <1>1, <1>2, <4>1, Zenon
    <3>2. \A o \in Loaded : \E i \in 1 .. Len(order) : o = order[i]
      BY <1>1
    <3> QED BY <3>1, <3>2 DEF Closed
  <2> QED BY <1>1, <2>1, <2>2, ReachedLeast
<1>4. Loaded \subseteq Reached(RootName)
  BY <1>1 DEF WInv, Needed
<1>5. RootName \notin Loaded
  BY <1>1 DEF WInv, IInv, Apart
<1>6. ASSUME NEW i \in 1 .. Len(order) PROVE order[i] \notin Reached(order[i])
  <2> DEFINE S == {order[j] : j \in 1 .. i - 1}
  <2>1. S \in SUBSET Names
    BY <1>1
  <2>2. Closed(S)
    <3>1. ASSUME NEW k \in 1 .. i - 1 PROVE Succ(order[k]) \subseteq S
      <4>1. k \in 1 .. Len(order) /\ 1 .. k - 1 \subseteq 1 .. i - 1
        BY <1>1
      <4> QED BY <1>2, <4>1, Zenon
    <3>2. \A o \in S : \E k \in 1 .. i - 1 : o = order[k]
      OBVIOUS
    <3> HIDE DEF S
    <3> QED BY <3>1, <3>2 DEF Closed
  <2>3. order[i] \notin S
    <3>1. \A j \in 1 .. i - 1 : j \in 1 .. Len(order) /\ j # i
      BY <1>1
    <3>2. \A j \in 1 .. Len(order) : j # i => order[j] # order[i]
      BY <1>1 DEF WInv, IInv, Apart
    <3> QED BY <3>1, <3>2
  <2>4. Succ(order[i]) \subseteq S
    BY <1>2
  <2> HIDE DEF S
  <2> QED BY <2>1, <2>2, <2>3, <2>4, ReachedLeast
<1>7. \A n \in Program : n \notin Reached(n)
  BY <1>1, <1>3, <1>5, <1>6 DEF Program
<1> QED BY <1>1, <1>3, <1>4, <1>5, <1>7

LEMMA FinishRootWInv == ASSUME WInv, FinishRoot PROVE WInv'
<1>1. /\ Parsing /\ Len(loading) = 1 /\ Good(Top)
      /\ loading' = <<>> /\ outcome' = "loaded" /\ outcome = "loading"
      /\ UNCHANGED <<world, modules, order>>
  BY DEF FinishRoot, Parsing
<1>2. /\ Reached(RootName) = Loaded /\ Top = RootName
      /\ \A n \in Program : n \notin Reached(n)
  BY <1>1, RootFinds
<1>3. \A n \in Program : GoodModule(n)
  <2>1. GoodModule(RootName)
    BY <1>1, <1>2, ResolvesIfGood
  <2>2. \A n \in Loaded : GoodModule(n)
    BY Typed DEF WInv, IInv, Needed, Loaded
  <2> QED BY <1>2, <2>1, <2>2 DEF Program
<1>4. \A n \in Program : FilesOf(n) # {}
  <2>1. Program \subseteq DOMAIN modules
    BY <1>1, <1>2, TopFacts DEF Program, WInv, IInv, TypeOK, Loaded
  <2> QED BY <2>1 DEF WInv, Objects
<1>5. WellFormed
  BY <1>1, <1>2, <1>3, <1>4 DEF WellFormed, GoodModule, WInv, RootRight
<1>6. LoadsWellFormed'
  BY <1>1, <1>5, GraphStays DEF LoadsWellFormed, Errors
<1>7. Objects' /\ Needed'
  BY <1>1, DiskStays, GraphStays DEF WInv, Objects, Needed
<1>8. RootRight' /\ Path'
  BY <1>1, EmptySeq DEF RootRight, Path
<1>9. IInv'
  BY FinishRootIInv DEF WInv
<1> QED BY <1>1, <1>6, <1>7, <1>8, <1>9 DEF WInv

LEMMA NextWInv == WInv /\ [Next]_vars => WInv'
<1> SUFFICES ASSUME WInv, [Next]_vars PROVE WInv'
  OBVIOUS
<1>1. CASE \E n \in Names \cup {NoModule} : Load(n)
  BY <1>1, LoadWInv
<1>2. CASE LoadFails
  BY <1>2, LoadFailsWInv
<1>3. CASE \E n \in Names : ImportCycle(n)
  BY <1>3, ImportCycleWInv
<1>4. CASE \E n \in Names : ImportLoaded(n)
  BY <1>4, ImportLoadedWInv
<1>5. CASE \E n \in Names : LoadImport(n)
  BY <1>5, LoadImportWInv
<1>6. CASE \E n \in Names : ImportMissing(n)
  BY <1>6, ImportMissingWInv
<1>7. CASE ParseFails
  BY <1>7, ParseFailsWInv
<1>8. CASE FinishImport
  BY <1>8, FinishImportWInv
<1>9. CASE FinishRoot
  BY <1>9, FinishRootWInv
<1>10. CASE UNCHANGED vars
  BY <1>10, StutterWInv DEF vars
<1> QED BY <1>1, <1>2, <1>3, <1>4, <1>5, <1>6, <1>7, <1>8, <1>9, <1>10 DEF Next

(* A program is loaded only if the graph of its imports, the files and the *)
(* names in them are in order, and refused only if one of them is not: a   *)
(* cycle is found wherever it closes, a module shared by many importers is *)
(* no cycle, and every error is one of the program.                        *)
THEOREM LoadsTheWellFormed == Spec => []LoadsWellFormed
<1>1. WInv => LoadsWellFormed
  BY DEF WInv
<1> QED BY <1>1, InitWInv, NextWInv, PTL DEF Spec

(* Induction over the numbers, for a set in the place of a predicate: the  *)
(* order of the numbers is well-founded, so a set that is not empty has a  *)
(* least member.                                                           *)

LEMMA LeastMember ==
  ASSUME NEW T, T \subseteq Nat, T # {}
  PROVE  \E x \in T : \A y \in T : x <= y
<1> DEFINE R == OpToRel(<, Nat)
<1>1. IsWellFoundedOn(R, Nat)
  BY NatLessThanWellFounded
<1>2. \A x, y \in Nat : x < y => <<x, y>> \in R
  BY DEF OpToRel
<1> HIDE DEF R
<1>3. PICK x \in T : \A y \in T : ~(<<y, x>> \in R)
  BY <1>1, WFMin
<1>4. ASSUME NEW y \in T PROVE x <= y
  <2>1. x \in Nat /\ y \in Nat
    OBVIOUS
  <2>2. ~(y < x)
    BY <2>1, <1>2, <1>3
  <2> QED BY <2>1, <2>2
<1> QED BY <1>4

LEMMA SetInduction ==
  ASSUME NEW S, 0 \in S, \A n \in Nat : n \in S => n + 1 \in S
  PROVE  Nat \subseteq S
<1> SUFFICES ASSUME Nat \ S # {} PROVE FALSE
  OBVIOUS
<1>1. PICK x \in Nat \ S : \A y \in Nat \ S : x <= y
  <2> DEFINE T == Nat \ S
  <2>1. T \subseteq Nat /\ T # {}
    OBVIOUS
  <2> HIDE DEF T
  <2>2. \E x \in T : \A y \in T : x <= y
    BY <2>1, LeastMember
  <2> QED BY <2>2 DEF T
<1>2. x # 0 /\ x - 1 \in Nat
  BY <1>1
<1>3. x - 1 \in S
  BY <1>1, <1>2
<1> QED BY <1>1, <1>2, <1>3


FlatStep(s, g, k) == IF k = 1 THEN s[k] ELSE g[k - 1] \o s[k]
Flattens(g, s, n) == g = [k \in 1 .. n |-> FlatStep(s, g, k)]

LEMMA FlattenExists == ASSUME NEW s PROVE \A n \in Nat : \E g : Flattens(g, s, n)
<1> DEFINE S == {n \in Nat : \E g : Flattens(g, s, n)}
<1>1. 0 \in S
  <2>1. Flattens([k \in 1 .. 0 |-> <<>>], s, 0)
    BY DEF Flattens
  <2> QED BY <2>1
<1>2. ASSUME NEW n \in Nat, n \in S PROVE n + 1 \in S
  <2>1. PICK g : Flattens(g, s, n)
    BY <1>2
  <2> DEFINE h == [k \in 1 .. n + 1 |-> IF k = n + 1 THEN FlatStep(s, g, k) ELSE g[k]]
  <2>2. ASSUME NEW k \in 1 .. n + 1 PROVE h[k] = FlatStep(s, h, k)
    <3>1. k # 1 => k - 1 \in 1 .. n /\ h[k - 1] = g[k - 1]
      OBVIOUS
    <3>2. FlatStep(s, g, k) = FlatStep(s, h, k)
      BY <3>1 DEF FlatStep
    <3>3. k # n + 1 => g[k] = FlatStep(s, g, k)
      BY <2>1 DEF Flattens
    <3> QED BY <3>2, <3>3
  <2>3. h = [k \in 1 .. n + 1 |-> h[k]]
    OBVIOUS
  <2> HIDE DEF h
  <2>4. Flattens(h, s, n + 1)
    BY <2>2, <2>3 DEF Flattens
  <2> QED BY <2>4
<1> HIDE DEF S
<1>3. Nat \subseteq S
  BY <1>1, <1>2, SetInduction
<1> QED BY <1>3 DEF S

LEMMA FlattenIs ==
  ASSUME NEW s, Len(s) \in Nat
  PROVE  /\ Len(s) = 0 => FlattenSeq(s) = s
         /\ Len(s) # 0 => \E g : Flattens(g, s, Len(s)) /\ FlattenSeq(s) = g[Len(s)]
<1> DEFINE f == CHOOSE g : Flattens(g, s, Len(s))
<1>1. Len(s) # 0 => FlattenSeq(s) = f[Len(s)]
  BY DEF FlattenSeq, Flattens, FlatStep
<1>2. \E g : Flattens(g, s, Len(s))
  BY FlattenExists
<1>3. Flattens(f, s, Len(s))
  BY <1>2
<1>4. Len(s) = 0 => FlattenSeq(s) = s
  BY DEF FlattenSeq
<1> HIDE DEF f
<1> QED BY <1>1, <1>3, <1>4, Zenon

LEMMA ConcatRange ==
  ASSUME NEW T, NEW a \in Seq(T), NEW b \in Seq(T)
  PROVE  a \o b \in Seq(T) /\ ToSet(a \o b) = ToSet(a) \cup ToSet(b)
<1>1. /\ a \o b \in Seq(T) /\ Len(a \o b) = Len(a) + Len(b)
      /\ \A i \in 1 .. Len(a) + Len(b) :
            (a \o b)[i] = IF i <= Len(a) THEN a[i] ELSE b[i - Len(a)]
      /\ Len(a) \in Nat /\ Len(b) \in Nat
  BY ConcatProperties, LenProperties
<1> DEFINE c == a \o b
<1>2. /\ ToSet(a) = {a[i] : i \in 1 .. Len(a)} /\ ToSet(b) = {b[i] : i \in 1 .. Len(b)}
      /\ ToSet(c) = {c[i] : i \in 1 .. Len(c)}
  BY <1>1, RangeOf
<1>3. Len(c) = Len(a) + Len(b) /\ \A i \in 1 .. Len(a) : c[i] = a[i]
  BY <1>1
<1>4. \A i \in 1 .. Len(b) : c[Len(a) + i] = b[i] /\ Len(a) + i \in 1 .. Len(c)
  BY <1>1
<1>5. \A i \in 1 .. Len(c) : i \in 1 .. Len(a) \/ (i - Len(a) \in 1 .. Len(b) /\ c[i] = b[i - Len(a)])
  BY <1>1
<1>6. 1 .. Len(a) \subseteq 1 .. Len(c)
  BY <1>1
<1> HIDE DEF c
<1>7. ToSet(c) \subseteq ToSet(a) \cup ToSet(b)
  BY <1>2, <1>3, <1>5
<1>8. ToSet(a) \subseteq ToSet(c) /\ ToSet(b) \subseteq ToSet(c)
  BY <1>2, <1>3, <1>4, <1>6
<1> QED BY <1>1, <1>7, <1>8 DEF c

(* What is in the flattening of a sequence of sequences.                   *)
LEMMA FlattenRange ==
  ASSUME NEW T, NEW s \in Seq(Seq(T))
  PROVE  /\ FlattenSeq(s) \in Seq(T)
         /\ ToSet(FlattenSeq(s)) = UNION {ToSet(s[k]) : k \in 1 .. Len(s)}
<1>1. Len(s) \in Nat /\ \A k \in 1 .. Len(s) : s[k] \in Seq(T)
  BY LenProperties
<1>2. CASE Len(s) = 0
  <2>1. FlattenSeq(s) = s
    BY <1>1, <1>2, FlattenIs
  <2>2. s = <<>> /\ ToSet(<<>>) = {}
    BY <1>2, EmptySeq DEF ToSet
  <2>3. s \in Seq(T)
    BY <2>2, EmptySeq
  <2>4. UNION {ToSet(s[k]) : k \in 1 .. Len(s)} = {}
    BY <1>2
  <2> QED BY <2>1, <2>2, <2>3, <2>4
<1>3. CASE Len(s) # 0
  <2>1. PICK g : Flattens(g, s, Len(s)) /\ FlattenSeq(s) = g[Len(s)]
    BY <1>1, <1>3, FlattenIs
  <2> DEFINE P == {n \in Nat : n \in 1 .. Len(s) =>
                     g[n] \in Seq(T) /\ ToSet(g[n]) = UNION {ToSet(s[k]) : k \in 1 .. n}}
  <2>2. 0 \in P
    BY <1>1
  <2>3. ASSUME NEW n \in Nat, n \in P PROVE n + 1 \in P
    <3> SUFFICES ASSUME n + 1 \in 1 .. Len(s)
                 PROVE  /\ g[n + 1] \in Seq(T)
                        /\ ToSet(g[n + 1]) = UNION {ToSet(s[k]) : k \in 1 .. n + 1}
      OBVIOUS
    <3>1. g[n + 1] = FlatStep(s, g, n + 1)
      BY <2>1 DEF Flattens
    <3>2. s[n + 1] \in Seq(T)
      BY <1>1
    <3>3. CASE n = 0
      <4>1. g[1] = s[1]
        BY <3>1, <3>3 DEF FlatStep
      <4>2. UNION {ToSet(s[k]) : k \in 1 .. 1} = ToSet(s[1])
        OBVIOUS
      <4> QED BY <4>1, <4>2, <3>2, <3>3
    <3>4. CASE n # 0
      <4>1. g[n + 1] = g[n] \o s[n + 1]
        <5>1. n + 1 # 1 /\ (n + 1) - 1 = n
          BY <3>4
        <5> QED BY <3>1, <5>1 DEF FlatStep
      <4>2. g[n] \in Seq(T) /\ ToSet(g[n]) = UNION {ToSet(s[k]) : k \in 1 .. n}
        BY <1>1, <2>3, <3>4
      <4>3. /\ g[n] \o s[n + 1] \in Seq(T)
            /\ ToSet(g[n] \o s[n + 1]) = ToSet(g[n]) \cup ToSet(s[n + 1])
        BY <3>2, <4>2, ConcatRange
      <4>4. \A k : k \in 1 .. n + 1 <=> k \in 1 .. n \/ k = n + 1
        OBVIOUS
      <4>5. UNION {ToSet(s[k]) : k \in 1 .. n + 1} =
               (UNION {ToSet(s[k]) : k \in 1 .. n}) \cup ToSet(s[n + 1])
        BY <4>4, Zenon
      <4> QED BY <4>1, <4>2, <4>3, <4>5
    <3> QED BY <3>3, <3>4
  <2> HIDE DEF P
  <2>4. Nat \subseteq P
    BY <2>2, <2>3, SetInduction
  <2>5. Len(s) \in P /\ Len(s) \in 1 .. Len(s)
    BY <1>1, <1>3, <2>4
  <2> QED BY <2>1, <2>5 DEF P
<1> QED BY <1>2, <1>3

-----------------------------------------------------------------------------
(* What _merge() makes of the schemes of its modules, one after the other. *)

MergeStep(mine, theirs, g, k) ==
    IF k = 0
    THEN [applies |-> IF mine = <<>> THEN NoScheme ELSE Head(mine),
          kept |-> <<>>, warned |-> {}]
    ELSE MergeScheme(g[k - 1], theirs[k])
Merges(g, mine, theirs, n) == g = [k \in 0 .. n |-> MergeStep(mine, theirs, g, k)]

LEMMA MergesExists == ASSUME NEW a, NEW b PROVE \A n \in Nat : \E g : Merges(g, a, b, n)
<1> DEFINE P == {n \in Nat : \E g : Merges(g, a, b, n)}
<1>1. 0 \in P
  <2> DEFINE h == [k \in 0 .. 0 |-> MergeStep(a, b, <<>>, k)]
  <2>1. \A k \in 0 .. 0 : k = 0
    OBVIOUS
  <2>2. \A g, k : k = 0 => MergeStep(a, b, g, k) = MergeStep(a, b, <<>>, k)
    BY DEF MergeStep
  <2>3. h = [k \in 0 .. 0 |-> MergeStep(a, b, h, k)]
    BY <2>1, <2>2
  <2> HIDE DEF h
  <2>4. Merges(h, a, b, 0)
    BY <2>3 DEF Merges
  <2> QED BY <2>4
<1>2. ASSUME NEW n \in Nat, n \in P PROVE n + 1 \in P
  <2>1. PICK g : Merges(g, a, b, n)
    BY <1>2
  <2> DEFINE h == [k \in 0 .. n + 1 |-> IF k = n + 1 THEN MergeStep(a, b, g, k) ELSE g[k]]
  <2>2. ASSUME NEW k \in 0 .. n + 1 PROVE h[k] = MergeStep(a, b, h, k)
    <3>1. k # 0 => k - 1 \in 0 .. n /\ h[k - 1] = g[k - 1]
      OBVIOUS
    <3>2. MergeStep(a, b, g, k) = MergeStep(a, b, h, k)
      BY <3>1 DEF MergeStep
    <3>3. k # n + 1 => g[k] = MergeStep(a, b, g, k)
      BY <2>1 DEF Merges
    <3> QED BY <3>2, <3>3
  <2>3. h = [k \in 0 .. n + 1 |-> h[k]]
    OBVIOUS
  <2> HIDE DEF h
  <2>4. Merges(h, a, b, n + 1)
    BY <2>2, <2>3 DEF Merges
  <2> QED BY <2>4
<1> HIDE DEF P
<1>3. Nat \subseteq P
  BY <1>1, <1>2, SetInduction
<1> QED BY <1>3 DEF P

LEMMA MergeSchemesIs ==
  ASSUME NEW mine, NEW theirs, Len(theirs) \in Nat
  PROVE  \E g : Merges(g, mine, theirs, Len(theirs)) /\ MergeSchemes(mine, theirs) = g[Len(theirs)]
<1>1. MergeSchemes(mine, theirs) =
         (CHOOSE g : Merges(g, mine, theirs, Len(theirs)))[Len(theirs)]
  BY DEF MergeSchemes, Merges, MergeStep
<1>2. \E g : Merges(g, mine, theirs, Len(theirs))
  BY MergesExists
<1>3. Merges(CHOOSE g : Merges(g, mine, theirs, Len(theirs)), mine, theirs, Len(theirs))
  BY <1>2
<1> QED BY <1>1, <1>3

LEMMA MergeSchemeIs ==
  ASSUME NEW a, NEW k, NEW w, NEW ms
  PROVE  MergeScheme([applies |-> a, kept |-> k, warned |-> w], ms) =
            IF a = NoScheme
            THEN [applies |-> ms[2], kept |-> <<ms[2]>>, warned |-> w]
            ELSE [applies |-> a, kept |-> k,
                  warned |-> IF ms[2] # a THEN w \cup {ms[1]} ELSE w]
<1> DEFINE acc == [applies |-> a, kept |-> k, warned |-> w]
<1>1. acc.applies = a /\ acc.kept = k /\ acc.warned = w
  OBVIOUS
<1>3. [acc EXCEPT !.warned = @ \cup {ms[1]}] = [applies |-> a, kept |-> k, warned |-> w \cup {ms[1]}]
  OBVIOUS
<1> HIDE DEF acc
<1>4. MergeScheme(acc, ms) =
            IF a = NoScheme
            THEN [applies |-> ms[2], kept |-> <<ms[2]>>, warned |-> w]
            ELSE IF ms[2] # a THEN [applies |-> a, kept |-> k, warned |-> w \cup {ms[1]}] ELSE acc
  BY <1>1, <1>3 DEF MergeScheme
<1> QED BY <1>4 DEF acc

(* The scheme of the program is its own, or else the first of theirs; a    *)
(* warning names whoever has another one.                                  *)
Applying(mine, theirs) == IF mine = <<>> THEN theirs[1][2] ELSE Head(mine)

LEMMA MergedSchemes ==
  ASSUME NEW mine, mine # <<>> => Head(mine) # NoScheme,
         NEW theirs, Len(theirs) \in Nat,
         \A k \in 1 .. Len(theirs) : theirs[k][2] # NoScheme
  PROVE  /\ MergeSchemes(mine, theirs).kept =
               IF mine = <<>> /\ Len(theirs) # 0 THEN <<theirs[1][2]>> ELSE <<>>
         /\ mine # <<>> \/ Len(theirs) # 0 =>
               MergeSchemes(mine, theirs).warned =
                  {theirs[k][1] : k \in {k \in 1 .. Len(theirs) :
                                            theirs[k][2] # Applying(mine, theirs)}}
<1>1. PICK g : /\ Merges(g, mine, theirs, Len(theirs))
               /\ MergeSchemes(mine, theirs) = g[Len(theirs)]
  BY MergeSchemesIs
<1> DEFINE A == Applying(mine, theirs)
           W(n) == {theirs[k][1] : k \in {k \in 1 .. n : theirs[k][2] # A}}
           Fine(n) == g[n] = [applies |-> IF mine = <<>> /\ n = 0 THEN NoScheme ELSE A,
                              kept |-> IF mine = <<>> /\ n # 0 THEN <<A>> ELSE <<>>,
                              warned |-> W(n)]
           P == {n \in Nat : n <= Len(theirs) => Fine(n)}
<1>2. 0 \in P
  <2>1. W(0) = {}
    OBVIOUS
  <2>2. g[0] = MergeStep(mine, theirs, g, 0)
    BY <1>1 DEF Merges
  <2>3. mine # <<>> => A = Head(mine)
    BY DEF Applying
  <2> HIDE DEF W, A
  <2> QED BY <2>1, <2>2, <2>3 DEF MergeStep
<1>3. ASSUME NEW n \in Nat, n \in P PROVE n + 1 \in P
  <2> SUFFICES ASSUME n + 1 <= Len(theirs) PROVE Fine(n + 1)
    OBVIOUS
  <2>1. Fine(n)
    BY <1>3
  <2>2. n + 1 \in 0 .. Len(theirs) /\ n + 1 \in 1 .. Len(theirs)
    OBVIOUS
  <2>3. g[n + 1] = MergeScheme(g[n], theirs[n + 1])
    <3>1. g[n + 1] = MergeStep(mine, theirs, g, n + 1)
      BY <1>1, <2>2 DEF Merges
    <3> QED BY <3>1 DEF MergeStep
  <2>4. theirs[n + 1][2] # NoScheme
    BY <2>2
  <2>5. W(n + 1) = IF theirs[n + 1][2] # A THEN W(n) \cup {theirs[n + 1][1]} ELSE W(n)
    <3>1. \A k : k \in 1 .. n + 1 <=> k \in 1 .. n \/ k = n + 1
      OBVIOUS
    <3> HIDE DEF A
    <3> QED BY <3>1, Zenon
  <2>6. mine = <<>> => A = theirs[1][2]
    BY DEF Applying
  <2>7. mine # <<>> \/ n # 0 => A # NoScheme
    <3>1. mine # <<>> => A = Head(mine)
      BY DEF Applying
    <3>2. mine = <<>> /\ n # 0 => 1 \in 1 .. Len(theirs)
      OBVIOUS
    <3> HIDE DEF A
    <3> QED BY <3>1, <3>2, <2>6
  <2> HIDE DEF A, W
  <2> DEFINE a == IF mine = <<>> /\ n = 0 THEN NoScheme ELSE A
             k == IF mine = <<>> /\ n # 0 THEN <<A>> ELSE <<>>
             next == theirs[n + 1]
  <2>8. g[n + 1] = IF a = NoScheme
                   THEN [applies |-> next[2], kept |-> <<next[2]>>, warned |-> W(n)]
                   ELSE [applies |-> a, kept |-> k,
                         warned |-> IF next[2] # a THEN W(n) \cup {next[1]} ELSE W(n)]
    <3>1. g[n] = [applies |-> a, kept |-> k, warned |-> W(n)]
      BY <2>1
    <3> HIDE DEF a, k, next
    <3>2. g[n + 1] = MergeScheme([applies |-> a, kept |-> k, warned |-> W(n)], next)
      BY <2>3, <3>1 DEF next
    <3> QED BY <3>2, MergeSchemeIs
  <2>9. CASE mine = <<>> /\ n = 0
    <3>1. a = NoScheme /\ A = next[2] /\ W(n + 1) = W(n)
      BY <2>5, <2>6, <2>9
    <3>2. mine = <<>> /\ n + 1 # 0
      BY <2>9
    <3> HIDE DEF a, k, next
    <3>3. g[n + 1] = [applies |-> A, kept |-> <<A>>, warned |-> W(n + 1)]
      BY <2>8, <3>1
    <3> QED BY <3>2, <3>3
  <2>10. CASE ~(mine = <<>> /\ n = 0)
    <3>1. a = A /\ a # NoScheme
      BY <2>7, <2>10
    <3>2. k = IF mine = <<>> /\ n + 1 # 0 THEN <<A>> ELSE <<>>
      BY <2>10
    <3>3. W(n + 1) = IF next[2] # A THEN W(n) \cup {next[1]} ELSE W(n)
      BY <2>5
    <3>4. n + 1 # 0
      OBVIOUS
    <3> HIDE DEF a, k, next
    <3>5. g[n + 1] = [applies |-> A, kept |-> k, warned |-> W(n + 1)]
      BY <2>8, <3>1, <3>3
    <3> QED BY <3>2, <3>4, <3>5
  <2> QED BY <2>9, <2>10
<1> HIDE DEF P
<1>4. Nat \subseteq P
  BY <1>2, <1>3, SetInduction
<1>5. Fine(Len(theirs))
  BY <1>4 DEF P
<1>6. mine = <<>> => A = theirs[1][2]
  BY DEF Applying
<1> HIDE DEF A
<1> QED BY <1>1, <1>5, <1>6 DEF A

-----------------------------------------------------------------------------
(* The merged program.                                                     *)

Declared == {world.files[i].scheme : i \in DOMAIN world.files} \ {NoScheme}

LEMMA SchemesTyped ==
  ASSUME world \in Worlds, NEW fs
  PROVE  Flat(fs, Schemes) \in Seq(Declared)
<1>1. Len(world.files) \in Nat /\ DOMAIN world.files = 1 .. Len(world.files)
  BY WorldsAssumption, RangeOf, LenProperties
<1> DEFINE s == [i \in DOMAIN world.files |-> IF i \in fs THEN Schemes[i] ELSE <<>>]
<1>2. ASSUME NEW i \in DOMAIN world.files
      PROVE  (IF i \in fs THEN Schemes[i] ELSE <<>>) \in Seq(Declared)
  <2>1. Schemes[i] = IF world.files[i].scheme = NoScheme THEN <<>> ELSE <<world.files[i].scheme>>
    BY DEF Schemes
  <2>2. world.files[i].scheme # NoScheme => world.files[i].scheme \in Declared
    BY DEF Declared
  <2>3. \A x \in Declared : <<x>> \in Seq(Declared)
    OBVIOUS
  <2>4. <<>> \in Seq(Declared)
    BY EmptySeq
  <2> QED BY <2>1, <2>2, <2>3, <2>4
<1>3. s \in [1 .. Len(world.files) -> Seq(Declared)]
  BY <1>1, <1>2
<1>4. s \in Seq(Seq(Declared))
  BY <1>1, <1>3, SeqDef
<1> HIDE DEF s
<1>5. FlattenSeq(s) \in Seq(Declared)
  BY <1>4, FlattenRange
<1> QED BY <1>5 DEF Flat, s

(* The schemes of all the modules loaded, each with its module.            *)
Theirs == FlattenSeq([i \in DOMAIN order |-> SchemesOf(order[i])])

LEMMA TheirsAre ==
  ASSUME WInv
  PROVE  /\ Len(Theirs) \in Nat
         /\ \A k \in 1 .. Len(Theirs) : Theirs[k][2] # NoScheme
         /\ {Theirs[k] : k \in 1 .. Len(Theirs)} =
               UNION {{n} \X ToSet(Flat(FilesOf(n), Schemes)) : n \in Loaded}
<1> DEFINE T == Loaded \X Declared
           s == [i \in DOMAIN order |-> SchemesOf(order[i])]
<1>1. /\ Len(order) \in Nat /\ DOMAIN order = 1 .. Len(order)
      /\ Loaded = {order[i] : i \in 1 .. Len(order)}
  <2>1. order \in Seq(Names)
    BY DEF WInv, IInv, TypeOK
  <2> QED BY <2>1, RangeOf, LenProperties DEF Loaded
<1>2. ASSUME NEW n \in Loaded
      PROVE  /\ SchemesOf(n) \in Seq(T)
             /\ ToSet(SchemesOf(n)) = {n} \X ToSet(Flat(FilesOf(n), Schemes))
  <2> DEFINE f == Flat(FilesOf(n), Schemes)
  <2>1. Files(n) = FilesOf(n)
    BY DEF WInv, IInv, TypeOK, Objects, Files, Loaded
  <2>2. f \in Seq(Declared)
    BY SchemesTyped DEF WInv
  <2>3. SchemesOf(n) = [i \in DOMAIN f |-> <<n, f[i]>>]
    BY <2>1 DEF SchemesOf
  <2> HIDE DEF f
  <2>4. Len(f) \in Nat /\ DOMAIN f = 1 .. Len(f) /\ \A i \in 1 .. Len(f) : f[i] \in Declared
    BY <2>2, LenProperties, RangeOf
  <2>5. SchemesOf(n) \in [1 .. Len(f) -> T]
    BY <2>3, <2>4
  <2>6. SchemesOf(n) \in Seq(T)
    BY <2>4, <2>5, SeqDef
  <2>7. ToSet(SchemesOf(n)) = {n} \X ToSet(f)
    BY <2>3, <2>4 DEF ToSet
  <2> QED BY <2>6, <2>7 DEF f
<1>3. \A i \in 1 .. Len(order) : s[i] = SchemesOf(order[i]) /\ order[i] \in Loaded
  BY <1>1
<1>4. s \in [1 .. Len(order) -> Seq(T)]
  BY <1>1, <1>2
<1>5. s \in Seq(Seq(T)) /\ Len(s) = Len(order)
  BY <1>1, <1>4, SeqDef
<1>6. Theirs = FlattenSeq(s)
  BY DEF Theirs
<1> HIDE DEF s, T
<1>7. Theirs \in Seq(T) /\ ToSet(Theirs) = UNION {ToSet(s[k]) : k \in 1 .. Len(order)}
  BY <1>5, <1>6, FlattenRange
<1>8. Len(Theirs) \in Nat /\ ToSet(Theirs) = {Theirs[k] : k \in 1 .. Len(Theirs)}
  BY <1>7, LenProperties, RangeOf
<1>9. \A k \in 1 .. Len(Theirs) : Theirs[k][2] # NoScheme
  <2>1. \A k \in 1 .. Len(Theirs) : Theirs[k] \in T
    BY <1>7, LenProperties
  <2> QED BY <2>1 DEF T, Declared
<1>10. UNION {ToSet(s[k]) : k \in 1 .. Len(order)} =
          UNION {{n} \X ToSet(Flat(FilesOf(n), Schemes)) : n \in Loaded}
  <2>1. \A k \in 1 .. Len(order) :
           ToSet(s[k]) = {order[k]} \X ToSet(Flat(FilesOf(order[k]), Schemes))
    BY <1>2, <1>3
  <2> QED BY <2>1, <1>1
<1> QED BY <1>7, <1>8, <1>9, <1>10

LEMMA ListedOnce ==
  ASSUME NEW n \in Nat, NEW s, \A i, j \in 1 .. n : s[i] = s[j] => i = j
  PROVE  Cardinality({s[i] : i \in 1 .. n}) = n
<1> DEFINE S == {s[i] : i \in 1 .. n}
           F == [i \in 1 .. n |-> s[i]]
<1>1. F \in [1 .. n -> S] /\ (\A a, b \in 1 .. n : F[a] = F[b] => a = b)
      /\ (\A t \in S : \E i \in 1 .. n : F[i] = t)
  OBVIOUS
<1> HIDE DEF S, F
<1>2. F \in Bijection(1 .. n, S)
  BY <1>1, Fun_IsBij
<1>3. ExistsBijection(1 .. n, S)
  BY <1>2 DEF ExistsBijection
<1>4. Cardinality(S) = n
  BY <1>3, FS_CountingElements
<1> QED BY <1>4 DEF S

LEMMA WholeItems ==
  ASSUME WInv, Parsing, Len(loading) = 1
  PROVE  /\ ToSet(Append(order, Top)) = Program
         /\ Len(Append(order, Top)) = Cardinality(Program)
<1> DEFINE s == Append(order, Top)
           n == Len(order)
<1>1. /\ order \in Seq(Names \cup {NoModule}) /\ Top \in Names \cup {NoModule} /\ n \in Nat
      /\ Loaded = {order[i] : i \in 1 .. n}
  <2>1. Top \in Names \cup {NoModule}
    BY TopFacts DEF Parsing, WInv, IInv, TypeOK
  <2>2. order \in Seq(Names) /\ n \in Nat /\ Loaded = {order[i] : i \in 1 .. n}
    BY Typed DEF WInv, IInv, Loaded
  <2> QED BY <2>1, <2>2
<1>2. /\ s \in Seq(Names \cup {NoModule}) /\ Len(s) = n + 1 /\ s[n + 1] = Top
      /\ \A i \in 1 .. n : s[i] = order[i]
  BY <1>1, AppendFacts
<1>3. ToSet(s) = {s[i] : i \in 1 .. n + 1}
  BY <1>2, RangeOf
<1>4. Program = {Top} \cup Loaded /\ Top \notin Loaded
  BY RootFinds DEF Program
<1>5. \A i, j \in 1 .. n : order[i] = order[j] => i = j
  BY DEF WInv, IInv, Apart
<1> HIDE DEF s, n
<1>6. {s[i] : i \in 1 .. n + 1} = Program
  BY <1>1, <1>2, <1>4
<1>7. \A i, j \in 1 .. n + 1 : s[i] = s[j] => i = j
  BY <1>1, <1>2, <1>4, <1>5
<1>8. Cardinality({s[i] : i \in 1 .. n + 1}) = n + 1
  <2>1. n + 1 \in Nat
    BY <1>1
  <2> QED BY <2>1, <1>7, ListedOnce
<1> QED BY <1>2, <1>3, <1>6, <1>8 DEF s

(* The scheme of the root, and what becomes of it and of theirs.           *)
Mine == Flat(world.root, Schemes)
Merged == MergeSchemes(Mine, Theirs)
Kept == Merged.kept \o Mine

LEMMA WholeSchemes ==
  ASSUME WInv, Parsing, Len(loading) = 1
  PROVE  /\ Mine # <<>> => Kept = Mine
         /\ Mine = <<>> => Len(Kept) = IF \E n \in Program : ToSet(Flat(FilesOf(n), Schemes)) # {}
                                       THEN 1 ELSE 0
         /\ Kept # <<>> =>
               Merged.warned = {n \in Program \ {RootName} :
                              ToSet(Flat(FilesOf(n), Schemes)) \ {Head(Kept)} # {}}
<1> DEFINE S(n) == ToSet(Flat(FilesOf(n), Schemes))
           A == Applying(Mine, Theirs)
<1>1. Mine \in Seq(Declared)
  BY SchemesTyped DEF WInv, Mine
<1>2. Mine # <<>> => Head(Mine) # NoScheme
  BY <1>1, HeadTailProperties DEF Declared
<1>3. /\ Len(Theirs) \in Nat
      /\ \A k \in 1 .. Len(Theirs) : Theirs[k][2] # NoScheme
      /\ {Theirs[k] : k \in 1 .. Len(Theirs)} = UNION {{n} \X S(n) : n \in Loaded}
  BY TheirsAre
<1>4. /\ Merged.kept = IF Mine = <<>> /\ Len(Theirs) # 0 THEN <<Theirs[1][2]>> ELSE <<>>
      /\ Mine # <<>> \/ Len(Theirs) # 0 =>
            Merged.warned = {Theirs[k][1] : k \in {k \in 1 .. Len(Theirs) : Theirs[k][2] # A}}
  BY <1>2, <1>3, MergedSchemes DEF Merged
<1>5. /\ Program = {RootName} \cup Loaded /\ RootName \notin Loaded
      /\ FilesOf(RootName) = world.root
  BY RootFinds DEF Program, FilesOf
<1>6. S(RootName) = {} <=> Mine = <<>>
  <2>5. S(RootName) = ToSet(Mine)
    BY <1>5 DEF Mine
  <2>6. ToSet(Mine) = {Mine[i] : i \in 1 .. Len(Mine)} /\ Len(Mine) \in Nat
    BY <1>1, RangeOf, LenProperties
  <2> HIDE DEF S
  <2>1. S(RootName) = {Mine[i] : i \in 1 .. Len(Mine)} /\ Len(Mine) \in Nat
    BY <2>5, <2>6
  <2>2. Mine = <<>> <=> Len(Mine) = 0
    BY <1>1, EmptySeq
  <2>3. Len(Mine) # 0 => Mine[1] \in S(RootName)
    BY <2>1
  <2>4. Len(Mine) = 0 => S(RootName) = {}
    BY <2>1
  <2> QED BY <2>2, <2>3, <2>4
<1>7. Len(Theirs) = 0 <=> \A n \in Loaded : S(n) = {}
  <2> HIDE DEF S
  <2>1. ASSUME Len(Theirs) = 0, NEW n \in Loaded PROVE S(n) = {}
    <3>1. {Theirs[k] : k \in 1 .. Len(Theirs)} = {}
      BY <2>1
    <3>2. \A c \in S(n) : <<n, c>> \in UNION {{o} \X S(o) : o \in Loaded}
      OBVIOUS
    <3> QED BY <3>1, <3>2, <1>3
  <2>2. Len(Theirs) # 0 => \E n \in Loaded : S(n) # {}
    <3>1. Len(Theirs) # 0 => Theirs[1] \in UNION {{n} \X S(n) : n \in Loaded}
      BY <1>3
    <3> QED BY <3>1
  <2> QED BY <2>1, <2>2
<1>8. {Theirs[k][1] : k \in {k \in 1 .. Len(Theirs) : Theirs[k][2] # A}} =
         {n \in Loaded : S(n) \ {A} # {}}
  <2> DEFINE W == {Theirs[k][1] : k \in {k \in 1 .. Len(Theirs) : Theirs[k][2] # A}}
  <2> HIDE DEF S, A
  <2>1. ASSUME NEW k \in 1 .. Len(Theirs), Theirs[k][2] # A
        PROVE  Theirs[k][1] \in {n \in Loaded : S(n) \ {A} # {}}
    <3>1. PICK n \in Loaded : Theirs[k] \in {n} \X S(n)
      BY <1>3
    <3>2. Theirs[k][1] = n /\ Theirs[k][2] \in S(n)
      BY <3>1
    <3> QED BY <3>2, <2>1
  <2>2. ASSUME NEW n \in Loaded, NEW c \in S(n), c # A PROVE n \in W
    <3>1. <<n, c>> \in UNION {{o} \X S(o) : o \in Loaded}
      OBVIOUS
    <3>2. PICK k \in 1 .. Len(Theirs) : Theirs[k] = <<n, c>>
      BY <3>1, <1>3
    <3>3. Theirs[k][1] = n /\ Theirs[k][2] # A
      BY <3>2, <2>2
    <3> QED BY <3>3
  <2> QED BY <2>1, <2>2
<1>9. CASE Mine # <<>>
  <2>1. Merged.kept = <<>> /\ A = Head(Mine)
    BY <1>4, <1>9 DEF Applying
  <2>2. Kept = Mine
    BY <2>1, <1>1, ConcatEmptySeq DEF Kept
  <2> HIDE DEF A, S
  <2> QED BY <1>4, <1>5, <1>8, <1>9, <2>1, <2>2 DEF S
<1>10. CASE Mine = <<>> /\ Len(Theirs) # 0
  <2>1. Merged.kept = <<A>> /\ A = Theirs[1][2]
    BY <1>4, <1>10 DEF Applying
  <2> HIDE DEF A, S
  <2>2. Kept = <<A>>
    BY <2>1, <1>10 DEF Kept
  <2>3. Len(Kept) = 1 /\ Head(Kept) = A
    BY <2>2
  <2>4. \E n \in Program : S(n) # {}
    BY <1>5, <1>7, <1>10
  <2> QED BY <1>4, <1>5, <1>8, <1>10, <2>3, <2>4 DEF S
<1>11. CASE Mine = <<>> /\ Len(Theirs) = 0
  <2>1. Kept = <<>> /\ Len(<<>>) = 0
    BY <1>4, <1>11 DEF Kept
  <2> HIDE DEF S
  <2>2. \A n \in Program : S(n) = {}
    BY <1>5, <1>6, <1>7, <1>11
  <2> QED BY <1>11, <2>1, <2>2 DEF S
<1> QED BY <1>9, <1>10, <1>11

MInv == WInv /\ MergedWhole /\ (outcome # "loaded" => program = {})

LEMMA FinishRootWhole == ASSUME WInv, FinishRoot PROVE MergedWhole'
<1>1. /\ Parsing /\ Len(loading) = 1 /\ program' = {Merge(Top)}
      /\ UNCHANGED <<world, modules, order>>
  BY DEF FinishRoot
<1>2. /\ Top = RootName /\ Program = {RootName} \cup Loaded
      /\ FilesOf(RootName) = world.root
  BY <1>1, RootFinds DEF Program, FilesOf
<1>3. \A n \in Program : Files(n) = FilesOf(n)
  BY <1>1, <1>2, TopFacts DEF Parsing, WInv, IInv, TypeOK, Loaded, Objects, Files
<1> DEFINE p == Merge(Top)
<1>4. Files(Top) = world.root
  BY <1>2, <1>3
<1>5. /\ p.items = Append(order, Top) /\ p.schemes = Kept /\ p.warned = Merged.warned
      /\ p.caps = UNION {Caps(Files(n)) : n \in {Top} \cup Loaded}
  BY <1>4 DEF Merge, Theirs, Merged, Mine, Kept
<1>6. p.caps = UNION {Caps(FilesOf(n)) : n \in Program}
  BY <1>2, <1>3, <1>5
<1>7. ToSet(p.items) = Program /\ Len(p.items) = Cardinality(Program)
  BY <1>1, <1>5, WholeItems
<1> HIDE DEF p
<1>8. /\ Mine # <<>> => p.schemes = Mine
      /\ Mine = <<>> => Len(p.schemes) = IF \E n \in Program : ToSet(Flat(FilesOf(n), Schemes)) # {}
                                         THEN 1 ELSE 0
      /\ p.schemes # <<>> =>
            p.warned = {n \in Program \ {RootName} :
                           ToSet(Flat(FilesOf(n), Schemes)) \ {Head(p.schemes)} # {}}
  BY <1>1, <1>5, WholeSchemes
<1>9. Flat(world.root, Schemes)' = Mine
  BY <1>1, DiskStays DEF Mine
<1>10. \A n : FilesOf(n)' = FilesOf(n) /\ Flat(FilesOf(n), Schemes)' = Flat(FilesOf(n), Schemes)
  BY <1>1, DiskStays
<1>11. \A n : Caps(FilesOf(n))' = Caps(FilesOf(n))
  BY <1>1, DiskStays
<1>12. Program' = Program /\ RootName' = RootName
  BY <1>1, DiskStays, GraphStays
<1>13. program' = {p}
  BY <1>1 DEF p
<1> QED BY <1>6, <1>7, <1>8, <1>9, <1>10, <1>11, <1>12, <1>13 DEF MergedWhole

LEMMA NextMInv == MInv /\ [Next]_vars => MInv'
<1> SUFFICES ASSUME MInv, [Next]_vars PROVE MInv'
  OBVIOUS
<1>1. WInv'
  BY NextWInv DEF MInv
<1>2. CASE FinishRoot
  <2>1. MergedWhole'
    BY <1>2, FinishRootWhole DEF MInv
  <2> QED BY <1>1, <1>2, <2>1 DEF FinishRoot, MInv
<1>3. CASE UNCHANGED vars
  <2>1. world' = world /\ program' = program /\ outcome' = outcome
    BY <1>3 DEF vars
  <2>2. \A n : /\ FilesOf(n)' = FilesOf(n)
               /\ Flat(FilesOf(n), Schemes)' = Flat(FilesOf(n), Schemes)
               /\ Caps(FilesOf(n))' = Caps(FilesOf(n))
    BY <2>1, DiskStays
  <2>3. /\ Flat(world.root, Schemes)' = Flat(world.root, Schemes)
        /\ Program' = Program /\ RootName' = RootName
    BY <2>1, DiskStays, GraphStays
  <2>4. MergedWhole'
    BY <2>1, <2>2, <2>3 DEF MergedWhole, MInv
  <2> QED BY <1>1, <2>1, <2>4 DEF MInv
<1>4. ASSUME outcome # "loaded", program' = program PROVE MInv'
  <2>1. program' = {}
    BY <1>4 DEF MInv
  <2>2. MergedWhole'
    BY <2>1 DEF MergedWhole
  <2> QED BY <1>1, <2>1, <2>2 DEF MInv
<1>5. CASE \E n \in Names \cup {NoModule} : Load(n)
  BY <1>5, <1>4 DEF Load
<1>6. CASE LoadFails
  BY <1>6, <1>4 DEF LoadFails, Raise
<1>7. CASE \E n \in Names : ImportCycle(n) \/ ImportLoaded(n) \/ LoadImport(n) \/ ImportMissing(n)
  BY <1>7, <1>4 DEF ImportCycle, ImportLoaded, LoadImport, ImportMissing, Importing, Raise
<1>8. CASE ParseFails \/ FinishImport
  BY <1>8, <1>4 DEF ParseFails, FinishImport, Parsing, Raise
<1> QED BY <1>2, <1>3, <1>5, <1>6, <1>7, <1>8 DEF Next

(* The merged program holds every module it needs and no other, one scheme *)
(* (its own, or the first an import declares), a warning for every module  *)
(* with another one, and all the capabilities: what _merge() returns.      *)
THEOREM MergesTheWhole == Spec => []MergedWhole
<1>1. Init => MInv
  BY InitWInv DEF Init, MInv, MergedWhole
<1>2. MInv => MergedWhole
  BY DEF MInv
<1> QED BY <1>1, <1>2, NextMInv, PTL DEF Spec

-----------------------------------------------------------------------------
(***************************************************************************)
(* Folding options and items.                                              *)
(***************************************************************************)

Step(how, r, o) ==
    CASE how = "set" -> SetOne(r, o) [] how = "scheme" -> SchemeOne(r, o) [] OTHER -> WithFile(r, o)
Runs(g, how, base, os, n) ==
    g = [k \in 0 .. n |-> IF k = 0 THEN base ELSE Step(how, g[k - 1], os[k])]

LEMMA RunExists ==
  ASSUME NEW how, NEW base, NEW os
  PROVE  \A n \in Nat : \E g : Runs(g, how, base, os, n)
<1> DEFINE S == {n \in Nat : \E g : Runs(g, how, base, os, n)}
<1>1. 0 \in S
  <2> DEFINE h == [k \in 0 .. 0 |-> base]
  <2>1. \A k \in 0 .. 0 : h[k] = IF k = 0 THEN base ELSE Step(how, h[k - 1], os[k])
    OBVIOUS
  <2>2. h = [k \in 0 .. 0 |-> h[k]]
    OBVIOUS
  <2> HIDE DEF h
  <2>3. Runs(h, how, base, os, 0)
    BY <2>1, <2>2 DEF Runs
  <2> QED BY <2>3
<1>2. ASSUME NEW n \in Nat, n \in S PROVE n + 1 \in S
  <2>1. PICK g : Runs(g, how, base, os, n)
    BY <1>2
  <2> DEFINE h == [k \in 0 .. n + 1 |-> IF k = n + 1 THEN Step(how, g[n], os[n + 1]) ELSE g[k]]
  <2>2. ASSUME NEW k \in 0 .. n + 1
        PROVE  h[k] = IF k = 0 THEN base ELSE Step(how, h[k - 1], os[k])
    <3>1. k # 0 => k - 1 \in 0 .. n /\ h[k - 1] = g[k - 1]
      OBVIOUS
    <3>2. k # n + 1 => k \in 0 .. n /\ h[k] = g[k]
      OBVIOUS
    <3>3. k \in 0 .. n => g[k] = IF k = 0 THEN base ELSE Step(how, g[k - 1], os[k])
      BY <2>1 DEF Runs
    <3>4. k = n + 1 => h[k] = Step(how, g[k - 1], os[k])
      OBVIOUS
    <3> HIDE DEF h
    <3> QED BY <3>1, <3>2, <3>3, <3>4
  <2>3. h = [k \in 0 .. n + 1 |-> h[k]]
    OBVIOUS
  <2> HIDE DEF h
  <2>4. Runs(h, how, base, os, n + 1)
    BY <2>2, <2>3 DEF Runs
  <2> QED BY <2>4
<1> HIDE DEF S
<1>3. Nat \subseteq S
  BY <1>1, <1>2, SetInduction
<1> QED BY <1>3 DEF S

Result(how, base, os) == (CHOOSE g : Runs(g, how, base, os, Len(os)))[Len(os)]

(* A run: what it begins with, what every step of it does, where it ends.  *)
LEMMA RunFacts ==
  ASSUME NEW how, NEW base, NEW os, Len(os) \in Nat
  PROVE  \E g : /\ g[0] = base /\ g[Len(os)] = Result(how, base, os)
                /\ \A k \in 1 .. Len(os) : g[k] = Step(how, g[k - 1], os[k])
<1> DEFINE f == CHOOSE g : Runs(g, how, base, os, Len(os))
<1>1. \E g : Runs(g, how, base, os, Len(os))
  BY RunExists
<1>2. Runs(f, how, base, os, Len(os))
  BY <1>1
<1>3. Result(how, base, os) = f[Len(os)]
  BY DEF Result
<1> HIDE DEF f
<1>4. \A k \in 0 .. Len(os) : f[k] = IF k = 0 THEN base ELSE Step(how, f[k - 1], os[k])
  BY <1>2 DEF Runs
<1>5. f[0] = base
  BY <1>4
<1>6. \A k \in 1 .. Len(os) : f[k] = Step(how, f[k - 1], os[k])
  BY <1>4
<1> QED BY <1>3, <1>5, <1>6

LEMMA OverridesRun ==
  ASSUME NEW is, NEW sets
  PROVE  ApplyOverrides(is, sets) = Result("set", Unchanged(is), sets)
BY DEF ApplyOverrides, Result, Runs, Step

LEMMA SchemesRun ==
  ASSUME NEW is, NEW schemes
  PROVE  ApplySchemeOverrides(is, schemes) =
           IF schemes # <<>> /\ ~\E k \in DOMAIN is : IsScheme(is[k])
           THEN Fails(Unchanged(is)) ELSE Result("scheme", Unchanged(is), schemes)
BY DEF ApplySchemeOverrides, Result, Runs, Step

LEMMA FilesRun == StageFiles = Result("file", <<>>, items)
BY DEF StageFiles, Result, Runs, Step

(***************************************************************************)
(* What an option names, and how its text is read.                         *)
(***************************************************************************)

LEMMA NameEnds ==
  ASSUME NEW a, NEW b
  PROVE  /\ Len(<<b>>) = 1 /\ SubSeq(<<b>>, 1, 1) = <<b>>
         /\ Len(<<a, b>>) = 2 /\ SubSeq(<<a, b>>, 1, 2) = <<a, b>> /\ SubSeq(<<a, b>>, 2, 2) = <<b>>
<1> DEFINE s == <<b>>
           t == <<a, b>>
           u == SubSeq(t, 2, 2)
<1>1. s \in Seq({a, b}) /\ t \in Seq({a, b}) /\ Len(s) = 1 /\ Len(t) = 2
  OBVIOUS
<1>2. s[1] = b /\ t[2] = b
  OBVIOUS
<1>3. \A n \in {1, 2} : n \in Nat
  OBVIOUS
<1> HIDE DEF s, t
<1>4. SubSeq(s, 1, 1) = s /\ SubSeq(t, 1, 2) = t
  BY <1>1, SubSeqFull
<1>5. u \in Seq({a, b}) /\ Len(u) = 1 /\ u[1] = t[2]
  <2>1. \A i \in 2 .. 2 : i = 2
    OBVIOUS
  <2>2. t[2] \in {a, b}
    BY <1>2
  <2>3. \A i \in 2 .. 2 : t[i] \in {a, b}
    BY <2>1, <2>2
  <2> HIDE DEF u
  <2>4. /\ u \in Seq({a, b})
        /\ Len(u) = IF 2 <= 2 THEN 2 - 2 + 1 ELSE 0
        /\ \A i \in 1 .. 2 - 2 + 1 : u[i] = t[2 + i - 1]
    BY <2>3, SubSeqProperties DEF u
  <2> QED BY <2>4
<1>6. u = s
  <2>1. \A i \in 1 .. Len(u) : u[i] = s[i]
    BY <1>1, <1>2, <1>5
  <2> HIDE DEF u
  <2> QED BY <1>1, <1>5, <2>1, SeqEqual
<1> QED BY <1>1, <1>4, <1>6 DEF s, t

LEMMA NamedIs ==
  ASSUME NEW c, NEW name, c[1] = "const", IsItem(c)
  PROVE  Named(c, name) <=> \E b \in 0 .. Len(c[2]) - 1 : name = SubSeq(c[2], b + 1, Len(c[2]))
<1> DEFINE q == c[2]
           l == Last(q)
<1>1. q = <<l>> \/ q = <<q[1], l>>
  BY DEF IsItem
<1>2. Named(c, name) <=> name = <<l>> \/ name = q
  BY DEF Named
<1> HIDE DEF q, l
<1>3. CASE q = <<l>>
  <2>1. Len(q) = 1 /\ SubSeq(q, 1, 1) = <<l>>
    BY <1>3, NameEnds
  <2>2. 0 .. Len(q) - 1 = {0}
    BY <2>1
  <2>3. (\E b \in 0 .. Len(q) - 1 : name = SubSeq(q, b + 1, Len(q))) <=> name = SubSeq(q, 0 + 1, Len(q))
    BY <2>2
  <2>4. SubSeq(q, 0 + 1, Len(q)) = SubSeq(q, 1, 1)
    BY <2>1
  <2> QED BY <1>2, <1>3, <2>1, <2>3, <2>4, Zenon DEF q
<1>4. CASE q = <<q[1], l>>
  <2>1. Len(q) = 2 /\ SubSeq(q, 1, 2) = q /\ SubSeq(q, 2, 2) = <<l>>
    BY <1>4, NameEnds
  <2>2. 0 .. Len(q) - 1 = {0, 1}
    BY <2>1
  <2>4. SubSeq(q, 0 + 1, Len(q)) = SubSeq(q, 1, 2) /\ SubSeq(q, 1 + 1, Len(q)) = SubSeq(q, 2, 2)
    BY <2>1
  <2>3. (\E b \in 0 .. Len(q) - 1 : name = SubSeq(q, b + 1, Len(q))) <=> name = q \/ name = <<l>>
    BY <2>1, <2>2, <2>4, Zenon
  <2> QED BY <1>2, <2>3 DEF q
<1> QED BY <1>1, <1>3, <1>4

LEMMA MatchesTarget ==
  ASSUME NEW is, NEW name, \A k \in DOMAIN is : IsItem(is[k])
  PROVE  Matches(is, name) = Target(is, name)
<1>1. \A k \in DOMAIN is : is[k][1] = "const" =>
        (Named(is[k], name) <=> \E b \in 0 .. Len(is[k][2]) - 1 :
                                   name = SubSeq(is[k][2], b + 1, Len(is[k][2])))
  BY NamedIs
<1> QED BY <1>1, Zenon DEF Matches, Target, Constants

LEMMA OneTarget ==
  ASSUME NEW is, Len(is) \in Nat, DOMAIN is = 1 .. Len(is), NEW name
  PROVE  Cardinality(Target(is, name)) = 1 <=> \E k \in DOMAIN is : Target(is, name) = {k}
<1> DEFINE T == Target(is, name)
<1>1. T \subseteq DOMAIN is
  BY DEF Target
<1>2. IsFiniteSet(DOMAIN is)
  BY FS_Interval
<1>3. IsFiniteSet(T)
  BY <1>1, <1>2, FS_Subset
<1> HIDE DEF T
<1>4. Cardinality(T) = 1 <=> \E x : T = {x}
  BY <1>3, FS_Singleton
<1>5. \A x : T = {x} => x \in DOMAIN is
  BY <1>1
<1> QED BY <1>4, <1>5 DEF T

(* A text is read exactly if it reads as the type, and as ReadsAs says.    *)
Read(c, text) == <<"lit", Kind(PrimOf(c)), text[Kind(PrimOf(c))]>>
LEMMA LiteralIs ==
  ASSUME NEW c, NEW text, IsText(text)
  PROVE  /\ ReadsAs(c, text) => Literal(c, text) = Read(c, text)
         /\ ~ReadsAs(c, text) => Literal(c, text) = None
<1> DEFINE t == DeclaredType(c)
           K == {"int", "float", "bool", "string"}
<1>1. HasPrim(c) => t = PrimOf(c)
  BY DEF HasPrim, PrimOf, DeclaredType
<1>2. ~HasPrim(c) /\ c[4][1] # "lit" => t = NoName
  BY DEF HasPrim, DeclaredType
<1>3. ~HasPrim(c) /\ c[4][1] = "lit" =>
        t = IF c[4][2] = "int" THEN "i64" ELSE IF c[4][2] = "float" THEN "f64" ELSE c[4][2]
  BY DEF HasPrim, DeclaredType
<1>4. Kind(NoName) \notin K
  BY DEF Kind, NoName, Unsigned, Signed
<1>5. Kind("int") = "int" /\ Kind("float") = "float" /\ Kind("i64") = "int" /\ Kind("f64") = "float"
  BY DEF Kind, Unsigned, Signed
<1>6. ~HasPrim(c) => PrimOf(c) = c[4][2]
  BY DEF PrimOf
<1>7. HasPrim(c) \/ c[4][1] = "lit" => Kind(t) = Kind(PrimOf(c))
  BY <1>1, <1>3, <1>5, <1>6
<1>8. ~HasPrim(c) /\ c[4][1] # "lit" => Kind(t) \notin K
  BY <1>2, <1>4
<1>9. HasPrim(c) \/ c[4][1] = "lit" => (t \in Unsigned <=> PrimOf(c) \in Unsigned)
  BY <1>1, <1>3, <1>6 DEF Unsigned
<1>10. \A u \in Unsigned : Kind(u) = "int"
  <2>1. ASSUME NEW u \in Unsigned PROVE Kind(u) = "int"
    BY <2>1 DEF Kind, Unsigned, Signed
  <2> QED BY <2>1
<1>11. Literal(c, text) = IF Kind(t) \notin K \/ Kind(t) \notin DOMAIN text THEN None
                         ELSE IF t \in Unsigned /\ text[Kind(t)] < 0 THEN None
                         ELSE <<"lit", Kind(t), text[Kind(t)]>>
  BY DEF Literal
<1>12. t \in Unsigned /\ Kind(t) \in DOMAIN text => text[Kind(t)] \in Int
  BY <1>10 DEF IsText
<1>13. ReadsAs(c, text) <=>
         /\ HasPrim(c) \/ c[4][1] = "lit"
         /\ Kind(PrimOf(c)) \in K /\ Kind(PrimOf(c)) \in DOMAIN text
         /\ PrimOf(c) \in Unsigned => text[Kind(PrimOf(c))] >= 0
  BY DEF ReadsAs
<1> HIDE DEF t, K
<1>14. CASE ~(HasPrim(c) \/ c[4][1] = "lit")
  BY <1>8, <1>11, <1>13, <1>14
<1>15. CASE HasPrim(c) \/ c[4][1] = "lit"
  BY <1>7, <1>9, <1>11, <1>12, <1>13, <1>15 DEF Read
<1> QED BY <1>14, <1>15

LEMMA AppendRange ==
  ASSUME NEW S, NEW s \in Seq(S), NEW e \in S
  PROVE  Append(s, e) \in Seq(S) /\ ToSet(Append(s, e)) = ToSet(s) \cup {e}
<1> DEFINE t == Append(s, e)
<1>1. /\ t \in Seq(S) /\ Len(t) = Len(s) + 1 /\ Len(s) \in Nat
      /\ \A i \in 1 .. Len(s) : t[i] = s[i]
      /\ t[Len(s) + 1] = e
  BY AppendFacts
<1> HIDE DEF t
<1>2. ToSet(t) = {t[i] : i \in 1 .. Len(t)} /\ ToSet(s) = {s[i] : i \in 1 .. Len(s)}
  BY <1>1, RangeOf
<1>3. 1 .. Len(t) = (1 .. Len(s)) \cup {Len(s) + 1}
  BY <1>1
<1>4. ToSet(t) = ToSet(s) \cup {e}
  BY <1>1, <1>2, <1>3
<1> QED BY <1>1, <1>4 DEF t

(***************************************************************************)
(* --set, one option after another.                                        *)
(***************************************************************************)

IsResult(r) == r = [ok |-> r.ok, items |-> r.items, params |-> r.params] /\ r.ok \in BOOLEAN
LEMMA FailsFails == ASSUME NEW r, IsResult(r) PROVE IsResult(Fails(r)) /\ ~Fails(r).ok
<1> DEFINE f == Fails(r)
<1>1. f = [r EXCEPT !.ok = FALSE]
  BY DEF Fails
<1>2. r = [ok |-> r.ok, items |-> r.items, params |-> r.params]
  BY DEF IsResult
<1>3. f = [ok |-> FALSE, items |-> r.items, params |-> r.params]
  BY <1>1, <1>2
<1> HIDE DEF f
<1>4. ~f.ok /\ f = [ok |-> f.ok, items |-> f.items, params |-> f.params] /\ f.ok \in BOOLEAN
  BY <1>3
<1> QED BY <1>4 DEF IsResult, f

AllRead(is, sets, n) ==
    \A m \in 1 .. n : sets[m] # None /\ \E k \in DOMAIN is :
                         Target(is, sets[m].name) = {k} /\ ReadsAs(is[k], sets[m].text)
AllApart(is, sets, n) ==
    \A m, p \in 1 .. n : Target(is, sets[m].name) = Target(is, sets[p].name) => m = p
SetValues(is, sets, n, vs) ==
    /\ DOMAIN vs = DOMAIN is
    /\ vs = [k \in DOMAIN is |-> vs[k]]
    /\ \A k \in DOMAIN is : (\A m \in 1 .. n : Target(is, sets[m].name) # {k}) => vs[k] = is[k]
    /\ \A m \in 1 .. n, k \in DOMAIN is :
          Target(is, sets[m].name) = {k} => vs[k] = SetTo(is[k], sets[m].text)
Name(is) == {is[k][2] : k \in DOMAIN is}
SetNames(is, sets, n, ns) ==
    /\ ns \in Seq(Name(is))
    /\ \A x : x \in ToSet(ns) <=> \E m \in 1 .. n, k \in DOMAIN is :
                                     Target(is, sets[m].name) = {k} /\ x = is[k][2]

SetUpTo(is, sets, n, r) ==
    /\ IsResult(r)
    /\ r.ok <=> AllRead(is, sets, n) /\ AllApart(is, sets, n)
    /\ r.ok => SetValues(is, sets, n, r.items) /\ SetNames(is, sets, n, r.params)

ItemList(is) == Len(is) \in Nat /\ DOMAIN is = 1 .. Len(is) /\ \A k \in DOMAIN is : IsItem(is[k])

LEMMA SetNone ==
  ASSUME NEW is, ItemList(is), is = [k \in DOMAIN is |-> is[k]], NEW sets
  PROVE  SetUpTo(is, sets, 0, Unchanged(is))
<1> DEFINE r == Unchanged(is)
<1>1. r = [ok |-> TRUE, items |-> is, params |-> <<>>]
  BY DEF Unchanged
<1>2. 1 .. 0 = {}
  OBVIOUS
<1>3. ToSet(<<>>) = {} /\ <<>> \in Seq(Name(is))
  BY EmptySeq DEF ToSet
<1>4. IsResult(r) /\ r.ok /\ r.items = is /\ r.params = <<>>
  BY <1>1 DEF IsResult
<1> HIDE DEF r
<1>5. AllRead(is, sets, 0) /\ AllApart(is, sets, 0)
  BY <1>2 DEF AllRead, AllApart
<1>6. SetValues(is, sets, 0, is)
  BY <1>2 DEF SetValues
<1>7. SetNames(is, sets, 0, <<>>)
  BY <1>2, <1>3 DEF SetNames
<1> QED BY <1>4, <1>5, <1>6, <1>7 DEF SetUpTo, r

(* One more option is refused.                                             *)
LEMMA SetRefused ==
  ASSUME NEW is, NEW sets, NEW n \in Nat, NEW r, SetUpTo(is, sets, n, r),
         ~(AllRead(is, sets, n + 1) /\ AllApart(is, sets, n + 1))
  PROVE  SetUpTo(is, sets, n + 1, Fails(r))
BY FailsFails DEF SetUpTo

LEMMA MoreRead ==
  ASSUME NEW is, NEW sets, NEW n \in Nat
  PROVE  AllRead(is, sets, n + 1) <=>
           AllRead(is, sets, n) /\ sets[n + 1] # None /\ \E k \in DOMAIN is :
              Target(is, sets[n + 1].name) = {k} /\ ReadsAs(is[k], sets[n + 1].text)
<1>1. 1 .. n + 1 = (1 .. n) \cup {n + 1}
  OBVIOUS
<1> QED BY <1>1 DEF AllRead

LEMMA MoreApart ==
  ASSUME NEW is, NEW sets, NEW n \in Nat
  PROVE  AllApart(is, sets, n + 1) <=>
           AllApart(is, sets, n) /\ \A m \in 1 .. n : Target(is, sets[m].name) # Target(is, sets[n + 1].name)
<1>1. 1 .. n + 1 = (1 .. n) \cup {n + 1} /\ \A m \in 1 .. n : m # n + 1
  OBVIOUS
<1>3. AllApart(is, sets, n + 1) =>
        AllApart(is, sets, n) /\ \A m \in 1 .. n : Target(is, sets[m].name) # Target(is, sets[n + 1].name)
  BY <1>1 DEF AllApart
<1>4. ASSUME AllApart(is, sets, n), \A m \in 1 .. n : Target(is, sets[m].name) # Target(is, sets[n + 1].name),
             NEW m \in 1 .. n + 1, NEW p \in 1 .. n + 1, Target(is, sets[m].name) = Target(is, sets[p].name)
      PROVE  m = p
  <2>1. m \in 1 .. n /\ p \in 1 .. n => m = p
    BY <1>4 DEF AllApart
  <2>2. ~(m \in 1 .. n /\ p = n + 1) /\ ~(p \in 1 .. n /\ m = n + 1)
    BY <1>4
  <2> QED BY <1>1, <2>1, <2>2
<1>5. AllApart(is, sets, n) /\ (\A m \in 1 .. n : Target(is, sets[m].name) # Target(is, sets[n + 1].name))
        => AllApart(is, sets, n + 1)
  BY <1>4 DEF AllApart
<1> QED BY <1>3, <1>5

(* What --set leaves alone of an item.                                     *)
LEMMA SetKeeps ==
  ASSUME NEW is, ItemList(is), NEW sets, NEW n \in Nat, NEW vs, SetValues(is, sets, n, vs), NEW name
  PROVE  /\ \A k \in DOMAIN is : vs[k][1] = is[k][1] /\ vs[k][2] = is[k][2]
         /\ Matches(vs, name) = Target(is, name)
<1>1. ASSUME NEW k \in DOMAIN is PROVE vs[k][1] = is[k][1] /\ vs[k][2] = is[k][2]
  <2>1. CASE \A m \in 1 .. n : Target(is, sets[m].name) # {k}
    <3>1. vs[k] = is[k]
      BY <2>1, Zenon DEF SetValues
    <3> QED BY <3>1
  <2>2. CASE \E m \in 1 .. n : Target(is, sets[m].name) = {k}
    <3>1. PICK m \in 1 .. n : Target(is, sets[m].name) = {k}
      BY <2>2
    <3>2. vs[k] = SetTo(is[k], sets[m].text)
      BY <3>1 DEF SetValues
    <3>3. is[k][1] = "const"
      BY <3>1 DEF Target
    <3>4. vs[k][1] = "const" /\ vs[k][2] = is[k][2]
      BY <3>2 DEF SetTo
    <3> QED BY <3>3, <3>4
  <2> QED BY <2>1, <2>2
<1>2. DOMAIN vs = DOMAIN is
  BY DEF SetValues
<1>3. Matches(vs, name) = Matches(is, name)
  BY <1>1, <1>2 DEF Matches, Constants, Named
<1>4. Matches(is, name) = Target(is, name)
  <2>1. \A k \in DOMAIN is : IsItem(is[k])
    BY DEF ItemList
  <2> QED BY <2>1, MatchesTarget
<1> QED BY <1>1, <1>3, <1>4

LEMMA SetItemIs ==
  ASSUME NEW c, IsItem(c), c[1] = "const", NEW text
  PROVE  ReplaceAt(c, 4, Read(c, text)) = SetTo(c, text) /\ Read(c, text) # None
<1> DEFINE v == Read(c, text)
<1>1. c = <<"const", c[2], c[3], c[4]>>
  BY DEF IsItem
<1>2. SetTo(c, text) = <<"const", c[2], c[3], v>>
  BY DEF SetTo, Read
<1>3. v # None
  BY DEF Read, None
<1> HIDE DEF v
<1>4. ReplaceAt(c, 4, v) = [c EXCEPT ![4] = v]
  BY DEF ReplaceAt
<1>5. [c EXCEPT ![4] = v] = <<"const", c[2], c[3], v>>
  BY <1>1
<1> QED BY <1>2, <1>3, <1>4, <1>5 DEF v

LEMMA SetOneValue ==
  ASSUME NEW is, NEW sets, NEW n \in Nat, NEW vs, SetValues(is, sets, n, vs), NEW k \in DOMAIN is,
         Target(is, sets[n + 1].name) = {k}, AllApart(is, sets, n + 1)
  PROVE  SetValues(is, sets, n + 1, [vs EXCEPT ![k] = SetTo(is[k], sets[n + 1].text)])
<1> DEFINE new == SetTo(is[k], sets[n + 1].text)
           us == [vs EXCEPT ![k] = new]
           At(m) == Target(is, sets[m].name)
<1>1. /\ DOMAIN vs = DOMAIN is /\ vs = [i \in DOMAIN is |-> vs[i]]
      /\ \A i \in DOMAIN is : (\A m \in 1 .. n : At(m) # {i}) => vs[i] = is[i]
      /\ \A m \in 1 .. n, i \in DOMAIN is : At(m) = {i} => vs[i] = SetTo(is[i], sets[m].text)
  BY DEF SetValues
<1>2. 1 .. n + 1 = (1 .. n) \cup {n + 1} /\ n + 1 \in 1 .. n + 1
  OBVIOUS
<1>3. At(n + 1) = {k}
  OBVIOUS
<1>4. \A m \in 1 .. n : At(m) # {k}
  <2>1. \A m \in 1 .. n : m # n + 1
    OBVIOUS
  <2> QED BY <1>2, <1>3, <2>1 DEF AllApart
<1> HIDE DEF new
<1>5. /\ us = [i \in DOMAIN is |-> us[i]] /\ DOMAIN us = DOMAIN is
      /\ us[k] = new /\ \A i \in DOMAIN is : i # k => us[i] = vs[i]
  BY <1>1
<1> HIDE DEF us, At
<1>6. ASSUME NEW i \in DOMAIN is, \A m \in 1 .. n + 1 : At(m) # {i} PROVE us[i] = is[i]
  <2>1. i # k
    BY <1>2, <1>3, <1>6
  <2> QED BY <1>1, <1>2, <1>5, <1>6, <2>1
<1>7. ASSUME NEW m \in 1 .. n + 1, NEW i \in DOMAIN is, At(m) = {i} PROVE us[i] = SetTo(is[i], sets[m].text)
  <2>1. CASE m = n + 1
    <3>1. i = k
      BY <1>3, <1>7, <2>1
    <3> QED BY <1>5, <2>1, <3>1 DEF new
  <2>2. CASE m \in 1 .. n
    <3>1. i # k
      BY <1>4, <1>7, <2>2
    <3> QED BY <1>1, <1>5, <1>7, <2>2, <3>1
  <2> QED BY <1>2, <2>1, <2>2
<1>8. SetValues(is, sets, n + 1, us)
  BY <1>5, <1>6, <1>7 DEF SetValues, At
<1> QED BY <1>8 DEF us, new

LEMMA SetOneName ==
  ASSUME NEW is, NEW sets, NEW n \in Nat, NEW ns, SetNames(is, sets, n, ns), NEW k \in DOMAIN is,
         Target(is, sets[n + 1].name) = {k}
  PROVE  SetNames(is, sets, n + 1, Append(ns, is[k][2]))
<1> DEFINE t == Append(ns, is[k][2])
           At(m) == Target(is, sets[m].name)
<1>1. ns \in Seq(Name(is)) /\ is[k][2] \in Name(is)
  BY DEF SetNames, Name
<1>2. t \in Seq(Name(is)) /\ ToSet(t) = ToSet(ns) \cup {is[k][2]}
  BY <1>1, AppendRange
<1>3. 1 .. n + 1 = (1 .. n) \cup {n + 1}
  OBVIOUS
<1>4. At(n + 1) = {k}
  OBVIOUS
<1>5. \A x : x \in ToSet(ns) <=> \E m \in 1 .. n, i \in DOMAIN is : At(m) = {i} /\ x = is[i][2]
  BY DEF SetNames
<1> HIDE DEF t, At
<1>6. ASSUME NEW x PROVE x \in ToSet(t) <=> \E m \in 1 .. n + 1, i \in DOMAIN is : At(m) = {i} /\ x = is[i][2]
  <2>1. (\E m \in 1 .. n + 1, i \in DOMAIN is : At(m) = {i} /\ x = is[i][2])
          <=> \/ \E m \in 1 .. n, i \in DOMAIN is : At(m) = {i} /\ x = is[i][2]
              \/ \E i \in DOMAIN is : At(n + 1) = {i} /\ x = is[i][2]
    BY <1>3
  <2>2. (\E i \in DOMAIN is : At(n + 1) = {i} /\ x = is[i][2]) <=> x = is[k][2]
    BY <1>4
  <2> QED BY <1>2, <1>5, <2>1, <2>2
<1>7. SetNames(is, sets, n + 1, t)
  BY <1>2, <1>6 DEF SetNames, At
<1> QED BY <1>7 DEF t

(* One more --set.                                                         *)
LEMMA SetOneMore ==
  ASSUME NEW is, ItemList(is), NEW sets, NEW n \in Nat, NEW r, SetUpTo(is, sets, n, r),
         sets[n + 1] # None => IsText(sets[n + 1].text)
  PROVE  SetUpTo(is, sets, n + 1, SetOne(r, sets[n + 1]))
<1> DEFINE o == sets[n + 1]
           T == Target(is, o.name)
           Refused == ~(AllRead(is, sets, n + 1) /\ AllApart(is, sets, n + 1))
<1> HIDE DEF T
<1>1. AllRead(is, sets, n + 1) <=>
        AllRead(is, sets, n) /\ o # None /\ \E k \in DOMAIN is : T = {k} /\ ReadsAs(is[k], o.text)
  BY MoreRead, Zenon DEF T
<1>2. AllApart(is, sets, n + 1) <=>
        AllApart(is, sets, n) /\ \A m \in 1 .. n : Target(is, sets[m].name) # T
  BY MoreApart, Zenon DEF T
<1>3. CASE ~r.ok \/ o = None
  <2>1. SetOne(r, o) = Fails(r)
    BY <1>3 DEF SetOne
  <2>2. Refused
    BY <1>1, <1>2, <1>3 DEF SetUpTo
  <2> QED BY <2>1, <2>2, SetRefused
<1>4. CASE r.ok /\ o # None
  <2> DEFINE vs == r.items
             ms == Matches(vs, o.name)
             j == CHOOSE i \in ms : TRUE
             value == Literal(vs[j], o.text)
             After == [r EXCEPT !.items = ReplaceAt(@, j, ReplaceAt(vs[j], 4, value)),
                                !.params = Append(@, vs[j][2])]
  <2>1. SetOne(r, o) = IF Cardinality(ms) # 1 THEN Fails(r)
                       ELSE IF vs[j][2] \in ToSet(r.params) \/ value = None THEN Fails(r)
                       ELSE After
    BY <1>4 DEF SetOne
  <2>2. SetValues(is, sets, n, vs) /\ SetNames(is, sets, n, r.params)
    BY <1>4 DEF SetUpTo
  <2>3. /\ ms = T
        /\ \A k \in DOMAIN is : vs[k][1] = is[k][1] /\ vs[k][2] = is[k][2]
    <3> DEFINE us == vs
    <3>1. SetValues(is, sets, n, us)
      BY <2>2
    <3> HIDE DEF us
    <3>2. \A k \in DOMAIN is : us[k][1] = is[k][1] /\ us[k][2] = is[k][2]
      BY <3>1, SetKeeps
    <3>3. Matches(us, o.name) = T
      BY <3>1, SetKeeps DEF T
    <3> QED BY <3>2, <3>3 DEF us
  <2>4. Cardinality(T) = 1 <=> \E k \in DOMAIN is : T = {k}
    BY OneTarget DEF ItemList, T
  <2>5. CASE Cardinality(T) # 1
    <3>1. SetOne(r, o) = Fails(r)
      BY <2>1, <2>3, <2>5
    <3>2. Refused
      BY <2>4, <2>5, <1>1
    <3> QED BY <3>1, <3>2, SetRefused
  <2>6. CASE Cardinality(T) = 1
    <3>1. PICK k \in DOMAIN is : T = {k}
      BY <2>4, <2>6
    <3>2. j = k
      BY <2>3, <3>1
    <3>3. is[k][1] = "const" /\ IsItem(is[k])
      BY <3>1 DEF T, Target, ItemList
    <3> HIDE DEF ms, j, After
    <3>4. CASE is[k][2] \in ToSet(r.params)
      <4>1. SetOne(r, o) = Fails(r)
        BY <2>1, <2>3, <2>6, <3>2, <3>4
      <4>2. PICK m \in 1 .. n, i \in DOMAIN is : Target(is, sets[m].name) = {i} /\ is[k][2] = is[i][2]
        BY <2>2, <3>4 DEF SetNames
      <4>3. i \in T
        BY <3>1, <4>2 DEF T, Target
      <4>4. Target(is, sets[m].name) = T
        BY <3>1, <4>2, <4>3
      <4>5. Refused
        BY <4>4, <1>2
      <4> QED BY <4>1, <4>5, SetRefused
    <3>5. CASE is[k][2] \notin ToSet(r.params)
      <4>1. \A m \in 1 .. n : Target(is, sets[m].name) # {k}
        BY <2>2, <3>5 DEF SetNames
      <4>2. vs[k] = is[k]
        BY <2>2, <4>1 DEF SetValues
      <4>3. CASE ~ReadsAs(is[k], o.text)
        <5>1. value = None
          BY <1>4, <3>2, <4>2, <4>3, LiteralIs
        <5>2. SetOne(r, o) = Fails(r)
          BY <2>1, <2>3, <2>6, <5>1
        <5>3. \A i \in DOMAIN is : T = {i} => i = k
          BY <3>1
        <5>4. Refused
          BY <4>3, <5>3, <1>1
        <5> QED BY <5>2, <5>4, SetRefused
      <4>4. CASE ReadsAs(is[k], o.text)
        <5> DEFINE new == SetTo(is[k], o.text)
                   us == [vs EXCEPT ![k] = new]
                   ns == Append(r.params, is[k][2])
        <5>1. value = Read(is[k], o.text)
          BY <1>4, <3>2, <4>2, <4>4, LiteralIs
        <5>2. value # None /\ ReplaceAt(vs[j], 4, value) = new
          BY <3>2, <3>3, <4>2, <5>1, SetItemIs
        <5>3. SetOne(r, o) = After
          BY <2>1, <2>3, <2>6, <3>2, <3>5, <5>2
        <5> HIDE DEF new, value
        <5>4. After = [r EXCEPT !.items = us, !.params = ns]
          BY <2>3, <3>2, <5>2 DEF After, ReplaceAt
        <5> HIDE DEF us, ns
        <5>5. After = [ok |-> TRUE, items |-> us, params |-> ns]
          BY <1>4, <5>4 DEF SetUpTo, IsResult
        <5>6. IsResult(After) /\ After.ok /\ After.items = us /\ After.params = ns
          BY <5>5 DEF IsResult
        <5>7. AllRead(is, sets, n + 1) /\ AllApart(is, sets, n + 1)
          <6>1. AllRead(is, sets, n + 1)
            BY <1>1, <1>4, <3>1, <4>4 DEF SetUpTo
          <6>2. AllApart(is, sets, n + 1)
            BY <1>2, <1>4, <3>1, <4>1 DEF SetUpTo
          <6> QED BY <6>1, <6>2
        <5>8. SetValues(is, sets, n + 1, us)
          BY <2>2, <3>1, <5>7, SetOneValue DEF us, new, T
        <5>9. SetNames(is, sets, n + 1, ns)
          BY <2>2, <3>1, SetOneName DEF ns, T
        <5> QED BY <5>3, <5>6, <5>7, <5>8, <5>9 DEF SetUpTo
      <4> QED BY <4>3, <4>4
    <3> QED BY <3>4, <3>5
  <2> QED BY <2>5, <2>6
<1> QED
  <2>1. r.ok \in BOOLEAN
    BY DEF SetUpTo, IsResult
  <2> QED BY <2>1, <1>3, <1>4

LEMMA SetsDone ==
  ASSUME NEW is, ItemList(is), is = [k \in DOMAIN is |-> is[k]], NEW sets, Len(sets) \in Nat,
         \A m \in 1 .. Len(sets) : sets[m] # None => IsText(sets[m].text)
  PROVE  SetUpTo(is, sets, Len(sets), ApplyOverrides(is, sets))
<1>1. PICK g : /\ g[0] = Unchanged(is) /\ g[Len(sets)] = Result("set", Unchanged(is), sets)
               /\ \A k \in 1 .. Len(sets) : g[k] = Step("set", g[k - 1], sets[k])
  BY RunFacts
<1>2. \A k \in 1 .. Len(sets) : g[k] = SetOne(g[k - 1], sets[k])
  BY <1>1 DEF Step
<1> DEFINE S == {n \in Nat : n <= Len(sets) => SetUpTo(is, sets, n, g[n])}
<1>3. 0 \in S
  BY <1>1, SetNone
<1>4. ASSUME NEW n \in Nat, n \in S PROVE n + 1 \in S
  <2> SUFFICES ASSUME n + 1 <= Len(sets) PROVE SetUpTo(is, sets, n + 1, g[n + 1])
    OBVIOUS
  <2>1. SetUpTo(is, sets, n, g[n])
    BY <1>4
  <2>2. n + 1 \in 1 .. Len(sets) /\ (n + 1) - 1 = n
    OBVIOUS
  <2>3. g[n + 1] = SetOne(g[n], sets[n + 1]) /\ (sets[n + 1] # None => IsText(sets[n + 1].text))
    BY <1>2, <2>2
  <2> QED BY <2>1, <2>3, SetOneMore
<1> HIDE DEF S
<1>5. Nat \subseteq S
  BY <1>3, <1>4, SetInduction
<1>6. SetUpTo(is, sets, Len(sets), g[Len(sets)])
  BY <1>5 DEF S
<1> QED BY <1>1, <1>6, OverridesRun

(***************************************************************************)
(* --scheme, one option after another.                                     *)
(***************************************************************************)

AllFields(schemes, n) ==
    \A m \in 1 .. n : /\ schemes[m] # None /\ schemes[m].name \in Overridable
                      /\ DOMAIN schemes[m].text \cap {"int", "word", "size"} # {}
AllDistinct(schemes, n) == \A m, p \in 1 .. n : schemes[m].name = schemes[p].name => m = p
Given(schemes, n) == {schemes[m].name : m \in 1 .. n}
GivenText(schemes, n, f) == schemes[CHOOSE m \in 1 .. n : schemes[m].name = f].text
Fields(fs, schemes, n) ==
    [f \in DOMAIN fs \cup Given(schemes, n) |->
        IF f \in Given(schemes, n) THEN GivenText(schemes, n, f) ELSE fs[f]]
WithFields(c, schemes, n) == IF IsScheme(c) THEN <<"scheme", Fields(c[2], schemes, n)>> ELSE c

SchemeUpTo(is, schemes, n, r) ==
    /\ IsResult(r)
    /\ r.ok <=> AllFields(schemes, n) /\ AllDistinct(schemes, n)
    /\ r.ok => /\ r.items = [k \in DOMAIN is |-> WithFields(is[k], schemes, n)]
               /\ r.params \in Seq({<<f>> : f \in Overridable})
               /\ ToSet(r.params) = {<<f>> : f \in Given(schemes, n)}

LEMMA NoFields ==
  ASSUME NEW c, IsItem(c), NEW schemes PROVE WithFields(c, schemes, 0) = c
<1>1. Given(schemes, 0) = {}
  BY DEF Given
<1>2. CASE IsScheme(c)
  <2>1. c = <<"scheme", [f \in DOMAIN c[2] |-> c[2][f]]>>
    BY <1>2 DEF IsItem
  <2>2. DOMAIN c[2] \cup {} = DOMAIN c[2]
    OBVIOUS
  <2>3. Fields(c[2], schemes, 0) = [f \in DOMAIN c[2] |-> c[2][f]]
    BY <1>1, <2>2 DEF Fields
  <2> QED BY <1>2, <2>1, <2>3 DEF WithFields
<1>3. CASE ~IsScheme(c)
  BY <1>3 DEF WithFields
<1> QED BY <1>2, <1>3

LEMMA SchemeNone ==
  ASSUME NEW is, is = [k \in DOMAIN is |-> is[k]], \A k \in DOMAIN is : IsItem(is[k]), NEW schemes
  PROVE  SchemeUpTo(is, schemes, 0, Unchanged(is))
<1> DEFINE r == Unchanged(is)
<1>1. r = [ok |-> TRUE, items |-> is, params |-> <<>>]
  BY DEF Unchanged
<1>2. 1 .. 0 = {}
  OBVIOUS
<1>3. ToSet(<<>>) = {} /\ <<>> \in Seq({<<f>> : f \in Overridable})
  BY EmptySeq DEF ToSet
<1>4. IsResult(r) /\ r.ok /\ r.items = is /\ r.params = <<>>
  BY <1>1 DEF IsResult
<1> HIDE DEF r
<1>5. AllFields(schemes, 0) /\ AllDistinct(schemes, 0) /\ Given(schemes, 0) = {}
  BY <1>2 DEF AllFields, AllDistinct, Given
<1>6. \A k \in DOMAIN is : WithFields(is[k], schemes, 0) = is[k]
  BY NoFields
<1>7. is = [k \in DOMAIN is |-> WithFields(is[k], schemes, 0)]
  BY <1>6
<1>8. {<<f>> : f \in Given(schemes, 0)} = {}
  BY <1>5
<1> QED BY <1>3, <1>4, <1>5, <1>7, <1>8 DEF SchemeUpTo, r

LEMMA SchemeRefused ==
  ASSUME NEW is, NEW schemes, NEW n \in Nat, NEW r, SchemeUpTo(is, schemes, n, r),
         ~(AllFields(schemes, n + 1) /\ AllDistinct(schemes, n + 1))
  PROVE  SchemeUpTo(is, schemes, n + 1, Fails(r))
BY FailsFails DEF SchemeUpTo

LEMMA MoreFields ==
  ASSUME NEW schemes, NEW n \in Nat
  PROVE  AllFields(schemes, n + 1) <=>
           /\ AllFields(schemes, n)
           /\ schemes[n + 1] # None /\ schemes[n + 1].name \in Overridable
           /\ DOMAIN schemes[n + 1].text \cap {"int", "word", "size"} # {}
<1>1. 1 .. n + 1 = (1 .. n) \cup {n + 1}
  OBVIOUS
<1> QED BY <1>1 DEF AllFields

LEMMA MoreDistinct ==
  ASSUME NEW schemes, NEW n \in Nat
  PROVE  AllDistinct(schemes, n + 1) <=>
           AllDistinct(schemes, n) /\ schemes[n + 1].name \notin Given(schemes, n)
<1>1. 1 .. n + 1 = (1 .. n) \cup {n + 1} /\ \A m \in 1 .. n : m # n + 1
  OBVIOUS
<1>2. schemes[n + 1].name \notin Given(schemes, n) <=> \A m \in 1 .. n : schemes[m].name # schemes[n + 1].name
  BY DEF Given
<1>3. AllDistinct(schemes, n + 1) =>
        AllDistinct(schemes, n) /\ \A m \in 1 .. n : schemes[m].name # schemes[n + 1].name
  BY <1>1 DEF AllDistinct
<1>4. ASSUME AllDistinct(schemes, n), \A m \in 1 .. n : schemes[m].name # schemes[n + 1].name,
             NEW m \in 1 .. n + 1, NEW p \in 1 .. n + 1, schemes[m].name = schemes[p].name
      PROVE  m = p
  <2>1. m \in 1 .. n /\ p \in 1 .. n => m = p
    BY <1>4 DEF AllDistinct
  <2>2. ~(m \in 1 .. n /\ p = n + 1) /\ ~(p \in 1 .. n /\ m = n + 1)
    BY <1>4
  <2> QED BY <1>1, <2>1, <2>2
<1>5. AllDistinct(schemes, n) /\ (\A m \in 1 .. n : schemes[m].name # schemes[n + 1].name)
        => AllDistinct(schemes, n + 1)
  BY <1>4 DEF AllDistinct
<1> QED BY <1>2, <1>3, <1>5

(* The text that is given for a field, whichever place it has.             *)
LEMMA GivenTextIs ==
  ASSUME NEW schemes, NEW n \in Nat, AllDistinct(schemes, n), NEW m \in 1 .. n
  PROVE  GivenText(schemes, n, schemes[m].name) = schemes[m].text
<1>1. \A p \in 1 .. n : schemes[p].name = schemes[m].name => p = m
  BY DEF AllDistinct
<1>2. (CHOOSE p \in 1 .. n : schemes[p].name = schemes[m].name) = m
  BY <1>1
<1> QED BY <1>2 DEF GivenText

LEMMA OneMoreField ==
  ASSUME NEW c, NEW schemes, NEW n \in Nat, AllDistinct(schemes, n + 1)
  PROVE  WithField(WithFields(c, schemes, n), schemes[n + 1].name, schemes[n + 1].text)
           = WithFields(c, schemes, n + 1)
<1> DEFINE name == schemes[n + 1].name
           value == schemes[n + 1].text
           fs == Fields(c[2], schemes, n)
           gs == Fields(c[2], schemes, n + 1)
           hs == Put(fs, name, value)
           D == DOMAIN c[2]
           G == Given(schemes, n)
           H == Given(schemes, n + 1)
<1>1. H = G \cup {name} /\ name \notin G /\ AllDistinct(schemes, n)
  <2>1. 1 .. n + 1 = (1 .. n) \cup {n + 1}
    OBVIOUS
  <2>2. H = G \cup {name}
    BY <2>1 DEF Given
  <2>3. AllDistinct(schemes, n) /\ name \notin G
    BY MoreDistinct
  <2> QED BY <2>2, <2>3
<1>2. \A f \in G : GivenText(schemes, n, f) = GivenText(schemes, n + 1, f)
  <2> SUFFICES ASSUME NEW m \in 1 .. n
               PROVE  GivenText(schemes, n, schemes[m].name) = GivenText(schemes, n + 1, schemes[m].name)
    BY DEF Given
  <2>1. m \in 1 .. n + 1 /\ n + 1 \in Nat
    OBVIOUS
  <2> QED BY <1>1, <2>1, GivenTextIs
<1>3. GivenText(schemes, n + 1, name) = value
  <2>1. n + 1 \in 1 .. n + 1 /\ n + 1 \in Nat
    OBVIOUS
  <2> QED BY <2>1, GivenTextIs
<1>4. fs = [f \in D \cup G |-> IF f \in G THEN GivenText(schemes, n, f) ELSE c[2][f]]
  BY DEF Fields
<1>5. gs = [f \in D \cup H |-> IF f \in H THEN GivenText(schemes, n + 1, f) ELSE c[2][f]]
  BY DEF Fields
<1>6. hs = [f \in DOMAIN fs \cup {name} |-> IF f = name THEN value ELSE fs[f]]
  BY DEF Put
<1> HIDE DEF name, value, fs, gs, hs, D, G, H
<1>7. /\ DOMAIN fs = D \cup G
      /\ \A f \in D \cup G : fs[f] = IF f \in G THEN GivenText(schemes, n, f) ELSE c[2][f]
  BY <1>4
<1>8. DOMAIN fs \cup {name} = D \cup H
  BY <1>1, <1>7
<1>9. \A f \in D \cup H : (IF f = name THEN value ELSE fs[f])
                            = IF f \in H THEN GivenText(schemes, n + 1, f) ELSE c[2][f]
  BY <1>1, <1>2, <1>3, <1>7
<1>10. hs = gs
  BY <1>5, <1>6, <1>8, <1>9
<1>11. CASE IsScheme(c)
  <2>1. WithFields(c, schemes, n) = <<"scheme", fs>> /\ WithFields(c, schemes, n + 1) = <<"scheme", gs>>
    BY <1>11 DEF WithFields, fs, gs
  <2>2. IsScheme(<<"scheme", fs>>) /\ <<"scheme", fs>>[2] = fs
    BY DEF IsScheme
  <2>3. WithField(<<"scheme", fs>>, name, value) = <<"scheme", hs>>
    BY <2>2 DEF WithField, hs
  <2> QED BY <1>10, <2>1, <2>3 DEF name, value
<1>12. CASE ~IsScheme(c)
  BY <1>12 DEF WithFields, WithField
<1> QED BY <1>11, <1>12

(* One more --scheme.                                                      *)
LEMMA SchemeOneMore ==
  ASSUME NEW is, NEW schemes, NEW n \in Nat, NEW r, SchemeUpTo(is, schemes, n, r)
  PROVE  SchemeUpTo(is, schemes, n + 1, SchemeOne(r, schemes[n + 1]))
<1> DEFINE o == schemes[n + 1]
           usable == DOMAIN o.text \cap {"int", "word", "size"} # {}
           Refused == ~(AllFields(schemes, n + 1) /\ AllDistinct(schemes, n + 1))
           After == [r EXCEPT !.items = [k \in DOMAIN r.items |-> WithField(r.items[k], o.name, o.text)],
                              !.params = Append(@, <<o.name>>)]
<1>1. AllFields(schemes, n + 1) <=> AllFields(schemes, n) /\ o # None /\ o.name \in Overridable /\ usable
  BY MoreFields, Zenon
<1>2. AllDistinct(schemes, n + 1) <=> AllDistinct(schemes, n) /\ o.name \notin Given(schemes, n)
  BY MoreDistinct, Zenon
<1>3. /\ r.ok => (<<o.name>> \in ToSet(r.params) <=> o.name \in Given(schemes, n))
      /\ IsResult(r) /\ (r.ok <=> AllFields(schemes, n) /\ AllDistinct(schemes, n))
      /\ r.ok \in BOOLEAN
  <2>1. \A x, y : <<x>> = <<y>> => x = y
    OBVIOUS
  <2> QED BY <2>1 DEF SchemeUpTo, IsResult
<1>4. /\ usable => SchemeValue(o.text) # None /\ SchemeValue(o.text)[1] = o.text
      /\ ~usable => SchemeValue(o.text) = None
  BY DEF SchemeValue, None
<1>5. SchemeOne(r, o) =
        IF ~r.ok \/ o = None THEN Fails(r)
        ELSE IF o.name \notin Overridable \/ <<o.name>> \in ToSet(r.params) THEN Fails(r)
        ELSE IF SchemeValue(o.text) = None THEN Fails(r)
        ELSE [r EXCEPT !.items = [k \in DOMAIN r.items |->
                                      WithField(r.items[k], o.name, SchemeValue(o.text)[1])],
                       !.params = Append(@, <<o.name>>)]
  BY DEF SchemeOne
<1> HIDE DEF usable
<1>6. CASE Refused
  <2>1. SchemeOne(r, o) = Fails(r)
    BY <1>1, <1>2, <1>3, <1>4, <1>5, <1>6
  <2> QED BY <1>6, <2>1, SchemeRefused
<1>7. CASE ~Refused
  <2> DEFINE us == [k \in DOMAIN is |-> WithFields(is[k], schemes, n + 1)]
             ns == Append(r.params, <<o.name>>)
             vs == r.items
  <2>1. r.ok /\ usable /\ o # None /\ o.name \in Overridable /\ o.name \notin Given(schemes, n)
    BY <1>1, <1>2, <1>3, <1>7
  <2>2. SchemeOne(r, o) = After
    BY <1>3, <1>4, <1>5, <2>1
  <2>3. vs = [k \in DOMAIN is |-> WithFields(is[k], schemes, n)]
    BY <2>1 DEF SchemeUpTo
  <2>4. AllDistinct(schemes, n + 1)
    BY <1>7
  <2> HIDE DEF vs
  <2>5. DOMAIN vs = DOMAIN is /\ \A k \in DOMAIN is : vs[k] = WithFields(is[k], schemes, n)
    BY <2>3
  <2>6. \A k \in DOMAIN is : WithField(vs[k], o.name, o.text) = WithFields(is[k], schemes, n + 1)
    BY <2>4, <2>5, OneMoreField
  <2>7. [k \in DOMAIN vs |-> WithField(vs[k], o.name, o.text)] = us
    BY <2>5, <2>6
  <2> HIDE DEF us
  <2>8. After = [r EXCEPT !.items = us, !.params = ns]
    BY <2>7 DEF vs
  <2> HIDE DEF ns, After
  <2>9. After = [ok |-> TRUE, items |-> us, params |-> ns]
    BY <2>1, <2>8 DEF SchemeUpTo, IsResult
  <2>10. IsResult(After) /\ After.ok /\ After.items = us /\ After.params = ns
    BY <2>9 DEF IsResult
  <2>11. ns \in Seq({<<f>> : f \in Overridable}) /\ ToSet(ns) = {<<f>> : f \in Given(schemes, n + 1)}
    <3>1. /\ r.params \in Seq({<<f>> : f \in Overridable})
          /\ ToSet(r.params) = {<<f>> : f \in Given(schemes, n)}
          /\ <<o.name>> \in {<<f>> : f \in Overridable}
      BY <2>1 DEF SchemeUpTo
    <3>2. /\ ns \in Seq({<<f>> : f \in Overridable})
          /\ ToSet(ns) = {<<f>> : f \in Given(schemes, n)} \cup {<<o.name>>}
      BY <3>1, AppendRange DEF ns
    <3>3. 1 .. n + 1 = (1 .. n) \cup {n + 1}
      OBVIOUS
    <3>4. Given(schemes, n + 1) = Given(schemes, n) \cup {o.name}
      BY <3>3 DEF Given
    <3> QED BY <3>2, <3>4
  <2> QED BY <1>7, <2>2, <2>10, <2>11 DEF SchemeUpTo, us
<1> QED BY <1>6, <1>7

LEMMA SchemesDone ==
  ASSUME NEW is, is = [k \in DOMAIN is |-> is[k]], \A k \in DOMAIN is : IsItem(is[k]),
         NEW schemes, Len(schemes) \in Nat
  PROVE  SchemeUpTo(is, schemes, Len(schemes), Result("scheme", Unchanged(is), schemes))
<1>1. PICK g : /\ g[0] = Unchanged(is) /\ g[Len(schemes)] = Result("scheme", Unchanged(is), schemes)
               /\ \A k \in 1 .. Len(schemes) : g[k] = Step("scheme", g[k - 1], schemes[k])
  BY RunFacts
<1>2. \A k \in 1 .. Len(schemes) : g[k] = SchemeOne(g[k - 1], schemes[k])
  BY <1>1 DEF Step
<1> DEFINE S == {n \in Nat : n <= Len(schemes) => SchemeUpTo(is, schemes, n, g[n])}
<1>3. 0 \in S
  BY <1>1, SchemeNone
<1>4. ASSUME NEW n \in Nat, n \in S PROVE n + 1 \in S
  <2> SUFFICES ASSUME n + 1 <= Len(schemes) PROVE SchemeUpTo(is, schemes, n + 1, g[n + 1])
    OBVIOUS
  <2>1. SchemeUpTo(is, schemes, n, g[n])
    BY <1>4
  <2>2. n + 1 \in 1 .. Len(schemes) /\ (n + 1) - 1 = n
    OBVIOUS
  <2>3. g[n + 1] = SchemeOne(g[n], schemes[n + 1])
    BY <1>2, <2>2
  <2> QED BY <2>1, <2>3, SchemeOneMore
<1> HIDE DEF S
<1>5. Nat \subseteq S
  BY <1>3, <1>4, SetInduction
<1>6. SchemeUpTo(is, schemes, Len(schemes), g[Len(schemes)])
  BY <1>5 DEF S
<1> QED BY <1>1, <1>6

(***************************************************************************)
(* The options of a job.                                                   *)
(***************************************************************************)

JobOk(j) ==
    /\ j.items \in Seq(ToSet(j.items)) /\ \A c \in ToSet(j.items) : IsItem(c)
    /\ \A os \in {j.sets, j.schemes} :
          os \in Seq(ToSet(os)) /\ \A o \in ToSet(os) \ {None} : IsText(o.text)
LEMMA JobsOk == ASSUME NEW j \in Jobs \cup Rebuilds PROVE JobOk(j)
BY JobsAssumption, Zenon DEF JobOk

LEMMA ItemsShape ==
  ASSUME NEW j, JobOk(j)
  PROVE  /\ ItemList(j.items) /\ j.items = [k \in DOMAIN j.items |-> j.items[k]]
         /\ ToSet(j.items) = {j.items[k] : k \in DOMAIN j.items}
<1> DEFINE is == j.items
<1>1. is \in Seq(ToSet(is)) /\ \A c \in ToSet(is) : IsItem(c)
  BY DEF JobOk
<1> HIDE DEF is
<1>2. Len(is) \in Nat /\ DOMAIN is = 1 .. Len(is) /\ is \in [1 .. Len(is) -> ToSet(is)]
  BY <1>1, LenProperties
<1>3. ToSet(is) = {is[k] : k \in 1 .. Len(is)}
  BY <1>1, RangeOf
<1>4. ItemList(is)
  BY <1>1, <1>2, <1>3 DEF ItemList
<1>5. is = [k \in DOMAIN is |-> is[k]]
  BY <1>2
<1>6. ToSet(is) = {is[k] : k \in DOMAIN is}
  BY <1>2, <1>3
<1> QED BY <1>4, <1>5, <1>6 DEF is

LEMMA OptionsShape ==
  ASSUME NEW j, JobOk(j), NEW os \in {j.sets, j.schemes}
  PROVE  /\ Len(os) \in Nat /\ DOMAIN os = 1 .. Len(os)
         /\ ToSet(os) = {os[m] : m \in 1 .. Len(os)}
         /\ \A m \in 1 .. Len(os) : os[m] # None => IsText(os[m].text)
<1>1. os \in Seq(ToSet(os)) /\ \A o \in ToSet(os) \ {None} : IsText(o.text)
  BY DEF JobOk
<1>2. Len(os) \in Nat /\ DOMAIN os = 1 .. Len(os)
  BY <1>1, LenProperties
<1>3. ToSet(os) = {os[k] : k \in 1 .. Len(os)}
  BY <1>1, RangeOf
<1>4. \A m \in 1 .. Len(os) : os[m] # None => IsText(os[m].text)
  BY <1>1, <1>3
<1> QED BY <1>2, <1>3, <1>4

LEMMA SetsAcceptedIs ==
  ASSUME NEW is, NEW sets, DOMAIN sets = 1 .. Len(sets)
  PROVE  SetsAccepted(is, sets) <=> AllRead(is, sets, Len(sets)) /\ AllApart(is, sets, Len(sets))
BY DEF SetsAccepted, AllRead, AllApart

HasScheme(is) == \E k \in DOMAIN is : IsScheme(is[k])
LEMMA SchemesAcceptedIs ==
  ASSUME NEW is, NEW schemes, DOMAIN schemes = 1 .. Len(schemes), ToSet(is) = {is[k] : k \in DOMAIN is}
  PROVE  SchemesAccepted(is, schemes) <=>
           /\ AllFields(schemes, Len(schemes)) /\ AllDistinct(schemes, Len(schemes))
           /\ schemes # <<>> => HasScheme(is)
<1>1. (\E i \in ToSet(is) : i[1] = "scheme") <=> HasScheme(is)
  BY DEF HasScheme, IsScheme
<1>2. DOMAIN schemes = 1 .. Len(schemes)
  OBVIOUS
<1> QED BY <1>1, <1>2 DEF SchemesAccepted, AllFields, AllDistinct

(* What --set leaves of a scheme block, and what its items are.            *)
LEMMA SetItems ==
  ASSUME NEW is, ItemList(is), NEW sets, NEW n \in Nat, NEW vs, SetValues(is, sets, n, vs)
  PROVE  /\ \A k \in DOMAIN vs : IsItem(vs[k]) /\ (IsScheme(vs[k]) <=> IsScheme(is[k]))
         /\ \A k \in DOMAIN is : IsScheme(is[k]) => vs[k] = is[k]
         /\ HasScheme(vs) <=> HasScheme(is)
<1>1. DOMAIN vs = DOMAIN is /\ \A k \in DOMAIN is : IsItem(is[k])
  BY DEF SetValues, ItemList
<1>2. ASSUME NEW k \in DOMAIN is
      PROVE  IsItem(vs[k]) /\ (IsScheme(vs[k]) <=> IsScheme(is[k])) /\ (IsScheme(is[k]) => vs[k] = is[k])
  <2>1. CASE \A m \in 1 .. n : Target(is, sets[m].name) # {k}
    <3>1. vs[k] = is[k]
      BY <2>1, Zenon DEF SetValues
    <3> QED BY <1>1, <3>1
  <2>2. CASE \E m \in 1 .. n : Target(is, sets[m].name) = {k}
    <3>1. PICK m \in 1 .. n : Target(is, sets[m].name) = {k}
      BY <2>2
    <3>2. vs[k] = SetTo(is[k], sets[m].text)
      BY <3>1 DEF SetValues
    <3>3. is[k][1] = "const" /\ IsItem(is[k])
      BY <1>1, <3>1 DEF Target
    <3> DEFINE c == is[k]
               v == <<"lit", Kind(PrimOf(c)), sets[m].text[Kind(PrimOf(c))]>>
    <3>4. vs[k] = <<"const", c[2], c[3], v>>
      BY <3>2 DEF SetTo
    <3> HIDE DEF v
    <3>5. c[2] \in {<<Last(c[2])>>, <<c[2][1], Last(c[2])>>}
      BY <3>3 DEF IsItem
    <3>6. ~IsScheme(is[k]) /\ ~IsScheme(vs[k])
      BY <3>3, <3>4 DEF IsScheme
    <3>7. /\ vs[k][1] = "const" /\ vs[k][2] = c[2] /\ vs[k][3] = c[3] /\ vs[k][4] = v
      BY <3>4
    <3>8. IsItem(vs[k])
      <4> DEFINE d == vs[k]
      <4>1. d = <<"const", d[2], d[3], d[4]>> /\ d[2] = c[2]
        BY <3>4, <3>7
      <4> HIDE DEF d, c
      <4>2. d[2] \in {<<Last(d[2])>>, <<d[2][1], Last(d[2])>>}
        BY <3>5, <4>1
      <4>3. ~IsScheme(d)
        BY <3>6 DEF d
      <4> QED BY <4>1, <4>2, <4>3 DEF IsItem, d
    <3> QED BY <3>6, <3>8
  <2> QED BY <2>1, <2>2
<1>3. HasScheme(vs) <=> HasScheme(is)
  BY <1>1, <1>2 DEF HasScheme
<1> QED BY <1>1, <1>2, <1>3

LEMMA SetItemMeant ==
  ASSUME NEW j, JobOk(j), NEW vs, SetValues(j.items, j.sets, Len(j.sets), vs),
         AllApart(j.items, j.sets, Len(j.sets)), NEW k \in DOMAIN j.items, ~IsScheme(j.items[k])
  PROVE  vs[k] = MeantItem(j, k)
<1> DEFINE is == j.items
           sets == j.sets
           N == Len(sets)
           At(o) == Target(is, o.name)
           chosen == {o \in ToSet(sets) : At(o) = {k}}
<1>1. ToSet(sets) = {sets[m] : m \in 1 .. N} /\ N \in Nat
  BY OptionsShape
<1>2. MeantItem(j, k) = IF chosen = {} THEN is[k] ELSE SetTo(is[k], (CHOOSE o \in chosen : TRUE).text)
  BY DEF MeantItem, IsScheme
<1>3. /\ (\A m \in 1 .. N : At(sets[m]) # {k}) => vs[k] = is[k]
      /\ \A m \in 1 .. N : At(sets[m]) = {k} => vs[k] = SetTo(is[k], sets[m].text)
  BY DEF SetValues
<1>4. \A m, p \in 1 .. N : At(sets[m]) = {k} /\ At(sets[p]) = {k} => m = p
  BY DEF AllApart
<1> HIDE DEF At, is, sets, N
<1>5. CASE chosen = {}
  <2>1. \A m \in 1 .. N : At(sets[m]) # {k}
    BY <1>1, <1>5
  <2> QED BY <1>2, <1>3, <1>5, <2>1
<1>6. CASE chosen # {}
  <2>1. PICK m \in 1 .. N : At(sets[m]) = {k}
    BY <1>1, <1>6
  <2>2. chosen = {sets[m]}
    BY <1>1, <1>4, <2>1
  <2> HIDE DEF chosen
  <2>3. (CHOOSE o \in chosen : TRUE) = sets[m]
    BY <2>2
  <2> QED BY <1>2, <1>3, <1>6, <2>1, <2>3
<1> QED BY <1>5, <1>6

LEMMA BlockMeant ==
  ASSUME NEW j, JobOk(j), AllDistinct(j.schemes, Len(j.schemes)),
         NEW k \in DOMAIN j.items, IsScheme(j.items[k])
  PROVE  WithFields(j.items[k], j.schemes, Len(j.schemes)) = MeantItem(j, k)
<1> DEFINE c == j.items[k]
           schemes == j.schemes
           M == Len(schemes)
           given == {o.name : o \in ToSet(schemes)}
           Text(f) == (CHOOSE o \in ToSet(schemes) : o.name = f).text
<1>1. ToSet(schemes) = {schemes[m] : m \in 1 .. M} /\ M \in Nat
  BY OptionsShape
<1>2. MeantItem(j, k) = <<"scheme", [f \in DOMAIN c[2] \cup given |->
                                       IF f \in given THEN Text(f) ELSE c[2][f]]>>
  BY DEF MeantItem, IsScheme
<1>3. AllDistinct(schemes, M)
  OBVIOUS
<1> HIDE DEF schemes, M
<1>4. given = Given(schemes, M)
  BY <1>1 DEF Given
<1>5. ASSUME NEW f \in given PROVE Text(f) = GivenText(schemes, M, f)
  <2>1. PICK m \in 1 .. M : f = schemes[m].name
    BY <1>4, <1>5 DEF Given
  <2>2. \A p \in 1 .. M : schemes[p].name = f => p = m
    BY <1>3, <2>1 DEF AllDistinct
  <2>3. schemes[m] \in ToSet(schemes) /\ \A o \in ToSet(schemes) : o.name = f => o = schemes[m]
    BY <1>1, <2>2
  <2>4. (CHOOSE o \in ToSet(schemes) : o.name = f) = schemes[m]
    BY <2>1, <2>3
  <2>5. GivenText(schemes, M, f) = schemes[m].text
    BY <1>1, <1>3, <2>1, GivenTextIs
  <2> QED BY <2>4, <2>5
<1> HIDE DEF given, Text
<1>6. [f \in DOMAIN c[2] \cup given |-> IF f \in given THEN Text(f) ELSE c[2][f]] = Fields(c[2], schemes, M)
  BY <1>4, <1>5 DEF Fields
<1>7. WithFields(c, schemes, M) = <<"scheme", Fields(c[2], schemes, M)>>
  BY DEF WithFields
<1> QED BY <1>2, <1>6, <1>7 DEF schemes, M

Meant(j) == [k \in DOMAIN j.items |-> MeantItem(j, k)]

(* The options of a job are taken if they are accepted, and then mean what *)
(* they say.                                                               *)
LEMMA OptionsMean ==
  ASSUME NEW j, JobOk(j), NEW set, set = ApplyOverrides(j.items, j.sets),
         NEW both, both = ApplySchemeOverrides(set.items, j.schemes)
  PROVE  /\ set.ok /\ both.ok <=> Accepted(j)
         /\ Accepted(j) => both.items = Meant(j)
<1> DEFINE is == j.items
           sets == j.sets
           schemes == j.schemes
           N == Len(sets)
           M == Len(schemes)
           vs == set.items
<1>1. /\ ItemList(is) /\ is = [k \in DOMAIN is |-> is[k]] /\ ToSet(is) = {is[k] : k \in DOMAIN is}
      /\ N \in Nat /\ DOMAIN sets = 1 .. N
      /\ \A m \in 1 .. N : sets[m] # None => IsText(sets[m].text)
      /\ M \in Nat /\ DOMAIN schemes = 1 .. M
  <2>1. /\ N \in Nat /\ DOMAIN sets = 1 .. N
        /\ \A m \in 1 .. N : sets[m] # None => IsText(sets[m].text)
    BY OptionsShape
  <2>2. M \in Nat /\ DOMAIN schemes = 1 .. M
    BY OptionsShape
  <2>3. ItemList(is) /\ is = [k \in DOMAIN is |-> is[k]] /\ ToSet(is) = {is[k] : k \in DOMAIN is}
    BY ItemsShape
  <2> QED BY <2>1, <2>2, <2>3
<1>2. SetUpTo(is, sets, N, set)
  BY <1>1, SetsDone
<1>3. /\ SetsAccepted(is, sets) <=> AllRead(is, sets, N) /\ AllApart(is, sets, N)
      /\ SchemesAccepted(is, schemes) <=>
           AllFields(schemes, M) /\ AllDistinct(schemes, M) /\ (schemes # <<>> => HasScheme(is))
  BY <1>1, SetsAcceptedIs, SchemesAcceptedIs
<1>4. Accepted(j) <=> SetsAccepted(is, sets) /\ SchemesAccepted(is, schemes)
  BY DEF Accepted
<1>5. set.ok <=> SetsAccepted(is, sets)
  BY <1>2, <1>3 DEF SetUpTo
<1>6. CASE ~set.ok
  BY <1>4, <1>5, <1>6
<1>7. CASE set.ok
  <2>1. SetValues(is, sets, N, vs) /\ AllApart(is, sets, N)
    BY <1>2, <1>7 DEF SetUpTo
  <2>2. /\ DOMAIN vs = DOMAIN is /\ vs = [k \in DOMAIN vs |-> vs[k]]
        /\ \A k \in DOMAIN vs : IsItem(vs[k]) /\ (IsScheme(vs[k]) <=> IsScheme(is[k]))
        /\ \A k \in DOMAIN is : IsScheme(is[k]) => vs[k] = is[k]
        /\ HasScheme(vs) <=> HasScheme(is)
    <3>1. DOMAIN vs = DOMAIN is /\ vs = [k \in DOMAIN is |-> vs[k]]
      BY <2>1 DEF SetValues
    <3> DEFINE us == vs
    <3>2. SetValues(is, sets, N, us)
      BY <2>1
    <3> HIDE DEF us, is, sets, N
    <3>3. /\ \A k \in DOMAIN us : IsItem(us[k]) /\ (IsScheme(us[k]) <=> IsScheme(is[k]))
          /\ \A k \in DOMAIN is : IsScheme(is[k]) => us[k] = is[k]
          /\ HasScheme(us) <=> HasScheme(is)
      BY <1>1, <3>2, SetItems
    <3> QED BY <3>1, <3>3 DEF us
  <2>3. both = IF schemes # <<>> /\ ~HasScheme(vs) THEN Fails(Unchanged(vs))
               ELSE Result("scheme", Unchanged(vs), schemes)
    BY SchemesRun DEF HasScheme
  <2>4. CASE schemes # <<>> /\ ~HasScheme(vs)
    <3>1. ~both.ok
      BY <2>3, <2>4 DEF Fails, Unchanged
    <3> QED BY <1>3, <1>4, <2>2, <2>4, <3>1
  <2>5. CASE schemes # <<>> => HasScheme(vs)
    <3> HIDE DEF vs
    <3>1. SchemeUpTo(vs, schemes, M, both)
      BY <1>1, <2>2, <2>3, <2>5, SchemesDone
    <3>2. both.ok <=> SchemesAccepted(is, schemes)
      BY <1>3, <2>2, <2>5, <3>1 DEF SchemeUpTo
    <3>3. ASSUME both.ok PROVE both.items = Meant(j)
      <4>1. AllDistinct(schemes, M) /\ both.items = [k \in DOMAIN vs |-> WithFields(vs[k], schemes, M)]
        BY <3>1, <3>3 DEF SchemeUpTo
      <4>2. ASSUME NEW k \in DOMAIN is PROVE WithFields(vs[k], schemes, M) = MeantItem(j, k)
        <5>1. CASE IsScheme(is[k])
          BY <2>2, <4>1, <5>1, BlockMeant
        <5>2. CASE ~IsScheme(is[k])
          <6>1. WithFields(vs[k], schemes, M) = vs[k]
            BY <2>2, <5>2 DEF WithFields
          <6> QED BY <2>1, <5>2, <6>1, SetItemMeant
        <5> QED BY <5>1, <5>2
      <4> QED BY <2>2, <4>1, <4>2 DEF Meant
    <3> QED BY <1>4, <1>5, <1>7, <3>2, <3>3
  <2> QED BY <2>4, <2>5
<1> QED
  <2>1. set.ok \in BOOLEAN
    BY <1>2 DEF SetUpTo, IsResult
  <2> QED BY <2>1, <1>6, <1>7

(***************************************************************************)
(* The files.                                                              *)
(***************************************************************************)

LEMMA StageFilesAre ==
  ASSUME Len(items) \in Nat PROVE StageFiles \in Seq({items[k][2].stage : k \in 1 .. Len(items)})
<1> DEFINE F == {items[k][2].stage : k \in 1 .. Len(items)}
<1>1. PICK g : /\ g[0] = <<>> /\ g[Len(items)] = Result("file", <<>>, items)
               /\ \A k \in 1 .. Len(items) : g[k] = Step("file", g[k - 1], items[k])
  BY RunFacts
<1>2. \A k \in 1 .. Len(items) : g[k] = WithFile(g[k - 1], items[k])
  BY <1>1 DEF Step
<1> DEFINE S == {n \in Nat : n <= Len(items) => g[n] \in Seq(F)}
<1>3. 0 \in S
  BY <1>1, EmptySeq
<1>4. ASSUME NEW n \in Nat, n \in S PROVE n + 1 \in S
  <2> SUFFICES ASSUME n + 1 <= Len(items) PROVE g[n + 1] \in Seq(F)
    OBVIOUS
  <2>1. g[n] \in Seq(F)
    BY <1>4
  <2>2. n + 1 \in 1 .. Len(items) /\ (n + 1) - 1 = n
    OBVIOUS
  <2>3. g[n + 1] = WithFile(g[n], items[n + 1])
    BY <1>2, <2>2
  <2>4. items[n + 1][2].stage \in F
    BY <2>2
  <2> HIDE DEF F
  <2> QED BY <2>1, <2>3, <2>4, AppendFacts DEF WithFile
<1> HIDE DEF S
<1>5. Nat \subseteq S
  BY <1>3, <1>4, SetInduction
<1> HIDE DEF F
<1>6. g[Len(items)] \in Seq(F)
  BY <1>5 DEF S
<1> QED BY <1>1, <1>6, FilesRun DEF F

LEMMA OwnSequence ==
  ASSUME NEW S, NEW s \in Seq(S) PROVE s \in Seq(ToSet(s))
<1>1. Len(s) \in Nat /\ DOMAIN s = 1 .. Len(s) /\ s \in [1 .. Len(s) -> S]
  BY LenProperties
<1>2. ToSet(s) = {s[k] : k \in 1 .. Len(s)}
  BY RangeOf
<1> DEFINE n == Len(s)
           R == ToSet(s)
<1> HIDE DEF n, R
<1>3. s \in [1 .. n -> R]
  BY <1>1, <1>2 DEF n, R
<1>4. n \in Nat
  BY <1>1 DEF n
<1> QED BY <1>3, <1>4 DEF R

LEMMA HeadAndTail ==
  ASSUME NEW S, NEW s \in Seq(S), s # <<>>
  PROVE  /\ Tail(s) \in Seq(ToSet(Tail(s)))
         /\ ToSet(s) = {Head(s)} \cup ToSet(Tail(s))
<1> DEFINE t == Tail(s)
           h == Head(s)
<1>1. /\ t \in Seq(S) /\ Len(t) = Len(s) - 1
      /\ \A i \in 1 .. Len(t) : t[i] = s[i + 1]
  BY HeadTailProperties
<1>2. Len(s) \in Nat /\ Len(s) # 0 /\ h = s[1]
  BY EmptySeq
<1> HIDE DEF t, h
<1>3. ToSet(s) = {s[i] : i \in 1 .. Len(s)} /\ ToSet(t) = {t[i] : i \in 1 .. Len(t)}
  BY <1>1, RangeOf
<1>4. \A i \in 1 .. Len(s) : i = 1 \/ (i - 1 \in 1 .. Len(t) /\ s[i] = t[i - 1])
  BY <1>1, <1>2
<1>5. \A i \in 1 .. Len(t) : i + 1 \in 1 .. Len(s) /\ t[i] = s[i + 1]
  BY <1>1, <1>2
<1>6. 1 \in 1 .. Len(s)
  BY <1>2
<1>7. ToSet(s) \subseteq {h} \cup ToSet(t)
  BY <1>2, <1>3, <1>4
<1>8. {h} \cup ToSet(t) \subseteq ToSet(s)
  BY <1>2, <1>3, <1>5, <1>6
<1>9. t \in Seq(ToSet(t))
  BY <1>1, OwnSequence
<1> QED BY <1>7, <1>8, <1>9 DEF t, h

(***************************************************************************)
(* The driver.                                                             *)
(***************************************************************************)

Phases == {"ready", "loaded", "set", "analyzed", "generated", "writing", "done", "failed", "killed"}
Later == {"set", "analyzed", "generated", "writing", "done"}
Unwritten == {"loaded", "set", "analyzed", "generated", "failed"}

(* Whose job it is and what has been made of its program; nothing is on    *)
(* disk of a job before it writes, and what is to be written is complete.  *)
JobInv ==
    /\ phase \in Phases
    /\ phase # "ready" => job \in Jobs \cup Rebuilds
    /\ phase = "loaded" => items = job.items
    /\ phase \in Later => Accepted(job) /\ items = Meant(job)
FileInv ==
    /\ jobs \in Nat /\ \A f \in DOMAIN outdir : outdir[f] \in 1 .. jobs
    /\ phase # "ready" => jobs # 0
    /\ phase \in Unwritten => Written = {}
    /\ phase \in {"generated", "writing"} => pending \in Seq(ToSet(pending))
    /\ phase = "generated" => ToSet(pending) = ToSet(StageFiles) \cup {"header"}
    /\ phase = "writing" => ToSet(pending) \cup Written = Outputs
    /\ phase = "done" => Written = Outputs
NbcInv == JobInv /\ FileInv

LEMMA MeantLength == ASSUME NEW j, JobOk(j) PROVE Len(Meant(j)) \in Nat
<1> DEFINE f == Meant(j)
           n == Len(j.items)
           S == {f[k] : k \in 1 .. n}
<1>1. n \in Nat /\ DOMAIN j.items = 1 .. n
  BY ItemsShape DEF ItemList
<1>2. f = [k \in 1 .. n |-> f[k]]
  BY <1>1 DEF Meant
<1> HIDE DEF f
<1>3. f \in [1 .. n -> S]
  BY <1>2
<1> HIDE DEF S
<1>4. f \in Seq(S)
  BY <1>1, <1>3
<1>5. Len(f) \in Nat
  BY <1>4, LenProperties
<1> QED BY <1>5 DEF f

LEMMA NbcStarts == ASSUME NbcInit PROVE NbcInv
<1>1. JobInv
  BY DEF NbcInit, JobInv, Phases, Later
<1>2. DOMAIN <<>> = {}
  OBVIOUS
<1>3. FileInv
  BY <1>2 DEF NbcInit, FileInv, Unwritten
<1> QED BY <1>1, <1>3 DEF NbcInv

(* A step that gives up leaves the files alone.                            *)
LEMMA FailKeeps ==
  ASSUME NbcInv, phase \in Unwritten, Fail PROVE NbcInv'
<1>1. JobInv'
  BY DEF NbcInv, JobInv, Fail, Phases, Later, Unwritten
<1>2. Written' = Written
  BY DEF Fail, Written
<1>3. FileInv'
  BY <1>2 DEF NbcInv, FileInv, Fail, Unwritten
<1> QED BY <1>1, <1>3 DEF NbcInv

LEMMA StartKeeps == ASSUME NbcInv, Start PROVE NbcInv'
<1>1. PICK j \in Jobs \cup Rebuilds : job' = j /\ items' = j.items
  BY DEF Start
<1>2. JobInv'
  BY <1>1 DEF Start, JobInv, Phases, Later
<1>3. jobs' = jobs + 1 /\ outdir' = outdir /\ phase' = "loaded" /\ jobs \in Nat
  BY DEF Start, NbcInv, FileInv
<1>4. \A f \in DOMAIN outdir : outdir[f] \in 1 .. jobs
  BY DEF NbcInv, FileInv
<1>5. \A f \in DOMAIN outdir' : outdir'[f] \in 1 .. jobs' /\ outdir'[f] # jobs'
  BY <1>3, <1>4
<1>6. Written' = {}
  BY <1>5 DEF Written
<1>7. FileInv'
  BY <1>3, <1>5, <1>6 DEF FileInv
<1> QED BY <1>2, <1>7 DEF NbcInv

LEMMA OverrideKeeps == ASSUME NbcInv, Override PROVE NbcInv'
<1> DEFINE set == ApplyOverrides(items, job.sets)
           both == ApplySchemeOverrides(set.items, job.schemes)
<1>1. phase = "loaded" /\ job \in Jobs \cup Rebuilds /\ items = job.items
  BY DEF Override, NbcInv, JobInv
<1>2. /\ set.ok /\ both.ok <=> Accepted(job)
      /\ Accepted(job) => both.items = Meant(job)
  <2>1. JobOk(job)
    BY <1>1, JobsOk
  <2>2. set = ApplyOverrides(job.items, job.sets)
    BY <1>1
  <2> HIDE DEF set
  <2>3. both = ApplySchemeOverrides(set.items, job.schemes)
    OBVIOUS
  <2> HIDE DEF both
  <2> QED BY <2>1, <2>2, <2>3, OptionsMean, Zenon
<1>3. \/ /\ set.ok /\ both.ok /\ phase' = "set" /\ items' = both.items
         /\ UNCHANGED <<jobs, job, analysis, schedule, pending, outdir>>
      \/ Fail
  BY DEF Override
<1> HIDE DEF set, both
<1>4. CASE Fail
  BY <1>1, <1>4, FailKeeps DEF Unwritten
<1>5. CASE set.ok /\ both.ok /\ phase' = "set" /\ items' = both.items
           /\ UNCHANGED <<jobs, job, analysis, schedule, pending, outdir>>
  <2>1. Accepted(job) /\ items' = Meant(job) /\ job' = job
    BY <1>2, <1>5
  <2>2. JobInv'
    BY <1>1, <1>5, <2>1 DEF JobInv, Phases, Later
  <2>3. Written' = Written
    BY <1>5 DEF Written
  <2>4. FileInv'
    BY <1>1, <1>5, <2>3 DEF NbcInv, FileInv, Unwritten
  <2> QED BY <2>2, <2>4 DEF NbcInv
<1> QED BY <1>3, <1>4, <1>5

LEMMA AnalyzeKeeps == ASSUME NbcInv, AnalyzeProgram PROVE NbcInv'
<1>1. phase = "set" /\ phase' \in {"failed", "analyzed"} /\ UNCHANGED <<jobs, job, items, pending, outdir>>
  BY DEF AnalyzeProgram
<1>2. JobInv'
  BY <1>1 DEF NbcInv, JobInv, Phases, Later
<1>3. Written' = Written
  BY <1>1 DEF Written
<1>4. FileInv'
  BY <1>1, <1>3 DEF NbcInv, FileInv, Unwritten
<1> QED BY <1>2, <1>4 DEF NbcInv

LEMMA GenerateKeeps == ASSUME NbcInv, Generate PROVE NbcInv'
<1>1. /\ phase = "analyzed" /\ phase' = "generated" /\ pending' = Append(StageFiles, "header")
      /\ UNCHANGED <<jobs, job, items, outdir>>
  BY DEF Generate
<1>2. JobInv'
  BY <1>1 DEF NbcInv, JobInv, Phases, Later
<1>3. Len(items) \in Nat
  <2>1. job \in Jobs \cup Rebuilds /\ items = Meant(job)
    BY <1>1 DEF NbcInv, JobInv, Later
  <2> QED BY <2>1, JobsOk, MeantLength
<1> DEFINE F == {items[k][2].stage : k \in 1 .. Len(items)} \cup {"header"}
           s == StageFiles
           t == Append(s, "header")
<1>4. s \in Seq(F)
  BY <1>3, StageFilesAre, SeqMonotonic
<1> HIDE DEF F, s
<1>5. t \in Seq(F) /\ ToSet(t) = ToSet(s) \cup {"header"}
  BY <1>4, AppendRange DEF F
<1> HIDE DEF t
<1>6. t \in Seq(ToSet(t))
  BY <1>5, OwnSequence
<1>7. StageFiles' = s /\ pending' = t /\ Written' = Written
  BY <1>1 DEF s, t, StageFiles, Written
<1>8. FileInv'
  BY <1>1, <1>5, <1>6, <1>7 DEF NbcInv, FileInv, Unwritten
<1> QED BY <1>2, <1>8 DEF NbcInv

LEMMA BuildKeeps == ASSUME NbcInv, BuildSchedule PROVE NbcInv'
<1>1. /\ phase = "generated" /\ phase' = "writing" /\ UNCHANGED <<jobs, job, items, outdir>>
      /\ pending' = IF schedule'.entries # <<>> THEN Append(pending, ScheduleFile) ELSE pending
  BY DEF BuildSchedule
<1>2. JobInv'
  BY <1>1 DEF NbcInv, JobInv, Phases, Later
<1>3. /\ pending \in Seq(ToSet(pending)) /\ ToSet(pending) = ToSet(StageFiles) \cup {"header"}
      /\ Written = {} /\ jobs \in Nat \ {0} /\ \A f \in DOMAIN outdir : outdir[f] \in 1 .. jobs
  BY <1>1 DEF NbcInv, FileInv, Unwritten
<1>4. StageFiles' = StageFiles /\ Written' = {}
  BY <1>1, <1>3 DEF StageFiles, Written
<1> DEFINE F == ToSet(pending) \cup {ScheduleFile}
           t == Append(pending, ScheduleFile)
<1>5. pending \in Seq(F)
  BY <1>3, SeqMonotonic
<1> HIDE DEF F
<1>6. t \in Seq(F) /\ ToSet(t) = ToSet(pending) \cup {ScheduleFile}
  BY <1>5, AppendRange DEF F
<1> HIDE DEF t
<1>7. t \in Seq(ToSet(t))
  BY <1>6, OwnSequence
<1>8. pending' \in Seq(ToSet(pending'))
  BY <1>1, <1>3, <1>7 DEF t
<1>9. ToSet(pending') = Outputs'
  <2>1. Outputs' = ToSet(StageFiles) \cup {"header"}
                     \cup (IF schedule'.entries = <<>> THEN {} ELSE {ScheduleFile})
    BY <1>4 DEF Outputs, ScheduleFile
  <2> QED BY <1>1, <1>3, <1>6, <2>1 DEF t
<1>10. FileInv'
  BY <1>1, <1>3, <1>4, <1>8, <1>9 DEF FileInv, Unwritten
<1> QED BY <1>2, <1>10 DEF NbcInv

LEMMA WriteKeeps == ASSUME NbcInv, WriteFile PROVE NbcInv'
<1> DEFINE h == Head(pending)
           t == Tail(pending)
<1>1. /\ phase = "writing" /\ pending # <<>> /\ pending' = t
      /\ outdir' = Put(outdir, h, jobs)
      /\ UNCHANGED <<jobs, job, phase, items, schedule>>
  BY DEF WriteFile
<1>2. JobInv'
  BY <1>1 DEF NbcInv, JobInv, Phases, Later
<1>3. /\ pending \in Seq(ToSet(pending)) /\ ToSet(pending) \cup Written = Outputs
      /\ jobs \in Nat /\ \A f \in DOMAIN outdir : outdir[f] \in 1 .. jobs
  BY <1>1 DEF NbcInv, FileInv
<1>4. t \in Seq(ToSet(t)) /\ ToSet(pending) = {h} \cup ToSet(t)
  BY <1>1, <1>3, HeadAndTail
<1> HIDE DEF h, t
<1>5. /\ DOMAIN outdir' = DOMAIN outdir \cup {h} /\ outdir'[h] = jobs
      /\ \A f \in DOMAIN outdir : f # h => outdir'[f] = outdir[f]
  BY <1>1 DEF Put
<1>6. Outputs' = Outputs
  <2>1. StageFiles' = StageFiles
    BY <1>1 DEF StageFiles
  <2> QED BY <1>1, <2>1 DEF Outputs, ScheduleFile
<1>7. Written' = Written \cup {h}
  BY <1>1, <1>5 DEF Written
<1>8. ToSet(pending') \cup Written' = Outputs'
  BY <1>1, <1>3, <1>4, <1>6, <1>7
<1>9. jobs # 0
  BY <1>1 DEF NbcInv, FileInv
<1>10. \A f \in DOMAIN outdir' : outdir'[f] \in 1 .. jobs'
  BY <1>1, <1>3, <1>5, <1>9
<1>11. FileInv'
  BY <1>1, <1>3, <1>4, <1>8, <1>9, <1>10 DEF FileInv, Unwritten
<1> QED BY <1>2, <1>11 DEF NbcInv

LEMMA EndKeeps == ASSUME NbcInv, Finish \/ Killed PROVE NbcInv'
<1>1. UNCHANGED <<jobs, job, items, schedule, pending, outdir>>
  BY DEF Finish, Killed
<1>2. Written' = Written /\ StageFiles' = StageFiles /\ Outputs' = Outputs
  <2>1. Written' = Written /\ StageFiles' = StageFiles
    BY <1>1 DEF Written, StageFiles
  <2> QED BY <1>1, <2>1 DEF Outputs, ScheduleFile
<1>3. CASE Finish
  <2>1. phase = "writing" /\ phase' = "done" /\ pending = <<>>
    BY <1>3 DEF Finish
  <2>2. JobInv'
    BY <1>1, <2>1 DEF NbcInv, JobInv, Phases, Later
  <2>3. ToSet(pending) = {}
    BY <2>1 DEF ToSet
  <2>4. Written' = Outputs'
    BY <1>2, <2>1, <2>3 DEF NbcInv, FileInv
  <2>5. FileInv'
    BY <1>1, <2>1, <2>4 DEF NbcInv, FileInv, Unwritten
  <2> QED BY <2>2, <2>5 DEF NbcInv
<1>4. CASE Killed
  <2>1. phase \notin Idle /\ phase' = "killed"
    BY <1>4 DEF Killed
  <2>2. phase # "ready"
    BY <2>1 DEF Idle
  <2>3. JobInv'
    BY <1>1, <2>1, <2>2 DEF NbcInv, JobInv, Phases, Later
  <2>4. FileInv'
    BY <1>1, <2>1, <2>2 DEF NbcInv, FileInv, Unwritten
  <2> QED BY <2>3, <2>4 DEF NbcInv
<1> QED BY <1>3, <1>4

LEMMA NbcKeeps == ASSUME NbcInv, [NbcNext]_nbcVars PROVE NbcInv'
<1>1. CASE NotLoaded \/ GenerateFails
  <2>1. phase \in Unwritten /\ Fail
    BY <1>1 DEF NotLoaded, GenerateFails, Unwritten
  <2> QED BY <2>1, FailKeeps
<1>2. CASE UNCHANGED nbcVars
  <2>1. UNCHANGED <<jobs, job, phase, items, schedule, pending, outdir>>
    BY <1>2 DEF nbcVars
  <2>2. Written' = Written /\ StageFiles' = StageFiles
    BY <2>1 DEF Written, StageFiles
  <2>3. Outputs' = Outputs
    BY <2>1, <2>2 DEF Outputs, ScheduleFile
  <2>4. JobInv'
    BY <2>1 DEF NbcInv, JobInv, Later
  <2>5. FileInv'
    BY <2>1, <2>2, <2>3 DEF NbcInv, FileInv
  <2> QED BY <2>4, <2>5 DEF NbcInv
<1> QED
  BY <1>1, <1>2, StartKeeps, OverrideKeeps, AnalyzeKeeps, GenerateKeeps, BuildKeeps, WriteKeeps, EndKeeps
  DEF NbcNext

(* The invariant that both properties of the driver follow from.           *)
THEOREM NbcInvAlways == NbcSpec => []NbcInv
<1>1. NbcInit => NbcInv
  BY NbcStarts
<1>2. NbcInv /\ [NbcNext]_nbcVars => NbcInv'
  BY NbcKeeps
<1> QED BY <1>1, <1>2, PTL DEF NbcSpec

(* What --set and --scheme are taken for depends on nothing but the set of *)
(* them, whatever the program and however many options there are: they are *)
(* accepted if each names one declaration, no two the same, and reads as   *)
(* its type, and then those declarations, and no others, change.           *)
THEOREM OverridesMeantAlways == NbcSpec => []OverridesMeant
<1>1. NbcInv => OverridesMeant
  <2> SUFFICES ASSUME NbcInv PROVE OverridesMeant
    OBVIOUS
  <2>1. phase \in Phases /\ phase \notin {"ready", "loaded", "failed", "killed"} => phase \in Later
    BY DEF Phases, Later
  <2>2. phase \notin {"ready", "loaded", "failed", "killed"} => Accepted(job) /\ items = Meant(job)
    BY <2>1 DEF NbcInv, JobInv
  <2>3. ASSUME phase = "loaded" PROVE OptionsApply <=> Accepted(job)
    <3> DEFINE set == ApplyOverrides(job.items, job.sets)
               both == ApplySchemeOverrides(set.items, job.schemes)
    <3>1. items = job.items /\ JobOk(job)
      BY <2>3, JobsOk DEF NbcInv, JobInv
    <3>2. OptionsApply <=> set.ok /\ both.ok
      BY <3>1, Zenon DEF OptionsApply
    <3>3. set.ok /\ both.ok <=> Accepted(job)
      BY <3>1, OptionsMean, Zenon
    <3> QED BY <3>2, <3>3
  <2> QED BY <2>2, <2>3 DEF OverridesMeant, Meant
<1> QED BY <1>1, NbcInvAlways, PTL

(* Whatever the analyzer and the schedule builder return: a compilation    *)
(* that reports an error has written nothing, and one that is done all of  *)
(* its files, the schedule exactly if an entry point has one.              *)
THEOREM OutputsWholeAlways == NbcSpec => []OutputsWhole
<1>1. NbcInv => OutputsWhole
  BY DEF NbcInv, FileInv, OutputsWhole, Unwritten
<1> QED BY <1>1, NbcInvAlways, PTL
=============================================================================
