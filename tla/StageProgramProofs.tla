-------------------------- MODULE StageProgramProofs --------------------------
(***************************************************************************)
(* For every stage that compiles, with any wire, saves, numbers of batches *)
(* and of processes: SavesRight, RecordingEnough and LoadsBack.            *)
(*                                                                         *)
(* main()'s steps are what carries the proof: a recording has its saves    *)
(* first, then the probes of the result, then stop(); a replay has         *)
(* replay() first.  So what is not left to be done has been done (SInv):   *)
(* the files of a save and its probes are right as soon as the save, or    *)
(* what restores it, is no longer left, and so is whatever a recording in  *)
(* the cache holds under the save's names.  It stays right because no      *)
(* other save, no element of the result and no file of the wire has one of *)
(* those names (SavesApart, FilesApart, ProbedNames, WireUnder).  EInv is  *)
(* the same of there being a probe at all, whatever its value.             *)
(*                                                                         *)
(* LInv is what loading back takes: under the names of a field there are   *)
(* probes exactly for the elements of the result (PInv), so the result is  *)
(* right however it came about (CInv), all of it is written or left to be  *)
(* (WInv), and no file in a directory of outputs is anybody else's (FInv). *)
(***************************************************************************)
EXTENDS StageProgram, SequenceTheorems, WellFoundedInduction, TLAPS

LEMMA FrontAppend ==
  ASSUME NEW S, NEW s \in Seq(S), NEW e \in S
  PROVE  Append(s, e) \in Seq(S) /\ Front(Append(s, e)) = s
<1> DEFINE t == Append(s, e)
<1>1. /\ t \in Seq(S) /\ Len(s) \in Nat /\ Len(t) = Len(s) + 1
      /\ \A i \in 1 .. Len(s) : t[i] = s[i] /\ s[i] \in S
  BY AppendProperties, LenProperties, ElementOfSeq
<1> HIDE DEF t
<1>2. /\ Front(t) \in Seq(S) /\ Len(Front(t)) = Len(s)
      /\ \A i \in 1 .. Len(s) : Front(t)[i] = s[i]
  <2>1. Len(t) - 1 = Len(s)
    BY <1>1
  <2>2. Front(t) = SubSeq(t, 1, Len(s))
    BY <2>1 DEF Front
  <2>3. \A i \in 1 .. Len(s) : t[i] \in S
    BY <1>1
  <2> QED BY <1>1, <2>2, <2>3, SubSeqProperties
<1>3. Front(t) = s
  BY <1>2, SeqEqual
<1> QED BY <1>1, <1>3 DEF t

Paths == Seq(Seq(Words))

LEMMA FileIs ==
  ASSUME NEW dir \in Paths, NEW name \in Seq(Words)
  PROVE  /\ File(dir, name) \in Paths /\ NameOf(File(dir, name)) = name
         /\ Len(File(dir, name)) = Len(dir) + 1
         /\ dir # <<>> => File(dir, name)[1] = dir[1]
<1> DEFINE last == Append(name, ".bin")
<1>1. last \in Seq(Words) /\ Front(last) = name
  BY FrontAppend, WordsAssumption
<1> HIDE DEF last
<1>2. /\ Append(dir, last) \in Paths /\ Last(Append(dir, last)) = last
      /\ Len(Append(dir, last)) = Len(dir) + 1
      /\ dir # <<>> => Append(dir, last)[1] = dir[1]
  BY <1>1 DEF Last, Paths
<1> QED BY <1>1, <1>2 DEF File, NameOf, last

LEMMA NthIs ==
  ASSUME NEW name \in Seq(Words), NEW i \in 0 .. MaxNumber
  PROVE  /\ Nth(name, i) \in Seq(Words) /\ Len(Nth(name, i)) = Len(name) + 1
         /\ name # <<>> => Nth(name, i)[1] = name[1]
BY WordsAssumption DEF Nth

Args == [inst : Insts, batch : Batches, param : Params, hollow : BOOLEAN]

LEMMA ArgsAre ==
  ASSUME NEW a \in Args
  PROVE  /\ a.inst \in 0 .. MaxNumber /\ a.batch \in 0 .. MaxNumber /\ a.batch \in Batches
         /\ Numeral(a.inst) \in Words /\ Numeral(a.batch) \in Words
<1>1. a.inst \in Insts /\ a.batch \in Batches
  BY DEF Args
<1>2. a.inst \in 0 .. MaxNumber /\ a.batch \in 0 .. MaxNumber
  BY <1>1, StagesAssumption
<1> QED BY <1>1, <1>2, WordsAssumption

LEMMA SaveFileIs ==
  ASSUME NEW s \in Saves, NEW a \in Args, NEW n \in Names
  PROVE  /\ NameOf(SaveFile(s, a, n)) = n
         /\ SaveFile(s, a, n)[1] = Nth(<<"dir">>, a.inst)
<1>1. Nth(<<"dir">>, a.inst) \in Seq(Words)
  <2>1. <<"dir">> \in Seq(Words)
    BY WordsAssumption
  <2> QED BY <2>1, NthIs, ArgsAre
<1>2. <<Numeral(a.batch)>> \in Seq(Words)
  BY ArgsAre
<1>3. /\ SaveDir(s, a) \in Paths /\ SaveDir(s, a) # <<>>
      /\ SaveDir(s, a)[1] = Nth(<<"dir">>, a.inst)
  <2> DEFINE dir == <<Nth(<<"dir">>, a.inst)>>
             to == IF s.dir = "batch" THEN Append(dir, <<Numeral(a.batch)>>) ELSE dir
  <2>1. dir \in Paths /\ dir # <<>> /\ dir[1] = Nth(<<"dir">>, a.inst)
    BY <1>1 DEF Paths
  <2> HIDE DEF dir
  <2>2. to \in Paths /\ to # <<>> /\ to[1] = dir[1]
    BY <2>1, <1>2 DEF Paths
  <2> HIDE DEF to
  <2>3. s.stem \in Seq(Words)
    BY DEF Saves, Names
  <2>4. Append(to, s.stem) \in Paths /\ Append(to, s.stem) # <<>> /\ Append(to, s.stem)[1] = to[1]
    <3>1. to \in Seq(Seq(Words)) /\ Len(to) \in Nat \ {0}
      BY <2>2, EmptySeq, LenProperties DEF Paths
    <3>2. /\ Append(to, s.stem) \in Seq(Seq(Words)) /\ Len(Append(to, s.stem)) = Len(to) + 1
          /\ Append(to, s.stem)[1] = to[1]
      BY <2>3, <3>1, AppendProperties
    <3> QED BY <3>1, <3>2 DEF Paths
  <2>5. SaveDir(s, a) = IF s.fields = <<>> THEN to ELSE Append(to, s.stem)
    BY DEF SaveDir, to, dir
  <2> QED BY <2>1, <2>2, <2>4, <2>5
<1> QED BY <1>3, FileIs DEF SaveFile, Names

-----------------------------------------------------------------------------
(* The saves of a stage.                                                   *)

Good(st) == st \in Stages /\ \A k \in DOMAIN st.saves : Registered(st, k)

LEMMA SetOf ==
  ASSUME NEW S, NEW s \in Seq(S)
  PROVE  /\ Len(s) \in Nat /\ DOMAIN s = 1 .. Len(s)
         /\ ToSet(s) = {s[i] : i \in 1 .. Len(s)} /\ ToSet(s) \subseteq S
         /\ \A i \in 1 .. Len(s) : s[i] \in S
BY LenProperties, ElementOfSeq DEF ToSet

LEMMA StageIs ==
  ASSUME NEW st \in Stages
  PROVE  /\ st.wire \in Seq(Fields) /\ st.saves \in Seq(Saves)
         /\ st.writes \in {"wire", "indexed", "nothing"}
         /\ st.shape \in [Batches -> Seq(Seq(0 .. MaxNumber))]
         /\ \A j, k \in DOMAIN st.wire : st.wire[j].name = st.wire[k].name => j = k
         /\ \A b \in Batches : \A k \in DOMAIN st.wire :
              /\ k \in DOMAIN st.shape[b]
              /\ st.wire[k].kind = "vec" => Len(st.shape[b][k]) = 1
              /\ st.wire[k].kind = "mat" => Len(st.shape[b][k]) \in 0 .. MaxNumber
BY StagesAssumption

LEMMA SaveIs ==
  ASSUME NEW s \in Saves
  PROVE  /\ Stems(s) \in Seq(Names) /\ Saved(s) \subseteq Names
         /\ ToSet(Stems(s)) = IF s.plain THEN {} ELSE Saved(s)
         /\ ToSet(Stems(s)) # {} => Stems(s) # <<>>
<1>1. s.stem \in Names /\ s.fields \in Seq(Names)
  BY DEF Saves
<1>2. CASE s.plain
  <2>1. Stems(s) = <<>> /\ ToSet(<<>>) = {}
    BY <1>2 DEF Stems, ToSet
  <2>2. <<>> \in Seq(Names)
    BY EmptySeq
  <2>3. Saved(s) \subseteq Names
    BY <1>1, SetOf DEF Saved
  <2> QED BY <1>2, <2>1, <2>2, <2>3
<1>3. CASE ~s.plain /\ s.fields = <<>>
  <2>1. Stems(s) = <<s.stem>> /\ Saved(s) = {s.stem}
    BY <1>3 DEF Stems, Saved
  <2>2. <<s.stem>> \in Seq(Names) /\ ToSet(<<s.stem>>) = {s.stem} /\ <<s.stem>> # <<>>
    BY <1>1 DEF ToSet
  <2> QED BY <1>1, <1>3, <2>1, <2>2
<1>4. CASE ~s.plain /\ s.fields # <<>>
  <2>1. Stems(s) = s.fields /\ Saved(s) = ToSet(s.fields)
    BY <1>4 DEF Stems, Saved
  <2> QED BY <1>1, <1>4, <2>1, SetOf
<1> QED BY <1>2, <1>3, <1>4

LEMMA SavesAre ==
  ASSUME NEW st, Good(st)
  PROVE  /\ Len(st.saves) \in Nat /\ DOMAIN st.saves = 1 .. Len(st.saves)
         /\ \A k \in DOMAIN st.saves : st.saves[k] \in Saves
<1>1. st.saves \in Seq(Saves)
  BY StageIs DEF Good
<1> QED BY <1>1, SetOf

(* No two saves have a name in common, one that is probed at least.        *)
LEMMA SavesApart ==
  ASSUME Good(stage), NamesApart, NEW j \in DOMAIN stage.saves, NEW k \in DOMAIN stage.saves,
         j # k, ~stage.saves[j].plain
  PROVE  Saved(stage.saves[j]) \cap Saved(stage.saves[k]) = {}
<1> DEFINE s(i) == stage.saves[i]
<1>1. CASE s(k).plain
  BY <1>1 DEF NamesApart
<1>2. CASE ~s(k).plain
  <2>1. ASSUME NEW a \in DOMAIN stage.saves, NEW b \in DOMAIN stage.saves, a < b, ~s(a).plain, ~s(b).plain
        PROVE  Saved(s(a)) \cap Saved(s(b)) = {}
    <3>1. /\ ToSet(Stems(s(a))) = Saved(s(a)) /\ ToSet(Stems(s(b))) = Saved(s(b))
          /\ Saved(s(b)) # {} => Stems(s(b)) # <<>>
      BY <2>1, SavesAre, SaveIs
    <3>2. a \in 1 .. b - 1
      BY <2>1, SavesAre
    <3>3. Saved(s(a)) \subseteq SavedBefore(stage, b)
      BY <3>1, <3>2 DEF SavedBefore
    <3>4. Stems(s(b)) # <<>> => Saved(s(b)) \cap SavedBefore(stage, b) = {}
      BY <3>1 DEF Good, Registered
    <3> QED BY <3>1, <3>3, <3>4
  <2>2. j < k \/ k < j
    BY SavesAre
  <2> QED BY <1>2, <2>1, <2>2
<1> QED BY <1>1, <1>2

(* Their files, too, are not the same.                                     *)
LEMMA FilesApart ==
  ASSUME Good(stage), NamesApart, args \in Args,
         NEW j \in DOMAIN stage.saves, NEW k \in DOMAIN stage.saves,
         j # k, ~stage.saves[j].plain,
         NEW m \in Saved(stage.saves[j]), NEW n \in Saved(stage.saves[k])
  PROVE  SaveFile(stage.saves[j], args, m) # SaveFile(stage.saves[k], args, n)
<1>1. m # n
  BY SavesApart
<1>2. m \in Names /\ n \in Names /\ stage.saves[j] \in Saves /\ stage.saves[k] \in Saves
  BY SavesAre, SaveIs
<1> QED BY <1>1, <1>2, SaveFileIs

-----------------------------------------------------------------------------
(* What main() has left to do.                                             *)

Left(tag, j) == \E i \in DOMAIN todo : todo[i] = <<tag, j>>
Replaying == \E i \in DOMAIN todo : todo[i][1] = "replay"
Probing == \E i \in DOMAIN todo : todo[i][1] = "probe"

StepRight(i) ==
    /\ todo[i][1] \in {"save", "restore"} =>
          todo[i][2] \in DOMAIN stage.saves /\ todo[i] = <<todo[i][1], todo[i][2]>>
    /\ todo[i][1] = "rehydrate" => todo[i][2] \in DOMAIN stage.wire
    /\ todo[i][1] = "write" => todo[i][2].path[1] = OutputDir(args)[1]
    /\ todo[i][1] = "replay" => i = 1 /\ CacheKey(args) \in DOMAIN cache
    /\ todo[i][1] = "serialize" => i = Len(todo)
    /\ \A j \in DOMAIN todo : i < j /\ todo[j][1] \in {"save", "probe"} => todo[i][1] = "save"

Ordered == (\E T : todo \in Seq(T)) /\ \A i \in DOMAIN todo : StepRight(i)

LEMMA Moves ==
  ASSUME Ordered, todo # <<>>, todo' = Tail(todo), UNCHANGED <<stage, args>>,
         DOMAIN cache \subseteq DOMAIN cache'
  PROVE  /\ Ordered' /\ ~Replaying'
         /\ Len(todo) \in Nat /\ 1 \in DOMAIN todo /\ Head(todo) = todo[1]
         /\ \A tag, j : Left(tag, j) => Left(tag, j)' \/ Head(todo) = <<tag, j>>
         /\ Probing => Probing' \/ Head(todo)[1] = "probe"
<1>1. PICK T : todo \in Seq(T)
  BY DEF Ordered
<1>2. /\ Len(todo) \in Nat /\ DOMAIN todo = 1 .. Len(todo) /\ Len(todo) # 0 /\ Head(todo) = todo[1]
      /\ todo' \in Seq(T) /\ DOMAIN todo' = 1 .. Len(todo) - 1 /\ Len(todo') = Len(todo) - 1
      /\ \A i \in 1 .. Len(todo) - 1 : todo'[i] = todo[i + 1]
  BY <1>1, HeadTailProperties, LenProperties, EmptySeq
<1>3. CacheKey(args)' = CacheKey(args) /\ OutputDir(args)' = OutputDir(args)
  BY DEF CacheKey, OutputDir
<1>4. ASSUME NEW i \in DOMAIN todo' PROVE StepRight(i)' /\ todo'[i][1] # "replay"
  <2>1. i \in 1 .. Len(todo) - 1 /\ i + 1 \in DOMAIN todo /\ todo'[i] = todo[i + 1] /\ i + 1 # 1
    BY <1>2
  <2>2. StepRight(i + 1)
    BY <2>1 DEF Ordered
  <2>3. todo[i + 1][1] # "replay"
    BY <2>1, <2>2 DEF StepRight
  <2>4. ASSUME NEW j \in DOMAIN todo', i < j, todo'[j][1] \in {"save", "probe"} PROVE todo'[i][1] = "save"
    <3>1. j + 1 \in DOMAIN todo /\ todo'[j] = todo[j + 1] /\ i + 1 < j + 1
      BY <1>2, <2>1, <2>4
    <3> QED BY <2>1, <2>2, <2>4, <3>1 DEF StepRight
  <2>5. todo[i + 1][1] = "serialize" => i = Len(todo')
    BY <1>2, <2>1, <2>2 DEF StepRight
  <2> QED BY <1>3, <2>1, <2>2, <2>3, <2>4, <2>5 DEF StepRight
<1>5. Ordered'
  BY <1>2, <1>4 DEF Ordered
<1>6. ASSUME NEW i \in DOMAIN todo PROVE i = 1 \/ (i - 1 \in DOMAIN todo' /\ todo'[i - 1] = todo[i])
  BY <1>2
<1>7. ASSUME NEW tag, NEW j, Left(tag, j) PROVE Left(tag, j)' \/ Head(todo) = <<tag, j>>
  BY <1>2, <1>6, <1>7 DEF Left
<1>8. Probing => Probing' \/ Head(todo)[1] = "probe"
  BY <1>2, <1>6 DEF Probing
<1> QED BY <1>2, <1>4, <1>5, <1>7, <1>8 DEF Replaying

-----------------------------------------------------------------------------
(* The inductive invariant.                                                *)

Active == exit \in {"running", "ok"}

Base ==
    /\ stage = NoStage => exit = "none" /\ cache = <<>>
    /\ stage # NoStage => Good(stage)
    /\ Active => stage # NoStage /\ args \in Args /\ Ordered
    /\ exit = "ok" => todo = <<>>

ProbeRight(j) ==
    LET s == stage.saves[j]
    IN  args.batch \in s.batches /\ ~s.plain =>
          \A n \in Saved(s) :
             n \in DOMAIN probes /\ \E h \in {FALSE, args.hollow} : probes[n] = Value(What(s, n), args, input, h)
FileRight(j) ==
    LET s == stage.saves[j]
    IN  args.batch \in s.batches /\ ~s.plain =>
          \A n \in Saved(s) :
             /\ SaveFile(s, args, n) \in DOMAIN files
             /\ \E h \in {FALSE, args.hollow} : files[SaveFile(s, args, n)] = Value(What(s, n), args, input, h)
CachedRight(c, j) ==
    LET s == stage.saves[j]
    IN  c.batch \in s.batches /\ ~s.plain =>
          \A n \in Saved(s) :
             n \in DOMAIN cache[c] /\ \E i, h : cache[c][n] = Value(What(s, n), c, i, h)

SInv ==
    NamesApart /\ Keyed =>
      \A j \in DOMAIN stage.saves :
        /\ \A c \in DOMAIN cache : CachedRight(c, j)
        /\ Active /\ ~Left("save", j) /\ ~Left("restore", j) => FileRight(j)
        /\ Active /\ ~Left("save", j) /\ ~Replaying => ProbeRight(j)

LEMMA Kept ==
  ASSUME stage' = stage
  PROVE  /\ NamesApart' = NamesApart /\ Keyed' = Keyed /\ Unconditional' = Unconditional
         /\ Good(stage)' = Good(stage)
BY DEF NamesApart, Keyed, Unconditional, Good

LEMMA OneStep ==
  ASSUME Base, exit = "running", todo # <<>>, todo' = Tail(todo), UNCHANGED <<stage, args, exit>>,
         DOMAIN cache \subseteq DOMAIN cache'
  PROVE  /\ Base' /\ Good(stage) /\ args \in Args /\ Ordered /\ ~Replaying' /\ Active /\ Active'
         /\ 1 \in DOMAIN todo /\ Head(todo) = todo[1] /\ StepRight(1)
         /\ Head(todo)[1] # "replay" => ~Replaying
         /\ Head(todo)[1] \in {"save", "restore"} =>
              Operand \in DOMAIN stage.saves /\ Head(todo) = <<Head(todo)[1], Operand>>
         /\ \A tag, j : Left(tag, j) => Left(tag, j)' \/ Head(todo) = <<tag, j>>
         /\ Probing => Probing' \/ Head(todo)[1] = "probe"
<1>1. Good(stage) /\ args \in Args /\ Ordered /\ stage # NoStage /\ Active
  BY DEF Base, Active
<1>2. /\ Ordered' /\ ~Replaying' /\ 1 \in DOMAIN todo /\ Head(todo) = todo[1]
      /\ \A tag, j : Left(tag, j) => Left(tag, j)' \/ Head(todo) = <<tag, j>>
      /\ Probing => Probing' \/ Head(todo)[1] = "probe"
  BY <1>1, Moves
<1>3. StepRight(1) /\ \A i \in DOMAIN todo : StepRight(i)
  BY <1>1, <1>2 DEF Ordered
<1>4. Head(todo)[1] # "replay" => ~Replaying
  BY <1>2, <1>3 DEF Replaying, StepRight
<1>5. Head(todo)[1] \in {"save", "restore"} =>
        Operand \in DOMAIN stage.saves /\ Head(todo) = <<Head(todo)[1], Operand>>
  BY <1>2, <1>3 DEF Operand, StepRight
<1>6. Base'
  BY <1>1, <1>2, Kept DEF Base, Active
<1> QED BY <1>1, <1>2, <1>3, <1>4, <1>5, <1>6 DEF Active

LEMMA SaveSInv ==
  ASSUME Base, SInv, Save, NamesApart, Keyed
  PROVE  SInv'
<1> DEFINE k == Operand
           s(i) == stage.saves[i]
           written == [p \in {SaveFile(s(k), args, n) : n \in Saved(s(k))} |-> Computed(What(s(k), NameOf(p)))]
           probed == [n \in ToSet(Stems(s(k))) |-> Computed(What(s(k), n))]
<1>1. /\ exit = "running" /\ todo # <<>> /\ Head(todo)[1] = "save" /\ todo' = Tail(todo)
      /\ UNCHANGED <<stage, args, exit, input, runs, result, cache>>
      /\ IF args.batch \in s(k).batches
          THEN files' = Over(written, files) /\ probes' = Over(probed, probes)
          ELSE UNCHANGED <<files, probes>>
  BY DEF Save, Step, Goes
<1>2. /\ Base' /\ Good(stage) /\ args \in Args /\ ~Replaying' /\ ~Replaying
      /\ \A tag, j : Left(tag, j) => Left(tag, j)' \/ Head(todo) = <<tag, j>>
      /\ k \in DOMAIN stage.saves /\ Head(todo) = <<"save", k>>
  BY <1>1, OneStep
<1> HIDE DEF k, written, probed
<1>6. ASSUME NEW j \in DOMAIN stage.saves
      PROVE  /\ ~Left("save", j)' /\ ~Left("restore", j)' => FileRight(j)'
             /\ ~Left("save", j)' => ProbeRight(j)'
  <2>1. CASE args.batch \notin s(k).batches
    <3>1. j = k => FileRight(j)' /\ ProbeRight(j)'
      BY <1>1, <2>1 DEF FileRight, ProbeRight
    <3>2. FileRight(j)' = FileRight(j) /\ ProbeRight(j)' = ProbeRight(j)
      BY <1>1, <2>1 DEF FileRight, ProbeRight
    <3>3. <<"save", k>> # <<"restore", j>> /\ (j # k => <<"save", k>> # <<"save", j>>)
      OBVIOUS
    <3> QED BY <1>1, <1>2, <3>1, <3>2, <3>3 DEF SInv, Active
  <2>2. CASE args.batch \in s(k).batches
    <3> DEFINE g == Over(written, files)
               q == Over(probed, probes)
    <3>1. files' = g /\ probes' = q
      BY <1>1, <2>2
    <3>2. /\ DOMAIN written = {SaveFile(s(k), args, n) : n \in Saved(s(k))}
          /\ \A n \in Saved(s(k)) : written[SaveFile(s(k), args, n)] = Computed(What(s(k), n))
      <4>1. \A n \in Saved(s(k)) : NameOf(SaveFile(s(k), args, n)) = n
        BY <1>2, SavesAre, SaveIs, SaveFileIs
      <4> QED BY <4>1 DEF written
    <3>3. /\ DOMAIN probed = ToSet(Stems(s(k)))
          /\ \A n \in ToSet(Stems(s(k))) : probed[n] = Computed(What(s(k), n))
      BY DEF probed
    <3>4. ToSet(Stems(s(k))) = IF s(k).plain THEN {} ELSE Saved(s(k))
      BY <1>2, SavesAre, SaveIs
    <3>5. /\ \A x \in DOMAIN written : x \in DOMAIN g /\ g[x] = written[x]
          /\ \A x \in DOMAIN files : x \in DOMAIN g /\ (x \notin DOMAIN written => g[x] = files[x])
      BY DEF Over
    <3>8. /\ \A x \in DOMAIN probed : x \in DOMAIN q /\ q[x] = probed[x]
          /\ \A x \in DOMAIN probes : x \in DOMAIN q /\ (x \notin DOMAIN probed => q[x] = probes[x])
      BY DEF Over
    <3> HIDE DEF g, q
    <3>6. CASE j = k
      <4>1. \A n \in Saved(s(k)) : Computed(What(s(k), n)) = Value(What(s(k), n), args, input, args.hollow)
        BY DEF Computed
      <4>2. FileRight(j)'
        BY <1>1, <3>1, <3>2, <3>5, <3>6, <4>1 DEF FileRight
      <4>3. ProbeRight(j)'
        BY <1>1, <3>1, <3>3, <3>4, <3>8, <3>6, <4>1 DEF ProbeRight
      <4> QED BY <4>2, <4>3
    <3>7. CASE j # k
      <4>1. \A tag : <<"save", k>> # <<"restore", j>> /\ <<"save", k>> # <<"save", j>>
        BY <3>7
      <4>2. /\ ~Left("save", j)' /\ ~Left("restore", j)' => FileRight(j)
            /\ ~Left("save", j)' => ProbeRight(j)
        BY <1>1, <1>2, <4>1 DEF SInv, Active
      <4>3. CASE s(j).plain
        BY <1>1, <4>3 DEF FileRight, ProbeRight
      <4>4. CASE ~s(j).plain
        <5>1. \A n \in Saved(s(j)) : SaveFile(s(j), args, n) \notin DOMAIN written /\ n \notin DOMAIN probed
          <6>1. Saved(s(j)) \cap Saved(s(k)) = {}
            BY <1>2, <3>7, <4>4, SavesApart
          <6>2. \A m \in Saved(s(j)), n \in Saved(s(k)) : SaveFile(s(j), args, m) # SaveFile(s(k), args, n)
            BY <1>2, <3>7, <4>4, FilesApart
          <6> QED BY <3>2, <3>3, <3>4, <6>1, <6>2
        <5> QED BY <1>1, <3>1, <3>5, <3>8, <4>2, <5>1 DEF FileRight, ProbeRight
      <4> QED BY <4>3, <4>4
    <3> QED BY <3>6, <3>7
  <2> QED BY <2>1, <2>2
<1>7. \A j \in DOMAIN stage.saves : \A c \in DOMAIN cache : CachedRight(c, j)'
  BY <1>1 DEF SInv, CachedRight
<1>8. SInv'
  BY <1>1, <1>6, <1>7, Kept DEF SInv
<1> QED BY <1>2, <1>8

-----------------------------------------------------------------------------
(* What is probed of the result.                                           *)

LEMMA FieldIs ==
  ASSUME Good(stage), NEW k \in DOMAIN stage.wire
  PROVE  /\ stage.wire[k] \in Fields /\ stage.wire[k].name \in Names /\ stage.wire[k].kind \in Kinds
         /\ Len(stage.wire) \in Nat /\ DOMAIN stage.wire = 1 .. Len(stage.wire)
<1>1. stage.wire \in Seq(Fields)
  BY StageIs DEF Good
<1>2. stage.wire[k] \in Fields /\ Len(stage.wire) \in Nat /\ DOMAIN stage.wire = 1 .. Len(stage.wire)
  BY <1>1, SetOf
<1> QED BY <1>2 DEF Fields

LEMMA BaseIs ==
  ASSUME Good(stage), NEW k \in DOMAIN stage.wire
  PROVE  LET base == ProbeBase(stage.wire[k])
         IN  base \in Names /\ base[1] = "result"
<1>1. ResultStem \in Names /\ ResultStem[1] = "result" /\ Len(ResultStem) = 1 /\ ResultStem \in Seq(Words)
  BY WordsAssumption DEF ResultStem, Names
<1>2. stage.wire[k].name \in Seq(Words)
  BY FieldIs DEF Names
<1> DEFINE long == ResultStem \o stage.wire[k].name
<1>3. long \in Seq(Words) /\ Len(long) = 1 + Len(stage.wire[k].name) /\ long[1] = "result"
  <2>1. /\ long \in Seq(Words) /\ Len(long) = 1 + Len(stage.wire[k].name)
        /\ \A i \in 1 .. 1 + Len(stage.wire[k].name) :
              long[i] = IF i <= 1 THEN ResultStem[i] ELSE stage.wire[k].name[i - 1]
    BY <1>1, <1>2, ConcatProperties
  <2> HIDE DEF long
  <2>2. Len(stage.wire[k].name) \in Nat
    BY <1>2, LenProperties
  <2> QED BY <1>1, <2>1, <2>2
<1>4. Len(stage.wire[k].name) \in Nat
  BY <1>2, LenProperties
<1>5. long \in Names
  BY <1>3, <1>4, EmptySeq DEF Names
<1> QED BY <1>1, <1>3, <1>5 DEF ProbeBase

LEMMA LengthsAre ==
  ASSUME Good(stage), args \in Args, NEW k \in DOMAIN stage.wire
  PROVE  LET n == stage.shape[args.batch][k]
         IN  /\ n \in Seq(0 .. MaxNumber) /\ Len(n) \in Nat /\ DOMAIN n = 1 .. Len(n)
             /\ \A i \in DOMAIN n : n[i] \in 0 .. MaxNumber
             /\ stage.wire[k].kind = "vec" => Len(n) = 1
             /\ stage.wire[k].kind = "mat" => Len(n) \in 0 .. MaxNumber
<1> DEFINE shape == stage.shape[args.batch]
<1>1. args.batch \in Batches
  BY ArgsAre
<1>2. /\ shape \in Seq(Seq(0 .. MaxNumber)) /\ k \in DOMAIN shape
      /\ stage.wire[k].kind = "vec" => Len(shape[k]) = 1
      /\ stage.wire[k].kind = "mat" => Len(shape[k]) \in 0 .. MaxNumber
  BY <1>1, StageIs DEF Good
<1> HIDE DEF shape
<1>3. shape[k] \in Seq(0 .. MaxNumber)
  BY <1>2, SetOf
<1>4. /\ Len(shape[k]) \in Nat /\ DOMAIN shape[k] = 1 .. Len(shape[k])
      /\ \A i \in 1 .. Len(shape[k]) : shape[k][i] \in 0 .. MaxNumber
  BY <1>3, SetOf
<1> QED BY <1>2, <1>3, <1>4 DEF shape

LEMMA ResultField ==
  ASSUME Good(stage), NEW k \in DOMAIN stage.wire, NEW v
  PROVE  ResultOf(stage, args, v)[stage.wire[k].name]
            = FieldOf(stage.wire[k], stage.shape[args.batch][k], v)
<1>1. \A j \in DOMAIN stage.wire : stage.wire[j].name = stage.wire[k].name => j = k
  BY StageIs DEF Good
<1>2. (CHOOSE j \in DOMAIN stage.wire : stage.wire[j].name = stage.wire[k].name) = k
  BY <1>1
<1> QED BY <1>2 DEF ResultOf

(* The probes of an element, a row.                                        *)
LEMMA ElementNames ==
  ASSUME NEW base \in Names, NEW i \in 0 .. MaxNumber
  PROVE  Nth(base, i) \in Names /\ Nth(base, i)[1] = base[1]
<1>1. base \in Seq(Words) /\ base # <<>> /\ Len(base) \in Nat
  BY LenProperties DEF Names
<1>2. Nth(base, i) \in Seq(Words) /\ Len(Nth(base, i)) = Len(base) + 1 /\ Nth(base, i)[1] = base[1]
  BY <1>1, NthIs
<1> QED BY <1>1, <1>2, EmptySeq DEF Names

LEMMA ProbedNames ==
  ASSUME Good(stage), args \in Args, NEW k \in DOMAIN stage.wire, NEW v,
         NEW n \in DOMAIN ProbedAt(k, ResultOf(stage, args, v))
  PROVE  n \in Names /\ n[1] = "result"
<1> DEFINE f == stage.wire[k]
           base == ProbeBase(f)
           shape == stage.shape[args.batch][k]
           w == FieldOf(f, shape, v)
<1>1. n \in DOMAIN Probed(f, w) /\ base \in Names /\ base[1] = "result" /\ f.kind \in Kinds
  BY ResultField, FieldIs, BaseIs DEF ProbedAt
<1>2. CASE f.kind = "enc"
  <2>1. Probed(f, w) = One(base, w)
    BY <1>2 DEF Probed
  <2>2. n = base
    BY <1>1, <2>1 DEF One
  <2> QED BY <1>1, <2>2
<1>3. CASE f.kind = "vec"
  <2>1. /\ Probed(f, w) = Named({<<base, i - 1, w[i]>> : i \in DOMAIN w})
        /\ w = [i \in 1 .. shape[1] |-> Of(v, Nth(f.name, i - 1))]
    BY <1>3 DEF Probed, FieldOf
  <2>6. shape[1] \in 0 .. MaxNumber
    BY <1>3, LengthsAre
  <2> HIDE DEF w, base, shape, f
  <2>2. shape[1] \in 0 .. MaxNumber /\ DOMAIN w = 1 .. shape[1]
    BY <2>1, <2>6
  <2>3. PICK e \in {<<base, i - 1, w[i]>> : i \in DOMAIN w} : n = Nth(e[1], e[2])
    BY <1>1, <2>1 DEF Named
  <2>4. PICK i \in DOMAIN w : n = Nth(base, i - 1)
    BY <2>3
  <2>5. i - 1 \in 0 .. MaxNumber
    BY <2>2, WordsAssumption
  <2> QED BY <1>1, <2>4, <2>5, ElementNames
<1>4. CASE f.kind = "mat"
  <2>1. /\ Probed(f, w) =
              Named(UNION {{<<Nth(base, b - 1), i - 1, w[b][i]>> : i \in DOMAIN w[b]} : b \in DOMAIN w})
        /\ w = [b \in DOMAIN shape |-> [i \in 1 .. shape[b] |-> Of(v, Nth(Nth(f.name, b - 1), i - 1))]]
    BY <1>4 DEF Probed, FieldOf
  <2>6. /\ Len(shape) \in 0 .. MaxNumber /\ DOMAIN shape = 1 .. Len(shape)
        /\ \A c \in DOMAIN shape : shape[c] \in 0 .. MaxNumber
    BY <1>4, LengthsAre
  <2> HIDE DEF w, base, shape, f
  <2>2. DOMAIN w = DOMAIN shape /\ \A b \in DOMAIN w : DOMAIN w[b] = 1 .. shape[b]
    BY <2>1
  <2>3. PICK b \in DOMAIN w : \E i \in DOMAIN w[b] : n = Nth(Nth(base, b - 1), i - 1)
    <3> DEFINE E == UNION {{<<Nth(base, b - 1), i - 1, w[b][i]>> : i \in DOMAIN w[b]} : b \in DOMAIN w}
    <3>1. PICK e \in E : n = Nth(e[1], e[2])
      <4>1. n \in DOMAIN Named(E)
        BY <1>1, <2>1
      <4> HIDE DEF E
      <4>2. DOMAIN Named(E) = {Nth(x[1], x[2]) : x \in E}
        BY DEF Named
      <4> QED BY <4>1, <4>2
    <3>2. PICK b \in DOMAIN w : e \in {<<Nth(base, b - 1), i - 1, w[b][i]>> : i \in DOMAIN w[b]}
      OBVIOUS
    <3> QED BY <3>1, <3>2
  <2>5. PICK i \in DOMAIN w[b] : n = Nth(Nth(base, b - 1), i - 1)
    BY <2>3
  <2>4. b - 1 \in 0 .. MaxNumber /\ i - 1 \in 0 .. MaxNumber
    <3>1. b \in 1 .. Len(shape) /\ shape[b] \in 0 .. MaxNumber /\ i \in 1 .. shape[b]
      BY <2>2, <2>6
    <3> QED BY <2>6, <3>1, WordsAssumption
  <2> QED BY <1>1, <2>5, <2>4, ElementNames
<1>5. CASE f.kind = "plain"
  BY <1>1, <1>5 DEF Probed
<1> QED BY <1>1, <1>2, <1>3, <1>4, <1>5 DEF Kinds

-----------------------------------------------------------------------------
(* What the other steps do to the saves.                                   *)

LEMMA ProbeSInv ==
  ASSUME Base, SInv, Probe, NamesApart, Keyed
  PROVE  SInv'
<1>1. /\ exit = "running" /\ todo # <<>> /\ Head(todo)[1] = "probe" /\ todo' = Tail(todo)
      /\ UNCHANGED <<stage, args, exit, input, runs, cache, files>>
      /\ probes' = Over(AllProbed(ResultOf(stage, args, Computed(<<>>))), probes)
  BY DEF Probe, Step, Goes
<1> DEFINE new == AllProbed(ResultOf(stage, args, Computed(<<>>)))
<1>2. /\ Good(stage) /\ args \in Args /\ ~Replaying' /\ ~Replaying /\ Active /\ Active'
      /\ \A tag, j : Left(tag, j) => Left(tag, j)' \/ Head(todo) = <<tag, j>>
  BY <1>1, OneStep
<1>3. \A n \in DOMAIN new : n[1] = "result" /\ n \in Names
  BY <1>2, ProbedNames DEF AllProbed
<1> HIDE DEF new
<1>4. /\ DOMAIN probes' = DOMAIN new \cup DOMAIN probes
      /\ \A n \in DOMAIN probes : n \notin DOMAIN new => probes'[n] = probes[n]
  BY <1>1 DEF Over, new
<1>5. ASSUME NEW j \in DOMAIN stage.saves
      PROVE  /\ ~Left("save", j)' /\ ~Left("restore", j)' => FileRight(j)'
             /\ ~Left("save", j)' => ProbeRight(j)'
             /\ \A c \in DOMAIN cache : CachedRight(c, j)'
  <2> DEFINE s == stage.saves[j]
  <2>1. \A tag : tag \in {"save", "restore"} => Head(todo) # <<tag, j>>
    BY <1>1
  <2>2. /\ ~Left("save", j)' /\ ~Left("restore", j)' => FileRight(j)
        /\ ~Left("save", j)' => ProbeRight(j)
        /\ \A c \in DOMAIN cache : CachedRight(c, j)
    BY <1>2, <2>1 DEF SInv
  <2>3. FileRight(j)' = FileRight(j) /\ \A c \in DOMAIN cache : CachedRight(c, j)' = CachedRight(c, j)
    BY <1>1 DEF FileRight, CachedRight
  <2>4. ~s.plain => \A n \in Saved(s) : n \notin DOMAIN new
    <3>1. s \in Saves
      BY <1>2, SavesAre
    <3>2. ~s.plain => \A n \in Saved(s) : n \in Names /\ Head(n) # "result"
      BY <3>1, SaveIs DEF NamesApart
    <3>3. \A n \in Names : Head(n) = n[1]
      BY DEF Names
    <3> QED BY <1>3, <3>2, <3>3
  <2>5. ProbeRight(j) => ProbeRight(j)'
    BY <1>1, <1>4, <2>4 DEF ProbeRight
  <2> QED BY <2>2, <2>3, <2>5
<1> QED BY <1>1, <1>5, Kept DEF SInv

LEMMA StopSInv ==
  ASSUME Base, SInv, Stop, NamesApart, Keyed
  PROVE  SInv'
<1> DEFINE key == CacheKey(args)
<1>1. /\ exit = "running" /\ todo # <<>> /\ Head(todo)[1] = "stop" /\ todo' = Tail(todo)
      /\ UNCHANGED <<stage, args, exit, input, runs, result, probes, files>>
      /\ cache' = Over(One(key, probes), cache)
  BY DEF Stop, Step, Goes
<1>2. /\ DOMAIN cache' = DOMAIN cache \cup {key} /\ cache'[key] = probes
      /\ \A c \in DOMAIN cache : c # key => cache'[c] = cache[c]
  BY <1>1 DEF Over, One
<1>3. /\ Good(stage) /\ args \in Args /\ ~Replaying' /\ ~Replaying /\ Active /\ Active' /\ StepRight(1)
      /\ 1 \in DOMAIN todo /\ Head(todo) = todo[1] /\ Ordered
      /\ \A tag, j : Left(tag, j) => Left(tag, j)' \/ Head(todo) = <<tag, j>>
  BY <1>1, <1>2, OneStep
<1>4. /\ key.inst = args.inst /\ key.batch = args.batch /\ key.param = args.param
      /\ key' = key
  BY <1>1 DEF Keyed, CacheKey
<1> HIDE DEF key
<1>5. ASSUME NEW j \in DOMAIN stage.saves
      PROVE  /\ ~Left("save", j)' /\ ~Left("restore", j)' => FileRight(j)'
             /\ ~Left("save", j)' => ProbeRight(j)'
             /\ \A c \in DOMAIN cache' : CachedRight(c, j)'
  <2>1. \A tag : tag \in {"save", "restore"} => Head(todo) # <<tag, j>>
    BY <1>1
  <2>2. /\ ~Left("save", j)' /\ ~Left("restore", j)' => FileRight(j)
        /\ ~Left("save", j) => ProbeRight(j)
        /\ \A c \in DOMAIN cache : CachedRight(c, j)
        /\ ~Left("save", j)' => ~Left("save", j)
    BY <1>3, <2>1 DEF SInv
  <2>3. ~Left("save", j)
    <3>1. PICK T : todo \in Seq(T)
      BY <1>3 DEF Ordered
    <3>2. \A i \in DOMAIN todo : i = 1 \/ 1 < i
      BY <3>1, LenProperties
    <3> QED BY <1>1, <1>3, <3>2 DEF Left, StepRight
  <2>4. ASSUME NEW c \in DOMAIN cache' PROVE CachedRight(c, j)'
    <3>1. CASE c # key
      BY <1>1, <1>2, <2>2, <3>1 DEF CachedRight
    <3>2. CASE c = key
      <4>1. SUFFICES ASSUME args.batch \in stage.saves[j].batches, ~stage.saves[j].plain,
                            NEW n \in Saved(stage.saves[j])
                     PROVE  /\ n \in DOMAIN probes
                            /\ \E i, h : probes[n] = Value(What(stage.saves[j], n), c, i, h)
        BY <1>1, <1>2, <1>4, <3>2 DEF CachedRight
      <4>2. PICK h : n \in DOMAIN probes /\ probes[n] = Value(What(stage.saves[j], n), args, input, h)
        BY <2>2, <2>3, <4>1 DEF ProbeRight
      <4>3. Value(What(stage.saves[j], n), args, input, h) = Value(What(stage.saves[j], n), c, input, h)
        BY <1>4, <3>2 DEF Value
      <4> QED BY <4>2, <4>3
    <3> QED BY <3>1, <3>2
  <2>6. FileRight(j)' = FileRight(j) /\ ProbeRight(j)' = ProbeRight(j)
    BY <1>1 DEF FileRight, ProbeRight
  <2> QED BY <1>2, <2>2, <2>3, <2>4, <2>6
<1> QED BY <1>1, <1>5, Kept DEF SInv

LEMMA ReplaySInv ==
  ASSUME Base, SInv, Replay, NamesApart, Keyed
  PROVE  SInv'
<1> DEFINE key == CacheKey(args)
<1>1. CASE Fails
  <2>1. UNCHANGED <<stage, cache>> /\ ~Active'
    BY <1>1 DEF Fails, Active
  <2> QED BY <2>1, Kept DEF SInv, CachedRight
<1>2. CASE ~Fails
  <2>1. /\ exit = "running" /\ todo # <<>> /\ Head(todo)[1] = "replay" /\ todo' = Tail(todo)
        /\ UNCHANGED <<stage, args, exit, input, runs, result, cache, files>>
    BY <1>2 DEF Replay, Step, Goes
  <2>6. probes' = [n \in DOMAIN cache[key] |-> Value(cache[key][n].what, cache[key][n], input, FALSE)]
    BY <1>2 DEF Replay
  <2>2. /\ Good(stage) /\ args \in Args /\ ~Replaying' /\ Active /\ Active' /\ StepRight(1)
        /\ 1 \in DOMAIN todo /\ Head(todo) = todo[1]
        /\ \A tag, j : Left(tag, j) => Left(tag, j)' \/ Head(todo) = <<tag, j>>
    BY <2>1, OneStep
  <2>3. key.inst = args.inst /\ key.batch = args.batch /\ key.param = args.param
    BY DEF Keyed, CacheKey
  <2>4. key \in DOMAIN cache
    BY <2>1, <2>2 DEF StepRight
  <2> HIDE DEF key
  <2>5. ASSUME NEW j \in DOMAIN stage.saves
        PROVE  /\ ~Left("save", j)' /\ ~Left("restore", j)' => FileRight(j)'
               /\ ProbeRight(j)'
               /\ \A c \in DOMAIN cache : CachedRight(c, j)'
    <3>1. \A tag : tag \in {"save", "restore"} => Head(todo) # <<tag, j>>
      BY <2>1
    <3>2. /\ ~Left("save", j)' /\ ~Left("restore", j)' => FileRight(j)
          /\ \A c \in DOMAIN cache : CachedRight(c, j)
      BY <2>2, <3>1 DEF SInv
    <3>3. FileRight(j)' = FileRight(j) /\ \A c \in DOMAIN cache : CachedRight(c, j)' = CachedRight(c, j)
      BY <2>1 DEF FileRight, CachedRight
    <3>4. ProbeRight(j)'
      <4>1. CachedRight(key, j)
        BY <2>4, <3>2
      <4>2. ASSUME NEW what, NEW i, NEW h
            PROVE  Value(Value(what, key, i, h).what, Value(what, key, i, h), input, FALSE)
                      = Value(what, args, input, FALSE)
        BY <2>3 DEF Value
      <4>3. SUFFICES ASSUME args.batch \in stage.saves[j].batches, ~stage.saves[j].plain,
                            NEW n \in Saved(stage.saves[j])
                     PROVE  n \in DOMAIN probes' /\ probes'[n] = Value(What(stage.saves[j], n), args, input, FALSE)
        BY <2>1 DEF ProbeRight
      <4>4. PICK i, h : n \in DOMAIN cache[key] /\ cache[key][n] = Value(What(stage.saves[j], n), key, i, h)
        BY <2>3, <4>1, <4>3 DEF CachedRight
      <4>5. /\ DOMAIN probes' = DOMAIN cache[key]
            /\ probes'[n] = Value(cache[key][n].what, cache[key][n], input, FALSE)
        BY <2>6, <4>4
      <4> QED BY <4>2, <4>4, <4>5
    <3> QED BY <3>2, <3>3, <3>4
  <2> QED BY <2>1, <2>5, Kept DEF SInv
<1> QED BY <1>1, <1>2

LEMMA IdleSInv ==
  ASSUME SInv, UNCHANGED <<stage, cache>>, ~Active'
  PROVE  SInv'
<1>1. \A j \in DOMAIN stage.saves : \A c \in DOMAIN cache : CachedRight(c, j)' = CachedRight(c, j)
  BY DEF CachedRight
<1> QED BY <1>1, Kept DEF SInv

LEMMA RehydrateSInv ==
  ASSUME Base, SInv, Rehydrate, NamesApart, Keyed
  PROVE  SInv'
<1>1. CASE Fails
  BY <1>1, IdleSInv DEF Fails, Active
<1>2. CASE ~Fails
  <2>1. /\ exit = "running" /\ todo # <<>> /\ Head(todo)[1] = "rehydrate" /\ todo' = Tail(todo)
        /\ UNCHANGED <<stage, args, exit, input, runs, probes, cache, files>>
    BY <1>2 DEF Rehydrate, Step, Goes
  <2>2. /\ ~Replaying /\ Active /\ Active'
        /\ \A tag, j : Left(tag, j) => Left(tag, j)' \/ Head(todo) = <<tag, j>>
    BY <2>1, OneStep
  <2>3. ASSUME NEW j \in DOMAIN stage.saves
        PROVE  /\ ~Left("save", j)' /\ ~Left("restore", j)' => FileRight(j)'
               /\ ~Left("save", j)' => ProbeRight(j)'
               /\ \A c \in DOMAIN cache : CachedRight(c, j)'
    <3>1. \A tag : tag \in {"save", "restore"} => Head(todo) # <<tag, j>>
      BY <2>1
    <3>2. /\ ~Left("save", j)' /\ ~Left("restore", j)' => FileRight(j)
          /\ ~Left("save", j)' => ProbeRight(j)
          /\ \A c \in DOMAIN cache : CachedRight(c, j)
      BY <2>2, <3>1 DEF SInv
    <3>3. FileRight(j)' = FileRight(j) /\ ProbeRight(j)' = ProbeRight(j)
      BY <2>1 DEF FileRight, ProbeRight
    <3>4. \A c \in DOMAIN cache : CachedRight(c, j)' = CachedRight(c, j)
      BY <2>1 DEF CachedRight
    <3> QED BY <3>2, <3>3, <3>4
  <2> QED BY <2>1, <2>3, Kept DEF SInv
<1> QED BY <1>1, <1>2

LEMMA RestoreSInv ==
  ASSUME Base, SInv, Restore, NamesApart, Keyed
  PROVE  SInv'
<1> DEFINE k == Operand
           s(i) == stage.saves[i]
           stems == Stems(s(k))
           there == {i \in DOMAIN stems : \A j \in 1 .. i : stems[j] \in DOMAIN probes}
           back == [p \in {SaveFile(s(k), args, stems[i]) : i \in there} |-> probes[NameOf(p)]]
<1>1. /\ exit = "running" /\ todo # <<>> /\ Head(todo)[1] = "restore"
      /\ UNCHANGED <<stage, args, result, probes, cache, input, runs>>
      /\ files' = Over(back, files)
      /\ IF there = DOMAIN stems THEN todo' = Tail(todo) /\ UNCHANGED exit
         ELSE exit' = "failed" /\ UNCHANGED todo
  BY DEF Restore, Step
<1>2. CASE there # DOMAIN stems
  BY <1>1, <1>2, IdleSInv DEF Active
<1>3. CASE there = DOMAIN stems
  <2>1. /\ Good(stage) /\ args \in Args /\ ~Replaying' /\ ~Replaying /\ Active /\ Active' /\ StepRight(1)
        /\ 1 \in DOMAIN todo /\ Head(todo) = todo[1] /\ Ordered
        /\ k \in DOMAIN stage.saves /\ Head(todo) = <<"restore", k>>
        /\ \A tag, j : Left(tag, j) => Left(tag, j)' \/ Head(todo) = <<tag, j>>
    BY <1>1, <1>3, OneStep
  <2>2. \A j : ~Left("save", j)
    <3>1. PICK T : todo \in Seq(T)
      BY <2>1 DEF Ordered
    <3>2. \A i \in DOMAIN todo : i = 1 \/ 1 < i
      BY <3>1, LenProperties
    <3> QED BY <1>1, <2>1, <3>2 DEF Left, StepRight
  <2>3. /\ s(k) \in Saves /\ stems \in Seq(Names) /\ Saved(s(k)) \subseteq Names
        /\ ToSet(stems) = {stems[i] : i \in DOMAIN stems}
        /\ ToSet(stems) = IF s(k).plain THEN {} ELSE Saved(s(k))
    BY <2>1, SavesAre, SaveIs DEF ToSet
  <2>4. /\ DOMAIN back = {SaveFile(s(k), args, n) : n \in ToSet(stems)}
        /\ \A n \in ToSet(stems) : back[SaveFile(s(k), args, n)] = probes[n]
    <3>1. DOMAIN back = {SaveFile(s(k), args, n) : n \in ToSet(stems)}
      BY <1>3, <2>3
    <3>2. \A n \in ToSet(stems) : NameOf(SaveFile(s(k), args, n)) = n
      BY <2>1, <2>3, SaveFileIs
    <3> QED BY <3>1, <3>2
  <2> HIDE DEF back, there, stems, k
  <2>5. /\ \A x \in DOMAIN back : x \in DOMAIN files' /\ files'[x] = back[x]
        /\ \A x \in DOMAIN files : x \in DOMAIN files' /\ (x \notin DOMAIN back => files'[x] = files[x])
    BY <1>1 DEF Over
  <2>6. ASSUME NEW j \in DOMAIN stage.saves
        PROVE  /\ ~Left("restore", j)' => FileRight(j)'
               /\ ProbeRight(j)'
               /\ \A c \in DOMAIN cache : CachedRight(c, j)'
    <3>1. ProbeRight(j) /\ \A c \in DOMAIN cache : CachedRight(c, j)
      BY <2>1, <2>2 DEF SInv
    <3>2. ProbeRight(j)' /\ \A c \in DOMAIN cache : CachedRight(c, j)'
      <4>1. ProbeRight(j)' = ProbeRight(j)
        BY <1>1 DEF ProbeRight
      <4>2. \A c \in DOMAIN cache : CachedRight(c, j)' = CachedRight(c, j)
        BY <1>1 DEF CachedRight
      <4> QED BY <3>1, <4>1, <4>2
    <3>3. CASE s(j).plain
      BY <1>1, <3>2, <3>3 DEF FileRight
    <3>4. CASE ~s(j).plain /\ j = k
      <4>1. FileRight(j)'
        <5>1. SUFFICES ASSUME args.batch \in s(j).batches, NEW n \in Saved(s(j))
                       PROVE  /\ SaveFile(s(j), args, n) \in DOMAIN files'
                              /\ \E h \in {FALSE, args.hollow} :
                                    files'[SaveFile(s(j), args, n)] = Value(What(s(j), n), args, input, h)
          BY <1>1 DEF FileRight
        <5>2. /\ SaveFile(s(j), args, n) \in DOMAIN back
              /\ back[SaveFile(s(j), args, n)] = probes[n]
          BY <2>3, <2>4, <3>4, <5>1
        <5>3. \E h \in {FALSE, args.hollow} : probes[n] = Value(What(s(j), n), args, input, h)
          BY <3>1, <3>4, <5>1 DEF ProbeRight
        <5> QED BY <2>5, <5>2, <5>3
      <4> QED BY <3>2, <4>1
    <3>5. CASE ~s(j).plain /\ j # k
      <4>1. ~Left("restore", j)' => FileRight(j)
        <5>1. Head(todo) # <<"restore", j>>
          BY <2>1, <3>5
        <5> QED BY <2>1, <2>2, <5>1 DEF SInv
      <4>2. \A m \in Saved(s(j)), n \in Saved(s(k)) : SaveFile(s(j), args, m) # SaveFile(s(k), args, n)
        BY <2>1, <3>5, FilesApart
      <4>3. \A m \in Saved(s(j)) : SaveFile(s(j), args, m) \notin DOMAIN back
        BY <2>3, <2>4, <4>2
      <4>4. FileRight(j) => FileRight(j)'
        BY <1>1, <2>5, <4>3 DEF FileRight
      <4> QED BY <3>2, <4>1, <4>4
    <3> QED BY <3>3, <3>4, <3>5
  <2> QED BY <1>1, <2>6, Kept DEF SInv
<1> QED BY <1>2, <1>3

(* A step that leaves what is cached, probed and saved as it is.           *)
LEMMA FrameSInv ==
  ASSUME SInv, UNCHANGED <<stage, args, input, cache, probes>>, NamesApart, Keyed, Active' => Active,
         Active' => /\ \A j \in DOMAIN stage.saves : FileRight(j) => FileRight(j)'
                    /\ \A j : ~Left("save", j)' => ~Left("save", j)
                    /\ \A j : ~Left("restore", j)' => ~Left("restore", j)
                    /\ ~Replaying' => ~Replaying
  PROVE  SInv'
<1>1. ASSUME NEW j \in DOMAIN stage.saves
      PROVE  /\ \A c \in DOMAIN cache : CachedRight(c, j)'
             /\ Active' /\ ~Left("save", j)' /\ ~Left("restore", j)' => FileRight(j)'
             /\ Active' /\ ~Left("save", j)' /\ ~Replaying' => ProbeRight(j)'
  <2>1. ProbeRight(j)' = ProbeRight(j)
    BY DEF ProbeRight
  <2>2. \A c \in DOMAIN cache : CachedRight(c, j)' = CachedRight(c, j)
    BY DEF CachedRight
  <2>3. \A c \in DOMAIN cache : CachedRight(c, j)
    BY DEF SInv
  <2>4. Active' /\ ~Left("save", j)' /\ ~Left("restore", j)' => FileRight(j)
    BY DEF SInv
  <2>5. Active' /\ ~Left("save", j)' /\ ~Replaying' => ProbeRight(j)
    BY DEF SInv
  <2> QED BY <2>1, <2>2, <2>3, <2>4, <2>5
<1> QED BY <1>1, Kept DEF SInv

(* No save is left when the result is serialized.                          *)
LEMMA SerializeLast ==
  ASSUME Base, Serialize
  PROVE  /\ Tail(todo) = <<>> /\ ~Replaying /\ ~Probing /\ Active /\ Active' /\ Good(stage) /\ args \in Args
         /\ \A j : ~Left("save", j) /\ ~Left("restore", j) /\ ~Left("rehydrate", j)
<1>1. exit = "running" /\ todo # <<>> /\ Head(todo)[1] = "serialize" /\ exit' = exit
  BY DEF Serialize, Step
<1>2. Active /\ Active' /\ Good(stage) /\ args \in Args /\ Ordered
  BY <1>1 DEF Base, Active
<1>3. PICK T : todo \in Seq(T)
  BY <1>2 DEF Ordered
<1>4. /\ Len(todo) \in Nat /\ Len(todo) # 0 /\ DOMAIN todo = 1 .. Len(todo) /\ Head(todo) = todo[1]
      /\ Tail(todo) \in Seq(T) /\ Len(Tail(todo)) = Len(todo) - 1
  BY <1>1, <1>3, HeadTailProperties, LenProperties, EmptySeq
<1>5. StepRight(1) /\ 1 \in DOMAIN todo
  BY <1>2, <1>4 DEF Ordered
<1>6. Len(todo) = 1
  BY <1>1, <1>4, <1>5 DEF StepRight
<1>7. Tail(todo) = <<>>
  <2>1. Len(Tail(todo)) = 0
    BY <1>4, <1>6
  <2> QED BY <1>4, <2>1, EmptySeq
<1>8. \A i \in DOMAIN todo : todo[i][1] = "serialize"
  BY <1>1, <1>4, <1>6
<1> QED BY <1>2, <1>7, <1>8 DEF Replaying, Probing, Left

LEMMA SerializeSInv ==
  ASSUME Base, SInv, Serialize, NamesApart, Keyed
  PROVE  SInv'
<1>1. UNCHANGED <<stage, args, exit, result, probes, cache, files, input, runs>>
  BY DEF Serialize
<1>2. \A j : FileRight(j)' = FileRight(j)
  BY <1>1 DEF FileRight
<1> QED BY <1>1, <1>2, SerializeLast, FrameSInv

(* The wire's files are not in a directory of the saves.                   *)
LEMMA WriteFileSInv ==
  ASSUME Base, SInv, WriteFile, NamesApart, Keyed
  PROVE  SInv'
<1>1. /\ exit = "running" /\ todo # <<>> /\ Head(todo)[1] = "write" /\ todo' = Tail(todo)
      /\ UNCHANGED <<stage, args, exit, input, runs, result, probes, cache>>
      /\ files' = Over(One(Operand.path, Operand.value), files)
  BY DEF WriteFile, Step, Goes
<1>2. /\ Good(stage) /\ args \in Args /\ ~Replaying /\ Active /\ StepRight(1)
      /\ 1 \in DOMAIN todo /\ Head(todo) = todo[1]
      /\ \A tag, j : Left(tag, j) => Left(tag, j)' \/ Head(todo) = <<tag, j>>
  BY <1>1, OneStep
<1>3. /\ \A x \in DOMAIN files : x \in DOMAIN files' /\ (x # Operand.path => files'[x] = files[x])
  BY <1>1 DEF Over, One
<1>4. Operand.path[1] = OutputDir(args)[1]
  BY <1>1, <1>2 DEF StepRight, Operand
<1>5. OutputDir(args)[1] # Nth(<<"dir">>, args.inst)
  <2>1. <<"out">> \in Seq(Words) /\ <<"dir">> \in Seq(Words) /\ args.inst \in 0 .. MaxNumber
    BY <1>2, WordsAssumption, ArgsAre
  <2>2. Nth(<<"out">>, args.inst)[1] = "out" /\ Nth(<<"dir">>, args.inst)[1] = "dir"
    BY <2>1, NthIs
  <2> QED BY <2>2 DEF OutputDir
<1>6. ASSUME NEW j \in DOMAIN stage.saves, FileRight(j) PROVE FileRight(j)'
  <2>1. \A n \in Saved(stage.saves[j]) : SaveFile(stage.saves[j], args, n) # Operand.path
    BY <1>2, <1>4, <1>5, SavesAre, SaveIs, SaveFileIs
  <2> QED BY <1>1, <1>3, <1>6, <2>1 DEF FileRight
<1>7. \A tag, j : tag \in {"save", "restore"} => Head(todo) # <<tag, j>>
  BY <1>1
<1>8. \A j : (~Left("save", j)' => ~Left("save", j)) /\ (~Left("restore", j)' => ~Left("restore", j))
  BY <1>2, <1>7
<1>9. \A j \in DOMAIN stage.saves : FileRight(j) => FileRight(j)'
  BY <1>6
<1> QED BY <1>1, <1>2, <1>8, <1>9, FrameSInv

LEMMA ExitSInv ==
  ASSUME SInv, Exit, NamesApart, Keyed
  PROVE  SInv'
<1>1. UNCHANGED <<stage, args, todo, result, probes, cache, files, input, runs>> /\ Active
  BY DEF Exit, Active
<1>2. \A j : FileRight(j)' = FileRight(j)
  BY <1>1 DEF FileRight
<1>3. Replaying' = Replaying /\ \A tag, j : Left(tag, j)' = Left(tag, j)
  BY <1>1 DEF Left, Replaying
<1>4. /\ \A j : FileRight(j) => FileRight(j)'
      /\ \A j : ~Left("save", j)' => ~Left("save", j)
      /\ \A j : ~Left("restore", j)' => ~Left("restore", j)
      /\ ~Replaying' => ~Replaying
  BY <1>2, <1>3
<1>5. UNCHANGED <<stage, args, input, cache, probes>> /\ (Active' => Active)
  BY <1>1
<1> QED BY <1>4, <1>5, FrameSInv

LEMMA CompileSInv ==
  ASSUME Base, Compile
  PROVE  SInv'
<1>1. cache' = <<>> /\ ~Active'
  BY DEF Compile, Base, Active
<1> QED BY <1>1 DEF SInv

(* The steps that a process starts with.                                   *)
LEMMA StepsAre ==
  ASSUME NEW tag, NEW n \in Nat
  PROVE  /\ DOMAIN Steps(tag, 1, n) = 1 .. n /\ Len(Steps(tag, 1, n)) = n
         /\ \A i \in 1 .. n : Steps(tag, 1, n)[i] = <<tag, i>>
         /\ Steps(tag, 1, n) \in Seq({<<tag, i>> : i \in Nat})
<1>1. n - 1 + 1 = n /\ \A i \in 1 .. n : 1 + i - 1 = i
  OBVIOUS
<1>2. Steps(tag, 1, n) = [i \in 1 .. n |-> <<tag, i>>]
  BY <1>1 DEF Steps
<1>3. \A i \in 1 .. n : <<tag, i>> \in {<<tag, k>> : k \in Nat}
  OBVIOUS
<1>4. Steps(tag, 1, n) \in Seq({<<tag, i>> : i \in Nat})
  <2> DEFINE S == {<<tag, i>> : i \in Nat}
  <2>1. \A i \in 1 .. n : <<tag, i>> \in S
    BY <1>3
  <2> HIDE DEF S
  <2>2. [i \in 1 .. n |-> <<tag, i>>] \in Seq(S)
    BY <2>1
  <2> QED BY <1>2, <2>2 DEF S
<1> QED BY <1>2, <1>4


AllSteps ==
    {<<tag, i>> : tag \in {"save", "restore", "rehydrate"}, i \in Nat}
        \cup {<<tag>> : tag \in {"replay", "probe", "stop", "serialize"}}

\* r is s with u behind it.
IsJoin(T, s, u, r) ==
    /\ r \in Seq(T) /\ Len(r) = Len(s) + Len(u) /\ Len(s) \in Nat /\ Len(u) \in Nat
    /\ \A i \in 1 .. Len(s) : r[i] = s[i]
    /\ \A i \in 1 .. Len(u) : r[Len(s) + i] = u[i]

LEMMA Joined ==
  ASSUME NEW T, NEW s \in Seq(T), NEW u \in Seq(T)
  PROVE  IsJoin(T, s, u, s \o u)
BY ConcatProperties, LenProperties DEF IsJoin

LEMMA RecordingIs ==
  ASSUME Good(stage)
  PROVE  LET n == Len(stage.saves)
             r == Recording(1)
         IN  /\ n \in Nat /\ DOMAIN stage.saves = 1 .. n
             /\ r \in Seq(AllSteps) /\ Len(r) = n + 3 /\ DOMAIN r = 1 .. n + 3
             /\ \A i \in 1 .. n : r[i] = <<"save", i>>
             /\ r[n + 1] = <<"probe">> /\ r[n + 2] = <<"stop">> /\ r[n + 3] = <<"serialize">>
<1> DEFINE n == Len(stage.saves)
           s == Steps("save", 1, n)
           u == << <<"probe">>, <<"stop">>, <<"serialize">> >>
<1>1. n \in Nat /\ DOMAIN stage.saves = 1 .. n
  BY SavesAre
<1>2. /\ Len(s) = n /\ \A i \in 1 .. n : s[i] = <<"save", i>>
      /\ s \in Seq({<<"save", i>> : i \in Nat})
  <2>1. n \in Nat
    BY <1>1
  <2> HIDE DEF n
  <2> QED BY <2>1, StepsAre, Zenon
<1>3. {<<"save", i>> : i \in Nat} \subseteq AllSteps /\ {<<"probe">>, <<"stop">>, <<"serialize">>} \subseteq AllSteps
  BY DEF AllSteps
<1>4. s \in Seq(AllSteps)
  BY <1>2, <1>3, SeqMonotonic
<1>5. u \in Seq(AllSteps) /\ Len(u) = 3 /\ u[1] = <<"probe">> /\ u[2] = <<"stop">> /\ u[3] = <<"serialize">>
  BY <1>3
<1>6. Recording(1) = s \o u
  BY DEF Recording
<1> HIDE DEF n, s, u
<1> DEFINE r == s \o u
<1>10. r = s \o u
  OBVIOUS
<1> HIDE DEF r
<1>7. /\ r \in Seq(AllSteps) /\ Len(r) = n + 3 /\ \A i \in 1 .. n : r[i] = s[i]
      /\ \A i \in 1 .. 3 : r[n + i] = u[i]
  <2>1. n \in Nat /\ Len(s) = n /\ s \in Seq(AllSteps) /\ u \in Seq(AllSteps) /\ Len(u) = 3
    BY <1>1, <1>2, <1>4, <1>5
  <2>2. IsJoin(AllSteps, s, u, r)
    <3>1. IsJoin(AllSteps, s, u, s \o u)
      BY <2>1, Joined
    <3> QED BY <3>1, <1>10, Zenon
  <2>3. /\ r \in Seq(AllSteps) /\ Len(r) = Len(s) + Len(u)
        /\ \A i \in 1 .. Len(s) : r[i] = s[i]
        /\ \A i \in 1 .. Len(u) : r[Len(s) + i] = u[i]
    BY <2>2 DEF IsJoin
  <2> QED BY <2>1, <2>2, <2>3
<1>8. DOMAIN r = 1 .. n + 3
  BY <1>7, LenProperties
<1>9. r = Recording(1)
  BY <1>6, <1>10
<1>11. /\ \A i \in 1 .. n : r[i] = <<"save", i>>
       /\ r[n + 1] = <<"probe">> /\ r[n + 2] = <<"stop">> /\ r[n + 3] = <<"serialize">>
  BY <1>2, <1>5, <1>7
<1> QED BY <1>1, <1>7, <1>8, <1>9, <1>11 DEF n

LEMMA ReplayIs ==
  ASSUME Good(stage)
  PROVE  LET n == Len(stage.saves)
             m == Len(stage.wire)
             r == << <<"replay">> >> \o Rehydrating(1)
         IN  /\ n \in Nat /\ m \in Nat /\ DOMAIN stage.saves = 1 .. n /\ DOMAIN stage.wire = 1 .. m
             /\ r \in Seq(AllSteps) /\ Len(r) = m + n + 2 /\ DOMAIN r = 1 .. m + n + 2
             /\ r[1] = <<"replay">>
             /\ \A i \in 1 .. m : r[1 + i] = <<"rehydrate", i>>
             /\ \A i \in 1 .. n : r[1 + (m + i)] = <<"restore", i>>
             /\ r[m + n + 2] = <<"serialize">>
<1> DEFINE n == Len(stage.saves)
           m == Len(stage.wire)
           s == Steps("rehydrate", 1, m)
           u == Steps("restore", 1, n)
           last == << <<"serialize">> >>
           first == << <<"replay">> >>
<1>1. /\ n \in Nat /\ DOMAIN stage.saves = 1 .. n
      /\ m \in Nat /\ DOMAIN stage.wire = 1 .. m
  <2>1. stage.wire \in Seq(Fields)
    BY StageIs DEF Good
  <2>2. m \in Nat /\ DOMAIN stage.wire = 1 .. m
    BY <2>1, LenProperties
  <2> QED BY <2>2, SavesAre
<1>2. /\ Len(s) = m /\ \A i \in 1 .. m : s[i] = <<"rehydrate", i>>
      /\ s \in Seq({<<"rehydrate", i>> : i \in Nat})
      /\ Len(u) = n /\ \A i \in 1 .. n : u[i] = <<"restore", i>>
      /\ u \in Seq({<<"restore", i>> : i \in Nat})
  <2>1. n \in Nat /\ m \in Nat
    BY <1>1
  <2> HIDE DEF n, m
  <2>2. /\ Len(s) = m /\ \A i \in 1 .. m : s[i] = <<"rehydrate", i>>
        /\ s \in Seq({<<"rehydrate", i>> : i \in Nat})
    BY <2>1, StepsAre
  <2>3. /\ Len(u) = n /\ \A i \in 1 .. n : u[i] = <<"restore", i>>
        /\ u \in Seq({<<"restore", i>> : i \in Nat})
    BY <2>1, StepsAre
  <2> QED BY <2>2, <2>3
<1>3. /\ {<<"rehydrate", i>> : i \in Nat} \subseteq AllSteps /\ {<<"restore", i>> : i \in Nat} \subseteq AllSteps
      /\ {<<"replay">>, <<"serialize">>} \subseteq AllSteps
  BY DEF AllSteps
<1>4. s \in Seq(AllSteps) /\ u \in Seq(AllSteps)
  BY <1>2, <1>3, SeqMonotonic
<1>5. /\ first \in Seq(AllSteps) /\ Len(first) = 1 /\ first[1] = <<"replay">>
      /\ last \in Seq(AllSteps) /\ Len(last) = 1 /\ last[1] = <<"serialize">>
  BY <1>3
<1>6. << <<"replay">> >> \o Rehydrating(1) = first \o (s \o (u \o last))
  BY DEF Rehydrating, Restoring
<1> HIDE DEF n, m, s, u, first, last
<1> DEFINE x == u \o last
<1>15. x = u \o last
  OBVIOUS
<1> HIDE DEF x
<1>7. /\ x \in Seq(AllSteps) /\ Len(x) = n + 1 /\ \A i \in 1 .. n : x[i] = u[i]
      /\ x[n + 1] = last[1]
  <2>1. n \in Nat /\ Len(u) = n /\ u \in Seq(AllSteps) /\ last \in Seq(AllSteps) /\ Len(last) = 1
    BY <1>1, <1>2, <1>4, <1>5
  <2>2. /\ x \in Seq(AllSteps) /\ Len(x) = Len(u) + Len(last) /\ \A i \in 1 .. Len(u) : x[i] = u[i]
        /\ \A i \in 1 .. Len(last) : x[Len(u) + i] = last[i]
    <3>1. IsJoin(AllSteps, u, last, u \o last)
      BY <2>1, Joined
    <3>2. IsJoin(AllSteps, u, last, x)
      BY <3>1, <1>15, Zenon
    <3> QED BY <3>2 DEF IsJoin
  <2> QED BY <2>1, <2>2
<1> DEFINE y == s \o x
<1>16. y = s \o x
  OBVIOUS
<1> HIDE DEF y
<1>8. /\ y \in Seq(AllSteps) /\ Len(y) = m + (n + 1) /\ \A i \in 1 .. m : y[i] = s[i]
      /\ \A i \in 1 .. n + 1 : y[m + i] = x[i]
  <2>1. m \in Nat /\ n + 1 \in Nat /\ Len(s) = m /\ s \in Seq(AllSteps) /\ x \in Seq(AllSteps) /\ Len(x) = n + 1
    BY <1>1, <1>2, <1>4, <1>7
  <2>2. IsJoin(AllSteps, s, x, y)
    <3>1. IsJoin(AllSteps, s, x, s \o x)
      BY <2>1, Joined
    <3> QED BY <3>1, <1>16, Zenon
  <2>3. /\ y \in Seq(AllSteps) /\ Len(y) = Len(s) + Len(x)
        /\ \A i \in 1 .. Len(s) : y[i] = s[i]
        /\ \A i \in 1 .. Len(x) : y[Len(s) + i] = x[i]
    BY <2>2 DEF IsJoin
  <2> QED BY <2>1, <2>2, <2>3
<1> DEFINE r == first \o y
<1>17. r = first \o y
  OBVIOUS
<1> HIDE DEF r
<1>9. /\ r \in Seq(AllSteps) /\ Len(r) = 1 + (m + (n + 1)) /\ r[1] = first[1]
      /\ \A i \in 1 .. m + (n + 1) : r[1 + i] = y[i]
  <2>1. m + (n + 1) \in Nat /\ first \in Seq(AllSteps) /\ Len(first) = 1 /\ y \in Seq(AllSteps) /\ Len(y) = m + (n + 1)
    BY <1>1, <1>5, <1>8
  <2>2. IsJoin(AllSteps, first, y, r)
    <3>1. IsJoin(AllSteps, first, y, first \o y)
      BY <2>1, Joined
    <3> QED BY <3>1, <1>17, Zenon
  <2>3. /\ r \in Seq(AllSteps) /\ Len(r) = Len(first) + Len(y)
        /\ \A i \in 1 .. Len(first) : r[i] = first[i]
        /\ \A i \in 1 .. Len(y) : r[Len(first) + i] = y[i]
    BY <2>2 DEF IsJoin
  <2> QED BY <2>1, <2>2, <2>3
<1>10. DOMAIN r = 1 .. m + n + 2 /\ Len(r) = m + n + 2
  <2>1. r \in Seq(AllSteps) /\ Len(r) = m + n + 2
    BY <1>1, <1>9
  <2> QED BY <2>1, LenProperties
<1>11. \A i \in 1 .. m : r[1 + i] = <<"rehydrate", i>>
  <2> TAKE i \in 1 .. m
  <2>1. i \in 1 .. m + (n + 1)
    BY <1>1
  <2>2. r[1 + i] = y[i] /\ y[i] = s[i]
    BY <1>8, <1>9, <2>1
  <2> QED BY <1>2, <2>2
<1>12. \A i \in 1 .. n : r[1 + (m + i)] = <<"restore", i>>
  <2> TAKE i \in 1 .. n
  <2>1. m + i \in 1 .. m + (n + 1) /\ i \in 1 .. n + 1
    BY <1>1
  <2>2. r[1 + (m + i)] = y[m + i] /\ y[m + i] = x[i]
    BY <1>8, <1>9, <2>1
  <2>3. x[i] = u[i] /\ u[i] = <<"restore", i>>
    BY <1>2, <1>7
  <2> QED BY <2>2, <2>3
<1>13. r[m + n + 2] = <<"serialize">>
  <2>1. m + (n + 1) \in 1 .. m + (n + 1) /\ 1 + (m + (n + 1)) = m + n + 2 /\ n + 1 \in 1 .. n + 1
    BY <1>1
  <2> QED BY <1>5, <1>7, <1>8, <1>9, <2>1
<1>14. r = << <<"replay">> >> \o Rehydrating(1)
  BY <1>6, <1>15, <1>16, <1>17
<1> QED BY <1>1, <1>5, <1>9, <1>10, <1>11, <1>12, <1>13, <1>14 DEF n, m

(* What main() has to do is in order when a process starts.                *)
LEMMA BeginIs ==
  ASSUME Base, Begin
  PROVE  /\ Active' /\ exit' = "running" /\ UNCHANGED <<stage, cache, files, input>> /\ result' = <<>> /\ probes' = <<>>
         /\ stage # NoStage /\ Good(stage) /\ args' \in Args /\ Ordered'
         /\ \A j \in DOMAIN stage.saves : Left("save", j)' \/ (Replaying' /\ Left("restore", j)')
         /\ \A j \in DOMAIN stage.wire : Replaying' => Left("rehydrate", j)'
         /\ Replaying' \/ Probing'
<1> DEFINE key == CacheKey(args')
           q == << <<"replay">> >> \o Rehydrating(1)
           n == Len(stage.saves)
           m == Len(stage.wire)
<1>1. /\ Active' /\ exit' = "running" /\ UNCHANGED <<stage, cache, files, input>> /\ result' = <<>> /\ probes' = <<>>
      /\ stage # NoStage /\ Good(stage)
      /\ todo' = IF key \in DOMAIN cache THEN q ELSE Recording(1)
  BY DEF Begin, Active, Base
<1>2. args' \in Args
  BY DEF Begin, Args
<1>3. CacheKey(args)' = key
  BY <1>1 DEF CacheKey
<1>4. n \in Nat /\ m \in Nat /\ DOMAIN stage.saves = 1 .. n /\ DOMAIN stage.wire = 1 .. m
  BY <1>1, ReplayIs
<1> HIDE DEF key, n, m
<1>5. CASE key \notin DOMAIN cache
  <2>1. /\ todo' \in Seq(AllSteps) /\ Len(todo') = n + 3 /\ DOMAIN todo' = 1 .. n + 3
        /\ \A i \in 1 .. n : todo'[i] = <<"save", i>>
        /\ todo'[n + 1] = <<"probe">> /\ todo'[n + 2] = <<"stop">> /\ todo'[n + 3] = <<"serialize">>
    <3>1. todo' = Recording(1)
      BY <1>1, <1>5
    <3> QED BY <1>1, <3>1, RecordingIs DEF n
  <2>2. ASSUME NEW i \in DOMAIN todo' PROVE StepRight(i)'
    <3>1. \/ i \in 1 .. n /\ todo'[i] = <<"save", i>>
          \/ i = n + 1 /\ todo'[i] = <<"probe">>
          \/ i = n + 2 /\ todo'[i] = <<"stop">>
          \/ i = n + 3 /\ todo'[i] = <<"serialize">>
      BY <1>4, <2>1
    <3>2. \A j \in DOMAIN todo' : i < j /\ todo'[j][1] \in {"save", "probe"} => i \in 1 .. n
      BY <1>4, <2>1
    <3>3. \A j \in DOMAIN todo' : i < j /\ todo'[j][1] \in {"save", "probe"} => todo'[i][1] = "save"
      BY <2>1, <3>2
    <3>4. CASE i \in 1 .. n /\ todo'[i] = <<"save", i>>
      <4>1. i \in DOMAIN stage'.saves
        BY <1>1, <1>4, <3>4
      <4> QED BY <3>3, <3>4, <4>1 DEF StepRight
    <3>5. CASE i = n + 1 /\ todo'[i] = <<"probe">>
      BY <3>3, <3>5 DEF StepRight
    <3>6. CASE i = n + 2 /\ todo'[i] = <<"stop">>
      BY <3>3, <3>6 DEF StepRight
    <3>7. CASE i = n + 3 /\ todo'[i] = <<"serialize">>
      BY <2>1, <3>3, <3>7 DEF StepRight
    <3> QED BY <3>1, <3>4, <3>5, <3>6, <3>7
  <2>3. Ordered'
    BY <2>1, <2>2 DEF Ordered
  <2>4. \A j \in DOMAIN stage.saves : Left("save", j)'
    <3> TAKE j \in DOMAIN stage.saves
    <3>1. j \in DOMAIN todo' /\ todo'[j] = <<"save", j>>
      BY <1>4, <2>1
    <3> QED BY <3>1 DEF Left
  <2>5. Probing' /\ ~Replaying'
    <3>1. n + 1 \in DOMAIN todo' /\ todo'[n + 1][1] = "probe"
      BY <1>4, <2>1
    <3>2. ASSUME NEW i \in DOMAIN todo' PROVE todo'[i][1] # "replay"
      <4>1. \/ i \in 1 .. n /\ todo'[i] = <<"save", i>>
            \/ i = n + 1 /\ todo'[i] = <<"probe">>
            \/ i = n + 2 /\ todo'[i] = <<"stop">>
            \/ i = n + 3 /\ todo'[i] = <<"serialize">>
        BY <1>4, <2>1
      <4> QED BY <4>1
    <3> QED BY <3>1, <3>2 DEF Probing, Replaying
  <2> QED BY <1>1, <1>2, <2>3, <2>4, <2>5
<1>6. CASE key \in DOMAIN cache
  <2>1. /\ todo' \in Seq(AllSteps) /\ Len(todo') = m + n + 2 /\ DOMAIN todo' = 1 .. m + n + 2
        /\ todo'[1] = <<"replay">>
        /\ \A i \in 1 .. m : todo'[1 + i] = <<"rehydrate", i>>
        /\ \A i \in 1 .. n : todo'[1 + (m + i)] = <<"restore", i>>
        /\ todo'[m + n + 2] = <<"serialize">>
    <3>1. todo' = q
      BY <1>1, <1>6
    <3> QED BY <1>1, <3>1, ReplayIs DEF n, m
  <2>2. ASSUME NEW i \in DOMAIN todo'
        PROVE  \/ i = 1 /\ todo'[i] = <<"replay">>
               \/ i - 1 \in 1 .. m /\ todo'[i] = <<"rehydrate", i - 1>>
               \/ i - (m + 1) \in 1 .. n /\ todo'[i] = <<"restore", i - (m + 1)>>
               \/ i = m + n + 2 /\ todo'[i] = <<"serialize">>
    <3>1. CASE i = 1
      BY <2>1, <3>1
    <3>2. CASE i - 1 \in 1 .. m
      <4>1. 1 + (i - 1) = i
        BY <2>1
      <4> QED BY <2>1, <3>2, <4>1
    <3>3. CASE i - (m + 1) \in 1 .. n
      <4>1. 1 + (m + (i - (m + 1))) = i
        BY <1>4, <2>1
      <4> QED BY <2>1, <3>3, <4>1
    <3>4. CASE i = m + n + 2
      BY <2>1, <3>4
    <3>5. i = 1 \/ i - 1 \in 1 .. m \/ i - (m + 1) \in 1 .. n \/ i = m + n + 2
      <4>1. i \in 1 .. m + n + 2
        BY <2>1
      <4> QED BY <1>4, <4>1
    <3> QED BY <3>1, <3>2, <3>3, <3>4, <3>5
  <2>3. ASSUME NEW i \in DOMAIN todo' PROVE StepRight(i)'
    <3>1. todo'[i][1] \notin {"save", "probe"}
      BY <2>2
    <3>2. \A j \in DOMAIN todo' : todo'[j][1] \notin {"save", "probe"}
      BY <2>2
    <3>3. CASE i = 1 /\ todo'[i] = <<"replay">>
      BY <1>1, <1>3, <1>6, <3>2, <3>3 DEF StepRight
    <3>4. CASE i - 1 \in 1 .. m /\ todo'[i] = <<"rehydrate", i - 1>>
      <4>1. i - 1 \in DOMAIN stage'.wire
        BY <1>1, <1>4, <3>4
      <4> QED BY <3>2, <3>4, <4>1 DEF StepRight
    <3>5. CASE i - (m + 1) \in 1 .. n /\ todo'[i] = <<"restore", i - (m + 1)>>
      <4>1. i - (m + 1) \in DOMAIN stage'.saves
        BY <1>1, <1>4, <3>5
      <4> QED BY <3>2, <3>5, <4>1 DEF StepRight
    <3>6. CASE i = m + n + 2 /\ todo'[i] = <<"serialize">>
      BY <2>1, <3>2, <3>6 DEF StepRight
    <3> QED BY <2>2, <3>3, <3>4, <3>5, <3>6
  <2>4. Ordered'
    BY <2>1, <2>3 DEF Ordered
  <2>5. Replaying'
    <3>1. 1 \in DOMAIN todo' /\ todo'[1][1] = "replay"
      BY <1>4, <2>1
    <3> QED BY <3>1 DEF Replaying
  <2>6. ASSUME NEW j \in DOMAIN stage.saves PROVE Left("restore", j)'
    <3>1. j \in 1 .. n /\ 1 + (m + j) \in 1 .. m + n + 2
      <4>1. j \in 1 .. n
        BY <1>4
      <4> QED BY <1>4, <4>1
    <3>2. 1 + (m + j) \in DOMAIN todo' /\ todo'[1 + (m + j)] = <<"restore", j>>
      BY <2>1, <3>1
    <3> QED BY <3>2 DEF Left
  <2>7. ASSUME NEW j \in DOMAIN stage.wire PROVE Left("rehydrate", j)'
    <3>1. j \in 1 .. m /\ 1 + j \in 1 .. m + n + 2
      BY <1>4
    <3>2. 1 + j \in DOMAIN todo' /\ todo'[1 + j] = <<"rehydrate", j>>
      BY <2>1, <3>1
    <3> QED BY <3>2 DEF Left
  <2> QED BY <1>1, <1>2, <2>4, <2>5, <2>6, <2>7
<1> QED BY <1>5, <1>6

LEMMA BeginSInv ==
  ASSUME Base, SInv, Begin, NamesApart, Keyed
  PROVE  SInv'
<1>1. /\ UNCHANGED <<stage, cache, files, input>>
      /\ \A j \in DOMAIN stage.saves : Left("save", j)' \/ (Replaying' /\ Left("restore", j)')
  BY BeginIs
<1>2. ASSUME NEW j \in DOMAIN stage.saves, NEW c \in DOMAIN cache PROVE CachedRight(c, j)'
  <2>1. CachedRight(c, j)' = CachedRight(c, j)
    BY <1>1 DEF CachedRight
  <2> QED BY <2>1 DEF SInv
<1> QED BY <1>1, <1>2 DEF SInv

LEMMA NextSInv == Base /\ SInv /\ [Next]_vars => SInv'
<1> SUFFICES ASSUME Base, SInv, [Next]_vars PROVE SInv'
  OBVIOUS
<1>1. CASE Compile
  BY <1>1, CompileSInv
<1>2. CASE stage' = stage
  <2>1. SUFFICES ASSUME NamesApart, Keyed PROVE SInv'
    <3>1. (~NamesApart \/ ~Keyed) => SInv'
      BY <1>2, Kept DEF SInv
    <3> QED BY <2>1, <3>1
  <2>2. CASE Begin
    BY <2>1, <2>2, BeginSInv
  <2>3. CASE Save
    BY <2>1, <2>3, SaveSInv
  <2>4. CASE Probe
    BY <2>1, <2>4, ProbeSInv
  <2>5. CASE Stop
    BY <2>1, <2>5, StopSInv
  <2>6. CASE Replay
    BY <2>1, <2>6, ReplaySInv
  <2>7. CASE Rehydrate
    BY <2>1, <2>7, RehydrateSInv
  <2>8. CASE Restore
    BY <2>1, <2>8, RestoreSInv
  <2>9. CASE Serialize
    BY <2>1, <2>9, SerializeSInv
  <2>10. CASE WriteFile
    BY <2>1, <2>10, WriteFileSInv
  <2>11. CASE Exit
    BY <2>1, <2>11, ExitSInv
  <2>12. CASE Kill
    BY <2>12, IdleSInv DEF Kill, Active
  <2>13. CASE Encrypt
    BY <2>13, IdleSInv DEF Encrypt, Active
  <2>14. CASE UNCHANGED vars
    <3>1. UNCHANGED <<stage, args, todo, exit, result, probes, cache, files, input, runs>>
      BY <2>14 DEF vars
    <3>2. \A j : FileRight(j)' = FileRight(j)
      BY <3>1 DEF FileRight
    <3>3. Replaying' = Replaying /\ \A tag, j : Left(tag, j)' = Left(tag, j)
      BY <3>1 DEF Left, Replaying
    <3>4. Active' = Active
      BY <3>1 DEF Active
    <3>5. /\ \A j : FileRight(j) => FileRight(j)'
          /\ \A j : ~Left("save", j)' => ~Left("save", j)
          /\ \A j : ~Left("restore", j)' => ~Left("restore", j)
          /\ ~Replaying' => ~Replaying
      BY <3>2, <3>3
    <3> QED BY <2>1, <3>1, <3>4, <3>5, FrameSInv
  <2> QED BY <1>1, <2>2, <2>3, <2>4, <2>5, <2>6, <2>7, <2>8, <2>9, <2>10, <2>11, <2>12, <2>13, <2>14 DEF Next
<1>3. Compile \/ stage' = stage
  BY DEF Next, Begin, Save, Probe, Stop, Replay, Rehydrate, Restore, Serialize, WriteFile, Exit, Kill, Encrypt,
         Goes, Fails, vars
<1> QED BY <1>1, <1>2, <1>3

-----------------------------------------------------------------------------
(* Induction over the numbers, for a set in the place of a predicate: the  *)
(* order of the numbers is well-founded, so a set that is not empty has a  *)
(* least member.                                                           *)

LEMMA LeastMember ==
  ASSUME NEW T, T \subseteq Nat, T # {}
  PROVE  \E x \in T : \A y \in T : x <= y
<1> DEFINE R == OpToRel(<, Nat)
<1>1. IsWellFoundedOn(R, Nat)
  BY NatLessThanWellFounded
<1>2. \A x, y \in Nat : x < y => <<x, y>> \in R
  BY DEF OpToRel
<1> HIDE DEF R
<1>3. PICK x \in T : \A y \in T : ~(<<y, x>> \in R)
  BY <1>1, WFMin
<1>4. ASSUME NEW y \in T PROVE x <= y
  <2>1. x \in Nat /\ y \in Nat
    OBVIOUS
  <2>2. ~(y < x)
    BY <2>1, <1>2, <1>3
  <2> QED BY <2>1, <2>2
<1> QED BY <1>4

LEMMA SetInduction ==
  ASSUME NEW S, 0 \in S, \A n \in Nat : n \in S => n + 1 \in S
  PROVE  Nat \subseteq S
<1> SUFFICES ASSUME Nat \ S # {} PROVE FALSE
  OBVIOUS
<1>1. PICK x \in Nat \ S : \A y \in Nat \ S : x <= y
  <2> DEFINE T == Nat \ S
  <2>1. T \subseteq Nat /\ T # {}
    OBVIOUS
  <2> HIDE DEF T
  <2>2. \E x \in T : \A y \in T : x <= y
    BY <2>1, LeastMember
  <2> QED BY <2>2 DEF T
<1>2. x # 0 /\ x - 1 \in Nat
  BY <1>1
<1>3. x - 1 \in S
  BY <1>1, <1>2
<1> QED BY <1>1, <1>2, <1>3

FlatStep(s, g, k) == IF k = 1 THEN s[k] ELSE g[k - 1] \o s[k]
Flattens(g, s, n) == g = [k \in 1 .. n |-> FlatStep(s, g, k)]

LEMMA FlattenExists == ASSUME NEW s PROVE \A n \in Nat : \E g : Flattens(g, s, n)
<1> DEFINE S == {n \in Nat : \E g : Flattens(g, s, n)}
<1>1. 0 \in S
  <2>1. Flattens([k \in 1 .. 0 |-> <<>>], s, 0)
    BY DEF Flattens
  <2> QED BY <2>1
<1>2. ASSUME NEW n \in Nat, n \in S PROVE n + 1 \in S
  <2>1. PICK g : Flattens(g, s, n)
    BY <1>2
  <2> DEFINE h == [k \in 1 .. n + 1 |-> IF k = n + 1 THEN FlatStep(s, g, k) ELSE g[k]]
  <2>2. ASSUME NEW k \in 1 .. n + 1 PROVE h[k] = FlatStep(s, h, k)
    <3>1. k # 1 => k - 1 \in 1 .. n /\ h[k - 1] = g[k - 1]
      OBVIOUS
    <3>2. FlatStep(s, g, k) = FlatStep(s, h, k)
      BY <3>1 DEF FlatStep
    <3>3. k # n + 1 => g[k] = FlatStep(s, g, k)
      BY <2>1 DEF Flattens
    <3> QED BY <3>2, <3>3
  <2>3. h = [k \in 1 .. n + 1 |-> h[k]]
    OBVIOUS
  <2> HIDE DEF h
  <2>4. Flattens(h, s, n + 1)
    BY <2>2, <2>3 DEF Flattens
  <2> QED BY <2>4
<1> HIDE DEF S
<1>3. Nat \subseteq S
  BY <1>1, <1>2, SetInduction
<1> QED BY <1>3 DEF S

LEMMA FlattenIs ==
  ASSUME NEW s, Len(s) \in Nat
  PROVE  /\ Len(s) = 0 => FlattenSeq(s) = s
         /\ Len(s) # 0 => \E g : Flattens(g, s, Len(s)) /\ FlattenSeq(s) = g[Len(s)]
<1> DEFINE f == CHOOSE g : Flattens(g, s, Len(s))
<1>1. Len(s) # 0 => FlattenSeq(s) = f[Len(s)]
  BY DEF FlattenSeq, Flattens, FlatStep
<1>2. \E g : Flattens(g, s, Len(s))
  BY FlattenExists
<1>3. Flattens(f, s, Len(s))
  BY <1>2
<1>4. Len(s) = 0 => FlattenSeq(s) = s
  BY DEF FlattenSeq
<1> HIDE DEF f
<1> QED BY <1>1, <1>3, <1>4, Zenon

LEMMA ConcatRange ==
  ASSUME NEW T, NEW a \in Seq(T), NEW b \in Seq(T)
  PROVE  a \o b \in Seq(T) /\ ToSet(a \o b) = ToSet(a) \cup ToSet(b)
<1>1. /\ a \o b \in Seq(T) /\ Len(a \o b) = Len(a) + Len(b)
      /\ \A i \in 1 .. Len(a) + Len(b) :
            (a \o b)[i] = IF i <= Len(a) THEN a[i] ELSE b[i - Len(a)]
      /\ Len(a) \in Nat /\ Len(b) \in Nat
  BY ConcatProperties, LenProperties
<1> DEFINE c == a \o b
<1>2. /\ ToSet(a) = {a[i] : i \in 1 .. Len(a)} /\ ToSet(b) = {b[i] : i \in 1 .. Len(b)}
      /\ ToSet(c) = {c[i] : i \in 1 .. Len(c)}
  BY <1>1, SetOf
<1>3. Len(c) = Len(a) + Len(b) /\ \A i \in 1 .. Len(a) : c[i] = a[i]
  BY <1>1
<1>4. \A i \in 1 .. Len(b) : c[Len(a) + i] = b[i] /\ Len(a) + i \in 1 .. Len(c)
  BY <1>1
<1>5. \A i \in 1 .. Len(c) : i \in 1 .. Len(a) \/ (i - Len(a) \in 1 .. Len(b) /\ c[i] = b[i - Len(a)])
  BY <1>1
<1>6. 1 .. Len(a) \subseteq 1 .. Len(c)
  BY <1>1
<1> HIDE DEF c
<1>7. ToSet(c) \subseteq ToSet(a) \cup ToSet(b)
  BY <1>2, <1>3, <1>5
<1>8. ToSet(a) \subseteq ToSet(c) /\ ToSet(b) \subseteq ToSet(c)
  BY <1>2, <1>3, <1>4, <1>6
<1> QED BY <1>1, <1>7, <1>8 DEF c

(* What is in the flattening of a sequence of sequences.                   *)
LEMMA FlattenRange ==
  ASSUME NEW T, NEW s \in Seq(Seq(T))
  PROVE  /\ FlattenSeq(s) \in Seq(T)
         /\ ToSet(FlattenSeq(s)) = UNION {ToSet(s[k]) : k \in 1 .. Len(s)}
<1>1. Len(s) \in Nat /\ \A k \in 1 .. Len(s) : s[k] \in Seq(T)
  BY LenProperties
<1>2. CASE Len(s) = 0
  <2>1. FlattenSeq(s) = s
    BY <1>1, <1>2, FlattenIs
  <2>2. s = <<>> /\ ToSet(<<>>) = {}
    BY <1>2, EmptySeq DEF ToSet
  <2>3. s \in Seq(T)
    BY <2>2, EmptySeq
  <2>4. UNION {ToSet(s[k]) : k \in 1 .. Len(s)} = {}
    BY <1>2
  <2> QED BY <2>1, <2>2, <2>3, <2>4
<1>3. CASE Len(s) # 0
  <2>1. PICK g : Flattens(g, s, Len(s)) /\ FlattenSeq(s) = g[Len(s)]
    BY <1>1, <1>3, FlattenIs
  <2> DEFINE P == {n \in Nat : n \in 1 .. Len(s) =>
                     g[n] \in Seq(T) /\ ToSet(g[n]) = UNION {ToSet(s[k]) : k \in 1 .. n}}
  <2>2. 0 \in P
    BY <1>1
  <2>3. ASSUME NEW n \in Nat, n \in P PROVE n + 1 \in P
    <3> SUFFICES ASSUME n + 1 \in 1 .. Len(s)
                 PROVE  /\ g[n + 1] \in Seq(T)
                        /\ ToSet(g[n + 1]) = UNION {ToSet(s[k]) : k \in 1 .. n + 1}
      OBVIOUS
    <3>1. g[n + 1] = FlatStep(s, g, n + 1)
      BY <2>1 DEF Flattens
    <3>2. s[n + 1] \in Seq(T)
      BY <1>1
    <3>3. CASE n = 0
      <4>1. g[1] = s[1]
        BY <3>1, <3>3 DEF FlatStep
      <4>2. UNION {ToSet(s[k]) : k \in 1 .. 1} = ToSet(s[1])
        OBVIOUS
      <4> QED BY <4>1, <4>2, <3>2, <3>3
    <3>4. CASE n # 0
      <4>1. g[n + 1] = g[n] \o s[n + 1]
        <5>1. n + 1 # 1 /\ (n + 1) - 1 = n
          BY <3>4
        <5> QED BY <3>1, <5>1 DEF FlatStep
      <4>2. g[n] \in Seq(T) /\ ToSet(g[n]) = UNION {ToSet(s[k]) : k \in 1 .. n}
        BY <1>1, <2>3, <3>4
      <4>3. /\ g[n] \o s[n + 1] \in Seq(T)
            /\ ToSet(g[n] \o s[n + 1]) = ToSet(g[n]) \cup ToSet(s[n + 1])
        BY <3>2, <4>2, ConcatRange
      <4>4. \A k : k \in 1 .. n + 1 <=> k \in 1 .. n \/ k = n + 1
        OBVIOUS
      <4>5. UNION {ToSet(s[k]) : k \in 1 .. n + 1} =
               (UNION {ToSet(s[k]) : k \in 1 .. n}) \cup ToSet(s[n + 1])
        BY <4>4, Zenon
      <4> QED BY <4>1, <4>2, <4>3, <4>5
    <3> QED BY <3>3, <3>4
  <2> HIDE DEF P
  <2>4. Nat \subseteq P
    BY <2>2, <2>3, SetInduction
  <2>5. Len(s) \in P /\ Len(s) \in 1 .. Len(s)
    BY <1>1, <1>3, <2>4
  <2> QED BY <2>1, <2>5 DEF P
<1> QED BY <1>2, <1>3


-----------------------------------------------------------------------------
(* The result's values: as long as what its fields are.                    *)

LEMMA LengthOfIs ==
  ASSUME NEW there
  PROVE  LET n == LengthOf(there)
         IN  n \in 0 .. MaxNumber /\ 1 .. n \subseteq there /\ (n = MaxNumber \/ n + 1 \notin there)
<1> DEFINE T == {n \in 0 .. MaxNumber : n = MaxNumber \/ n + 1 \notin there}
<1>1. MaxNumber \in Nat
  BY WordsAssumption
<1>2. T \subseteq Nat /\ T # {}
  <2>1. MaxNumber \in T
    BY <1>1
  <2> QED BY <1>1, <2>1
<1>3. PICK n \in T : \A m \in T : n <= m
  <2> HIDE DEF T
  <2> QED BY <1>2, LeastMember
<1>4. 1 .. n \subseteq there
  <2> SUFFICES ASSUME NEW i \in 1 .. n PROVE i \in there
    OBVIOUS
  <2>1. i - 1 \in 0 .. MaxNumber /\ i - 1 # MaxNumber /\ ~(n <= i - 1)
    BY <1>1
  <2>2. i - 1 \notin T
    BY <1>3, <2>1
  <2>3. (i - 1) + 1 = i
    OBVIOUS
  <2> QED BY <2>1, <2>2, <2>3
<1>5. n \in 0 .. MaxNumber /\ 1 .. n \subseteq there /\ (n = MaxNumber \/ n + 1 \notin there)
  BY <1>4
<1> QED BY <1>5 DEF LengthOf

(* A sequence, and one of those, of a length that has a numeral.           *)
Row(v) == \E n \in 0 .. MaxNumber : DOMAIN v = 1 .. n
Shaped(f, v) ==
    /\ f.kind = "vec" => Row(v)
    /\ f.kind = "mat" => Row(v) /\ \A b \in DOMAIN v : Row(v[b])

LEMMA FieldShaped ==
  ASSUME Good(stage), args \in Args, NEW k \in DOMAIN stage.wire, NEW v
  PROVE  Shaped(stage.wire[k], FieldOf(stage.wire[k], stage.shape[args.batch][k], v))
<1> DEFINE f == stage.wire[k]
           n == stage.shape[args.batch][k]
           w == FieldOf(f, n, v)
<1>1. /\ Len(n) \in Nat /\ DOMAIN n = 1 .. Len(n) /\ \A i \in DOMAIN n : n[i] \in 0 .. MaxNumber
      /\ f.kind = "vec" => Len(n) = 1
      /\ f.kind = "mat" => Len(n) \in 0 .. MaxNumber
  BY LengthsAre
<1> HIDE DEF n
<1>2. CASE f.kind = "vec"
  <2>1. w = [i \in 1 .. n[1] |-> Of(v, Nth(f.name, i - 1))]
    BY <1>2 DEF FieldOf
  <2>2. n[1] \in 0 .. MaxNumber
    BY <1>1, <1>2
  <2> QED BY <1>2, <2>1, <2>2 DEF Shaped, Row, n
<1>3. CASE f.kind = "mat"
  <2>1. w = [b \in DOMAIN n |-> [i \in 1 .. n[b] |-> Of(v, Nth(Nth(f.name, b - 1), i - 1))]]
    BY <1>3 DEF FieldOf
  <2>2. DOMAIN w = 1 .. Len(n) /\ \A b \in DOMAIN w : DOMAIN w[b] = 1 .. n[b]
    BY <1>1, <2>1
  <2>3. Row(w) /\ \A b \in DOMAIN w : Row(w[b])
    BY <1>1, <1>3, <2>2 DEF Row
  <2> QED BY <1>3, <2>3 DEF Shaped, n
<1>4. CASE f.kind \notin {"vec", "mat"}
  BY <1>4 DEF Shaped
<1> QED BY <1>2, <1>3, <1>4

LEMMA RehydratedShaped == ASSUME NEW f PROVE Shaped(f, Rehydrated(f))
<1>1. \A base : Row(Elements(base))
  BY LengthOfIs DEF Elements, Row
<1>2. \A base : Row(Rows(base)) /\ \A b \in DOMAIN Rows(base) : Row(Rows(base)[b])
  BY <1>1, LengthOfIs DEF Rows, Row
<1>3. f.kind = "vec" => Rehydrated(f) = Elements(ProbeBase(f))
  BY DEF Rehydrated
<1>4. f.kind = "mat" => Rehydrated(f) = Rows(ProbeBase(f))
  BY DEF Rehydrated
<1> QED BY <1>1, <1>2, <1>3, <1>4 DEF Shaped

ResultRight(k) ==
    Active /\ ~Probing /\ ~Left("rehydrate", k) =>
      stage.wire[k].name \in DOMAIN result /\ Shaped(stage.wire[k], result[stage.wire[k].name])
RInv == \A k \in DOMAIN stage.wire : ResultRight(k)

-----------------------------------------------------------------------------
(* What a wire is written as is in its directory.                          *)

Under(d, s) == (\E T : s \in Seq(T)) /\ \A x \in ToSet(s) : x.path[1] = d

\* A list of n lists, and all that is in them.
Listing(s, n) == s = [k \in 1 .. n |-> s[k]]
Listed(s, n) == UNION {ToSet(s[k]) : k \in 1 .. n}

LEMMA FlattenUnder ==
  ASSUME NEW d, NEW n \in Nat, NEW s, Listing(s, n), \A k \in 1 .. n : Under(d, s[k])
  PROVE  Under(d, FlattenSeq(s)) /\ ToSet(FlattenSeq(s)) = Listed(s, n)
<1> USE DEF Listing, Listed
<1> DEFINE T == UNION {ToSet(s[k]) : k \in 1 .. n}
<1>1. ASSUME NEW k \in 1 .. n PROVE s[k] \in Seq(T)
  <2> DEFINE x == s[k]
  <2>1. PICK S : x \in Seq(S)
    BY DEF Under
  <2> HIDE DEF x
  <2>2. Len(x) \in Nat /\ DOMAIN x = 1 .. Len(x) /\ x = [i \in 1 .. Len(x) |-> x[i]]
    BY <2>1, LenProperties
  <2>3. \A i \in 1 .. Len(x) : x[i] \in T
    BY <2>2 DEF ToSet, x
  <2> HIDE DEF T
  <2>4. [i \in 1 .. Len(x) |-> x[i]] \in Seq(T)
    BY <2>2, <2>3
  <2> QED BY <2>2, <2>4 DEF x
<1>2. \A x \in T : x.path[1] = d
  BY DEF Under
<1> HIDE DEF T
<1>3. s \in Seq(Seq(T)) /\ Len(s) = n
  <2>1. [k \in 1 .. n |-> s[k]] \in Seq(Seq(T)) /\ Len([k \in 1 .. n |-> s[k]]) = n
    BY <1>1
  <2> QED BY <2>1
<1>4. FlattenSeq(s) \in Seq(T) /\ ToSet(FlattenSeq(s)) = UNION {ToSet(s[k]) : k \in 1 .. n}
  BY <1>3, FlattenRange
<1>5. UNION {ToSet(s[k]) : k \in 1 .. n} = T
  BY DEF T
<1>6. ToSet(FlattenSeq(s)) = T
  BY <1>4, <1>5
<1>7. Under(d, FlattenSeq(s))
  BY <1>2, <1>4, <1>6 DEF Under
<1> QED BY <1>6, <1>7 DEF T

LEMMA ElementsUnder ==
  ASSUME NEW d, NEW dir, dir = <<d>> \/ (\E e : dir = <<d, e>>), NEW f, NEW v, Row(v)
  PROVE  LET s == SerializeElements(dir, f, v)
         IN  /\ Under(d, s)
             /\ ToSet(s) = {Write(File(dir, Nth(f.name, i - 1)), v[i]) : i \in DOMAIN v}
<1>1. PICK n \in 0 .. MaxNumber : DOMAIN v = 1 .. n
  BY DEF Row
<1> DEFINE w(i) == Write(File(dir, Nth(f.name, i - 1)), v[i])
           s == [i \in 1 .. n |-> w(i)]
           T == {w(i) : i \in 1 .. n}
<1>2. n \in Nat
  BY <1>1, WordsAssumption
<1>3. \A i \in 1 .. n : w(i).path[1] = d
  BY DEF Write, File
<1>4. SerializeElements(dir, f, v) = s
  BY <1>1 DEF SerializeElements
<1>5. s \in Seq(T) /\ ToSet(s) = T
  <2>1. \A i \in 1 .. n : w(i) \in T
    OBVIOUS
  <2> HIDE DEF w, T
  <2>2. s \in Seq(T) /\ DOMAIN s = 1 .. n /\ \A i \in 1 .. n : s[i] = w(i)
    BY <1>2, <2>1
  <2> HIDE DEF s
  <2>3. ToSet(s) = T
    BY <2>2 DEF ToSet, T
  <2> QED BY <2>2, <2>3
<1>6. Under(d, s)
  BY <1>3, <1>5 DEF Under
<1> QED BY <1>1, <1>4, <1>5, <1>6

(* The directory of a row, then its elements.                              *)
RowWrites(dir, f, row, b) ==
    <<MakeDir(BatchDir(dir, b - 1))>> \o SerializeElements(BatchDir(dir, b - 1), f, row)

LEMMA AppendToOne == ASSUME NEW d, NEW e PROVE Append(<<d>>, e) = <<d, e>>
<1> DEFINE S == {d, e}
           a == <<d>>
           p == <<d, e>>
<1>1. a \in Seq(S) /\ Len(a) = 1 /\ a[1] = d /\ p \in Seq(S) /\ Len(p) = 2 /\ p[1] = d /\ p[2] = e /\ e \in S
  OBVIOUS
<1> HIDE DEF a, p, S
<1>2. Append(a, e) \in Seq(S) /\ Len(Append(a, e)) = 2 /\ Append(a, e)[1] = d /\ Append(a, e)[2] = e
  <2>1. a \in Seq(S) /\ e \in S
    BY <1>1
  <2>2. /\ Append(a, e) \in Seq(S) /\ Len(Append(a, e)) = Len(a) + 1
        /\ \A i \in 1 .. Len(a) : Append(a, e)[i] = a[i]
        /\ Append(a, e)[Len(a) + 1] = e
    BY <2>1, AppendProperties
  <2> QED BY <1>1, <2>2
<1>3. \A i \in 1 .. 2 : Append(a, e)[i] = p[i]
  <2>1. \A i \in 1 .. 2 : i = 1 \/ i = 2
    OBVIOUS
  <2> QED BY <1>1, <1>2, <2>1
<1>4. Append(a, e) = p
  BY <1>1, <1>2, <1>3, SeqEqual
<1> QED BY <1>4 DEF a, p

LEMMA RowUnder ==
  ASSUME NEW d, NEW f, NEW row, Row(row), NEW b
  PROVE  LET s == RowWrites(<<d>>, f, row, b)
             dir == BatchDir(<<d>>, b - 1)
         IN  /\ Under(d, s)
             /\ ToSet(s) = {MakeDir(dir)} \cup {Write(File(dir, Nth(f.name, i - 1)), row[i]) : i \in DOMAIN row}
<1> DEFINE dir == BatchDir(<<d>>, b - 1)
           new == MakeDir(dir)
           u == SerializeElements(dir, f, row)
<1>1. dir = <<d, Nth(<<"batch">>, b - 1)>> /\ new.path[1] = d
  <2>1. dir = <<d, Nth(<<"batch">>, b - 1)>>
    BY AppendToOne DEF BatchDir
  <2>2. new.path = dir
    BY DEF MakeDir
  <2> HIDE DEF dir, new
  <2> QED BY <2>1, <2>2
<1> HIDE DEF dir
<1>2. Under(d, u) /\ ToSet(u) = {Write(File(dir, Nth(f.name, i - 1)), row[i]) : i \in DOMAIN row}
  BY <1>1, ElementsUnder
<1>3. PICK S : u \in Seq(S)
  BY <1>2 DEF Under
<1> HIDE DEF u, new
<1> DEFINE T == S \cup {new}
           a == <<new>>
<1>4. new \in T /\ S \subseteq T
  OBVIOUS
<1> HIDE DEF T
<1>5. u \in Seq(T) /\ a \in Seq(T) /\ ToSet(a) = {new}
  <2>1. u \in Seq(T)
    BY <1>3, <1>4, SeqMonotonic
  <2> QED BY <1>4, <2>1 DEF ToSet
<1> HIDE DEF a
<1>6. a \o u \in Seq(T) /\ ToSet(a \o u) = {new} \cup ToSet(u)
  BY <1>5, ConcatRange
<1>7. \A x \in ToSet(a \o u) : x.path[1] = d
  BY <1>1, <1>2, <1>6 DEF Under
<1>8. Under(d, a \o u)
  BY <1>6, <1>7 DEF Under
<1>9. RowWrites(<<d>>, f, row, b) = a \o u
  BY DEF RowWrites, a, u, new, dir
<1> QED BY <1>2, <1>6, <1>8, <1>9 DEF new, dir

SequenceWrites(d, f, v) == {Write(File(<<d>>, Nth(f.name, i - 1)), v[i]) : i \in DOMAIN v}
MatrixRows(d, f, v) == UNION {ToSet(RowWrites(<<d>>, f, v[b], b)) : b \in DOMAIN v}

LEMMA FieldUnder ==
  ASSUME NEW d, NEW f, f.kind \in Kinds, NEW v, Shaped(f, v)
  PROVE  LET s == SerializeField(<<d>>, f, v)
         IN  /\ Under(d, s)
             /\ f.kind \in {"enc", "plain"} => ToSet(s) = {Write(File(<<d>>, f.name), v)}
             /\ f.kind = "vec" => ToSet(s) = SequenceWrites(d, f, v)
             /\ f.kind = "mat" => ToSet(s) = MatrixRows(d, f, v)
<1>1. CASE f.kind \in {"enc", "plain"}
  <2> DEFINE x == Write(File(<<d>>, f.name), v)
  <2>1. SerializeField(<<d>>, f, v) = <<x>>
    BY <1>1 DEF SerializeField
  <2>2. x.path[1] = d
    BY DEF Write, File
  <2> HIDE DEF x
  <2>3. <<x>> \in Seq({x}) /\ ToSet(<<x>>) = {x}
    BY DEF ToSet
  <2>4. Under(d, <<x>>)
    BY <2>2, <2>3 DEF Under
  <2> QED BY <1>1, <2>1, <2>3, <2>4 DEF x
<1>2. CASE f.kind = "vec"
  <2>1. SerializeField(<<d>>, f, v) = SerializeElements(<<d>>, f, v)
    BY <1>2 DEF SerializeField
  <2>2. ToSet(SerializeElements(<<d>>, f, v)) = SequenceWrites(d, f, v) /\ Under(d, SerializeElements(<<d>>, f, v))
    BY <1>2, ElementsUnder DEF Shaped, SequenceWrites
  <2> QED BY <1>2, <2>1, <2>2
<1>3. CASE f.kind = "mat"
  <2>1. PICK n \in 0 .. MaxNumber : DOMAIN v = 1 .. n
    BY <1>3 DEF Shaped, Row
  <2>2. n \in Nat
    BY <2>1, WordsAssumption
  <2> DEFINE s == [b \in 1 .. n |-> RowWrites(<<d>>, f, v[b], b)]
  <2>3. SerializeField(<<d>>, f, v) = FlattenSeq(s)
    BY <1>3, <2>1 DEF SerializeField, RowWrites
  <2>4. \A b \in 1 .. n : Under(d, s[b]) /\ s[b] = RowWrites(<<d>>, f, v[b], b)
    <3> TAKE b \in 1 .. n
    <3>1. Row(v[b]) /\ s[b] = RowWrites(<<d>>, f, v[b], b)
      BY <1>3, <2>1 DEF Shaped
    <3>2. Under(d, RowWrites(<<d>>, f, v[b], b))
      BY <2>1, <3>1, RowUnder
    <3> QED BY <3>1, <3>2
  <2>5. s = [k \in 1 .. n |-> s[k]]
    OBVIOUS
  <2> HIDE DEF s
  <2>8. \A b \in 1 .. n : Under(d, s[b])
    BY <2>4
  <2>6. Under(d, FlattenSeq(s)) /\ ToSet(FlattenSeq(s)) = UNION {ToSet(s[k]) : k \in 1 .. n}
    <3>1. Listing(s, n)
      BY <2>5 DEF Listing
    <3>2. Under(d, FlattenSeq(s)) /\ ToSet(FlattenSeq(s)) = Listed(s, n)
      BY <2>2, <2>8, <3>1, FlattenUnder
    <3> QED BY <3>2 DEF Listed
  <2>7. UNION {ToSet(s[k]) : k \in 1 .. n} = MatrixRows(d, f, v)
    BY <2>1, <2>4 DEF MatrixRows
  <2> QED BY <1>3, <2>3, <2>6, <2>7
<1> QED BY <1>1, <1>2, <1>3 DEF Kinds

LEMMA WireUnder ==
  ASSUME Good(stage), NEW d, NEW w, \A k \in DOMAIN stage.wire : Shaped(stage.wire[k], w[stage.wire[k].name])
  PROVE  LET s == SerializeWire(<<d>>, stage.wire, w)
         IN  /\ Under(d, s)
             /\ ToSet(s) = UNION {ToSet(SerializeField(<<d>>, stage.wire[k], w[stage.wire[k].name])) : k \in DOMAIN stage.wire}
<1> DEFINE n == Len(stage.wire)
           F(k) == SerializeField(<<d>>, stage.wire[k], w[stage.wire[k].name])
           s == [k \in 1 .. n |-> F(k)]
<1>1. n \in Nat /\ DOMAIN stage.wire = 1 .. n /\ \A k \in 1 .. n : stage.wire[k].kind \in Kinds
  <2>1. stage.wire \in Seq(Fields)
    BY StageIs DEF Good
  <2>2. n \in Nat /\ DOMAIN stage.wire = 1 .. n
    BY <2>1, SetOf
  <2> QED BY <2>2, FieldIs
<1>2. SerializeWire(<<d>>, stage.wire, w) = FlattenSeq(s)
  BY <1>1 DEF SerializeWire
<1>3. \A k \in 1 .. n : Under(d, F(k))
  BY <1>1, FieldUnder
<1>4. s = [k \in 1 .. n |-> s[k]] /\ \A k \in 1 .. n : s[k] = F(k)
  OBVIOUS
<1> HIDE DEF n, F, s
<1>5. Under(d, FlattenSeq(s)) /\ ToSet(FlattenSeq(s)) = UNION {ToSet(s[k]) : k \in 1 .. n}
  <2>1. Listing(s, n) /\ \A k \in 1 .. n : Under(d, s[k])
    BY <1>3, <1>4 DEF Listing
  <2>2. Under(d, FlattenSeq(s)) /\ ToSet(FlattenSeq(s)) = Listed(s, n)
    BY <1>1, <2>1, FlattenUnder
  <2> QED BY <2>2 DEF Listed
<1>6. UNION {ToSet(s[k]) : k \in 1 .. n} = UNION {ToSet(F(k)) : k \in DOMAIN stage.wire}
  BY <1>1, <1>4
<1> QED BY <1>2, <1>5, <1>6 DEF F

(* Whatever the stage writes, it writes in its output directory.           *)
LEMMA WrittenUnder ==
  ASSUME Good(stage), \A k \in DOMAIN stage.wire : Shaped(stage.wire[k], result[stage.wire[k].name])
  PROVE  Under(OutputDir(args)[1], Written)
<1> DEFINE d == Nth(<<"out">>, args.inst)
<1>1. OutputDir(args) = <<d>> /\ OutputDir(args)[1] = d
  BY DEF OutputDir
<1> HIDE DEF d
<1>2. stage.writes \in {"wire", "indexed", "nothing"} /\ stage.wire \in Seq(Fields)
  BY StageIs DEF Good
<1>3. CASE stage.writes = "wire"
  BY <1>1, <1>3, WireUnder DEF Written
<1>4. CASE stage.writes = "indexed"
  <2> DEFINE n == Len(stage.wire)
             N(k) == Nth(ResultStem, stage.index[args.batch]) \o (IF Len(stage.wire) = 1 THEN <<>> ELSE stage.wire[k].name)
             x(k) == Write(File(<<d>>, N(k)), result[stage.wire[k].name])
             T == {x(k) : k \in 1 .. n}
  <2>1. n \in Nat /\ DOMAIN stage.wire = 1 .. n
    BY <1>2, LenProperties
  <2>2. SerializeIndexed = [k \in 1 .. n |-> x(k)]
    BY <1>1, <2>1 DEF SerializeIndexed, IndexedFile
  <2>3. ASSUME NEW k PROVE x(k).path[1] = d
    <3>1. File(<<d>>, N(k))[1] = d
      BY AppendToOne DEF File
    <3> HIDE DEF N
    <3> QED BY <3>1 DEF Write
  <2>4. \A k \in 1 .. n : x(k) \in T
    OBVIOUS
  <2> HIDE DEF n, x, T
  <2>5. [k \in 1 .. n |-> x(k)] \in Seq(T) /\ ToSet([k \in 1 .. n |-> x(k)]) = {x(k) : k \in 1 .. n}
    BY <2>1, <2>4 DEF ToSet
  <2> QED BY <1>1, <1>4, <2>2, <2>3, <2>5 DEF Written, Under
<1>5. CASE stage.writes = "nothing"
  <2>1. <<>> \in Seq({}) /\ ToSet(<<>>) = {}
    BY DEF ToSet
  <2> QED BY <1>5, <2>1 DEF Written, Under
<1> QED BY <1>2, <1>3, <1>4, <1>5

-----------------------------------------------------------------------------
(* Every step keeps the order of main() and the shape of the result.       *)

LEMMA SerializeIs ==
  ASSUME Base, RInv, Serialize
  PROVE  LET ws == Written
         IN  /\ Under(OutputDir(args)[1], ws)
             /\ todo' = [i \in 1 .. Len(ws) |-> <<"write", ws[i]>>] /\ Len(ws) \in Nat /\ DOMAIN ws = 1 .. Len(ws)
             /\ Ordered'
<1> DEFINE d == Nth(<<"out">>, args.inst)
           ws == Written
           writes == [k \in DOMAIN ws |-> <<"write", ws[k]>>]
<1>1. /\ UNCHANGED <<stage, args, exit, result, probes, cache, files, input, runs>>
      /\ OutputDir(args) = <<d>> /\ OutputDir(args)[1] = d /\ OutputDir(args)' = OutputDir(args)
      /\ todo' = writes \o Tail(todo)
  BY DEF Serialize, OutputDir
<1>2. Tail(todo) = <<>> /\ ~Probing /\ Active /\ Good(stage) /\ \A j : ~Left("rehydrate", j)
  BY SerializeLast
<1>3. \A k \in DOMAIN stage.wire : Shaped(stage.wire[k], result[stage.wire[k].name])
  BY <1>2 DEF RInv, ResultRight
<1>4. Under(d, ws)
  BY <1>1, <1>2, <1>3, WrittenUnder
<1>5. PICK T : ws \in Seq(T)
  BY <1>4 DEF Under
<1> HIDE DEF d
<1>6. Len(ws) \in Nat /\ DOMAIN ws = 1 .. Len(ws) /\ \A i \in 1 .. Len(ws) : ws[i] \in T /\ ws[i].path[1] = d
  BY <1>4, <1>5, LenProperties DEF Under, ToSet
<1> HIDE DEF ws
<1> DEFINE n == Len(ws)
           S == {<<"write", x>> : x \in T}
<1>7. writes = [i \in 1 .. n |-> <<"write", ws[i]>>]
  BY <1>6
<1>8. writes \in Seq(S) /\ DOMAIN writes = 1 .. n /\ \A i \in 1 .. n : writes[i] = <<"write", ws[i]>>
  <2>1. \A i \in 1 .. n : <<"write", ws[i]>> \in S
    BY <1>6
  <2> HIDE DEF S
  <2>2. [i \in 1 .. n |-> <<"write", ws[i]>>] \in Seq(S)
    BY <1>6, <2>1
  <2> QED BY <1>7, <2>2
<1> HIDE DEF S, writes
<1>9. todo' = writes
  BY <1>1, <1>2, <1>8, ConcatEmptySeq
<1>10. ASSUME NEW i \in DOMAIN todo' PROVE StepRight(i)'
  <2>1. todo'[i] = <<"write", ws[i]>> /\ ws[i].path[1] = OutputDir(args)'[1]
    BY <1>1, <1>6, <1>8, <1>9
  <2>2. \A j \in DOMAIN todo' : todo'[j][1] = "write"
    BY <1>8, <1>9
  <2> QED BY <2>1, <2>2 DEF StepRight
<1>11. Ordered'
  BY <1>8, <1>9, <1>10 DEF Ordered
<1> QED BY <1>1, <1>4, <1>6, <1>7, <1>9, <1>11 DEF ws

LEMMA BaseNext == Base /\ RInv /\ [Next]_vars => Base'
<1> SUFFICES ASSUME Base, RInv, [Next]_vars PROVE Base'
  OBVIOUS
<1>1. CASE Compile
  BY <1>1 DEF Compile, Base, Active, Good
<1>2. CASE Begin
  <2>1. Good(stage)' = Good(stage)
    BY <1>2, BeginIs, Kept
  <2> QED BY <1>2, <2>1, BeginIs DEF Base
<1>3. CASE Save \/ Probe \/ Stop \/ WriteFile
  <2>1. /\ exit = "running" /\ todo # <<>> /\ todo' = Tail(todo) /\ UNCHANGED <<stage, args, exit>>
        /\ DOMAIN cache \subseteq DOMAIN cache'
    BY <1>3 DEF Save, Probe, Stop, WriteFile, Step, Goes, Over, One
  <2> QED BY <2>1, OneStep
<1>4. ASSUME UNCHANGED <<stage, cache>>, exit = "running", ~Active' PROVE Base'
  BY <1>4, Kept DEF Base, Active
<1>5. CASE Replay
  <2>1. CASE Fails
    BY <1>4, <1>5, <2>1 DEF Replay, Step, Fails, Active
  <2>2. CASE ~Fails
    <3>1. exit = "running" /\ todo # <<>> /\ todo' = Tail(todo) /\ UNCHANGED <<stage, args, exit, cache>>
      BY <1>5, <2>2 DEF Replay, Step, Goes
    <3> QED BY <3>1, OneStep
  <2> QED BY <2>1, <2>2
<1>6. CASE Rehydrate
  <2>1. CASE Fails
    BY <1>4, <1>6, <2>1 DEF Rehydrate, Step, Fails, Active
  <2>2. CASE ~Fails
    <3>1. exit = "running" /\ todo # <<>> /\ todo' = Tail(todo) /\ UNCHANGED <<stage, args, exit, cache>>
      BY <1>6, <2>2 DEF Rehydrate, Step, Goes
    <3> QED BY <3>1, OneStep
  <2> QED BY <2>1, <2>2
<1>7. CASE Restore
  <2>1. exit = "running" /\ todo # <<>> /\ UNCHANGED <<stage, args, cache>>
    BY <1>7 DEF Restore, Step
  <2>2. CASE todo' = Tail(todo) /\ UNCHANGED exit
    BY <2>1, <2>2, OneStep
  <2>3. CASE exit' = "failed"
    BY <1>4, <2>1, <2>3 DEF Active
  <2> QED BY <1>7, <2>2, <2>3 DEF Restore
<1>8. CASE Serialize
  <2>1. Ordered' /\ Active' /\ UNCHANGED <<stage, args, exit, cache>> /\ exit = "running"
    BY <1>8, SerializeIs, SerializeLast DEF Serialize, Step
  <2> QED BY <2>1, Kept DEF Base, Active
<1>9. CASE Exit \/ UNCHANGED vars
  <2>1. /\ UNCHANGED <<stage, args, todo, cache>>
        /\ UNCHANGED exit \/ (exit = "running" /\ todo = <<>> /\ exit' = "ok")
    BY <1>9 DEF Exit, vars
  <2>2. Ordered' = Ordered
    BY <2>1 DEF Ordered, StepRight, OutputDir, CacheKey
  <2> QED BY <2>1, <2>2, Kept DEF Base, Active
<1>10. CASE Kill
  BY <1>4, <1>10 DEF Kill, Active
<1>11. CASE Encrypt
  BY <1>11, Kept DEF Encrypt, Base, Active
<1> QED BY <1>1, <1>2, <1>3, <1>5, <1>6, <1>7, <1>8, <1>9, <1>10, <1>11 DEF Next

LEMMA RInvNext == Base /\ RInv /\ [Next]_vars => RInv'
<1> SUFFICES ASSUME Base, RInv, [Next]_vars PROVE RInv'
  OBVIOUS
<1>1. ASSUME ~Active' PROVE RInv'
  BY <1>1 DEF RInv, ResultRight
<1>2. CASE Compile \/ Kill \/ Encrypt \/ exit' = "failed"
  BY <1>1, <1>2 DEF Compile, Kill, Encrypt, Base, Active
<1>3. CASE Begin
  <2>1. stage' = stage /\ \A k \in DOMAIN stage.wire : Probing' \/ Left("rehydrate", k)'
    BY <1>3, BeginIs
  <2> QED BY <2>1 DEF RInv, ResultRight
<1>4. ASSUME UNCHANGED <<stage, result>>, Active,
             \A k : ~Left("rehydrate", k)' => ~Left("rehydrate", k), ~Probing' => ~Probing
      PROVE  RInv'
  BY <1>4 DEF RInv, ResultRight
<1>5. ASSUME exit = "running", todo # <<>>, todo' = Tail(todo), UNCHANGED <<stage, args, exit, result>>,
             DOMAIN cache \subseteq DOMAIN cache', Head(todo)[1] \notin {"probe", "rehydrate"}
      PROVE  RInv'
  <2>1. /\ Active /\ \A tag, j : Left(tag, j) => Left(tag, j)' \/ Head(todo) = <<tag, j>>
        /\ Probing => Probing' \/ Head(todo)[1] = "probe"
    BY <1>5, OneStep
  <2>2. \A j : Head(todo) # <<"rehydrate", j>>
    BY <1>5
  <2> QED BY <1>4, <1>5, <2>1, <2>2
<1>6. CASE Save \/ Stop \/ WriteFile
  BY <1>5, <1>6 DEF Save, Stop, WriteFile, Step, Goes, Over, One
<1>7. CASE Replay /\ exit' # "failed"
  BY <1>5, <1>7 DEF Replay, Step, Goes, Fails
<1>8. CASE Restore /\ exit' # "failed"
  BY <1>5, <1>8 DEF Restore, Step
<1>9. CASE Exit \/ UNCHANGED vars
  <2>1. UNCHANGED <<stage, result, todo>> /\ (Active' => Active)
    BY <1>9 DEF Exit, vars, Active
  <2>2. Probing' = Probing /\ \A k : Left("rehydrate", k)' = Left("rehydrate", k)
    BY <2>1 DEF Probing, Left
  <2> QED BY <1>1, <1>4, <2>1, <2>2
<1>10. CASE Serialize
  <2>1. Active /\ ~Probing /\ \A j : ~Left("rehydrate", j)
    BY <1>10, SerializeLast
  <2> QED BY <1>4, <1>10, <2>1 DEF Serialize
<1>11. CASE Probe
  <2>1. /\ stage' = stage /\ result' = ResultOf(stage, args, Computed(<<>>)) /\ Good(stage) /\ args \in Args
    BY <1>11, OneStep DEF Probe, Step, Goes, Base, Active
  <2>2. ASSUME NEW k \in DOMAIN stage.wire
        PROVE  /\ stage.wire[k].name \in DOMAIN result'
               /\ Shaped(stage.wire[k], result'[stage.wire[k].name])
    <3>1. stage.wire[k].name \in DOMAIN result'
      BY <2>1 DEF ResultOf
    <3>2. result'[stage.wire[k].name] = FieldOf(stage.wire[k], stage.shape[args.batch][k], Computed(<<>>))
      BY <2>1, ResultField
    <3> QED BY <2>1, <3>1, <3>2, FieldShaped
  <2> QED BY <2>1, <2>2 DEF RInv, ResultRight
<1>12. CASE Rehydrate /\ exit' # "failed"
  <2> DEFINE i == Operand
             f == stage.wire[i]
  <2>1. /\ exit = "running" /\ todo # <<>> /\ todo' = Tail(todo) /\ UNCHANGED <<stage, args, exit, cache>>
        /\ Head(todo)[1] = "rehydrate"
        /\ result' = Over(One(f.name, Rehydrated(f)), result)
    BY <1>12 DEF Rehydrate, Step, Goes, Fails
  <2>2. /\ Active /\ Good(stage) /\ StepRight(1) /\ 1 \in DOMAIN todo /\ Head(todo) = todo[1]
        /\ \A tag, j : Left(tag, j) => Left(tag, j)' \/ Head(todo) = <<tag, j>>
        /\ Probing => Probing' \/ Head(todo)[1] = "probe"
    BY <2>1, OneStep
  <2>3. i \in DOMAIN stage.wire
    BY <2>1, <2>2 DEF StepRight, Operand
  <2>4. \A j : Head(todo) = <<"rehydrate", j>> => j = i
    BY DEF Operand
  <2>5. /\ f.name \in DOMAIN result' /\ result'[f.name] = Rehydrated(f)
        /\ \A x \in DOMAIN result : x \in DOMAIN result' /\ (x # f.name => result'[x] = result[x])
    BY <2>1 DEF Over, One
  <2>6. ASSUME NEW k \in DOMAIN stage.wire, ~Probing', ~Left("rehydrate", k)'
        PROVE  /\ stage.wire[k].name \in DOMAIN result'
               /\ Shaped(stage.wire[k], result'[stage.wire[k].name])
    <3>1. CASE k = i
      BY <2>5, <3>1, RehydratedShaped
    <3>2. CASE k # i
      <4>1. stage.wire[k].name # f.name
        BY <2>2, <2>3, <3>2, StageIs DEF Good
      <4>2. ~Probing /\ ~Left("rehydrate", k)
        BY <2>1, <2>2, <2>4, <2>6, <3>2
      <4> QED BY <2>2, <2>5, <4>1, <4>2 DEF RInv, ResultRight
    <3> QED BY <3>1, <3>2
  <2> QED BY <2>1, <2>6 DEF RInv, ResultRight
<1> QED BY <1>2, <1>3, <1>6, <1>7, <1>8, <1>9, <1>10, <1>11, <1>12 DEF Next

IInv == Base /\ RInv /\ SInv

LEMMA InitIInv == Init => IInv
<1> SUFFICES ASSUME Init PROVE IInv
  OBVIOUS
<1>1. stage = NoStage /\ exit = "none" /\ cache = <<>> /\ ~Active
  BY DEF Init, Active
<1> QED BY <1>1 DEF IInv, Base, RInv, ResultRight, SInv

LEMMA NextIInv == IInv /\ [Next]_vars => IInv'
BY BaseNext, RInvNext, NextSInv DEF IInv

LEMMA ValueIs ==
  ASSUME NEW what, NEW a, NEW i, NEW h
  PROVE  LET v == Value(what, a, i, h)
         IN  v \notin {Null, Directory} /\ [v EXCEPT !.hollow = FALSE] = Value(what, a, i, FALSE)
<1> DEFINE v == Value(what, a, i, h)
           record(g) == [what |-> what, inst |-> a.inst, batch |-> a.batch, param |-> a.param, input |-> i, hollow |-> g]
<1>1. v = record(h) /\ Value(what, a, i, FALSE) = record(FALSE)
  BY DEF Value
<1>2. v \notin {Null, Directory}
  <2>1. "hollow" \in DOMAIN v /\ "hollow" \notin DOMAIN Null /\ "hollow" \notin DOMAIN Directory
    BY <1>1 DEF Null, Directory
  <2> QED BY <2>1
<1> HIDE DEF v
<1>3. ASSUME NEW g PROVE [v EXCEPT !.hollow = g] = record(g)
  BY <1>1
<1>4. [v EXCEPT !.hollow = FALSE] = record(FALSE)
  BY <1>3, Zenon
<1> QED BY <1>1, <1>2, <1>4 DEF v

(* A process that ends well has left in every file that the stage saves    *)
(* what the stage computes of this process's arguments and inputs, be it   *)
(* that it recorded or that it replayed, and whatever was killed before    *)
(* it: of any stage that compiles, with names apart and a whole cache key. *)
THEOREM RightlySaved == Spec => []SavesRight
<1>1. IInv => SavesRight
  <2> SUFFICES ASSUME Base, SInv, exit = "ok", NamesApart, Keyed,
                      NEW k \in DOMAIN stage.saves,
                      args.batch \in stage.saves[k].batches, ~stage.saves[k].plain,
                      NEW n \in Saved(stage.saves[k])
               PROVE  Same(At(files, SaveFile(stage.saves[k], args, n)), Meant(What(stage.saves[k], n)))
    BY DEF IInv, SavesRight
  <2>1. todo = <<>> /\ Active /\ args \in Args
    BY DEF Base, Active
  <2>2. ~Left("save", k) /\ ~Left("restore", k)
    BY <2>1 DEF Left
  <2>3. FileRight(k)
    BY <2>1, <2>2 DEF SInv
  <2> DEFINE what == What(stage.saves[k], n)
             v == At(files, SaveFile(stage.saves[k], args, n))
  <2>4. PICK h \in {FALSE, args.hollow} : v = Value(what, args, input, h)
    BY <2>3 DEF FileRight, At
  <2>5. h = FALSE => v = Meant(what)
    BY <2>4 DEF Meant
  <2>6. h = TRUE => args.hollow /\ v \notin {Null, Directory} /\ [v EXCEPT !.hollow = FALSE] = Meant(what)
    <3>1. v \notin {Null, Directory} /\ [v EXCEPT !.hollow = FALSE] = Meant(what)
      <4>1. /\ Value(what, args, input, h) \notin {Null, Directory}
            /\ [Value(what, args, input, h) EXCEPT !.hollow = FALSE] = Meant(what)
        BY ValueIs, Zenon DEF Meant
      <4> HIDE DEF v, what
      <4> QED BY <2>4, <4>1, Zenon
    <3> QED BY <2>4, <3>1
  <2>7. h \in BOOLEAN
    BY <2>1, <2>4 DEF Args
  <2> QED BY <2>5, <2>6, <2>7 DEF Same
<1> QED BY <1>1, InitIInv, NextIInv, PTL DEF Spec

-----------------------------------------------------------------------------
(* What result() is asked for has been probed.                             *)

StemsOf(j) == ToSet(Stems(stage.saves[j]))
Singles == {ProbeBase(stage.wire[k]) : k \in {i \in DOMAIN stage.wire : stage.wire[i].kind = "enc"}}

EInv ==
    Unconditional =>
      /\ \A c \in DOMAIN cache :
            Singles \subseteq DOMAIN cache[c] /\ \A j \in DOMAIN stage.saves : StemsOf(j) \subseteq DOMAIN cache[c]
      /\ exit = "running" /\ ~Replaying =>
            /\ ~Probing => Singles \subseteq DOMAIN probes
            /\ \A j \in DOMAIN stage.saves : ~Left("save", j) => StemsOf(j) \subseteq DOMAIN probes
      /\ exit = "failed" => Head(todo)[1] = "replay"

LEMMA NoneLeft ==
  ASSUME Base, exit = "running", todo # <<>>, Head(todo)[1] \notin {"save", "probe"}
  PROVE  ~Probing /\ \A j : ~Left("save", j)
<1>1. Ordered
  BY DEF Base, Active
<1>2. PICK T : todo \in Seq(T)
  BY <1>1 DEF Ordered
<1>3. 1 \in DOMAIN todo /\ Head(todo) = todo[1] /\ \A i \in DOMAIN todo : i = 1 \/ 1 < i
  BY <1>2, LenProperties, EmptySeq, HeadTailProperties
<1>4. StepRight(1)
  BY <1>1, <1>3 DEF Ordered
<1>5. \A i \in DOMAIN todo : todo[i][1] \notin {"save", "probe"}
  BY <1>3, <1>4 DEF StepRight
<1> QED BY <1>5 DEF Probing, Left

(* A step of main() that leaves the probes and the cache as they are.      *)
LEMMA FrameEInv ==
  ASSUME Base, EInv, UNCHANGED <<stage, probes, cache>>, Unconditional, exit' # "failed",
         exit' = "running" =>
             /\ exit = "running" /\ (~Replaying' => ~Replaying) /\ (~Probing' => ~Probing)
             /\ \A j : ~Left("save", j)' => ~Left("save", j)
  PROVE  EInv'
<1>1. Singles' = Singles /\ \A j : StemsOf(j)' = StemsOf(j)
  BY DEF Singles, StemsOf, ProbeBase
<1>2. Unconditional'
  BY Kept
<1>3. /\ \A c \in DOMAIN cache :
            Singles \subseteq DOMAIN cache[c] /\ \A j \in DOMAIN stage.saves : StemsOf(j) \subseteq DOMAIN cache[c]
      /\ exit = "running" /\ ~Replaying =>
            /\ ~Probing => Singles \subseteq DOMAIN probes
            /\ \A j \in DOMAIN stage.saves : ~Left("save", j) => StemsOf(j) \subseteq DOMAIN probes
  BY DEF EInv
<1>4. exit' = "running" /\ ~Replaying' =>
            /\ ~Probing' => Singles \subseteq DOMAIN probes
            /\ \A j \in DOMAIN stage.saves : ~Left("save", j)' => StemsOf(j) \subseteq DOMAIN probes
  BY <1>3
<1>5. UNCHANGED <<stage, probes, cache>> /\ DOMAIN stage'.saves = DOMAIN stage.saves /\ exit' # "failed"
  OBVIOUS
<1> QED BY <1>1, <1>2, <1>3, <1>4, <1>5 DEF EInv

LEMMA NextEInv == Base /\ EInv /\ [Next]_vars => EInv'
<1> SUFFICES ASSUME Base, EInv, [Next]_vars PROVE EInv'
  OBVIOUS
<1>1. CASE Compile
  BY <1>1 DEF Compile, Base, EInv
<1>2. ASSUME stage' = stage, ~Unconditional PROVE EInv'
  BY <1>2, Kept DEF EInv
<1>3. ASSUME stage' = stage, Unconditional PROVE EInv'
  <2>1. /\ Unconditional' /\ Singles' = Singles /\ \A j : StemsOf(j)' = StemsOf(j)
        /\ DOMAIN stage'.saves = DOMAIN stage.saves
    BY <1>3, Kept DEF Singles, StemsOf, ProbeBase
  <2>2. /\ \A c \in DOMAIN cache :
              Singles \subseteq DOMAIN cache[c] /\ \A j \in DOMAIN stage.saves : StemsOf(j) \subseteq DOMAIN cache[c]
        /\ exit = "running" /\ ~Replaying =>
              /\ ~Probing => Singles \subseteq DOMAIN probes
              /\ \A j \in DOMAIN stage.saves : ~Left("save", j) => StemsOf(j) \subseteq DOMAIN probes
        /\ exit = "failed" => Head(todo)[1] = "replay"
    BY <1>3 DEF EInv
  <2>3. CASE Begin
    <3>1. /\ exit' = "running" /\ cache' = cache /\ (Replaying' \/ Probing')
          /\ \A j \in DOMAIN stage.saves : Left("save", j)' \/ Replaying'
      BY <2>3, BeginIs
    <3> QED BY <2>1, <2>2, <3>1 DEF EInv
  <2>4. ASSUME exit = "running", todo # <<>>, todo' = Tail(todo), UNCHANGED <<stage, args, exit>>,
               DOMAIN cache \subseteq DOMAIN cache'
        PROVE  /\ Good(stage) /\ args \in Args
               /\ ~Replaying' /\ (Head(todo)[1] # "replay" => ~Replaying)
               /\ Head(todo)[1] \in {"save", "restore"} =>
                     Operand \in DOMAIN stage.saves /\ Head(todo) = <<Head(todo)[1], Operand>>
               /\ \A tag, j : Left(tag, j) => Left(tag, j)' \/ Head(todo) = <<tag, j>>
               /\ Probing => Probing' \/ Head(todo)[1] = "probe"
    BY <2>4, OneStep
  <2>5. CASE Save
    <3> DEFINE k == Operand
    <3>1. /\ exit = "running" /\ todo # <<>> /\ todo' = Tail(todo) /\ UNCHANGED <<stage, args, exit, cache>>
          /\ Head(todo)[1] = "save"
          /\ args.batch \in stage.saves[k].batches =>
                \E probed : DOMAIN probed = ToSet(Stems(stage.saves[k])) /\ probes' = Over(probed, probes)
      BY <2>5 DEF Save, Step, Goes
    <3>2. /\ args.batch \in Batches /\ k \in DOMAIN stage.saves /\ Head(todo) = <<"save", k>>
          /\ ~Replaying /\ \A tag, j : Left(tag, j) => Left(tag, j)' \/ Head(todo) = <<tag, j>>
          /\ Probing => Probing'
      BY <2>4, <3>1, ArgsAre
    <3>3. args.batch \in stage.saves[k].batches
      BY <1>3, <3>2 DEF Unconditional
    <3>4. DOMAIN probes' = StemsOf(k) \cup DOMAIN probes
      BY <3>1, <3>3 DEF Over, StemsOf
    <3>5. \A j : ~Left("save", j)' => ~Left("save", j) \/ j = k
      BY <3>2
    <3>6. exit' # "failed"
      BY <3>1
    <3> HIDE DEF k
    <3> QED BY <2>1, <2>2, <3>1, <3>2, <3>4, <3>5, <3>6 DEF EInv
  <2>6. CASE Probe
    <3>1. /\ exit = "running" /\ todo # <<>> /\ todo' = Tail(todo) /\ UNCHANGED <<stage, args, exit, cache>>
          /\ Head(todo)[1] = "probe" /\ probes' = Over(AllProbed(result'), probes)
      BY <2>6 DEF Probe, Step, Goes
    <3>2. ~Replaying /\ \A tag, j : Left(tag, j) => Left(tag, j)' \/ Head(todo) = <<tag, j>>
      BY <2>4, <3>1
    <3>3. Singles \subseteq DOMAIN AllProbed(result')
      <4>1. ASSUME NEW k \in DOMAIN stage.wire, stage.wire[k].kind = "enc"
            PROVE  ProbeBase(stage.wire[k]) \in DOMAIN ProbedAt(k, result')
        BY <4>1 DEF ProbedAt, Probed, One
      <4> QED BY <4>1 DEF Singles, AllProbed
    <3>4. DOMAIN probes' = DOMAIN AllProbed(result') \cup DOMAIN probes
      BY <3>1 DEF Over
    <3>5. \A j : ~Left("save", j)' => ~Left("save", j)
      BY <3>1, <3>2
    <3>6. exit' # "failed"
      BY <3>1
    <3> QED BY <2>1, <2>2, <3>1, <3>2, <3>3, <3>4, <3>5, <3>6 DEF EInv
  <2>7. CASE Stop
    <3> DEFINE key == CacheKey(args)
    <3>1. /\ exit = "running" /\ todo # <<>> /\ todo' = Tail(todo) /\ UNCHANGED <<stage, args, exit, probes>>
          /\ Head(todo)[1] = "stop" /\ cache' = Over(One(key, probes), cache)
      BY <2>7 DEF Stop, Step, Goes
    <3>2. /\ DOMAIN cache' = DOMAIN cache \cup {key} /\ cache'[key] = probes
          /\ \A c \in DOMAIN cache : c # key => cache'[c] = cache[c]
      BY <3>1 DEF Over, One
    <3>3. ~Replaying
      BY <2>4, <3>1, <3>2
    <3>4. ~Probing /\ \A j : ~Left("save", j)
      BY <3>1, NoneLeft
    <3>5. exit' # "failed"
      BY <3>1
    <3> HIDE DEF key
    <3> QED BY <2>1, <2>2, <3>1, <3>2, <3>3, <3>4, <3>5 DEF EInv
  <2>8. CASE Replay
    <3> DEFINE key == CacheKey(args)
    <3>1. exit = "running" /\ todo # <<>> /\ Head(todo)[1] = "replay"
      BY <2>8 DEF Replay, Step
    <3>2. CASE Fails
      <4>1. exit' = "failed" /\ UNCHANGED <<todo, cache>>
        BY <3>2 DEF Fails
      <4> QED BY <2>1, <2>2, <3>1, <4>1 DEF EInv
    <3>3. CASE ~Fails
      <4>1. /\ todo' = Tail(todo) /\ UNCHANGED <<stage, args, exit, cache>>
            /\ DOMAIN probes' = DOMAIN cache[key]
        BY <2>8, <3>3 DEF Replay, Goes
      <4>2. key \in DOMAIN cache
        BY <3>1, <4>1, OneStep DEF StepRight
      <4>3. exit' # "failed"
        BY <3>1, <4>1
      <4> HIDE DEF key
      <4> QED BY <2>1, <2>2, <4>1, <4>2, <4>3 DEF EInv
    <3> QED BY <3>2, <3>3
  <2>9. CASE Rehydrate
    <3> DEFINE f == stage.wire[Operand]
    <3>1. /\ exit = "running" /\ todo # <<>> /\ Head(todo)[1] = "rehydrate"
      BY <2>9 DEF Rehydrate, Step
    <3>2. StepRight(1) /\ 1 \in DOMAIN todo /\ Head(todo) = todo[1] /\ ~Replaying
      <4>1. Ordered
        BY <3>1 DEF Base, Active
      <4>2. PICK T : todo \in Seq(T)
        BY <4>1 DEF Ordered
      <4>3. 1 \in DOMAIN todo /\ Head(todo) = todo[1]
        BY <3>1, <4>2, LenProperties, EmptySeq, HeadTailProperties
      <4> QED BY <3>1, <4>1, <4>3 DEF Ordered, StepRight, Replaying
    <3>3. Operand \in DOMAIN stage.wire
      BY <3>1, <3>2 DEF StepRight, Operand
    <3>4. ~Probing
      BY <3>1, NoneLeft
    <3>5. f.kind = "enc" => ProbeBase(f) \in DOMAIN probes
      <4>1. Singles \subseteq DOMAIN probes
        BY <2>2, <3>1, <3>2, <3>4
      <4> QED BY <3>3, <4>1 DEF Singles
    <3>6. todo' = Tail(todo) /\ UNCHANGED <<stage, args, exit, probes, cache>>
      BY <2>9, <3>5 DEF Rehydrate, Goes
    <3>7. /\ (~Probing' => ~Probing) /\ \A j : ~Left("save", j)' => ~Left("save", j)
      BY <3>1, <3>4, NoneLeft
    <3>8. exit' # "failed"
      BY <3>1, <3>6
    <3> QED BY <1>3, <3>1, <3>2, <3>6, <3>7, <3>8, FrameEInv
  <2>10. CASE Restore
    <3> DEFINE k == Operand
               stems == Stems(stage.saves[k])
    <3>1. /\ exit = "running" /\ todo # <<>> /\ Head(todo)[1] = "restore"
          /\ UNCHANGED <<stage, args, probes, cache>>
      BY <2>10 DEF Restore, Step
    <3>2. StepRight(1) /\ 1 \in DOMAIN todo /\ Head(todo) = todo[1] /\ ~Replaying
      <4>1. Ordered
        BY <3>1 DEF Base, Active
      <4>2. PICK T : todo \in Seq(T)
        BY <4>1 DEF Ordered
      <4>3. 1 \in DOMAIN todo /\ Head(todo) = todo[1]
        BY <3>1, <4>2, LenProperties, EmptySeq, HeadTailProperties
      <4> QED BY <3>1, <4>1, <4>3 DEF Ordered, StepRight, Replaying
    <3>3. k \in DOMAIN stage.saves
      BY <3>1, <3>2 DEF StepRight, Operand
    <3>4. ~Probing /\ \A j : ~Left("save", j)
      BY <3>1, NoneLeft
    <3>5. ToSet(stems) \subseteq DOMAIN probes
      BY <2>2, <3>1, <3>2, <3>3, <3>4 DEF StemsOf
    <3>6. DOMAIN stems \subseteq Nat /\ \A i \in DOMAIN stems : \A j \in 1 .. i : j \in DOMAIN stems
      <4>1. Good(stage)
        BY <3>1 DEF Base, Active
      <4>2. stems \in Seq(Names)
        BY <3>3, <4>1, SavesAre, SaveIs
      <4> HIDE DEF stems
      <4> QED BY <4>2, LenProperties
    <3>7. {i \in DOMAIN stems : \A j \in 1 .. i : stems[j] \in DOMAIN probes} = DOMAIN stems
      BY <3>5, <3>6 DEF ToSet
    <3>8. todo' = Tail(todo) /\ UNCHANGED exit
      BY <2>10, <3>7 DEF Restore
    <3>9. exit' # "failed"
      BY <3>1, <3>8
    <3> QED BY <1>3, <3>1, <3>2, <3>4, <3>9, FrameEInv
  <2>11. CASE Serialize
    <3>1. UNCHANGED <<stage, exit, probes, cache>> /\ exit = "running"
      BY <2>11 DEF Serialize, Step
    <3> QED BY <1>3, <2>11, <3>1, SerializeLast, FrameEInv
  <2>12. CASE WriteFile
    <3>1. /\ exit = "running" /\ todo # <<>> /\ todo' = Tail(todo) /\ UNCHANGED <<stage, args, exit, probes, cache>>
          /\ Head(todo)[1] = "write"
      BY <2>12 DEF WriteFile, Step, Goes
    <3>2. ~Replaying
      BY <2>4, <3>1
    <3>3. ~Probing /\ \A j : ~Left("save", j)
      BY <3>1, NoneLeft
    <3> QED BY <1>3, <3>1, <3>2, <3>3, FrameEInv
  <2>13. CASE Exit \/ Kill \/ Encrypt
    <3>1. exit' \notin {"running", "failed"} /\ UNCHANGED <<stage, probes, cache>>
      BY <2>13 DEF Exit, Kill, Encrypt
    <3> QED BY <1>3, <3>1, FrameEInv
  <2>14. CASE UNCHANGED vars
    <3>1. UNCHANGED <<stage, todo, exit, probes, cache>>
      BY <2>14 DEF vars
    <3>2. Replaying' = Replaying /\ Probing' = Probing /\ \A j : Left("save", j)' = Left("save", j)
      BY <3>1 DEF Replaying, Probing, Left
    <3> QED BY <2>1, <2>2, <3>1, <3>2 DEF EInv
  <2> QED BY <1>1, <2>3, <2>5, <2>6, <2>7, <2>8, <2>9, <2>10, <2>11, <2>12, <2>13, <2>14 DEF Next
<1>4. Compile \/ stage' = stage
  BY DEF Next, Begin, Save, Probe, Stop, Replay, Rehydrate, Restore, Serialize, WriteFile, Exit, Kill, Encrypt,
         Goes, Fails, vars
<1> QED BY <1>1, <1>2, <1>3, <1>4

(* A recording is enough: of a stage whose body comes by all of its        *)
(* save()s, a process that ends with an error has failed in replay(), and  *)
(* not in looking for a ciphertext that no recording has.                  *)
THEOREM RecordsEnough == Spec => []RecordingEnough
<1>1. Init => EInv
  <2> SUFFICES ASSUME Init PROVE EInv
    OBVIOUS
  <2>1. cache = <<>> /\ exit = "none"
    BY DEF Init
  <2> QED BY <2>1 DEF EInv
<1>2. IInv /\ EInv /\ [Next]_vars => IInv' /\ EInv'
  BY NextIInv, NextEInv DEF IInv
<1>3. EInv => RecordingEnough
  BY DEF EInv, RecordingEnough
<1> QED BY <1>1, <1>2, <1>3, InitIInv, PTL DEF Spec

-----------------------------------------------------------------------------
(* Names, and what is probed of a result.                                  *)

(* Names that begin with another one.                                      *)
Begins(N, base) == Len(base) <= Len(N) /\ \A i \in 1 .. Len(base) : N[i] = base[i]

LEMMA NthBegins ==
  ASSUME NEW base \in Seq(Words), NEW i \in 0 .. MaxNumber
  PROVE  /\ Begins(base, base) /\ Begins(Nth(base, i), base)
         /\ \A j \in 0 .. MaxNumber : Begins(Nth(Nth(base, i), j), base)
<1>1. ASSUME NEW b \in Seq(Words), NEW m \in 0 .. MaxNumber
      PROVE  /\ Nth(b, m) \in Seq(Words) /\ Len(b) \in Nat /\ Len(Nth(b, m)) = Len(b) + 1
             /\ \A x \in 1 .. Len(b) : Nth(b, m)[x] = b[x]
  BY WordsAssumption, AppendProperties, LenProperties DEF Nth
<1>2. Begins(base, base) /\ Begins(Nth(base, i), base)
  BY <1>1 DEF Begins
<1>3. ASSUME NEW j \in 0 .. MaxNumber PROVE Begins(Nth(Nth(base, i), j), base)
  <2> DEFINE c == Nth(base, i)
  <2>1. /\ c \in Seq(Words) /\ Len(base) \in Nat /\ Len(c) = Len(base) + 1
        /\ \A x \in 1 .. Len(base) : c[x] = base[x]
    BY <1>1
  <2> HIDE DEF c
  <2>2. Len(Nth(c, j)) = Len(c) + 1 /\ \A x \in 1 .. Len(c) : Nth(c, j)[x] = c[x]
    BY <1>1, <2>1
  <2>3. Begins(Nth(c, j), base)
    BY <2>1, <2>2 DEF Begins
  <2> QED BY <2>3 DEF c
<1> QED BY <1>2, <1>3

LEMMA NthInjective ==
  ASSUME NEW b \in Seq(Words), NEW c \in Seq(Words), NEW i \in 0 .. MaxNumber, NEW j \in 0 .. MaxNumber,
         Nth(b, i) = Nth(c, j)
  PROVE  b = c /\ i = j
<1>1. Numeral(i) \in Words /\ Numeral(j) \in Words
  BY WordsAssumption
<1>2. Append(b, Numeral(i)) = Append(c, Numeral(j))
  BY DEF Nth
<1>3. b = c /\ Numeral(i) = Numeral(j)
  BY <1>1, <1>2, AppendInjective
<1> QED BY <1>3, WordsAssumption

LEMMA PrefixIs ==
  ASSUME NEW s \in Seq(Words), NEW t \in Seq(Words), Begins(t, s)
  PROVE  IsPrefix(s, t)
<1>1. Len(s) \in Nat /\ Len(t) \in Nat /\ Len(s) <= Len(t)
  BY LenProperties DEF Begins
<1>2. SubSeq(s, 1, Len(s)) = SubSeq(t, 1, Len(s))
  <2>1. /\ SubSeq(s, 1, Len(s)) \in Seq(Words) /\ Len(SubSeq(s, 1, Len(s))) = Len(s)
        /\ \A i \in 1 .. Len(s) : SubSeq(s, 1, Len(s))[i] = s[i]
    BY <1>1, ElementOfSeq, SubSeqProperties
  <2>2. /\ SubSeq(t, 1, Len(s)) \in Seq(Words) /\ Len(SubSeq(t, 1, Len(s))) = Len(s)
        /\ \A i \in 1 .. Len(s) : SubSeq(t, 1, Len(s))[i] = t[i]
    BY <1>1, ElementOfSeq, SubSeqProperties
  <2> QED BY <2>1, <2>2, SeqEqual DEF Begins
<1> QED BY <1>1, <1>2 DEF IsPrefix

(* A name belongs to one field.                                            *)
LEMMA OneField ==
  ASSUME Good(stage), NamesApart, NEW k \in DOMAIN stage.wire, NEW j \in DOMAIN stage.wire, NEW N,
         Begins(N, stage.wire[k].name), Begins(N, stage.wire[j].name)
  PROVE  k = j
<1> DEFINE s == stage.wire[k].name
           t == stage.wire[j].name
<1>1. SUFFICES ASSUME k # j PROVE FALSE
  OBVIOUS
<1>2. s \in Seq(Words) /\ t \in Seq(Words)
  BY FieldIs DEF Names
<1>3. stage.wire[k] # stage.wire[j]
  BY <1>1, StageIs DEF Good
<1>4. stage.wire[k] \in ToSet(stage.wire) /\ stage.wire[j] \in ToSet(stage.wire)
  BY DEF ToSet
<1>5. ~IsPrefix(s, t) /\ ~IsPrefix(t, s)
  BY <1>3, <1>4 DEF NamesApart
<1>6. Len(s) \in Nat /\ Len(t) \in Nat
  BY <1>2, LenProperties
<1>7. Begins(t, s) \/ Begins(s, t)
  <2> HIDE DEF s, t
  <2>3. (\A i \in 1 .. Len(s) : N[i] = s[i]) /\ \A i \in 1 .. Len(t) : N[i] = t[i]
    BY DEF Begins, s, t
  <2>1. CASE Len(s) <= Len(t)
    <3>1. \A i \in 1 .. Len(s) : i \in 1 .. Len(t)
      BY <1>6, <2>1
    <3> QED BY <2>1, <2>3, <3>1 DEF Begins
  <2>2. CASE Len(t) <= Len(s)
    <3>1. \A i \in 1 .. Len(t) : i \in 1 .. Len(s)
      BY <1>6, <2>2
    <3> QED BY <2>2, <2>3, <3>1 DEF Begins
  <2> QED BY <1>6, <2>1, <2>2
<1> QED BY <1>2, <1>5, <1>7, PrefixIs

LEMMA OneBase ==
  ASSUME Good(stage), NamesApart, NEW k \in DOMAIN stage.wire, NEW j \in DOMAIN stage.wire, NEW N \in Seq(Words),
         Begins(N, ProbeBase(stage.wire[k])), Begins(N, ProbeBase(stage.wire[j]))
  PROVE  k = j
<1>1. CASE Len(stage.wire) = 1
  BY <1>1, FieldIs
<1>2. CASE Len(stage.wire) # 1
  <2> DEFINE M == Tail(N)
  <2>1. ResultStem \in Seq(Words) /\ Len(ResultStem) = 1
    BY WordsAssumption DEF ResultStem
  <2>2. ASSUME NEW i \in DOMAIN stage.wire, Begins(N, ProbeBase(stage.wire[i]))
        PROVE  Begins(M, stage.wire[i].name)
    <3> DEFINE s == stage.wire[i].name
               long == ResultStem \o s
    <3>1. s \in Seq(Words)
      BY FieldIs DEF Names
    <3>2. ProbeBase(stage.wire[i]) = long
      BY <1>2 DEF ProbeBase
    <3>3. /\ long \in Seq(Words) /\ Len(long) = 1 + Len(s) /\ Len(s) \in Nat
          /\ \A x \in 1 .. Len(s) : long[1 + x] = s[x]
      <4>1. /\ long \in Seq(Words) /\ Len(long) = Len(ResultStem) + Len(s) /\ Len(s) \in Nat
            /\ \A x \in 1 .. Len(s) : long[Len(ResultStem) + x] = s[x]
        <5>1. IsJoin(Words, ResultStem, s, long)
          BY <2>1, <3>1, Joined
        <5> HIDE DEF long
        <5> QED BY <5>1 DEF IsJoin
      <4> HIDE DEF long
      <4> QED BY <2>1, <4>1
    <3> HIDE DEF long
    <3>4. Begins(N, long)
      BY <2>2, <3>2
    <3>5. 1 + Len(s) <= Len(N) /\ \A x \in 1 .. Len(s) : N[1 + x] = s[x]
      <4>1. \A x \in 1 .. Len(s) : 1 + x \in 1 .. Len(long)
        BY <3>3
      <4> QED BY <3>3, <3>4, <4>1 DEF Begins
    <3>6. Len(N) \in Nat
      BY LenProperties
    <3>7. N # <<>>
      BY <3>3, <3>5, <3>6, EmptySeq
    <3>8. Len(M) = Len(N) - 1 /\ \A x \in 1 .. Len(M) : M[x] = N[x + 1]
      BY <3>6, <3>7, HeadTailProperties
    <3>9. \A x \in 1 .. Len(s) : x \in 1 .. Len(M) /\ x + 1 = 1 + x
      BY <3>3, <3>5, <3>6, <3>8
    <3>10. Len(s) <= Len(M)
      BY <3>3, <3>5, <3>6, <3>8
    <3>11. \A x \in 1 .. Len(s) : M[x] = s[x]
      BY <3>5, <3>8, <3>9
    <3> QED BY <3>10, <3>11 DEF Begins
  <2> QED BY <2>2, OneField
<1> QED BY <1>1, <1>2

LEMMA LengthExact ==
  ASSUME NEW m \in 0 .. MaxNumber, NEW there, there \subseteq Indices, \A j \in Indices : j \in there <=> j \in 1 .. m
  PROVE  LengthOf(there) = m
<1> DEFINE n == LengthOf(there)
<1>1. n \in 0 .. MaxNumber /\ 1 .. n \subseteq there /\ (n = MaxNumber \/ n + 1 \notin there)
  BY LengthOfIs
<1>2. MaxNumber \in Nat
  BY WordsAssumption
<1> HIDE DEF n
<1>3. ~(n > m)
  <2> SUFFICES ASSUME n > m PROVE FALSE
    OBVIOUS
  <2>1. n \in 1 .. n /\ n \in Indices /\ n \notin 1 .. m
    BY <1>1, <1>2 DEF Indices
  <2> QED BY <1>1, <2>1
<1>4. ~(n < m)
  <2> SUFFICES ASSUME n < m PROVE FALSE
    OBVIOUS
  <2>1. n + 1 \in Indices /\ n + 1 \in 1 .. m /\ n # MaxNumber
    BY <1>1, <1>2 DEF Indices
  <2> QED BY <1>1, <2>1
<1> QED BY <1>1, <1>3, <1>4, <1>2 DEF n

-----------------------------------------------------------------------------
(* The probes of a result.                                                 *)

(* In p are the probes of field k, of a result that is computed as v.      *)
Matches(k, p, a, v) ==
    LET f == stage.wire[k]
        base == ProbeBase(f)
        n == stage.shape[a.batch][k]
    IN  /\ f.kind = "enc" => base \in DOMAIN p /\ p[base] = Of(v, f.name)
        /\ f.kind = "vec" =>
              \A i \in Indices :
                 /\ Nth(base, i - 1) \in DOMAIN p <=> i \in 1 .. n[1]
                 /\ i \in 1 .. n[1] => p[Nth(base, i - 1)] = Of(v, Nth(f.name, i - 1))
        /\ f.kind = "mat" =>
              \A b, i \in Indices :
                 /\ Nth(Nth(base, b - 1), i - 1) \in DOMAIN p <=> b \in DOMAIN n /\ i \in 1 .. n[b]
                 /\ b \in DOMAIN n /\ i \in 1 .. n[b] =>
                       p[Nth(Nth(base, b - 1), i - 1)] = Of(v, Nth(Nth(f.name, b - 1), i - 1))

LEMMA Numbers ==
  /\ \A i \in Indices : i - 1 \in 0 .. MaxNumber
  /\ \A m \in 0 .. MaxNumber : 1 .. m \subseteq Indices
BY WordsAssumption DEF Indices

(* Of elements that have names of their own, each is under its name.       *)
LEMMA NamedIs ==
  ASSUME NEW E, NEW e \in E, \A x, y \in E : Nth(x[1], x[2]) = Nth(y[1], y[2]) => x = y
  PROVE  Nth(e[1], e[2]) \in DOMAIN Named(E) /\ Named(E)[Nth(e[1], e[2])] = e[3]
<1> DEFINE n == Nth(e[1], e[2])
<1>1. n \in {Nth(x[1], x[2]) : x \in E}
  OBVIOUS
<1>2. (CHOOSE x \in E : n = Nth(x[1], x[2])) = e
  OBVIOUS
<1> QED BY <1>1, <1>2 DEF Named

LEMMA ProbedIs ==
  ASSUME Good(stage), args \in Args, NEW k \in DOMAIN stage.wire, NEW v
  PROVE  /\ Matches(k, ProbedAt(k, ResultOf(stage, args, v)), args, v)
         /\ \A N \in DOMAIN ProbedAt(k, ResultOf(stage, args, v)) :
              N \in Seq(Words) /\ Begins(N, ProbeBase(stage.wire[k]))
<1> DEFINE f == stage.wire[k]
           base == ProbeBase(f)
           n == stage.shape[args.batch][k]
           w == FieldOf(f, n, v)
           p == Probed(f, w)
<1>1. ProbedAt(k, ResultOf(stage, args, v)) = p
  BY ResultField DEF ProbedAt
<1>2. /\ base \in Seq(Words) /\ f.kind \in Kinds /\ f.name \in Seq(Words)
      /\ Len(n) \in Nat /\ DOMAIN n = 1 .. Len(n) /\ \A i \in DOMAIN n : n[i] \in 0 .. MaxNumber
      /\ f.kind = "vec" => n[1] \in 0 .. MaxNumber
      /\ f.kind = "mat" => Len(n) \in 0 .. MaxNumber
  <2>1. base \in Seq(Words) /\ f.kind \in Kinds /\ f.name \in Seq(Words)
    BY BaseIs, FieldIs DEF Names
  <2>2. /\ Len(n) \in Nat /\ DOMAIN n = 1 .. Len(n) /\ \A i \in DOMAIN n : n[i] \in 0 .. MaxNumber
        /\ f.kind = "vec" => Len(n) = 1
        /\ f.kind = "mat" => Len(n) \in 0 .. MaxNumber
    BY LengthsAre
  <2> HIDE DEF n, base, f
  <2> QED BY <2>1, <2>2
<1> SUFFICES /\ Matches(k, p, args, v)
             /\ \A N \in DOMAIN p : N \in Seq(Words) /\ Begins(N, base)
  BY <1>1
<1> HIDE DEF n, base
<1>3. CASE f.kind = "enc"
  <2>1. p = One(base, Of(v, f.name))
    <3>1. w = Of(v, f.name)
      BY <1>3 DEF FieldOf
    <3>2. p = One(base, w)
      BY <1>3 DEF Probed, base
    <3> QED BY <3>1, <3>2
  <2>2. DOMAIN p = {base} /\ p[base] = Of(v, f.name)
    BY <2>1 DEF One
  <2>3. Begins(base, base)
    BY <1>2, LenProperties DEF Begins
  <2> QED BY <1>2, <1>3, <2>2, <2>3 DEF Matches, base
<1>4. CASE f.kind = "vec"
  <2> DEFINE E == {<<base, i - 1, w[i]>> : i \in 1 .. n[1]}
  <2>1. w = [i \in 1 .. n[1] |-> Of(v, Nth(f.name, i - 1))]
    BY <1>4 DEF FieldOf
  <2>2. p = Named(E)
    <3>1. DOMAIN w = 1 .. n[1]
      BY <2>1
    <3>2. p = Named({<<base, i - 1, w[i]>> : i \in DOMAIN w})
      BY <1>4 DEF Probed, base
    <3> QED BY <3>1, <3>2
  <2>3. \A i \in 1 .. n[1] : i \in Indices /\ i - 1 \in 0 .. MaxNumber
    BY <1>2, <1>4, Numbers
  <2>4. \A i \in 1 .. n[1] : w[i] = Of(v, Nth(f.name, i - 1))
    BY <2>1
  <2> HIDE DEF w, f
  <2>5. ASSUME NEW i \in Indices, NEW j \in 1 .. n[1], Nth(base, i - 1) = Nth(base, j - 1) PROVE i = j
    <3>1. i - 1 = j - 1
      BY <1>2, <2>3, <2>5, Numbers, NthInjective
    <3> QED BY <2>3, <3>1 DEF Indices
  <2>6. \A x, y \in E : Nth(x[1], x[2]) = Nth(y[1], y[2]) => x = y
    BY <2>3, <2>5
  <2>7. ASSUME NEW i \in 1 .. n[1] PROVE Nth(base, i - 1) \in DOMAIN p /\ p[Nth(base, i - 1)] = w[i]
    <3> DEFINE e == <<base, i - 1, w[i]>>
    <3>1. e \in E /\ e[1] = base /\ e[2] = i - 1 /\ e[3] = w[i]
      OBVIOUS
    <3> HIDE DEF e, E
    <3>2. Nth(e[1], e[2]) \in DOMAIN Named(E) /\ Named(E)[Nth(e[1], e[2])] = e[3]
      BY <2>6, <3>1, NamedIs
    <3> QED BY <2>2, <3>1, <3>2
  <2>8. ASSUME NEW N \in DOMAIN p PROVE \E i \in 1 .. n[1] : N = Nth(base, i - 1)
    <3>1. PICK e \in E : N = Nth(e[1], e[2])
      BY <2>2 DEF Named
    <3> QED BY <3>1
  <2> HIDE DEF E, p
  <2>9. \A N \in DOMAIN p : N \in Seq(Words) /\ Begins(N, base)
    BY <1>2, <2>3, <2>8, NthIs, NthBegins
  <2>10. ASSUME NEW i \in Indices
         PROVE  /\ Nth(base, i - 1) \in DOMAIN p <=> i \in 1 .. n[1]
                /\ i \in 1 .. n[1] => p[Nth(base, i - 1)] = Of(v, Nth(f.name, i - 1))
    BY <2>4, <2>5, <2>7, <2>8
  <2>11. Matches(k, p, args, v)
    BY <1>4, <2>10 DEF Matches, base, n, f
  <2> QED BY <2>9, <2>11
<1>5. CASE f.kind = "mat"
  <2> DEFINE E == UNION {{<<Nth(base, b - 1), i - 1, w[b][i]>> : i \in 1 .. n[b]} : b \in DOMAIN n}
  <2>1. w = [b \in DOMAIN n |-> [i \in 1 .. n[b] |-> Of(v, Nth(Nth(f.name, b - 1), i - 1))]]
    BY <1>5 DEF FieldOf
  <2>4. \A b \in DOMAIN n : DOMAIN w[b] = 1 .. n[b] /\ \A i \in 1 .. n[b] : w[b][i] = Of(v, Nth(Nth(f.name, b - 1), i - 1))
    BY <2>1
  <2>2. p = Named(E)
    <3>1. DOMAIN w = DOMAIN n
      BY <2>1
    <3>2. p = Named(UNION {{<<Nth(base, b - 1), i - 1, w[b][i]>> : i \in DOMAIN w[b]} : b \in DOMAIN w})
      BY <1>5 DEF Probed, base
    <3> HIDE DEF w
    <3> DEFINE row(b, I) == {<<Nth(base, b - 1), i - 1, w[b][i]>> : i \in I}
    <3>4. \A b \in DOMAIN n : row(b, DOMAIN w[b]) = row(b, 1 .. n[b])
      BY <2>4
    <3>3. E = UNION {{<<Nth(base, b - 1), i - 1, w[b][i]>> : i \in DOMAIN w[b]} : b \in DOMAIN w}
      <4>1. E = UNION {row(b, 1 .. n[b]) : b \in DOMAIN n}
        OBVIOUS
      <4>2. UNION {row(b, DOMAIN w[b]) : b \in DOMAIN w} = UNION {{<<Nth(base, b - 1), i - 1, w[b][i]>> : i \in DOMAIN w[b]} : b \in DOMAIN w}
        OBVIOUS
      <4> HIDE DEF row, E
      <4>3. UNION {row(b, DOMAIN w[b]) : b \in DOMAIN w} = UNION {row(b, 1 .. n[b]) : b \in DOMAIN n}
        BY <3>1, <3>4
      <4> QED BY <4>1, <4>2, <4>3
    <3> QED BY <3>2, <3>3
  <2>3. /\ \A b \in DOMAIN n : b \in Indices /\ b - 1 \in 0 .. MaxNumber
        /\ \A b \in DOMAIN n : \A i \in 1 .. n[b] : i \in Indices /\ i - 1 \in 0 .. MaxNumber
    BY <1>2, <1>5, Numbers
  <2> HIDE DEF w, f
  <2>5. ASSUME NEW c \in Indices, NEW i \in Indices, NEW b \in DOMAIN n, NEW j \in 1 .. n[b],
               Nth(Nth(base, c - 1), i - 1) = Nth(Nth(base, b - 1), j - 1)
        PROVE  c = b /\ i = j
    <3>1. /\ c - 1 \in 0 .. MaxNumber /\ i - 1 \in 0 .. MaxNumber /\ b - 1 \in 0 .. MaxNumber /\ j - 1 \in 0 .. MaxNumber
          /\ Nth(base, c - 1) \in Seq(Words) /\ Nth(base, b - 1) \in Seq(Words)
      BY <1>2, <2>3, Numbers, NthIs
    <3>2. Nth(base, c - 1) = Nth(base, b - 1) /\ i - 1 = j - 1
      BY <2>5, <3>1, NthInjective
    <3>3. c - 1 = b - 1
      BY <1>2, <3>1, <3>2, NthInjective
    <3> QED BY <2>3, <3>2, <3>3 DEF Indices
  <2>6. ASSUME NEW x \in E, NEW y \in E, Nth(x[1], x[2]) = Nth(y[1], y[2]) PROVE x = y
    <3>10. PICK b \in DOMAIN n : \E i \in 1 .. n[b] : x = <<Nth(base, b - 1), i - 1, w[b][i]>>
      OBVIOUS
    <3>1. PICK i \in 1 .. n[b] : x = <<Nth(base, b - 1), i - 1, w[b][i]>>
      BY <3>10
    <3>20. PICK c \in DOMAIN n : \E j \in 1 .. n[c] : y = <<Nth(base, c - 1), j - 1, w[c][j]>>
      OBVIOUS
    <3>2. PICK j \in 1 .. n[c] : y = <<Nth(base, c - 1), j - 1, w[c][j]>>
      BY <3>20
    <3> HIDE DEF E
    <3>3. b = c /\ i = j
      BY <2>3, <2>5, <2>6, <3>1, <3>2
    <3> QED BY <3>1, <3>2, <3>3
  <2>7. ASSUME NEW b \in DOMAIN n, NEW i \in 1 .. n[b]
        PROVE  Nth(Nth(base, b - 1), i - 1) \in DOMAIN p /\ p[Nth(Nth(base, b - 1), i - 1)] = w[b][i]
    <3> DEFINE e == <<Nth(base, b - 1), i - 1, w[b][i]>>
    <3>1. e \in E /\ e[1] = Nth(base, b - 1) /\ e[2] = i - 1 /\ e[3] = w[b][i]
      OBVIOUS
    <3> HIDE DEF e, E
    <3>2. Nth(e[1], e[2]) \in DOMAIN Named(E) /\ Named(E)[Nth(e[1], e[2])] = e[3]
      BY <2>6, <3>1, NamedIs
    <3> QED BY <2>2, <3>1, <3>2
  <2>8. ASSUME NEW N \in DOMAIN p PROVE \E b \in DOMAIN n : \E i \in 1 .. n[b] : N = Nth(Nth(base, b - 1), i - 1)
    <3>1. PICK e \in E : N = Nth(e[1], e[2])
      BY <2>2 DEF Named
    <3>20. PICK b \in DOMAIN n : \E i \in 1 .. n[b] : e = <<Nth(base, b - 1), i - 1, w[b][i]>>
      OBVIOUS
    <3>2. PICK i \in 1 .. n[b] : e = <<Nth(base, b - 1), i - 1, w[b][i]>>
      BY <3>20
    <3> QED BY <3>1, <3>2
  <2> HIDE DEF E, p
  <2>9. \A N \in DOMAIN p : N \in Seq(Words) /\ Begins(N, base)
    <3> TAKE N \in DOMAIN p
    <3>10. PICK b \in DOMAIN n : \E i \in 1 .. n[b] : N = Nth(Nth(base, b - 1), i - 1)
      BY <2>8
    <3>1. PICK i \in 1 .. n[b] : N = Nth(Nth(base, b - 1), i - 1)
      BY <3>10
    <3>2. b - 1 \in 0 .. MaxNumber /\ i - 1 \in 0 .. MaxNumber
      BY <2>3
    <3> QED BY <1>2, <3>1, <3>2, NthIs, NthBegins
  <2>10. ASSUME NEW b \in Indices, NEW i \in Indices
         PROVE  /\ Nth(Nth(base, b - 1), i - 1) \in DOMAIN p <=> b \in DOMAIN n /\ i \in 1 .. n[b]
                /\ b \in DOMAIN n /\ i \in 1 .. n[b] =>
                     p[Nth(Nth(base, b - 1), i - 1)] = Of(v, Nth(Nth(f.name, b - 1), i - 1))
    <3>1. ASSUME Nth(Nth(base, b - 1), i - 1) \in DOMAIN p PROVE b \in DOMAIN n /\ i \in 1 .. n[b]
      <4>10. PICK c \in DOMAIN n : \E j \in 1 .. n[c] : Nth(Nth(base, b - 1), i - 1) = Nth(Nth(base, c - 1), j - 1)
        BY <2>8, <3>1
      <4>1. PICK j \in 1 .. n[c] : Nth(Nth(base, b - 1), i - 1) = Nth(Nth(base, c - 1), j - 1)
        BY <4>10
      <4> QED BY <2>5, <4>1
    <3> QED BY <2>4, <2>7, <3>1
  <2>11. Matches(k, p, args, v)
    BY <1>5, <2>10 DEF Matches, base, n, f
  <2> QED BY <2>9, <2>11
<1>6. CASE f.kind = "plain"
  <2>1. p = <<>>
    BY <1>6 DEF Probed
  <2> QED BY <1>6, <2>1 DEF Matches
<1> QED BY <1>2, <1>3, <1>4, <1>5, <1>6 DEF Kinds

(* What probes it, with the names of saves before it.                      *)
LEMMA ProbeMatches ==
  ASSUME Good(stage), NamesApart, args \in Args, NEW v, NEW q, \A N \in DOMAIN q : N[1] # "result",
         NEW k \in DOMAIN stage.wire
  PROVE  Matches(k, Over(AllProbed(ResultOf(stage, args, v)), q), args, v)
<1> DEFINE f == stage.wire[k]
           base == ProbeBase(f)
           w == ResultOf(stage, args, v)
           all == AllProbed(w)
           p == Over(all, q)
           mine == ProbedAt(k, w)
<1>1. Matches(k, mine, args, v) /\ base \in Names /\ base \in Seq(Words) /\ base[1] = "result"
  BY ProbedIs, BaseIs DEF Names
<1>2. \A j \in DOMAIN stage.wire : \A N \in DOMAIN ProbedAt(j, w) : N \in Seq(Words) /\ Begins(N, ProbeBase(stage.wire[j]))
  BY ProbedIs
<1>3. /\ DOMAIN all = UNION {DOMAIN ProbedAt(j, w) : j \in DOMAIN stage.wire}
      /\ \A N \in DOMAIN all :
           LET by == {j \in DOMAIN stage.wire : N \in DOMAIN ProbedAt(j, w)}
           IN  all[N] = ProbedAt(CHOOSE j \in by : \A i \in by : i <= j, w)[N]
  BY DEF AllProbed
<1> HIDE DEF w, all
<1>4. DOMAIN p = DOMAIN all \cup DOMAIN q /\ \A N \in DOMAIN all : p[N] = all[N]
  BY DEF Over
<1>5. ASSUME NEW N \in Seq(Words), Begins(N, base)
      PROVE  (N \in DOMAIN p <=> N \in DOMAIN mine) /\ (N \in DOMAIN mine => p[N] = mine[N])
  <2>1. N \notin DOMAIN q
    <3>1. Len(base) \in Nat /\ Len(base) # 0
      BY <1>1, LenProperties, EmptySeq DEF Names
    <3>2. 1 \in 1 .. Len(base)
      BY <3>1
    <3>3. N[1] = base[1]
      BY <1>5, <3>2 DEF Begins
    <3> QED BY <1>1, <3>3
  <2>2. \A j \in DOMAIN stage.wire : N \in DOMAIN ProbedAt(j, w) => j = k
    BY <1>2, <1>5, OneBase
  <2>3. N \in DOMAIN p <=> N \in DOMAIN mine
    BY <1>3, <1>4, <2>1, <2>2
  <2>4. ASSUME N \in DOMAIN mine PROVE p[N] = mine[N]
    <3>1. N \in DOMAIN all
      BY <1>3, <2>4
    <3> DEFINE by == {j \in DOMAIN stage.wire : N \in DOMAIN ProbedAt(j, w)}
    <3>2. by = {k} /\ k <= k
      <4>1. by = {k}
        BY <2>2, <2>4
      <4>2. k \in Nat
        BY FieldIs
      <4> QED BY <4>1, <4>2
    <3>3. all[N] = ProbedAt(CHOOSE j \in by : \A i \in by : i <= j, w)[N]
      BY <1>3, <3>1
    <3> HIDE DEF by
    <3>4. (CHOOSE j \in by : \A i \in by : i <= j) = k
      BY <3>2
    <3> QED BY <1>4, <3>1, <3>3, <3>4
  <2> QED BY <2>3, <2>4
<1> HIDE DEF p, mine
<1>6. /\ Begins(base, base)
      /\ \A i \in Indices : Nth(base, i - 1) \in Seq(Words) /\ Begins(Nth(base, i - 1), base)
      /\ \A b, i \in Indices :
           Nth(Nth(base, b - 1), i - 1) \in Seq(Words) /\ Begins(Nth(Nth(base, b - 1), i - 1), base)
  <2>1. Begins(base, base)
    BY <1>1, LenProperties DEF Begins
  <2> HIDE DEF base
  <2>2. \A i \in Indices : Nth(base, i - 1) \in Seq(Words) /\ Begins(Nth(base, i - 1), base)
    BY <1>1, Numbers, NthIs, NthBegins
  <2>3. \A b, i \in Indices :
           Nth(Nth(base, b - 1), i - 1) \in Seq(Words) /\ Begins(Nth(Nth(base, b - 1), i - 1), base)
    BY <1>1, <2>2, Numbers, NthIs, NthBegins
  <2> QED BY <2>1, <2>2, <2>3
<1> DEFINE n == stage.shape[args.batch][k]
<1>7. f.kind = "enc" => base \in DOMAIN p /\ p[base] = Of(v, f.name)
  BY <1>1, <1>5, <1>6 DEF Matches
<1>8. f.kind = "vec" =>
        \A i \in Indices :
           /\ Nth(base, i - 1) \in DOMAIN p <=> i \in 1 .. n[1]
           /\ i \in 1 .. n[1] => p[Nth(base, i - 1)] = Of(v, Nth(f.name, i - 1))
  BY <1>1, <1>5, <1>6 DEF Matches
<1>9. ASSUME f.kind = "mat", NEW b \in Indices, NEW i \in Indices
      PROVE  /\ Nth(Nth(base, b - 1), i - 1) \in DOMAIN p <=> b \in DOMAIN n /\ i \in 1 .. n[b]
             /\ b \in DOMAIN n /\ i \in 1 .. n[b] =>
                   p[Nth(Nth(base, b - 1), i - 1)] = Of(v, Nth(Nth(f.name, b - 1), i - 1))
  <2> DEFINE N == Nth(Nth(base, b - 1), i - 1)
  <2>1. /\ N \in DOMAIN mine <=> b \in DOMAIN n /\ i \in 1 .. n[b]
        /\ b \in DOMAIN n /\ i \in 1 .. n[b] => mine[N] = Of(v, Nth(Nth(f.name, b - 1), i - 1))
    BY <1>1, <1>9 DEF Matches
  <2>2. N \in Seq(Words) /\ Begins(N, base)
    BY <1>6
  <2> HIDE DEF N, n, f, base
  <2>3. (N \in DOMAIN p <=> N \in DOMAIN mine) /\ (N \in DOMAIN mine => p[N] = mine[N])
    BY <1>5, <2>2
  <2>4. /\ N \in DOMAIN p <=> b \in DOMAIN n /\ i \in 1 .. n[b]
        /\ b \in DOMAIN n /\ i \in 1 .. n[b] => p[N] = Of(v, Nth(Nth(f.name, b - 1), i - 1))
    BY <2>1, <2>3
  <2> QED BY <2>4 DEF N
<1>10. Matches(k, p, args, v)
  <2> HIDE DEF f, base, n
  <2>1. f.kind = "mat" =>
          \A b, i \in Indices :
             /\ Nth(Nth(base, b - 1), i - 1) \in DOMAIN p <=> b \in DOMAIN n /\ i \in 1 .. n[b]
             /\ b \in DOMAIN n /\ i \in 1 .. n[b] =>
                   p[Nth(Nth(base, b - 1), i - 1)] = Of(v, Nth(Nth(f.name, b - 1), i - 1))
    BY <1>9
  <2> QED BY <1>7, <1>8, <2>1 DEF Matches, f, base, n
<1> QED BY <1>10 DEF p, all, w

LEMMA OfValue ==
  ASSUME NEW what, NEW m, NEW a, NEW i, NEW h
  PROVE  Of(Value(m, a, i, h), what) = Value(what, a, i, h)
BY DEF Of, Value

(* replay() gives the values of the recording anew.                        *)
LEMMA ReplayMatches ==
  ASSUME NEW k, NEW q, NEW c, NEW i, NEW h, Matches(k, q, c, Value(<<>>, c, i, h)), NEW p,
         p = [N \in DOMAIN q |-> Value(q[N].what, q[N], input, FALSE)],
         c.inst = args.inst, c.batch = args.batch, c.param = args.param
  PROVE  Matches(k, p, args, Value(<<>>, args, input, FALSE))
<1> DEFINE u == Value(<<>>, c, i, h)
           v == Value(<<>>, args, input, FALSE)
<1>1. ASSUME NEW N \in DOMAIN q, NEW what, q[N] = Of(u, what) PROVE p[N] = Of(v, what)
  <2>1. q[N] = Value(what, c, i, h)
    BY <1>1, OfValue
  <2>2. Value(what, c, i, h).what = what
    BY DEF Value
  <2>3. Value(what, Value(what, c, i, h), input, FALSE) = Value(what, args, input, FALSE)
    BY DEF Value
  <2>4. p[N] = Value(what, args, input, FALSE)
    BY <2>1, <2>2, <2>3
  <2>5. Of(v, what) = Value(what, args, input, FALSE)
    <3>1. \A g : Of(Value(<<>>, args, input, g), what) = Value(what, args, input, g)
      BY OfValue
    <3> QED BY <3>1, Zenon
  <2> HIDE DEF v
  <2> QED BY <2>4, <2>5
<1>2. DOMAIN p = DOMAIN q
  OBVIOUS
<1> HIDE DEF u, v
<1>3. Matches(k, q, c, u)
  BY DEF u
<1>4. Matches(k, p, args, v)
  <2> DEFINE f == stage.wire[k]
             base == ProbeBase(f)
             n == stage.shape[args.batch][k]
  <2>1. stage.shape[c.batch][k] = n
    OBVIOUS
  <2>2. f.kind = "enc" => base \in DOMAIN p /\ p[base] = Of(v, f.name)
    BY <1>1, <1>2, <1>3 DEF Matches
  <2>3. f.kind = "vec" =>
           \A x \in Indices :
              /\ Nth(base, x - 1) \in DOMAIN p <=> x \in 1 .. n[1]
              /\ x \in 1 .. n[1] => p[Nth(base, x - 1)] = Of(v, Nth(f.name, x - 1))
    <3> SUFFICES ASSUME f.kind = "vec", NEW x \in Indices
                 PROVE  /\ Nth(base, x - 1) \in DOMAIN p <=> x \in 1 .. n[1]
                        /\ x \in 1 .. n[1] => p[Nth(base, x - 1)] = Of(v, Nth(f.name, x - 1))
      OBVIOUS
    <3>1. /\ Nth(base, x - 1) \in DOMAIN q <=> x \in 1 .. n[1]
          /\ x \in 1 .. n[1] => q[Nth(base, x - 1)] = Of(u, Nth(f.name, x - 1))
      BY <1>3, <2>1 DEF Matches
    <3> HIDE DEF base, n, f
    <3> QED BY <1>1, <1>2, <3>1
  <2>4. f.kind = "mat" =>
           \A b, x \in Indices :
              /\ Nth(Nth(base, b - 1), x - 1) \in DOMAIN p <=> b \in DOMAIN n /\ x \in 1 .. n[b]
              /\ b \in DOMAIN n /\ x \in 1 .. n[b] =>
                    p[Nth(Nth(base, b - 1), x - 1)] = Of(v, Nth(Nth(f.name, b - 1), x - 1))
    <3> SUFFICES ASSUME f.kind = "mat", NEW b \in Indices, NEW x \in Indices
                 PROVE  /\ Nth(Nth(base, b - 1), x - 1) \in DOMAIN p <=> b \in DOMAIN n /\ x \in 1 .. n[b]
                        /\ b \in DOMAIN n /\ x \in 1 .. n[b] =>
                              p[Nth(Nth(base, b - 1), x - 1)] = Of(v, Nth(Nth(f.name, b - 1), x - 1))
      OBVIOUS
    <3>1. /\ Nth(Nth(base, b - 1), x - 1) \in DOMAIN q <=> b \in DOMAIN n /\ x \in 1 .. n[b]
          /\ b \in DOMAIN n /\ x \in 1 .. n[b] =>
                q[Nth(Nth(base, b - 1), x - 1)] = Of(u, Nth(Nth(f.name, b - 1), x - 1))
      BY <1>3, <2>1 DEF Matches
    <3> HIDE DEF base, n, f
    <3> QED BY <1>1, <1>2, <3>1
  <2> QED BY <2>2, <2>3, <2>4, Zenon DEF Matches
<1> QED BY <1>4 DEF v

(* rehydrate finds as many elements as there were, and rows.               *)
LEMMA RehydratedRight ==
  ASSUME Good(stage), args \in Args, NoEmptyRow, NEW k \in DOMAIN stage.wire, stage.wire[k].kind # "plain",
         NEW v, Matches(k, probes, args, v)
  PROVE  Rehydrated(stage.wire[k]) = FieldOf(stage.wire[k], stage.shape[args.batch][k], v)
<1> DEFINE f == stage.wire[k]
           base == ProbeBase(f)
           n == stage.shape[args.batch][k]
<1>1. /\ f.kind \in Kinds /\ args.batch \in Batches
      /\ Len(n) \in Nat /\ DOMAIN n = 1 .. Len(n) /\ \A i \in DOMAIN n : n[i] \in 0 .. MaxNumber
      /\ f.kind = "vec" => Len(n) = 1
      /\ f.kind = "mat" => Len(n) \in 0 .. MaxNumber
  BY FieldIs, LengthsAre, ArgsAre
<1> HIDE DEF n
<1>2. CASE f.kind = "enc"
  BY <1>2 DEF Matches, Rehydrated, FieldOf
<1>3. CASE f.kind = "vec"
  <2>1. n[1] \in 0 .. MaxNumber
    BY <1>1, <1>3
  <2>2. \A i \in Indices :
           /\ Nth(base, i - 1) \in DOMAIN probes <=> i \in 1 .. n[1]
           /\ i \in 1 .. n[1] => probes[Nth(base, i - 1)] = Of(v, Nth(f.name, i - 1))
    BY <1>3 DEF Matches, n
  <2> DEFINE there == {j \in Indices : Nth(base, j - 1) \in DOMAIN probes}
  <2>3. LengthOf(there) = n[1]
    <3>1. there \subseteq Indices /\ \A j \in Indices : j \in there <=> j \in 1 .. n[1]
      BY <2>2
    <3> HIDE DEF there
    <3> QED BY <2>1, <3>1, LengthExact
  <2>4. Rehydrated(f) = [i \in 1 .. LengthOf(there) |-> probes[Nth(base, i - 1)]]
    BY <1>3 DEF Rehydrated, Elements
  <2>5. FieldOf(f, n, v) = [i \in 1 .. n[1] |-> Of(v, Nth(f.name, i - 1))]
    BY <1>3 DEF FieldOf
  <2> HIDE DEF there, base, f
  <2>6. \A i \in 1 .. n[1] : probes[Nth(base, i - 1)] = Of(v, Nth(f.name, i - 1))
    BY <2>1, <2>2, Numbers
  <2>7. Rehydrated(f) = FieldOf(f, n, v)
    BY <2>3, <2>4, <2>5, <2>6
  <2> QED BY <2>7 DEF f, n
<1>4. CASE f.kind = "mat"
  <2>2. \A b, i \in Indices :
           /\ Nth(Nth(base, b - 1), i - 1) \in DOMAIN probes <=> b \in DOMAIN n /\ i \in 1 .. n[b]
           /\ b \in DOMAIN n /\ i \in 1 .. n[b] =>
                 probes[Nth(Nth(base, b - 1), i - 1)] = Of(v, Nth(Nth(f.name, b - 1), i - 1))
    BY <1>4 DEF Matches, n
  <2>3. \A b \in DOMAIN n : n[b] # 0
    <3>1. k \in Matrices
      BY <1>4 DEF Matrices
    <3>2. 0 \notin ToSet(n)
      BY <1>1, <3>1 DEF NoEmptyRow, n
    <3> QED BY <3>2 DEF ToSet
  <2>5. FieldOf(f, n, v) = [b \in DOMAIN n |-> [i \in 1 .. n[b] |-> Of(v, Nth(Nth(f.name, b - 1), i - 1))]]
    BY <1>4 DEF FieldOf
  <2>6. Rehydrated(f) = Rows(base)
    BY <1>4 DEF Rehydrated
  <2> HIDE DEF f, base
  <2>7. ASSUME NEW b \in DOMAIN n
        PROVE  /\ Elements(Nth(base, b - 1)) = [i \in 1 .. n[b] |-> Of(v, Nth(Nth(f.name, b - 1), i - 1))]
               /\ Elements(Nth(base, b - 1)) # <<>> /\ b \in Indices
    <3> DEFINE there == {j \in Indices : Nth(Nth(base, b - 1), j - 1) \in DOMAIN probes}
    <3>1. n[b] \in 0 .. MaxNumber /\ b \in Indices
      BY <1>1, <1>4, Numbers
    <3>2. LengthOf(there) = n[b]
      <4>1. there \subseteq Indices /\ \A j \in Indices : j \in there <=> j \in 1 .. n[b]
        BY <2>2, <3>1
      <4> HIDE DEF there
      <4> QED BY <3>1, <4>1, LengthExact
    <3>3. Elements(Nth(base, b - 1)) = [i \in 1 .. LengthOf(there) |-> probes[Nth(Nth(base, b - 1), i - 1)]]
      BY DEF Elements
    <3> HIDE DEF there
    <3>4. \A i \in 1 .. n[b] : probes[Nth(Nth(base, b - 1), i - 1)] = Of(v, Nth(Nth(f.name, b - 1), i - 1))
      BY <2>2, <3>1, Numbers
    <3>5. Elements(Nth(base, b - 1)) = [i \in 1 .. n[b] |-> Of(v, Nth(Nth(f.name, b - 1), i - 1))]
      BY <3>2, <3>3, <3>4
    <3>6. 1 \in 1 .. n[b]
      BY <2>3, <3>1
    <3>7. 1 \in DOMAIN Elements(Nth(base, b - 1))
      <4>1. DOMAIN Elements(Nth(base, b - 1)) = 1 .. n[b]
        BY <3>5
      <4> QED BY <3>6, <4>1
    <3>8. 1 \notin DOMAIN <<>>
      OBVIOUS
    <3> QED BY <3>1, <3>5, <3>7, <3>8
  <2>8. ASSUME NEW b \in Indices, b \notin DOMAIN n PROVE Elements(Nth(base, b - 1)) = <<>>
    <3> DEFINE there == {j \in Indices : Nth(Nth(base, b - 1), j - 1) \in DOMAIN probes}
    <3>1. there = {}
      BY <2>2, <2>8
    <3>2. LengthOf(there) = 0
      <4>1. 0 \in 0 .. MaxNumber /\ there \subseteq Indices /\ \A j \in Indices : j \in there <=> j \in 1 .. 0
        BY <3>1, WordsAssumption
      <4> HIDE DEF there
      <4> QED BY <4>1, LengthExact
    <3>3. Elements(Nth(base, b - 1)) = [i \in 1 .. LengthOf(there) |-> probes[Nth(Nth(base, b - 1), i - 1)]]
      BY DEF Elements
    <3> HIDE DEF there
    <3>4. Elements(Nth(base, b - 1)) = [i \in 1 .. 0 |-> probes[Nth(Nth(base, b - 1), i - 1)]]
      BY <3>2, <3>3
    <3> QED BY <3>4
  <2> DEFINE rows == {c \in Indices : Elements(Nth(base, c - 1)) # <<>>}
  <2>9. LengthOf(rows) = Len(n)
    <3>1. rows \subseteq Indices /\ \A c \in Indices : c \in rows <=> c \in 1 .. Len(n)
      BY <1>1, <2>7, <2>8
    <3> HIDE DEF rows
    <3> QED BY <1>1, <1>4, <3>1, LengthExact DEF f
  <2>10. Rows(base) = [b \in 1 .. LengthOf(rows) |-> Elements(Nth(base, b - 1))]
    BY DEF Rows
  <2> HIDE DEF rows
  <2>11. Rows(base) = [b \in DOMAIN n |-> Elements(Nth(base, b - 1))]
    BY <1>1, <2>9, <2>10
  <2>12. Rehydrated(f) = FieldOf(f, n, v)
    BY <2>5, <2>6, <2>7, <2>11
  <2> QED BY <2>12 DEF f, n
<1> QED BY <1>1, <1>2, <1>3, <1>4 DEF Kinds, n

-----------------------------------------------------------------------------
(* What makes it load back.                                                *)

Loads == NamesApart /\ Keyed /\ Steady /\ NoEmptyRow /\ SameRows /\ Loadable

Serializing == \E i \in DOMAIN todo : todo[i][1] = "serialize"
Writing(x) == \E i \in DOMAIN todo : todo[i] = <<"write", x>>

(* What the stage computes of this process, hollow or not.                 *)
Result(h) == Value(<<>>, args, input, h)

(* Recordings have the probes of a result, and so has a process that is    *)
(* past its own.                                                           *)
Recorded(c, k) == \E i, h : Matches(k, cache[c], c, Value(<<>>, c, i, h))
Found(k) == \E h \in {FALSE, args.hollow} : Matches(k, probes, args, Result(h))
PInv ==
    /\ \A c \in DOMAIN cache : \A k \in DOMAIN stage.wire : Recorded(c, k)
    /\ Active =>
         /\ (\E j : Left("save", j)) => Probing
         /\ Probing => \A N \in DOMAIN probes : N[1] # "result"
         /\ ~Probing /\ ~Replaying => \A k \in DOMAIN stage.wire : Found(k)

FieldRight(k) ==
    LET f == stage.wire[k]
    IN  f.kind # "plain" =>
          \E h \in {FALSE, args.hollow} : result[f.name] = FieldOf(f, stage.shape[args.batch][k], Result(h))
CInv ==
    Active /\ ~Probing =>
      \A k \in DOMAIN stage.wire : ~Left("rehydrate", k) => FieldRight(k)

(* Of the files of the result, each is left to be written or is there.     *)
WriteSet == ToSet(Written)
WInv ==
    Active =>
      /\ Serializing => \A i \in DOMAIN todo : todo[i][1] # "write"
      /\ ~Serializing =>
           /\ \A i \in DOMAIN todo : todo[i][1] = "write" /\ todo[i][2] \in WriteSet
           /\ \A x \in WriteSet : Writing(x) \/ (x.path \in DOMAIN files /\ files[x.path] = x.value)

(* The paths of field k in directory d, of a batch whose lengths are n.    *)
PathsOf(k, d, n) ==
    LET f == stage.wire[k]
    IN  CASE f.kind \in {"enc", "plain"} -> {File(<<d>>, f.name)}
          [] f.kind = "vec" -> {File(<<d>>, Nth(f.name, i - 1)) : i \in 1 .. n[1]}
          [] f.kind = "mat" ->
                {BatchDir(<<d>>, b - 1) : b \in DOMAIN n}
                  \cup UNION {{File(BatchDir(<<d>>, b - 1), Nth(f.name, i - 1)) : i \in 1 .. n[b]} : b \in DOMAIN n}
OutDirs == {Nth(<<"out">>, i) : i \in Insts}
FInv ==
    stage.writes = "wire" =>
      \A p \in DOMAIN files : p[1] \in OutDirs =>
        \E b \in Batches : \E k \in DOMAIN stage.wire : p \in PathsOf(k, p[1], stage.shape[b][k])

LInv == (stage = NoStage => files = <<>>) /\ (Loads => PInv /\ CInv /\ WInv /\ FInv)
LEMMA LoadsKept == ASSUME stage' = stage PROVE Loads' = Loads
BY Kept DEF Loads, Steady, NoEmptyRow, SameRows, Matrices, Loadable, OneCiphertext

LEMMA Fewer ==
  ASSUME Ordered, todo # <<>>, todo' = Tail(todo)
  PROVE  /\ \A tag, j : Left(tag, j)' => Left(tag, j)
         /\ Probing' => Probing
         /\ Serializing => Serializing' \/ Head(todo)[1] = "serialize"
         /\ Serializing' => Serializing
         /\ \A i \in DOMAIN todo' : \E j \in DOMAIN todo : todo'[i] = todo[j]
         /\ \A x : Writing(x) => Writing(x)' \/ Head(todo) = <<"write", x>>
         /\ Head(todo)[1] # "save" => ~Probing' /\ \A j : ~Left("save", j)'
<1>1. PICK T : todo \in Seq(T)
  BY DEF Ordered
<1>2. /\ Len(todo) \in Nat /\ DOMAIN todo = 1 .. Len(todo) /\ Len(todo) # 0 /\ Head(todo) = todo[1]
      /\ todo' \in Seq(T) /\ DOMAIN todo' = 1 .. Len(todo) - 1 /\ Len(todo') = Len(todo) - 1
      /\ \A i \in 1 .. Len(todo) - 1 : todo'[i] = todo[i + 1]
  BY <1>1, HeadTailProperties, LenProperties, EmptySeq
<1>3. ASSUME NEW i \in DOMAIN todo PROVE i = 1 \/ (i - 1 \in DOMAIN todo' /\ todo'[i - 1] = todo[i])
  BY <1>2
<1>4. ASSUME NEW i \in DOMAIN todo' PROVE i + 1 \in DOMAIN todo /\ todo'[i] = todo[i + 1] /\ 1 < i + 1
  BY <1>2
<1>5. Serializing => Serializing' \/ Head(todo)[1] = "serialize"
  BY <1>2, <1>3 DEF Serializing
<1>6. \A x : Writing(x) => Writing(x)' \/ Head(todo) = <<"write", x>>
  BY <1>2, <1>3 DEF Writing
<1>7. ASSUME Head(todo)[1] # "save" PROVE ~Probing' /\ \A j : ~Left("save", j)'
  <2>1. 1 \in DOMAIN todo /\ StepRight(1)
    BY <1>2 DEF Ordered
  <2>2. \A i \in DOMAIN todo : 1 < i => todo[i][1] \notin {"save", "probe"}
    BY <1>2, <1>7, <2>1 DEF StepRight
  <2> QED BY <1>4, <2>2 DEF Left, Probing
<1> QED BY <1>4, <1>5, <1>6, <1>7 DEF Left, Probing, Serializing

(* The steps that a process starts with.                                   *)
LEMMA BeginHas ==
  ASSUME Base, Begin
  PROVE  Serializing' /\ (\A i \in DOMAIN todo' : todo'[i][1] # "write") /\ ((\E j : Left("save", j)') => Probing')
<1> DEFINE q == << <<"replay">> >> \o Rehydrating(1)
           n == Len(stage.saves)
           m == Len(stage.wire)
<1>1. Good(stage) /\ (todo' = q \/ todo' = Recording(1))
  BY DEF Begin, Base
<1>2. n \in Nat /\ m \in Nat
  BY <1>1, ReplayIs
<1> HIDE DEF n, m
<1>3. CASE todo' = Recording(1)
  <2>1. /\ DOMAIN todo' = 1 .. n + 3
        /\ \A i \in 1 .. n : todo'[i] = <<"save", i>>
        /\ todo'[n + 1] = <<"probe">> /\ todo'[n + 2] = <<"stop">> /\ todo'[n + 3] = <<"serialize">>
    BY <1>1, <1>3, RecordingIs DEF n
  <2>2. \A i \in DOMAIN todo' : i \in 1 .. n \/ i = n + 1 \/ i = n + 2 \/ i = n + 3
    BY <1>2, <2>1
  <2>3. n + 1 \in DOMAIN todo' /\ n + 3 \in DOMAIN todo'
    BY <1>2, <2>1
  <2>4. \A i \in DOMAIN todo' : todo'[i][1] # "write"
    <3> TAKE i \in DOMAIN todo'
    <3> QED BY <2>1, <2>2
  <2> QED BY <2>1, <2>3, <2>4 DEF Serializing, Probing
<1>4. CASE todo' = q
  <2>1. /\ DOMAIN todo' = 1 .. m + n + 2
        /\ todo'[1] = <<"replay">>
        /\ \A i \in 1 .. m : todo'[1 + i] = <<"rehydrate", i>>
        /\ \A i \in 1 .. n : todo'[1 + (m + i)] = <<"restore", i>>
        /\ todo'[m + n + 2] = <<"serialize">>
    BY <1>1, <1>4, ReplayIs DEF n, m
  <2>2. ASSUME NEW i \in DOMAIN todo' PROVE todo'[i][1] \in {"replay", "rehydrate", "restore", "serialize"}
    <3>1. i = 1 \/ i - 1 \in 1 .. m \/ i - (m + 1) \in 1 .. n \/ i = m + n + 2
      <4>1. i \in 1 .. m + n + 2
        BY <2>1
      <4> QED BY <1>2, <4>1
    <3>2. 1 + (i - 1) = i /\ 1 + (m + (i - (m + 1))) = i
      BY <1>2, <2>1
    <3>3. CASE i - 1 \in 1 .. m
      <4>1. todo'[i] = <<"rehydrate", i - 1>>
        BY <2>1, <3>2, <3>3
      <4> QED BY <4>1
    <3>4. CASE i - (m + 1) \in 1 .. n
      <4>1. todo'[i] = <<"restore", i - (m + 1)>>
        BY <2>1, <3>2, <3>4
      <4> QED BY <4>1
    <3> QED BY <2>1, <3>1, <3>3, <3>4
  <2>3. \A j : ~Left("save", j)'
    <3> SUFFICES ASSUME NEW j, NEW i \in DOMAIN todo' PROVE todo'[i] # <<"save", j>>
      BY DEF Left
    <3> QED BY <2>2
  <2>4. m + n + 2 \in DOMAIN todo' /\ todo'[m + n + 2][1] = "serialize"
    BY <1>2, <2>1
  <2>5. Serializing'
    BY <2>4 DEF Serializing
  <2> QED BY <2>2, <2>3, <2>5
<1> QED BY <1>1, <1>3, <1>4

LEMMA SameValue ==
  ASSUME NEW a, NEW c, c.inst = a.inst, c.batch = a.batch, c.param = a.param, NEW what, NEW i, NEW h
  PROVE  Value(what, a, i, h) = Value(what, c, i, h)
BY DEF Value

(* What is saved does not have the name of a result.                       *)
LEMMA StemsApart ==
  ASSUME Good(stage), NamesApart, NEW k \in DOMAIN stage.saves, NEW N \in ToSet(Stems(stage.saves[k]))
  PROVE  N[1] # "result"
<1>1. N \in Names
  <2>1. Stems(stage.saves[k]) \in Seq(Names)
    BY SavesAre, SaveIs
  <2> QED BY <2>1, SetOf
<1>2. Head(N) # "result" /\ Head(N) = N[1]
  BY <1>1 DEF NamesApart, Names
<1> QED BY <1>2

(* A step that leaves probes and cache as they are.                        *)
LEMMA FramePInv ==
  ASSUME PInv, UNCHANGED <<stage, args, input, cache, probes>>, Active' => Active,
         Active' => /\ (~Probing' => ~Probing) /\ (Probing' => Probing) /\ (~Replaying' => ~Replaying)
                    /\ \A j : Left("save", j)' => Left("save", j)
  PROVE  PInv'
<1>1. \A k : Found(k)' = Found(k)
  BY DEF Found, Result, Matches, ProbeBase
<1>2. \A c, k : Recorded(c, k)' = Recorded(c, k)
  BY DEF Recorded, Matches, ProbeBase
<1>3. \A c \in DOMAIN cache' : \A k \in DOMAIN stage'.wire : Recorded(c, k)'
  BY <1>2 DEF PInv
<1>4. Active' =>
         /\ (\E j : Left("save", j)') => Probing'
         /\ Probing' => \A N \in DOMAIN probes' : N[1] # "result"
         /\ ~Probing' /\ ~Replaying' => \A k \in DOMAIN stage'.wire : Found(k)'
  BY <1>1 DEF PInv
<1> QED BY <1>3, <1>4 DEF PInv

LEMMA FoundIs ==
  ASSUME UNCHANGED <<stage, args, input>>, NEW k, NEW h \in {FALSE, args.hollow},
         Matches(k, probes', args, Value(<<>>, args, input, h))
  PROVE  Found(k)'
<1>1. Matches(k, probes, args, Result(h))'
  BY Zenon DEF Result, Matches, ProbeBase
<1>2. h \in {FALSE, args'.hollow}
  OBVIOUS
<1> QED BY <1>1, <1>2 DEF Found

LEMMA RecordedIs ==
  ASSUME UNCHANGED stage, NEW c, NEW k, NEW i, NEW h, Matches(k, cache'[c], c, Value(<<>>, c, i, h))
  PROVE  Recorded(c, k)'
BY DEF Recorded, Matches, ProbeBase

LEMMA NextPInv ==
  ASSUME Base, RInv, PInv, Loads, Next, stage' = stage
  PROVE  PInv'
<1>1. CASE Begin
  <2>1. /\ cache' = cache /\ probes' = <<>> /\ ((\E j : Left("save", j)') => Probing') /\ (Probing' \/ Replaying')
    BY <1>1, BeginIs, BeginHas
  <2>2. \A c, k : Recorded(c, k)' = Recorded(c, k)
    BY <2>1 DEF Recorded, Matches, ProbeBase
  <2>3. \A N \in DOMAIN probes' : N[1] # "result"
    BY <2>1
  <2>4. \A c \in DOMAIN cache' : \A k \in DOMAIN stage'.wire : Recorded(c, k)'
    BY <2>1, <2>2 DEF PInv
  <2> QED BY <2>1, <2>3, <2>4 DEF PInv
<1>2. CASE ~Active'
  <2>1. CASE cache' = cache
    <3>1. \A c, k : Recorded(c, k)' = Recorded(c, k)
      BY <2>1 DEF Recorded, Matches, ProbeBase
    <3>2. \A c \in DOMAIN cache' : \A k \in DOMAIN stage'.wire : Recorded(c, k)'
      BY <2>1, <3>1 DEF PInv
    <3> QED BY <1>2, <3>2 DEF PInv
  <2>2. CASE Stop
    BY <1>2, <2>2 DEF Stop, Step, Goes, Active
  <2> QED BY <2>1, <2>2 DEF Next, Compile, Begin, Save, Probe, Replay, Rehydrate, Restore, Serialize, WriteFile,
                            Exit, Kill, Encrypt, Fails, Goes
<1> DEFINE Moving == /\ exit = "running" /\ todo # <<>> /\ todo' = Tail(todo) /\ UNCHANGED <<stage, args, exit, input>>
                     /\ DOMAIN cache \subseteq DOMAIN cache'
<1>3. ASSUME Moving
      PROVE  /\ Good(stage) /\ args \in Args /\ Ordered /\ ~Replaying' /\ Active /\ Active' /\ StepRight(1)
             /\ 1 \in DOMAIN todo /\ Head(todo) = todo[1]
             /\ Head(todo)[1] # "replay" => ~Replaying
             /\ Head(todo)[1] \in {"save", "restore"} =>
                   Operand \in DOMAIN stage.saves /\ Head(todo) = <<Head(todo)[1], Operand>>
             /\ Probing => Probing' \/ Head(todo)[1] = "probe"
             /\ \A j : Left("save", j)' => Left("save", j)
             /\ Probing' => Probing
             /\ Head(todo)[1] # "save" => ~Probing' /\ \A j : ~Left("save", j)'
  <2>1. /\ Good(stage) /\ args \in Args /\ Ordered /\ ~Replaying' /\ Active /\ Active' /\ StepRight(1)
        /\ 1 \in DOMAIN todo /\ Head(todo) = todo[1]
        /\ Head(todo)[1] # "replay" => ~Replaying
        /\ Head(todo)[1] \in {"save", "restore"} =>
              Operand \in DOMAIN stage.saves /\ Head(todo) = <<Head(todo)[1], Operand>>
        /\ Probing => Probing' \/ Head(todo)[1] = "probe"
    BY <1>3, OneStep
  <2>2. /\ \A tag, j : Left(tag, j)' => Left(tag, j)
        /\ Probing' => Probing
        /\ Head(todo)[1] # "save" => ~Probing' /\ \A j : ~Left("save", j)'
    BY <1>3, <2>1, Fewer
  <2> QED BY <2>1, <2>2
<1>4. CASE Save
  <2>1. /\ Moving /\ Head(todo)[1] = "save" /\ cache' = cache
        /\ DOMAIN probes' \subseteq DOMAIN probes \cup ToSet(Stems(stage.saves[Operand]))
    BY <1>4 DEF Save, Step, Goes, Over
  <2>2. /\ Good(stage) /\ Active /\ Operand \in DOMAIN stage.saves
        /\ 1 \in DOMAIN todo /\ todo[1] = <<"save", Operand>> /\ (Probing => Probing')
    <3>1. /\ Good(stage) /\ Active /\ Operand \in DOMAIN stage.saves /\ Head(todo) = <<Head(todo)[1], Operand>>
          /\ 1 \in DOMAIN todo /\ Head(todo) = todo[1] /\ (Probing => Probing' \/ Head(todo)[1] = "probe")
      BY <1>3, <2>1
    <3> HIDE DEF Moving
    <3> QED BY <2>1, <3>1
  <2>3. Probing
    BY <2>2 DEF PInv, Left
  <2>4. \A N \in DOMAIN probes' : N[1] # "result"
    BY <2>1, <2>2, <2>3, StemsApart DEF PInv, Loads
  <2>5. \A c \in DOMAIN cache' : \A k \in DOMAIN stage'.wire : Recorded(c, k)'
    <3>1. \A c, k : Recorded(c, k)' = Recorded(c, k)
      BY <2>1 DEF Recorded, Matches, ProbeBase
    <3> QED BY <2>1, <3>1 DEF PInv
  <2> QED BY <2>2, <2>3, <2>4, <2>5 DEF PInv
<1>5. CASE Probe
  <2>1. /\ Moving /\ Head(todo)[1] = "probe" /\ cache' = cache
        /\ probes' = Over(AllProbed(ResultOf(stage, args, Value(<<>>, args, input, args.hollow))), probes)
    BY <1>5 DEF Probe, Step, Goes, Computed
  <2>2. /\ Good(stage) /\ args \in Args /\ Active /\ ~Probing' /\ 1 \in DOMAIN todo /\ Head(todo) = todo[1]
        /\ \A j : ~Left("save", j)'
    BY <1>3, <2>1
  <2>3. Probing
    BY <2>1, <2>2 DEF Probing
  <2>4. \A N \in DOMAIN probes : N[1] # "result"
    BY <2>2, <2>3 DEF PInv
  <2>5. ASSUME NEW k \in DOMAIN stage.wire PROVE Found(k)'
    <3>1. Matches(k, probes', args, Value(<<>>, args, input, args.hollow))
      BY <2>1, <2>2, <2>4, ProbeMatches DEF Loads
    <3> QED BY <2>1, <3>1, FoundIs
  <2>6. \A c \in DOMAIN cache' : \A k \in DOMAIN stage'.wire : Recorded(c, k)'
    <3>1. \A c, k : Recorded(c, k)' = Recorded(c, k)
      BY <2>1 DEF Recorded, Matches, ProbeBase
    <3> QED BY <2>1, <3>1 DEF PInv
  <2> QED BY <2>2, <2>5, <2>6 DEF PInv
<1>6. CASE Stop
  <2> DEFINE key == CacheKey(args)
  <2>1. /\ Moving /\ Head(todo)[1] = "stop" /\ probes' = probes
        /\ DOMAIN cache' = DOMAIN cache \cup {key} /\ cache'[key] = probes
        /\ \A c \in DOMAIN cache : c # key => cache'[c] = cache[c]
    BY <1>6 DEF Stop, Step, Goes, Over, One
  <2>2. Active /\ ~Replaying /\ ~Probing' /\ \A j : ~Left("save", j)'
    BY <1>3, <2>1
  <2>3. ~Probing
    BY <2>1, NoneLeft
  <2>4. key.inst = args.inst /\ key.batch = args.batch /\ key.param = args.param
    BY DEF Loads, Keyed, CacheKey
  <2> HIDE DEF key
  <2>5. \A k \in DOMAIN stage.wire : Found(k)
    BY <2>2, <2>3 DEF PInv
  <2>9. PICK c : c = key
    OBVIOUS
  <2>6. ASSUME NEW k \in DOMAIN stage.wire PROVE Found(k)' /\ Recorded(c, k)'
    <3>1. PICK h \in {FALSE, args.hollow} : Matches(k, probes, args, Value(<<>>, args, input, h))
      BY <2>5 DEF Found, Result
    <3>2. Matches(k, probes', args, Value(<<>>, args, input, h))
      BY <2>1, <3>1
    <3>3. Found(k)'
      BY <2>1, <3>2, FoundIs
    <3>4. Value(<<>>, args, input, h) = Value(<<>>, c, input, h)
      BY <2>4, <2>9, SameValue
    <3>5. Matches(k, probes, args, Value(<<>>, c, input, h))
      BY <3>1, <3>4
    <3>6. Matches(k, probes, c, Value(<<>>, c, input, h))
      BY <2>4, <2>9, <3>5 DEF Matches
    <3>7. Matches(k, cache'[c], c, Value(<<>>, c, input, h))
      BY <2>1, <2>9, <3>6
    <3> QED BY <3>3, <3>7, RecordedIs
  <2>7. ASSUME NEW b \in DOMAIN cache, b # c, NEW k \in DOMAIN stage.wire PROVE Recorded(b, k)'
    <3>1. PICK i, h : Matches(k, cache[b], b, Value(<<>>, b, i, h))
      BY DEF PInv, Recorded
    <3>2. Matches(k, cache'[b], b, Value(<<>>, b, i, h))
      BY <2>1, <2>7, <2>9, <3>1
    <3> QED BY <3>2, RecordedIs
  <2>8. ASSUME NEW b \in DOMAIN cache', NEW k \in DOMAIN stage'.wire PROVE Recorded(b, k)'
    <3>1. k \in DOMAIN stage.wire /\ (b \in DOMAIN cache \/ b = c)
      BY <2>1, <2>9
    <3>2. CASE b = c
      BY <2>6, <3>1, <3>2
    <3>3. CASE b # c
      BY <2>7, <3>1, <3>3
    <3> QED BY <3>2, <3>3
  <2> QED BY <2>2, <2>6, <2>8 DEF PInv
<1>7. CASE Replay /\ ~Fails
  <2> DEFINE key == CacheKey(args)
  <2>1. /\ Moving /\ Head(todo)[1] = "replay" /\ cache' = cache
        /\ probes' = [N \in DOMAIN cache[key] |-> Value(cache[key][N].what, cache[key][N], input, FALSE)]
    BY <1>7 DEF Replay, Step, Goes
  <2>2. StepRight(1) /\ ~Probing' /\ (\A j : ~Left("save", j)') /\ Head(todo) = todo[1]
    BY <1>3, <2>1
  <2>3. key \in DOMAIN cache
    BY <2>1, <2>2 DEF StepRight
  <2>4. key.inst = args.inst /\ key.batch = args.batch /\ key.param = args.param
    BY DEF Loads, Keyed, CacheKey
  <2> HIDE DEF key
  <2>5. ASSUME NEW k \in DOMAIN stage.wire PROVE Found(k)'
    <3>1. PICK i, h : Matches(k, cache[key], key, Value(<<>>, key, i, h))
      BY <2>3 DEF PInv, Recorded
    <3>2. Matches(k, probes', args, Value(<<>>, args, input, FALSE))
      BY <2>1, <2>4, <3>1, ReplayMatches
    <3> QED BY <2>1, <3>2, FoundIs
  <2>6. \A c \in DOMAIN cache' : \A k \in DOMAIN stage'.wire : Recorded(c, k)'
    <3>1. \A c, k : Recorded(c, k)' = Recorded(c, k)
      BY <2>1 DEF Recorded, Matches, ProbeBase
    <3> QED BY <2>1, <3>1 DEF PInv
  <2> QED BY <2>2, <2>5, <2>6 DEF PInv
<1>8. ASSUME Moving, Head(todo)[1] \notin {"save", "probe", "replay"}, UNCHANGED <<cache, probes>>
      PROVE  PInv'
  <2>1. /\ Active /\ ~Replaying /\ ~Probing' /\ \A j : ~Left("save", j)'
    BY <1>3, <1>8
  <2>2. ~Probing
    BY <1>8, NoneLeft
  <2> QED BY <1>8, <2>1, <2>2, FramePInv
<1>9. CASE (Rehydrate \/ WriteFile \/ Restore) /\ Active'
  BY <1>8, <1>9 DEF Rehydrate, WriteFile, Restore, Step, Goes, Fails, Active
<1>10. CASE Serialize
  <2>1. ~Replaying /\ ~Probing /\ Active /\ UNCHANGED <<stage, args, input, cache, probes>>
    BY <1>10, SerializeLast DEF Serialize
  <2>2. \A i \in DOMAIN todo' : todo'[i][1] = "write"
    <3>1. \E n, ws : todo' = [i \in 1 .. n |-> <<"write", ws[i]>>]
      BY <1>10, SerializeIs
    <3> QED BY <3>1
  <2>3. ~Probing' /\ \A j : ~Left("save", j)'
    BY <2>2 DEF Probing, Left
  <2> QED BY <2>1, <2>3, FramePInv
<1>11. CASE Exit
  <2>1. UNCHANGED <<stage, args, todo, probes, cache, input>> /\ Active
    BY <1>11 DEF Exit, Active
  <2>2. Probing' = Probing /\ Replaying' = Replaying /\ \A j : Left("save", j)' = Left("save", j)
    BY <2>1 DEF Probing, Replaying, Left
  <2> QED BY <2>1, <2>2, FramePInv
<1>12. CASE Kill \/ Encrypt \/ Compile \/ (Replay /\ Fails)
  <2>1. ~Active'
    BY <1>12 DEF Kill, Encrypt, Compile, Fails, Active, Base
  <2> QED BY <1>2, <2>1
<1> QED BY <1>1, <1>2, <1>4, <1>5, <1>6, <1>7, <1>9, <1>10, <1>11, <1>12 DEF Next

-----------------------------------------------------------------------------
(* The result, once it is rehydrated.                                      *)

LEMMA FrameCInv ==
  ASSUME CInv, UNCHANGED <<stage, args, input, result>>, Active' => Active,
         Active' => (~Probing' => ~Probing) /\ \A j : ~Left("rehydrate", j)' => ~Left("rehydrate", j)
  PROVE  CInv'
<1>1. \A k : FieldRight(k)' = FieldRight(k)
  BY DEF FieldRight, Result
<1> QED BY <1>1 DEF CInv

LEMMA FieldRightIs ==
  ASSUME UNCHANGED <<stage, args, input>>, NEW k, NEW h \in {FALSE, args.hollow},
         stage.wire[k].kind # "plain" =>
           result'[stage.wire[k].name] = FieldOf(stage.wire[k], stage.shape[args.batch][k], Value(<<>>, args, input, h))
  PROVE  FieldRight(k)'
BY DEF FieldRight, Result

LEMMA NextCInv ==
  ASSUME Base, RInv, PInv, CInv, Loads, Next, stage' = stage
  PROVE  CInv'
<1>1. CASE ~Active'
  BY <1>1 DEF CInv
<1>2. CASE Begin
  <2>1. \A k \in DOMAIN stage'.wire : Probing' \/ Left("rehydrate", k)'
    BY <1>2, BeginIs
  <2> QED BY <2>1 DEF CInv
<1> DEFINE Moving == /\ exit = "running" /\ todo # <<>> /\ todo' = Tail(todo) /\ UNCHANGED <<stage, args, exit, input>>
                     /\ DOMAIN cache \subseteq DOMAIN cache'
<1>3. ASSUME Moving
      PROVE  /\ Good(stage) /\ args \in Args /\ Active /\ StepRight(1)
             /\ 1 \in DOMAIN todo /\ Head(todo) = todo[1]
             /\ Head(todo)[1] # "replay" => ~Replaying
             /\ Probing => Probing' \/ Head(todo)[1] = "probe"
             /\ \A tag, j : Left(tag, j) => Left(tag, j)' \/ Head(todo) = <<tag, j>>
  BY <1>3, OneStep
<1>4. ASSUME Moving, Head(todo)[1] \notin {"probe", "rehydrate"}, result' = result
      PROVE  CInv'
  <2>1. \A j : Head(todo) # <<"rehydrate", j>>
    BY <1>4
  <2> QED BY <1>3, <1>4, <2>1, FrameCInv
<1>5. CASE Save \/ Stop \/ WriteFile
  BY <1>4, <1>5 DEF Save, Stop, WriteFile, Step, Goes, Over, One
<1>6. CASE (Replay \/ Restore) /\ Active'
  BY <1>4, <1>6 DEF Replay, Restore, Step, Goes, Fails, Active
<1>7. CASE Serialize
  <2>1. Active /\ ~Probing /\ \A j : ~Left("rehydrate", j)
    BY <1>7, SerializeLast
  <2> QED BY <1>7, <2>1, FrameCInv DEF Serialize
<1>8. CASE Exit
  <2>1. UNCHANGED <<stage, args, todo, result, input>> /\ Active
    BY <1>8 DEF Exit, Active
  <2>2. Probing' = Probing /\ \A j : Left("rehydrate", j)' = Left("rehydrate", j)
    BY <2>1 DEF Probing, Left
  <2> QED BY <2>1, <2>2, FrameCInv
<1>9. CASE Probe
  <2>1. Moving /\ result' = ResultOf(stage, args, Value(<<>>, args, input, args.hollow))
    BY <1>9 DEF Probe, Step, Goes, Computed
  <2>2. Good(stage)
    BY <1>3, <2>1
  <2>3. ASSUME NEW k \in DOMAIN stage.wire PROVE FieldRight(k)'
    <3>1. result'[stage.wire[k].name] = FieldOf(stage.wire[k], stage.shape[args.batch][k], Value(<<>>, args, input, args.hollow))
      BY <2>1, <2>2, ResultField
    <3> QED BY <2>1, <3>1, FieldRightIs
  <2> QED BY <2>3 DEF CInv
<1>10. CASE Rehydrate /\ Active'
  <2> DEFINE i == Operand
             f == stage.wire[i]
  <2>1. /\ Moving /\ UNCHANGED probes
        /\ Head(todo)[1] = "rehydrate"
        /\ result' = Over(One(f.name, Rehydrated(f)), result)
    BY <1>10 DEF Rehydrate, Step, Goes, Fails, Active
  <2>2. /\ Active /\ Good(stage) /\ args \in Args /\ StepRight(1) /\ Head(todo) = todo[1] /\ ~Replaying
        /\ \A tag, j : Left(tag, j) => Left(tag, j)' \/ Head(todo) = <<tag, j>>
    BY <1>3, <2>1
  <2>3. i \in DOMAIN stage.wire
    BY <2>1, <2>2 DEF StepRight, Operand
  <2>4. \A j : Head(todo) = <<"rehydrate", j>> => j = i
    BY DEF Operand
  <2>5. /\ result'[f.name] = Rehydrated(f)
        /\ \A x \in DOMAIN result : x # f.name => result'[x] = result[x]
        /\ \A x : x # f.name /\ x \in DOMAIN result' => x \in DOMAIN result
    BY <2>1 DEF Over, One
  <2>6. ~Probing
    BY <2>1, NoneLeft
  <2> HIDE DEF Moving
  <2>7. ASSUME NEW k \in DOMAIN stage.wire, ~Left("rehydrate", k)' PROVE FieldRight(k)'
    <3>1. CASE k = i
      <4>1. Found(k)
        BY <2>2, <2>6 DEF PInv
      <4>2. PICK h \in {FALSE, args.hollow} : Matches(k, probes, args, Value(<<>>, args, input, h))
        BY <4>1 DEF Found, Result
      <4>3. stage.wire[k].kind # "plain" =>
               result'[stage.wire[k].name] = FieldOf(stage.wire[k], stage.shape[args.batch][k], Value(<<>>, args, input, h))
        BY <2>2, <2>5, <3>1, <4>2, RehydratedRight DEF Loads
      <4> QED BY <2>1, <4>3, FieldRightIs DEF Moving
    <3>2. CASE k # i
      <4>1. stage.wire[k].name # f.name
        BY <2>2, <2>3, <3>2, StageIs DEF Good
      <4>2. ~Left("rehydrate", k)
        BY <2>2, <2>4, <2>7, <3>2
      <4>3. FieldRight(k) /\ stage.wire[k].name \in DOMAIN result
        BY <2>2, <2>6, <4>2 DEF CInv, RInv, ResultRight
      <4>4. result'[stage.wire[k].name] = result[stage.wire[k].name]
        BY <2>5, <4>1, <4>3
      <4> QED BY <2>1, <4>3, <4>4 DEF FieldRight, Result, Moving
    <3> QED BY <3>1, <3>2
  <2> QED BY <2>1, <2>7 DEF CInv, Moving
<1>11. CASE Kill \/ Encrypt \/ Compile
  <2>1. ~Active'
    BY <1>11 DEF Kill, Encrypt, Compile, Active, Base
  <2> QED BY <1>1, <2>1
<1> QED BY <1>1, <1>2, <1>5, <1>6, <1>7, <1>8, <1>9, <1>10, <1>11 DEF Next

-----------------------------------------------------------------------------
(* The paths of a wire.                                                    *)

LEMMA AppendToTwo == ASSUME NEW d, NEW e, NEW g PROVE Append(<<d, e>>, g) = <<d, e, g>>
<1> DEFINE S == {d, e, g}
           a == <<d, e>>
           p == <<d, e, g>>
<1>1. /\ a \in Seq(S) /\ Len(a) = 2 /\ a[1] = d /\ a[2] = e /\ g \in S
      /\ p \in Seq(S) /\ Len(p) = 3 /\ p[1] = d /\ p[2] = e /\ p[3] = g
  OBVIOUS
<1> HIDE DEF a, p, S
<1>2. /\ Append(a, g) \in Seq(S) /\ Len(Append(a, g)) = 3
      /\ Append(a, g)[1] = d /\ Append(a, g)[2] = e /\ Append(a, g)[3] = g
  <2>1. a \in Seq(S) /\ g \in S
    BY <1>1
  <2>2. /\ Append(a, g) \in Seq(S) /\ Len(Append(a, g)) = Len(a) + 1
        /\ \A i \in 1 .. Len(a) : Append(a, g)[i] = a[i]
        /\ Append(a, g)[Len(a) + 1] = g
    BY <2>1, AppendProperties
  <2> QED BY <1>1, <2>2
<1>3. \A i \in 1 .. 3 : Append(a, g)[i] = p[i]
  <2>1. \A i \in 1 .. 3 : i = 1 \/ i = 2 \/ i = 3
    OBVIOUS
  <2> QED BY <1>1, <1>2, <2>1
<1>4. Append(a, g) = p
  BY <1>1, <1>2, <1>3, SeqEqual
<1> QED BY <1>4 DEF a, p

LEMMA PathsAre ==
  ASSUME NEW d, NEW N, NEW b
  PROVE  /\ File(<<d>>, N) = <<d, Append(N, ".bin")>>
         /\ BatchDir(<<d>>, b) = <<d, Nth(<<"batch">>, b)>>
         /\ File(BatchDir(<<d>>, b), N) = <<d, Nth(<<"batch">>, b), Append(N, ".bin")>>
<1>1. File(<<d>>, N) = <<d, Append(N, ".bin")>>
  BY AppendToOne DEF File
<1>2. BatchDir(<<d>>, b) = <<d, Nth(<<"batch">>, b)>>
  BY AppendToOne DEF BatchDir
<1>3. File(<<d, Nth(<<"batch">>, b)>>, N) = <<d, Nth(<<"batch">>, b), Append(N, ".bin")>>
  BY AppendToTwo DEF File
<1> QED BY <1>1, <1>2, <1>3

LEMMA PathsDiffer ==
  ASSUME NEW d, NEW N \in Seq(Words), NEW M \in Seq(Words), NEW b \in 0 .. MaxNumber, NEW c \in 0 .. MaxNumber
  PROVE  /\ File(<<d>>, N) = File(<<d>>, M) => N = M
         /\ BatchDir(<<d>>, b) = BatchDir(<<d>>, c) => b = c
         /\ File(BatchDir(<<d>>, b), N) = File(BatchDir(<<d>>, c), M) => b = c /\ N = M
         /\ File(<<d>>, N) # BatchDir(<<d>>, b)
         /\ File(<<d>>, N) # File(BatchDir(<<d>>, b), M)
         /\ BatchDir(<<d>>, b) # File(BatchDir(<<d>>, c), N)
<1>1. ".bin" \in Words /\ <<"batch">> \in Seq(Words) /\ Numeral(b) \in Words /\ Numeral(b) # ".bin"
  BY WordsAssumption
<1>2. Append(N, ".bin") = Append(M, ".bin") => N = M
  BY <1>1, AppendInjective
<1>3. Nth(<<"batch">>, b) = Nth(<<"batch">>, c) => b = c
  BY <1>1, NthInjective
<1>4. Append(N, ".bin") # Nth(<<"batch">>, b)
  BY <1>1, AppendInjective DEF Nth
<1>5. \A x, y, z, u, v : /\ <<x, y>> = <<x, z>> => y = z
                         /\ <<x, y, z>> = <<x, u, v>> => y = u /\ z = v
                         /\ <<x, y>> # <<x, u, v>>
  OBVIOUS
<1> DEFINE x == Append(N, ".bin")
           y == Append(M, ".bin")
           u == Nth(<<"batch">>, b)
           w == Nth(<<"batch">>, c)
<1>6. /\ File(<<d>>, N) = <<d, x>> /\ File(<<d>>, M) = <<d, y>>
      /\ BatchDir(<<d>>, b) = <<d, u>> /\ BatchDir(<<d>>, c) = <<d, w>>
      /\ File(BatchDir(<<d>>, b), N) = <<d, u, x>> /\ File(BatchDir(<<d>>, c), M) = <<d, w, y>>
      /\ File(BatchDir(<<d>>, b), M) = <<d, u, y>> /\ File(BatchDir(<<d>>, c), N) = <<d, w, x>>
  BY PathsAre
<1> HIDE DEF x, y, u, w
<1>7. /\ <<d, x>> = <<d, y>> => x = y
      /\ <<d, u>> = <<d, w>> => u = w
      /\ <<d, u, x>> = <<d, w, y>> => u = w /\ x = y
      /\ <<d, x>> = <<d, u>> => x = u
      /\ <<d, x>> # <<d, u, y>> /\ <<d, u>> # <<d, w, x>>
  BY <1>5
<1>8. (x = y => N = M) /\ (u = w => b = c) /\ x # u
  BY <1>2, <1>3, <1>4 DEF x, y, u, w
<1> QED BY <1>6, <1>7, <1>8

(* The lengths of a field, in any batch.                                   *)
LengthsFit(k, n) ==
    /\ stage.wire[k].kind = "vec" => n[1] \in 0 .. MaxNumber
    /\ stage.wire[k].kind = "mat" =>
         /\ Len(n) \in 0 .. MaxNumber /\ DOMAIN n = 1 .. Len(n) /\ \A b \in DOMAIN n : n[b] \in 0 .. MaxNumber

LEMMA MatrixFits ==
  ASSUME NEW k, NEW n, LengthsFit(k, n), stage.wire[k].kind = "mat"
  PROVE  /\ \A b \in DOMAIN n : b - 1 \in 0 .. MaxNumber /\ b \in Nat
         /\ \A b \in DOMAIN n : \A i \in 1 .. n[b] : i - 1 \in 0 .. MaxNumber
<1>1. /\ MaxNumber \in Nat /\ Len(n) \in 0 .. MaxNumber /\ DOMAIN n = 1 .. Len(n)
      /\ \A b \in DOMAIN n : n[b] \in 0 .. MaxNumber
  BY WordsAssumption DEF LengthsFit
<1>2. \A b \in DOMAIN n : b - 1 \in 0 .. MaxNumber /\ b \in Nat
  BY <1>1
<1>3. \A m \in 0 .. MaxNumber : \A i \in 1 .. m : i - 1 \in 0 .. MaxNumber
  BY <1>1
<1> QED BY <1>1, <1>2, <1>3

LEMMA ShapeFits ==
  ASSUME Good(stage), NEW b \in Batches, NEW k \in DOMAIN stage.wire
  PROVE  LengthsFit(k, stage.shape[b][k])
<1> DEFINE shape == stage.shape[b]
<1>2. /\ shape \in Seq(Seq(0 .. MaxNumber)) /\ k \in DOMAIN shape
      /\ stage.wire[k].kind = "vec" => Len(shape[k]) = 1
      /\ stage.wire[k].kind = "mat" => Len(shape[k]) \in 0 .. MaxNumber
  BY StageIs DEF Good
<1> HIDE DEF shape
<1>3. shape[k] \in Seq(0 .. MaxNumber)
  BY <1>2, SetOf
<1>4. /\ Len(shape[k]) \in Nat /\ DOMAIN shape[k] = 1 .. Len(shape[k])
      /\ \A i \in 1 .. Len(shape[k]) : shape[k][i] \in 0 .. MaxNumber
  BY <1>3, SetOf
<1> QED BY <1>2, <1>4 DEF shape, LengthsFit

(* Whose a path is.                                                        *)
LEMMA SameFile ==
  ASSUME Good(stage), NamesApart, NEW k \in DOMAIN stage.wire, NEW j \in DOMAIN stage.wire, NEW d,
         NEW N \in Seq(Words), Begins(N, stage.wire[k].name),
         NEW n, LengthsFit(j, n), File(<<d>>, N) \in PathsOf(j, d, n)
  PROVE  /\ j = k /\ stage.wire[k].kind # "mat"
         /\ stage.wire[k].kind = "vec" => \E i \in 1 .. n[1] : N = Nth(stage.wire[k].name, i - 1)
<1> DEFINE f == stage.wire[j]
<1>1. f.name \in Seq(Words) /\ f.kind \in Kinds /\ Begins(f.name, f.name)
  <2>1. f.name \in Seq(Words) /\ f.kind \in Kinds
    BY FieldIs DEF Names
  <2> QED BY <2>1, LenProperties DEF Begins
<1>2. CASE f.kind \in {"enc", "plain"}
  <2>1. File(<<d>>, N) = File(<<d>>, f.name)
    BY <1>2 DEF PathsOf
  <2>2. N = f.name
    BY <1>1, <2>1, PathsDiffer, WordsAssumption
  <2>3. j = k
    BY <1>1, <2>2, OneField
  <2> QED BY <1>2, <2>3
<1>3. CASE f.kind = "vec"
  <2>1. PICK i \in 1 .. n[1] : File(<<d>>, N) = File(<<d>>, Nth(f.name, i - 1))
    BY <1>3 DEF PathsOf
  <2>2. i - 1 \in 0 .. MaxNumber /\ 0 \in 0 .. MaxNumber
    <3>1. n[1] \in 0 .. MaxNumber
      BY <1>3 DEF LengthsFit
    <3> QED BY <3>1, WordsAssumption
  <2>3. Nth(f.name, i - 1) \in Seq(Words) /\ Begins(Nth(f.name, i - 1), f.name)
    BY <1>1, <2>2, NthIs, NthBegins
  <2>4. N = Nth(f.name, i - 1)
    BY <2>1, <2>2, <2>3, PathsDiffer
  <2>5. j = k
    BY <2>3, <2>4, OneField
  <2> QED BY <1>3, <2>4, <2>5
<1>4. CASE f.kind = "mat"
  <2>1. \/ \E b \in DOMAIN n : File(<<d>>, N) = BatchDir(<<d>>, b - 1)
        \/ \E b \in DOMAIN n : \E i \in 1 .. n[b] : File(<<d>>, N) = File(BatchDir(<<d>>, b - 1), Nth(f.name, i - 1))
    BY <1>4 DEF PathsOf
  <2>2. /\ \A b \in DOMAIN n : b - 1 \in 0 .. MaxNumber
        /\ \A b \in DOMAIN n : \A i \in 1 .. n[b] : i - 1 \in 0 .. MaxNumber
    BY <1>4, MatrixFits
  <2>3. \A i \in 0 .. MaxNumber : Nth(f.name, i) \in Seq(Words)
    BY <1>1, NthIs
  <2> QED BY <2>1, <2>2, <2>3, PathsDiffer
<1> QED BY <1>1, <1>2, <1>3, <1>4 DEF Kinds

LEMMA SameDir ==
  ASSUME Good(stage), NEW j \in DOMAIN stage.wire, NEW d, NEW c \in 0 .. MaxNumber,
         NEW n, LengthsFit(j, n), BatchDir(<<d>>, c) \in PathsOf(j, d, n)
  PROVE  stage.wire[j].kind = "mat" /\ c + 1 \in DOMAIN n
<1> DEFINE f == stage.wire[j]
<1>1. f.name \in Seq(Words) /\ f.kind \in Kinds /\ \A i \in 0 .. MaxNumber : Nth(f.name, i) \in Seq(Words)
  <2>1. f.name \in Seq(Words) /\ f.kind \in Kinds
    BY FieldIs DEF Names
  <2> QED BY <2>1, NthIs
<1>2. CASE f.kind \in {"enc", "plain"}
  <2>1. BatchDir(<<d>>, c) = File(<<d>>, f.name)
    BY <1>2 DEF PathsOf
  <2> QED BY <1>1, <2>1, PathsDiffer
<1>3. CASE f.kind = "vec"
  <2>1. PICK i \in 1 .. n[1] : BatchDir(<<d>>, c) = File(<<d>>, Nth(f.name, i - 1))
    BY <1>3 DEF PathsOf
  <2>2. i - 1 \in 0 .. MaxNumber
    <3>1. n[1] \in 0 .. MaxNumber
      BY <1>3 DEF LengthsFit
    <3> QED BY <3>1, WordsAssumption
  <2> QED BY <1>1, <2>1, <2>2, PathsDiffer
<1>4. CASE f.kind = "mat"
  <2>1. \/ \E b \in DOMAIN n : BatchDir(<<d>>, c) = BatchDir(<<d>>, b - 1)
        \/ \E b \in DOMAIN n : \E i \in 1 .. n[b] : BatchDir(<<d>>, c) = File(BatchDir(<<d>>, b - 1), Nth(f.name, i - 1))
    BY <1>4 DEF PathsOf
  <2>2. /\ \A b \in DOMAIN n : b - 1 \in 0 .. MaxNumber /\ b \in Nat
        /\ \A b \in DOMAIN n : \A i \in 1 .. n[b] : i - 1 \in 0 .. MaxNumber
    BY <1>4, MatrixFits
  <2>3. PICK b \in DOMAIN n : BatchDir(<<d>>, c) = BatchDir(<<d>>, b - 1)
    BY <1>1, <2>1, <2>2, PathsDiffer
  <2>4. c = b - 1
    BY <1>1, <2>2, <2>3, PathsDiffer
  <2> QED BY <1>4, <2>2, <2>4
<1> QED BY <1>1, <1>2, <1>3, <1>4 DEF Kinds

LEMMA SameRowFile ==
  ASSUME Good(stage), NamesApart, NEW k \in DOMAIN stage.wire, NEW j \in DOMAIN stage.wire, NEW d,
         NEW N \in Seq(Words), Begins(N, stage.wire[k].name), NEW c \in 0 .. MaxNumber,
         NEW n, LengthsFit(j, n), File(BatchDir(<<d>>, c), N) \in PathsOf(j, d, n)
  PROVE  /\ j = k /\ stage.wire[k].kind = "mat" /\ c + 1 \in DOMAIN n
         /\ \E i \in 1 .. n[c + 1] : N = Nth(stage.wire[k].name, i - 1)
<1> DEFINE f == stage.wire[j]
<1>1. f.name \in Seq(Words) /\ f.kind \in Kinds /\ \A i \in 0 .. MaxNumber : Nth(f.name, i) \in Seq(Words)
  <2>1. f.name \in Seq(Words) /\ f.kind \in Kinds
    BY FieldIs DEF Names
  <2> QED BY <2>1, NthIs
<1>2. CASE f.kind \in {"enc", "plain"}
  <2>1. File(BatchDir(<<d>>, c), N) = File(<<d>>, f.name)
    BY <1>2 DEF PathsOf
  <2> QED BY <1>1, <2>1, PathsDiffer
<1>3. CASE f.kind = "vec"
  <2>1. PICK i \in 1 .. n[1] : File(BatchDir(<<d>>, c), N) = File(<<d>>, Nth(f.name, i - 1))
    BY <1>3 DEF PathsOf
  <2>2. i - 1 \in 0 .. MaxNumber
    <3>1. n[1] \in 0 .. MaxNumber
      BY <1>3 DEF LengthsFit
    <3> QED BY <3>1, WordsAssumption
  <2> QED BY <1>1, <2>1, <2>2, PathsDiffer
<1>4. CASE f.kind = "mat"
  <2>1. \/ \E b \in DOMAIN n : File(BatchDir(<<d>>, c), N) = BatchDir(<<d>>, b - 1)
        \/ \E b \in DOMAIN n : \E i \in 1 .. n[b] : File(BatchDir(<<d>>, c), N) = File(BatchDir(<<d>>, b - 1), Nth(f.name, i - 1))
    BY <1>4 DEF PathsOf
  <2>2. /\ \A b \in DOMAIN n : b - 1 \in 0 .. MaxNumber /\ b \in Nat
        /\ \A b \in DOMAIN n : \A i \in 1 .. n[b] : i - 1 \in 0 .. MaxNumber
    BY <1>4, MatrixFits
  <2>3. PICK b \in DOMAIN n : \E i \in 1 .. n[b] : File(BatchDir(<<d>>, c), N) = File(BatchDir(<<d>>, b - 1), Nth(f.name, i - 1))
    BY <1>1, <2>1, <2>2, PathsDiffer
  <2>4. PICK i \in 1 .. n[b] : File(BatchDir(<<d>>, c), N) = File(BatchDir(<<d>>, b - 1), Nth(f.name, i - 1))
    BY <2>3
  <2>5. c = b - 1 /\ N = Nth(f.name, i - 1)
    BY <1>1, <2>2, <2>4, PathsDiffer
  <2>8. Begins(N, f.name)
    <3>1. Begins(Nth(f.name, i - 1), f.name)
      BY <1>1, <2>2, NthBegins
    <3> QED BY <2>5, <3>1
  <2>6. j = k
    BY <2>8, OneField
  <2>7. c + 1 = b
    BY <2>2, <2>5
  <2> QED BY <1>4, <2>5, <2>6, <2>7
<1> QED BY <1>1, <1>2, <1>3, <1>4 DEF Kinds

-----------------------------------------------------------------------------
(* What is written of a wire.                                              *)

(* What field k is written as.                                             *)
WritesOf(k, d, v) ==
    LET f == stage.wire[k]
    IN  CASE f.kind \in {"enc", "plain"} -> {Write(File(<<d>>, f.name), v)}
          [] f.kind = "vec" -> {Write(File(<<d>>, Nth(f.name, i - 1)), v[i]) : i \in DOMAIN v}
          [] f.kind = "mat" ->
                {MakeDir(BatchDir(<<d>>, b - 1)) : b \in DOMAIN v}
                  \cup UNION {{Write(File(BatchDir(<<d>>, b - 1), Nth(f.name, i - 1)), v[b][i]) : i \in DOMAIN v[b]} : b \in DOMAIN v}

LEMMA FieldWrites ==
  ASSUME NEW d, NEW f, f.kind \in Kinds, NEW w, Shaped(f, w), NEW k, stage.wire[k] = f
  PROVE  ToSet(SerializeField(<<d>>, f, w)) = WritesOf(k, d, w)
<1>1. /\ f.kind \in {"enc", "plain"} => ToSet(SerializeField(<<d>>, f, w)) = {Write(File(<<d>>, f.name), w)}
      /\ f.kind = "vec" =>
            ToSet(SerializeField(<<d>>, f, w)) = SequenceWrites(d, f, w)
      /\ f.kind = "mat" => ToSet(SerializeField(<<d>>, f, w)) = MatrixRows(d, f, w)
  BY FieldUnder
<1>2. CASE f.kind \in {"enc", "plain"}
  BY <1>1, <1>2 DEF WritesOf
<1>3. CASE f.kind = "vec"
  BY <1>1, <1>3 DEF WritesOf, SequenceWrites
<1>4. CASE f.kind = "mat"
  <2> DEFINE row(b) == {Write(File(BatchDir(<<d>>, b - 1), Nth(f.name, i - 1)), w[b][i]) : i \in DOMAIN w[b]}
             new(b) == MakeDir(BatchDir(<<d>>, b - 1))
  <2>1. \A b \in DOMAIN w : ToSet(RowWrites(<<d>>, f, w[b], b)) = {new(b)} \cup row(b)
    BY <1>4, RowUnder DEF Shaped
  <2>2. ToSet(SerializeField(<<d>>, f, w)) = UNION {{new(b)} \cup row(b) : b \in DOMAIN w}
    BY <1>1, <1>4, <2>1 DEF MatrixRows
  <2>3. WritesOf(k, d, w) = {new(b) : b \in DOMAIN w} \cup UNION {row(b) : b \in DOMAIN w}
    BY <1>4 DEF WritesOf
  <2> HIDE DEF row, new
  <2>4. UNION {{new(b)} \cup row(b) : b \in DOMAIN w} = {new(b) : b \in DOMAIN w} \cup UNION {row(b) : b \in DOMAIN w}
    OBVIOUS
  <2> QED BY <2>2, <2>3, <2>4
<1> QED BY <1>2, <1>3, <1>4 DEF Kinds

LEMMA WriteSetIs ==
  ASSUME Good(stage), stage.writes = "wire",
         \A k \in DOMAIN stage.wire : Shaped(stage.wire[k], result[stage.wire[k].name])
  PROVE  WriteSet = UNION {WritesOf(k, Nth(<<"out">>, args.inst), result[stage.wire[k].name]) : k \in DOMAIN stage.wire}
<1> DEFINE d == Nth(<<"out">>, args.inst)
           v(k) == result[stage.wire[k].name]
           S(k) == ToSet(SerializeField(<<d>>, stage.wire[k], v(k)))
           W(k) == WritesOf(k, d, v(k))
<1>1. WriteSet = UNION {S(k) : k \in DOMAIN stage.wire}
  BY WireUnder DEF WriteSet, Written, OutputDir
<1>2. \A k \in DOMAIN stage.wire : S(k) = W(k)
  <2> TAKE k \in DOMAIN stage.wire
  <2>1. stage.wire[k].kind \in Kinds /\ Shaped(stage.wire[k], v(k))
    BY FieldIs
  <2> HIDE DEF d, v
  <2> QED BY <2>1, FieldWrites
<1>3. UNION {W(k) : k \in DOMAIN stage.wire} =
        UNION {WritesOf(k, Nth(<<"out">>, args.inst), result[stage.wire[k].name]) : k \in DOMAIN stage.wire}
  OBVIOUS
<1> HIDE DEF S, W
<1> QED BY <1>1, <1>2, <1>3

(* A value of as many elements, rows.                                      *)
Fits(k, n, v) ==
    /\ stage.wire[k].kind = "vec" => DOMAIN v = 1 .. n[1]
    /\ stage.wire[k].kind = "mat" => DOMAIN v = DOMAIN n /\ \A b \in DOMAIN n : DOMAIN v[b] = 1 .. n[b]

LEMMA FieldFits ==
  ASSUME NEW k, NEW n, NEW v
  PROVE  Fits(k, n, FieldOf(stage.wire[k], n, v))
<1> DEFINE f == stage.wire[k]
           w == FieldOf(f, n, v)
<1>1. CASE f.kind = "vec"
  <2>1. w = [i \in 1 .. n[1] |-> Of(v, Nth(f.name, i - 1))]
    BY <1>1 DEF FieldOf
  <2> HIDE DEF w
  <2> QED BY <1>1, <2>1 DEF Fits, w
<1>2. CASE f.kind = "mat"
  <2>1. w = [b \in DOMAIN n |-> [i \in 1 .. n[b] |-> Of(v, Nth(Nth(f.name, b - 1), i - 1))]]
    BY <1>2 DEF FieldOf
  <2> HIDE DEF w
  <2>2. DOMAIN w = DOMAIN n /\ \A b \in DOMAIN n : DOMAIN w[b] = 1 .. n[b]
    BY <2>1
  <2> QED BY <1>2, <2>2 DEF Fits, w
<1>3. CASE f.kind \notin {"vec", "mat"}
  BY <1>3 DEF Fits
<1> QED BY <1>1, <1>2, <1>3

LEMMA MatrixWrites ==
  ASSUME NEW k, stage.wire[k].kind = "mat", NEW d, NEW n, NEW v, Fits(k, n, v), NEW x \in WritesOf(k, d, v)
  PROVE  \/ \E b \in DOMAIN n : x = MakeDir(BatchDir(<<d>>, b - 1))
         \/ \E b \in DOMAIN n : \E i \in 1 .. n[b] :
              x = Write(File(BatchDir(<<d>>, b - 1), Nth(stage.wire[k].name, i - 1)), v[b][i])
<1>1. DOMAIN v = DOMAIN n /\ \A b \in DOMAIN n : DOMAIN v[b] = 1 .. n[b]
  BY DEF Fits
<1>2. \/ \E b \in DOMAIN v : x = MakeDir(BatchDir(<<d>>, b - 1))
      \/ \E b \in DOMAIN v : \E i \in DOMAIN v[b] :
           x = Write(File(BatchDir(<<d>>, b - 1), Nth(stage.wire[k].name, i - 1)), v[b][i])
  BY DEF WritesOf
<1> QED BY <1>1, <1>2

LEMMA WritesPath ==
  ASSUME Good(stage), NEW k \in DOMAIN stage.wire, NEW d, NEW n, NEW v, Fits(k, n, v), NEW x \in WritesOf(k, d, v)
  PROVE  x.path \in PathsOf(k, d, n)
<1> DEFINE f == stage.wire[k]
<1>1. f.kind \in Kinds
  BY FieldIs
<1>2. CASE f.kind \in {"enc", "plain"}
  BY <1>2 DEF WritesOf, PathsOf, Write
<1>3. CASE f.kind = "vec"
  BY <1>3 DEF WritesOf, PathsOf, Write, Fits
<1>4. CASE f.kind = "mat"
  <2>1. ASSUME NEW b \in DOMAIN n, x = MakeDir(BatchDir(<<d>>, b - 1)) PROVE x.path \in PathsOf(k, d, n)
    <3>1. x.path = BatchDir(<<d>>, b - 1)
      BY <2>1 DEF MakeDir
    <3> QED BY <1>4, <3>1 DEF PathsOf
  <2>2. ASSUME NEW b \in DOMAIN n, NEW i \in 1 .. n[b],
               x = Write(File(BatchDir(<<d>>, b - 1), Nth(f.name, i - 1)), v[b][i])
        PROVE  x.path \in PathsOf(k, d, n)
    <3>1. x.path = File(BatchDir(<<d>>, b - 1), Nth(f.name, i - 1))
      BY <2>2 DEF Write
    <3> QED BY <1>4, <3>1 DEF PathsOf
  <2> QED BY <1>4, <2>1, <2>2, MatrixWrites
<1> QED BY <1>1, <1>2, <1>3, <1>4 DEF Kinds

(* Nothing is written twice, but for a directory.                          *)
LEMMA OneValue ==
  ASSUME Good(stage), NamesApart, NEW k \in DOMAIN stage.wire, NEW j \in DOMAIN stage.wire, NEW d,
         NEW n, NEW v, LengthsFit(k, n), Fits(k, n, v), NEW x \in WritesOf(k, d, v),
         NEW m, NEW w, LengthsFit(j, m), Fits(j, m, w), NEW y \in WritesOf(j, d, w),
         k = j => n = m /\ v = w, x.path = y.path
  PROVE  x = y
<1> DEFINE f == stage.wire[k]
<1>1. f.kind \in Kinds /\ f.name \in Seq(Words) /\ Begins(f.name, f.name) /\ MaxNumber \in Nat
  <2>1. f.kind \in Kinds /\ f.name \in Seq(Words)
    BY FieldIs DEF Names
  <2> QED BY <2>1, LenProperties, WordsAssumption DEF Begins
<1>2. x.path \in PathsOf(j, d, m)
  BY WritesPath
<1>3. CASE f.kind \in {"enc", "plain"}
  <2>1. x = Write(File(<<d>>, f.name), v)
    BY <1>3 DEF WritesOf
  <2>2. File(<<d>>, f.name) \in PathsOf(j, d, m)
    BY <1>2, <2>1 DEF Write
  <2>3. j = k
    BY <1>1, <2>2, SameFile
  <2> QED BY <1>3, <2>1, <2>3 DEF WritesOf
<1>4. CASE f.kind = "vec"
  <2>1. PICK i \in 1 .. n[1] : x = Write(File(<<d>>, Nth(f.name, i - 1)), v[i])
    BY <1>4 DEF WritesOf, Fits
  <2>2. n[1] \in 0 .. MaxNumber
    BY <1>4 DEF LengthsFit
  <2>3. \A b \in 1 .. n[1] : b - 1 \in 0 .. MaxNumber
    BY <1>1, <2>2
  <2>4. Nth(f.name, i - 1) \in Seq(Words) /\ Begins(Nth(f.name, i - 1), f.name)
    BY <1>1, <2>3, NthIs, NthBegins
  <2>5. File(<<d>>, Nth(f.name, i - 1)) \in PathsOf(j, d, m)
    BY <1>2, <2>1 DEF Write
  <2>6. j = k
    BY <2>4, <2>5, SameFile
  <2>7. PICK b \in 1 .. n[1] : y = Write(File(<<d>>, Nth(f.name, b - 1)), v[b])
    BY <1>4, <2>6 DEF WritesOf, Fits
  <2>8. File(<<d>>, Nth(f.name, i - 1)) = File(<<d>>, Nth(f.name, b - 1))
    BY <2>1, <2>7 DEF Write
  <2>9. i = b
    <3>1. i - 1 \in 0 .. MaxNumber /\ b - 1 \in 0 .. MaxNumber
      BY <2>3
    <3>2. Nth(f.name, i - 1) = Nth(f.name, b - 1)
      <4>1. Nth(f.name, i - 1) \in Seq(Words) /\ Nth(f.name, b - 1) \in Seq(Words)
        BY <1>1, <3>1, NthIs
      <4> QED BY <2>8, <3>1, <4>1, PathsDiffer
    <3>3. i - 1 = b - 1
      BY <1>1, <3>1, <3>2, NthInjective
    <3> QED BY <2>2, <3>3
  <2> QED BY <2>1, <2>7, <2>9
<1>5. CASE f.kind = "mat"
  <2>1. /\ \A b \in DOMAIN n : b - 1 \in 0 .. MaxNumber /\ b \in Nat
        /\ \A b \in DOMAIN n : \A i \in 1 .. n[b] : i - 1 \in 0 .. MaxNumber
        /\ \A i \in 0 .. MaxNumber : Nth(f.name, i) \in Seq(Words) /\ Begins(Nth(f.name, i), f.name)
    BY <1>1, <1>5, MatrixFits, NthIs, NthBegins
  <2>3. \/ \E b \in DOMAIN n : x = MakeDir(BatchDir(<<d>>, b - 1))
        \/ \E b \in DOMAIN n : \E i \in 1 .. n[b] : x = Write(File(BatchDir(<<d>>, b - 1), Nth(f.name, i - 1)), v[b][i])
    BY <1>5, MatrixWrites
  <2>4. ASSUME NEW b \in DOMAIN n, x = MakeDir(BatchDir(<<d>>, b - 1)) PROVE x = y
    <3>1. x.path = BatchDir(<<d>>, b - 1) /\ x = MakeDir(x.path)
      BY <2>4 DEF MakeDir
    <3>2. stage.wire[j].kind = "mat"
      BY <1>2, <2>1, <3>1, SameDir
    <3>3. stage.wire[j].name \in Seq(Words)
      BY FieldIs DEF Names
    <3>4. /\ \A c \in DOMAIN m : c - 1 \in 0 .. MaxNumber
          /\ \A c \in DOMAIN m : \A i \in 1 .. m[c] : i - 1 \in 0 .. MaxNumber
          /\ \A i \in 0 .. MaxNumber : Nth(stage.wire[j].name, i) \in Seq(Words)
      BY <3>2, <3>3, MatrixFits, NthIs
    <3>6. \/ \E c \in DOMAIN m : y = MakeDir(BatchDir(<<d>>, c - 1))
          \/ \E c \in DOMAIN m : \E i \in 1 .. m[c] : y = Write(File(BatchDir(<<d>>, c - 1), Nth(stage.wire[j].name, i - 1)), w[c][i])
      BY <3>2, MatrixWrites
    <3>7. ASSUME NEW c \in DOMAIN m, NEW i \in 1 .. m[c],
                 y = Write(File(BatchDir(<<d>>, c - 1), Nth(stage.wire[j].name, i - 1)), w[c][i])
          PROVE  FALSE
      <4>1. BatchDir(<<d>>, b - 1) = File(BatchDir(<<d>>, c - 1), Nth(stage.wire[j].name, i - 1))
        BY <3>1, <3>7 DEF Write
      <4>2. /\ b - 1 \in 0 .. MaxNumber /\ c - 1 \in 0 .. MaxNumber
            /\ Nth(stage.wire[j].name, i - 1) \in Seq(Words)
        BY <2>1, <3>4
      <4> QED BY <4>1, <4>2, PathsDiffer
    <3>8. PICK c \in DOMAIN m : y = MakeDir(BatchDir(<<d>>, c - 1))
      BY <3>6, <3>7
    <3>9. y = MakeDir(y.path)
      BY <3>8 DEF MakeDir
    <3> QED BY <3>1, <3>9
  <2>5. ASSUME NEW b \in DOMAIN n, NEW i \in 1 .. n[b],
               x = Write(File(BatchDir(<<d>>, b - 1), Nth(f.name, i - 1)), v[b][i])
        PROVE  x = y
    <3> DEFINE N == Nth(f.name, i - 1)
    <3>1. x.path = File(BatchDir(<<d>>, b - 1), N)
      BY <2>5 DEF Write
    <3>2. N \in Seq(Words) /\ Begins(N, f.name) /\ b - 1 \in 0 .. MaxNumber /\ i - 1 \in 0 .. MaxNumber
      BY <2>1
    <3>3. j = k
      BY <1>2, <3>1, <3>2, SameRowFile
    <3>4. \/ \E c \in DOMAIN n : y = MakeDir(BatchDir(<<d>>, c - 1))
          \/ \E c \in DOMAIN n : \E h \in 1 .. n[c] : y = Write(File(BatchDir(<<d>>, c - 1), Nth(f.name, h - 1)), v[c][h])
      BY <1>5, <3>3, MatrixWrites
    <3> HIDE DEF N
    <3>5. ASSUME NEW c \in DOMAIN n, y = MakeDir(BatchDir(<<d>>, c - 1)) PROVE FALSE
      <4>1. BatchDir(<<d>>, c - 1) = File(BatchDir(<<d>>, b - 1), N) /\ c - 1 \in 0 .. MaxNumber
        BY <2>1, <3>1, <3>5 DEF MakeDir
      <4> QED BY <3>2, <4>1, PathsDiffer
    <3>6. ASSUME NEW c \in DOMAIN n, NEW h \in 1 .. n[c], y = Write(File(BatchDir(<<d>>, c - 1), Nth(f.name, h - 1)), v[c][h])
          PROVE  x = y
      <4>1. /\ File(BatchDir(<<d>>, c - 1), Nth(f.name, h - 1)) = File(BatchDir(<<d>>, b - 1), N)
            /\ c - 1 \in 0 .. MaxNumber /\ h - 1 \in 0 .. MaxNumber /\ Nth(f.name, h - 1) \in Seq(Words)
        BY <2>1, <3>1, <3>6 DEF Write
      <4>2. c - 1 = b - 1 /\ Nth(f.name, h - 1) = N
        BY <3>2, <4>1, PathsDiffer
      <4>3. h - 1 = i - 1
        BY <1>1, <3>2, <4>1, <4>2, NthInjective DEF N
      <4>4. c = b
        BY <2>1, <4>2
      <4>5. h = i
        <5>1. h \in Int /\ i \in Int
          BY <3>2, <4>1
        <5> QED BY <4>3, <5>1
      <4> QED BY <2>5, <3>6, <4>4, <4>5
    <3> QED BY <3>4, <3>5, <3>6
  <2> QED BY <2>3, <2>4, <2>5
<1> QED BY <1>1, <1>3, <1>4, <1>5 DEF Kinds

(* An indexed wire of one ciphertext is a file.                            *)
LEMMA IndexedIs ==
  ASSUME Good(stage), stage.writes = "indexed", OneCiphertext
  PROVE  WriteSet = {Write(IndexedFile(args, stage.wire[1]), result[stage.wire[1].name])}
<1>1. DOMAIN stage.wire = 1 .. 1
  <2>1. stage.wire \in Seq(Fields) /\ Len(stage.wire) = 1
    BY StageIs DEF Good, OneCiphertext
  <2> QED BY <2>1, LenProperties
<1> DEFINE x(k) == Write(IndexedFile(args, stage.wire[k]), result[stage.wire[k].name])
<1>2. Written = [k \in 1 .. 1 |-> x(k)]
  BY <1>1 DEF Written, SerializeIndexed
<1> HIDE DEF x
<1>3. ToSet([k \in 1 .. 1 |-> x(k)]) = {x(1)}
  BY DEF ToSet
<1> QED BY <1>2, <1>3 DEF WriteSet, x

(* The whole result is there to be written.                                *)
LEMMA Whole ==
  ASSUME Base, RInv, CInv, Active, ~Probing, \A j : ~Left("rehydrate", j)
  PROVE  /\ Good(stage) /\ args \in Args /\ args.batch \in Batches
         /\ stage.writes = "wire" => WriteSet = UNION {WritesOf(k, Nth(<<"out">>, args.inst), result[stage.wire[k].name]) : k \in DOMAIN stage.wire}
         /\ \A k \in DOMAIN stage.wire :
              /\ FieldRight(k) /\ LengthsFit(k, stage.shape[args.batch][k])
              /\ Fits(k, stage.shape[args.batch][k], result[stage.wire[k].name])
<1>1. Good(stage) /\ args \in Args /\ args.batch \in Batches
  BY ArgsAre DEF Base
<1>2. stage.writes = "wire" => WriteSet = UNION {WritesOf(k, Nth(<<"out">>, args.inst), result[stage.wire[k].name]) : k \in DOMAIN stage.wire}
  <2>1. \A k \in DOMAIN stage.wire : Shaped(stage.wire[k], result[stage.wire[k].name])
    BY DEF RInv, ResultRight
  <2> QED BY <1>1, <2>1, WriteSetIs
<1>3. ASSUME NEW k \in DOMAIN stage.wire
      PROVE  /\ FieldRight(k) /\ LengthsFit(k, stage.shape[args.batch][k])
             /\ Fits(k, stage.shape[args.batch][k], result[stage.wire[k].name])
  <2>1. FieldRight(k)
    BY DEF CInv
  <2>2. LengthsFit(k, stage.shape[args.batch][k])
    BY <1>1, ShapeFits
  <2>3. CASE stage.wire[k].kind = "plain"
    BY <2>1, <2>2, <2>3 DEF Fits
  <2>4. CASE stage.wire[k].kind # "plain"
    <3>1. PICK h : result[stage.wire[k].name] = FieldOf(stage.wire[k], stage.shape[args.batch][k], Result(h))
      BY <2>1, <2>4 DEF FieldRight
    <3>2. Fits(k, stage.shape[args.batch][k], FieldOf(stage.wire[k], stage.shape[args.batch][k], Result(h)))
      BY FieldFits
    <3> QED BY <2>1, <2>2, <3>1, <3>2
  <2> QED BY <2>3, <2>4
<1> QED BY <1>1, <1>2, <1>3

LEMMA WrittenOnce ==
  ASSUME Base, RInv, CInv, NamesApart, Loadable, Active, ~Probing, \A j : ~Left("rehydrate", j),
         NEW x \in WriteSet, NEW y \in WriteSet, x.path = y.path
  PROVE  x = y
<1> DEFINE d == Nth(<<"out">>, args.inst)
           n(k) == stage.shape[args.batch][k]
           v(k) == result[stage.wire[k].name]
<1>7. CASE stage.writes = "indexed"
  <2>1. Good(stage) /\ OneCiphertext
    BY <1>7, Whole DEF Loadable
  <2> QED BY <1>7, <2>1, IndexedIs
<1>8. SUFFICES ASSUME stage.writes = "wire" PROVE x = y
  BY <1>7 DEF Loadable
<1>1. /\ Good(stage)
      /\ WriteSet = UNION {WritesOf(k, d, v(k)) : k \in DOMAIN stage.wire}
      /\ \A k \in DOMAIN stage.wire : LengthsFit(k, n(k)) /\ Fits(k, n(k), v(k))
  BY <1>8, Whole
<1>2. PICK k \in DOMAIN stage.wire : x \in WritesOf(k, d, v(k))
  BY <1>1
<1>3. PICK j \in DOMAIN stage.wire : y \in WritesOf(j, d, v(j))
  BY <1>1
<1>4. LengthsFit(k, n(k)) /\ Fits(k, n(k), v(k)) /\ LengthsFit(j, n(j)) /\ Fits(j, n(j), v(j))
  BY <1>1
<1>5. k = j => n(k) = n(j) /\ v(k) = v(j)
  OBVIOUS
<1> HIDE DEF d, n, v
<1> QED BY <1>1, <1>2, <1>3, <1>4, <1>5, OneValue

LEMMA WriteSetKept ==
  ASSUME UNCHANGED <<stage, args, result>>
  PROVE  WriteSet' = WriteSet
BY DEF WriteSet, Written, SerializeIndexed, IndexedFile, OutputDir

LEMMA NextWInv ==
  ASSUME Base, RInv, CInv, WInv, Loads, Next, stage' = stage
  PROVE  WInv'
<1>1. CASE ~Active'
  BY <1>1 DEF WInv
<1>2. CASE Begin
  BY <1>2, BeginHas DEF WInv
<1> DEFINE Moving == /\ exit = "running" /\ todo # <<>> /\ todo' = Tail(todo) /\ UNCHANGED <<stage, args, exit, input>>
                     /\ DOMAIN cache \subseteq DOMAIN cache'
<1>3. ASSUME Moving
      PROVE  /\ Active /\ 1 \in DOMAIN todo /\ Head(todo) = todo[1]
             /\ Serializing => Serializing' \/ Head(todo)[1] = "serialize"
             /\ Serializing' => Serializing
             /\ \A i \in DOMAIN todo' : \E j \in DOMAIN todo : todo'[i] = todo[j]
             /\ \A x : Writing(x) => Writing(x)' \/ Head(todo) = <<"write", x>>
  <2>1. Ordered /\ Active /\ 1 \in DOMAIN todo /\ Head(todo) = todo[1]
    BY <1>3, OneStep
  <2> QED BY <1>3, <2>1, Fewer
<1>4. ASSUME Moving, Head(todo)[1] \notin {"serialize", "write"}
      PROVE  WInv'
  <2>1. Serializing
    BY <1>3, <1>4 DEF WInv
  <2>2. Serializing' /\ \A i \in DOMAIN todo : todo[i][1] # "write"
    BY <1>3, <1>4, <2>1 DEF WInv
  <2>3. \A i \in DOMAIN todo' : todo'[i][1] # "write"
    BY <1>3, <1>4, <2>2
  <2> QED BY <2>2, <2>3 DEF WInv
<1>5. CASE Save \/ Probe \/ Stop
  BY <1>4, <1>5 DEF Save, Probe, Stop, Step, Goes, Over
<1>6. CASE (Replay \/ Rehydrate \/ Restore) /\ Active'
  BY <1>4, <1>6 DEF Replay, Rehydrate, Restore, Step, Goes, Fails, Active
<1>7. CASE Serialize
  <2> DEFINE ws == Written
  <2>1. todo' = [i \in 1 .. Len(ws) |-> <<"write", ws[i]>>] /\ DOMAIN ws = 1 .. Len(ws)
    BY <1>7, SerializeIs
  <2>2. WriteSet = ToSet(ws) /\ WriteSet' = WriteSet
    BY <1>7, WriteSetKept DEF Serialize, WriteSet
  <2> HIDE DEF ws
  <2>3. DOMAIN todo' = DOMAIN ws /\ \A i \in DOMAIN ws : todo'[i] = <<"write", ws[i]>> /\ ws[i] \in WriteSet
    BY <2>1, <2>2 DEF ToSet
  <2>4. ~Serializing' /\ \A i \in DOMAIN todo' : todo'[i][1] = "write" /\ todo'[i][2] \in WriteSet'
    BY <2>2, <2>3 DEF Serializing
  <2>5. \A x \in WriteSet : Writing(x)'
    <3> TAKE x \in WriteSet
    <3>1. PICK i \in DOMAIN ws : x = ws[i]
      BY <2>2 DEF ToSet
    <3> QED BY <2>3, <3>1 DEF Writing
  <2> QED BY <2>2, <2>4, <2>5 DEF WInv
<1>8. CASE WriteFile
  <2>1. /\ Moving /\ Head(todo)[1] = "write" /\ UNCHANGED <<result, probes>>
        /\ files' = Over(One(Operand.path, Operand.value), files)
    BY <1>8 DEF WriteFile, Step, Goes
  <2>2. /\ Active /\ 1 \in DOMAIN todo /\ Head(todo) = todo[1] /\ (Serializing' => Serializing)
        /\ \A i \in DOMAIN todo' : \E j \in DOMAIN todo : todo'[i] = todo[j]
        /\ \A x : Writing(x) => Writing(x)' \/ Head(todo) = <<"write", x>>
    BY <1>3, <2>1
  <2>3. /\ ~Serializing /\ \A i \in DOMAIN todo : todo[i][1] = "write" /\ todo[i][2] \in WriteSet
        /\ \A x \in WriteSet : Writing(x) \/ (x.path \in DOMAIN files /\ files[x.path] = x.value)
    BY <2>1, <2>2 DEF WInv
  <2>4. ~Probing /\ \A j : ~Left("rehydrate", j)
    BY <2>3 DEF Probing, Left
  <2>5. Operand \in WriteSet
    BY <2>2, <2>3 DEF Operand
  <2>6. WriteSet' = WriteSet
    BY <2>1, WriteSetKept
  <2>7. /\ Operand.path \in DOMAIN files' /\ files'[Operand.path] = Operand.value
        /\ \A p \in DOMAIN files : p \in DOMAIN files' /\ (p # Operand.path => files'[p] = files[p])
    BY <2>1 DEF Over, One
  <2>8. ASSUME NEW x \in WriteSet, ~Writing(x)' PROVE x.path \in DOMAIN files' /\ files'[x.path] = x.value
    <3>1. CASE Head(todo) = <<"write", x>>
      BY <2>7, <3>1 DEF Operand
    <3>2. CASE x.path \in DOMAIN files /\ files[x.path] = x.value
      <4>1. x.path = Operand.path => x = Operand
        BY <2>2, <2>4, <2>5, WrittenOnce DEF Loads
      <4> QED BY <2>7, <3>2, <4>1
    <3> QED BY <2>2, <2>3, <2>8, <3>1, <3>2
  <2>9. ~Serializing' /\ \A i \in DOMAIN todo' : todo'[i][1] = "write" /\ todo'[i][2] \in WriteSet'
    BY <2>2, <2>3, <2>6
  <2>10. \A x \in WriteSet' : Writing(x)' \/ (x.path \in DOMAIN files' /\ files'[x.path] = x.value)
    BY <2>6, <2>8
  <2> QED BY <2>9, <2>10 DEF WInv
<1>9. CASE Exit
  <2>1. UNCHANGED <<stage, args, todo, result, files>> /\ Active
    BY <1>9 DEF Exit, Active
  <2>2. Serializing' = Serializing /\ WriteSet' = WriteSet /\ \A x : Writing(x)' = Writing(x)
    BY <2>1, WriteSetKept DEF Serializing, Writing
  <2> QED BY <2>1, <2>2 DEF WInv
<1>10. CASE Kill \/ Encrypt \/ Compile
  <2>1. ~Active'
    BY <1>10 DEF Kill, Encrypt, Compile, Active, Base
  <2> QED BY <1>1, <2>1
<1> QED BY <1>1, <1>2, <1>5, <1>6, <1>7, <1>8, <1>9, <1>10 DEF Next

-----------------------------------------------------------------------------
(* What is in the directories of the wires.                                *)

(* No file of a save is in a directory of the wire.                        *)
LEMMA SaveNotOut ==
  ASSUME Good(stage), args \in Args, NEW k \in DOMAIN stage.saves, NEW n \in Saved(stage.saves[k])
  PROVE  SaveFile(stage.saves[k], args, n)[1] \notin OutDirs
<1>1. n \in Names /\ stage.saves[k] \in Saves
  BY SavesAre, SaveIs
<1>2. SaveFile(stage.saves[k], args, n)[1] = Nth(<<"dir">>, args.inst)
  BY <1>1, SaveFileIs
<1>3. <<"out">> \in Seq(Words) /\ <<"dir">> \in Seq(Words) /\ args.inst \in 0 .. MaxNumber /\ Insts \subseteq 0 .. MaxNumber
  BY WordsAssumption, ArgsAre, StagesAssumption
<1>4. Nth(<<"dir">>, args.inst)[1] = "dir" /\ \A i \in Insts : Nth(<<"out">>, i)[1] = "out"
  BY <1>3, NthIs
<1> QED BY <1>2, <1>4 DEF OutDirs

LEMMA FrameFInv ==
  ASSUME FInv, stage' = stage, \A p \in DOMAIN files' : p[1] \in OutDirs => p \in DOMAIN files
  PROVE  FInv'
<1>1. \A k, d, n : PathsOf(k, d, n)' = PathsOf(k, d, n)
  BY DEF PathsOf
<1> QED BY <1>1 DEF FInv

LEMMA NextFInv ==
  ASSUME Base, RInv, CInv, WInv, FInv, Loads, Next, stage' = stage
  PROVE  FInv'
<1>1. ASSUME files' = files PROVE FInv'
  BY <1>1, FrameFInv
<1>2. CASE Compile \/ Begin \/ Probe \/ Stop \/ Replay \/ Rehydrate \/ Serialize \/ Exit \/ Kill \/ Encrypt
  BY <1>1, <1>2 DEF Compile, Begin, Probe, Stop, Replay, Rehydrate, Serialize, Exit, Kill, Encrypt, Fails
<1>3. ASSUME Step("save") \/ Step("restore")
      PROVE  Good(stage) /\ args \in Args /\ Operand \in DOMAIN stage.saves
  <2>1. exit = "running" /\ todo # <<>> /\ Head(todo)[1] \in {"save", "restore"} /\ Head(todo) = todo[1]
    BY <1>3 DEF Step
  <2>2. Good(stage) /\ args \in Args /\ Ordered
    BY <2>1 DEF Base, Active
  <2>3. 1 \in DOMAIN todo
    BY <2>1, <2>2, EmptySeq, LenProperties DEF Ordered
  <2> QED BY <2>1, <2>2, <2>3 DEF Ordered, StepRight, Operand
<1>4. CASE Save
  <2>1. Step("save") /\ \A p \in DOMAIN files' : p \in DOMAIN files \/ \E n \in Saved(stage.saves[Operand]) : p = SaveFile(stage.saves[Operand], args, n)
    BY <1>4 DEF Save, Over
  <2> QED BY <1>3, <1>4, <2>1, SaveNotOut, FrameFInv DEF Save, Goes
<1>5. CASE Restore
  <2> DEFINE s == stage.saves[Operand]
             stems == Stems(s)
             there == {k \in DOMAIN stems : \A j \in 1 .. k : stems[j] \in DOMAIN probes}
  <2>1. /\ Step("restore") /\ stage' = stage
        /\ \A p \in DOMAIN files' : p \in DOMAIN files \/ \E k \in there : p = SaveFile(s, args, stems[k])
    BY <1>5 DEF Restore, Over
  <2>2. Good(stage) /\ args \in Args /\ Operand \in DOMAIN stage.saves
    BY <1>3, <2>1
  <2>3. \A k \in DOMAIN stems : stems[k] \in Saved(s)
    <3>1. ToSet(stems) \subseteq Saved(s)
      BY <2>2, SavesAre, SaveIs
    <3> QED BY <3>1 DEF ToSet
  <2> HIDE DEF stems
  <2> QED BY <2>1, <2>2, <2>3, SaveNotOut, FrameFInv
<1>6. CASE WriteFile
  <2> SUFFICES ASSUME stage.writes = "wire" PROVE FInv'
    BY DEF FInv
  <2>1. /\ exit = "running" /\ todo # <<>> /\ todo' = Tail(todo) /\ UNCHANGED <<stage, args, exit, input>>
        /\ DOMAIN cache \subseteq DOMAIN cache' /\ Head(todo)[1] = "write"
        /\ DOMAIN files' = DOMAIN files \cup {Operand.path}
    BY <1>6 DEF WriteFile, Step, Goes, Over, One
  <2>2. Active /\ 1 \in DOMAIN todo /\ Head(todo) = todo[1]
    BY <2>1, OneStep
  <2>3. ~Serializing /\ \A i \in DOMAIN todo : todo[i][1] = "write" /\ todo[i][2] \in WriteSet
    BY <2>1, <2>2 DEF WInv
  <2>4. ~Probing /\ \A j : ~Left("rehydrate", j)
    BY <2>3 DEF Probing, Left
  <2>5. Operand \in WriteSet
    BY <2>2, <2>3 DEF Operand
  <2> DEFINE d == Nth(<<"out">>, args.inst)
  <2>6. /\ Good(stage) /\ args.batch \in Batches /\ d \in OutDirs
        /\ WriteSet = UNION {WritesOf(k, d, result[stage.wire[k].name]) : k \in DOMAIN stage.wire}
        /\ \A k \in DOMAIN stage.wire : Fits(k, stage.shape[args.batch][k], result[stage.wire[k].name])
    <3>1. /\ Good(stage) /\ args \in Args /\ args.batch \in Batches
          /\ WriteSet = UNION {WritesOf(k, d, result[stage.wire[k].name]) : k \in DOMAIN stage.wire}
          /\ \A k \in DOMAIN stage.wire : Fits(k, stage.shape[args.batch][k], result[stage.wire[k].name])
      BY <2>2, <2>4, Whole
    <3>2. d \in OutDirs
      BY <3>1 DEF Args, OutDirs
    <3> QED BY <3>1, <3>2
  <2> HIDE DEF d
  <2>7. PICK k \in DOMAIN stage.wire : Operand \in WritesOf(k, d, result[stage.wire[k].name])
    BY <2>5, <2>6
  <2>8. Operand.path \in PathsOf(k, d, stage.shape[args.batch][k])
    BY <2>6, <2>7, WritesPath
  <2>9. Operand.path[1] = d
    <3>1. Operand.path[1] = OutputDir(args)[1]
      <4>1. Good(stage) /\ StepRight(1)
        BY <2>1, OneStep
      <4> QED BY <2>1, <2>2, <4>1 DEF StepRight, Operand
    <3> QED BY <3>1 DEF OutputDir, d
  <2>10. \A j, e, n : PathsOf(j, e, n)' = PathsOf(j, e, n)
    BY <2>1 DEF PathsOf
  <2>11. ASSUME NEW p \in DOMAIN files', p[1] \in OutDirs
         PROVE  \E b \in Batches : \E j \in DOMAIN stage.wire : p \in PathsOf(j, p[1], stage.shape[b][j])
    <3>1. CASE p = Operand.path
      BY <2>6, <2>8, <2>9, <3>1
    <3>2. CASE p \in DOMAIN files
      BY <2>11, <3>2 DEF FInv
    <3> QED BY <2>1, <3>1, <3>2
  <2> QED BY <2>1, <2>10, <2>11 DEF FInv
<1> QED BY <1>2, <1>4, <1>5, <1>6 DEF Next

LEMMA InitLInv == Init => LInv
<1> SUFFICES ASSUME Init PROVE LInv
  OBVIOUS
<1>1. ~Active /\ files = <<>> /\ cache = <<>>
  BY DEF Init, Active
<1> QED BY <1>1 DEF LInv, PInv, CInv, WInv, FInv

LEMMA NextLInv == Base /\ RInv /\ LInv /\ [Next]_vars => LInv'
<1> SUFFICES ASSUME Base, RInv, LInv, [Next]_vars PROVE LInv'
  OBVIOUS
<1>1. CASE Compile
  <2>1. ~Active' /\ files' = <<>> /\ cache' = <<>>
    BY <1>1 DEF Compile, Base, Active, LInv
  <2> QED BY <2>1 DEF LInv, PInv, CInv, WInv, FInv
<1>2. CASE UNCHANGED vars
  <2>1. UNCHANGED <<stage, args, todo, exit, result, probes, cache, files, input, runs>>
    BY <1>2 DEF vars
  <2>2. /\ PInv' = PInv /\ CInv' = CInv /\ WInv' = WInv /\ FInv' = FInv /\ Loads' = Loads
    <3>1. /\ Active' = Active /\ Probing' = Probing /\ Replaying' = Replaying /\ Serializing' = Serializing
          /\ \A tag, j : Left(tag, j)' = Left(tag, j)
          /\ \A x : Writing(x)' = Writing(x)
      BY <2>1 DEF Active, Probing, Replaying, Serializing, Left, Writing
    <3>2. /\ \A k : Found(k)' = Found(k)
          /\ \A c, k : Recorded(c, k)' = Recorded(c, k)
          /\ \A k : FieldRight(k)' = FieldRight(k)
      BY <2>1 DEF Found, Recorded, FieldRight, Result, Matches, ProbeBase
    <3>3. WriteSet' = WriteSet
      BY <2>1, WriteSetKept
    <3>4. \A k, d, n : PathsOf(k, d, n)' = PathsOf(k, d, n)
      BY <2>1 DEF PathsOf
    <3>5. PInv' = PInv
      BY <2>1, <3>1, <3>2 DEF PInv
    <3>6. CInv' = CInv
      BY <2>1, <3>1, <3>2 DEF CInv
    <3>7. WInv' = WInv
      BY <2>1, <3>1, <3>3 DEF WInv
    <3>8. FInv' = FInv
      BY <2>1, <3>4 DEF FInv
    <3> QED BY <2>1, <3>5, <3>6, <3>7, <3>8, LoadsKept
  <2> QED BY <2>1, <2>2 DEF LInv
<1>3. CASE Next /\ stage' = stage
  <2>1. ASSUME Loads' PROVE PInv' /\ CInv' /\ WInv' /\ FInv'
    <3>1. Loads
      BY <1>3, <2>1, LoadsKept
    <3>2. PInv /\ CInv /\ WInv /\ FInv
      BY <3>1 DEF LInv
    <3>3. PInv'
      BY <1>3, <3>1, <3>2, NextPInv
    <3>4. CInv'
      BY <1>3, <3>1, <3>2, NextCInv
    <3>5. WInv'
      BY <1>3, <3>1, <3>2, NextWInv
    <3>6. FInv'
      BY <1>3, <3>1, <3>2, NextFInv
    <3> QED BY <3>3, <3>4, <3>5, <3>6
  <2>2. stage' = NoStage => files' = <<>>
    <3>1. ASSUME stage = NoStage PROVE files' = <<>>
      BY <1>3, <3>1 DEF Base, LInv, Next, Compile, Begin, Save, Probe, Stop, Replay, Rehydrate, Restore, Serialize, WriteFile, Exit,
           Kill, Encrypt, Step
    <3> QED BY <1>3, <3>1
  <2> QED BY <2>1, <2>2 DEF LInv
<1>4. Compile \/ (Next /\ stage' = stage) \/ UNCHANGED vars
  BY DEF Next, Begin, Save, Probe, Stop, Replay, Rehydrate, Restore, Serialize, WriteFile, Exit, Kill, Encrypt,
         Goes, Fails
<1> QED BY <1>1, <1>2, <1>3, <1>4

-----------------------------------------------------------------------------
(* What is loaded.                                                         *)

(* What a process of hollow keys has computed is taken for the value.      *)
LEMMA SameAs ==
  ASSUME args.hollow \in BOOLEAN, NEW h \in {FALSE, args.hollow}, NEW what
  PROVE  Same(Of(Result(h), what), Of(Meant(<<>>), what))
<1> DEFINE v == Of(Result(h), what)
           w == Of(Meant(<<>>), what)
<1>1. ASSUME NEW g PROVE Of(Value(<<>>, args, input, g), what) = Value(what, args, input, g)
  BY OfValue
<1>2. v = Value(what, args, input, h)
  BY <1>1 DEF Result
<1>3. w = Value(what, args, input, FALSE)
  BY <1>1, Zenon DEF Meant
<1>4. ASSUME NEW g PROVE /\ Value(what, args, input, g) \notin {Null, Directory}
                        /\ [Value(what, args, input, g) EXCEPT !.hollow = FALSE] = Value(what, args, input, FALSE)
  BY ValueIs, Zenon
<1> HIDE DEF v, w
<1>5. v \notin {Null, Directory} /\ [v EXCEPT !.hollow = FALSE] = w
  BY <1>2, <1>3, <1>4, Zenon
<1>6. h = FALSE => v = w
  BY <1>2, <1>3
<1>7. h = TRUE \/ h = FALSE
  OBVIOUS
<1>8. h = TRUE => args.hollow
  OBVIOUS
<1>9. Same(v, w)
  BY <1>5, <1>6, <1>7, <1>8 DEF Same
<1> QED BY <1>9 DEF v, w

LEMMA LenIs == ASSUME NEW m \in Nat, NEW v, v = [i \in 1 .. m |-> v[i]] PROVE Len(v) = m
<1>1. \A i \in 1 .. m : v[i] \in {v[j] : j \in 1 .. m}
  OBVIOUS
<1> QED BY <1>1, LenProperties

(* What is in the directory of the wire, when a process has ended well.    *)
LEMMA AtTheEnd ==
  ASSUME Base, RInv, LInv, exit = "ok", Loads
  PROVE  /\ Good(stage) /\ args \in Args /\ args.batch \in Batches
         /\ \A k \in DOMAIN stage.wire : FieldRight(k) /\ LengthsFit(k, stage.shape[args.batch][k])
         /\ \A x \in WriteSet : x.path \in DOMAIN files /\ files[x.path] = x.value
         /\ stage.writes = "wire" =>
              /\ \A k \in DOMAIN stage.wire :
                   \A x \in WritesOf(k, Nth(<<"out">>, args.inst), result[stage.wire[k].name]) :
                      x.path \in DOMAIN files /\ files[x.path] = x.value
              /\ \A p \in DOMAIN files : p[1] = Nth(<<"out">>, args.inst) =>
                   \E k \in DOMAIN stage.wire : p \in PathsOf(k, Nth(<<"out">>, args.inst), stage.shape[args.batch][k])
<1>1. Active /\ DOMAIN todo = {}
  BY DEF Base, Active
<1>2. ~Serializing /\ ~Probing /\ (\A j : ~Left("rehydrate", j)) /\ \A x : ~Writing(x)
  BY <1>1 DEF Serializing, Probing, Left, Writing
<1>3. CInv /\ WInv /\ FInv
  BY DEF LInv
<1>4. /\ Good(stage) /\ args \in Args /\ args.batch \in Batches
      /\ stage.writes = "wire" => WriteSet = UNION {WritesOf(k, Nth(<<"out">>, args.inst), result[stage.wire[k].name]) : k \in DOMAIN stage.wire}
      /\ \A k \in DOMAIN stage.wire : FieldRight(k) /\ LengthsFit(k, stage.shape[args.batch][k])
  BY <1>1, <1>2, <1>3, Whole
<1>5. \A x \in WriteSet : x.path \in DOMAIN files /\ files[x.path] = x.value
  BY <1>1, <1>2, <1>3 DEF WInv
<1>6. ASSUME stage.writes = "wire"
      PROVE  \A k \in DOMAIN stage.wire :
        \A x \in WritesOf(k, Nth(<<"out">>, args.inst), result[stage.wire[k].name]) :
           x.path \in DOMAIN files /\ files[x.path] = x.value
  BY <1>4, <1>5, <1>6
<1>7. ASSUME stage.writes = "wire", NEW p \in DOMAIN files, p[1] = Nth(<<"out">>, args.inst)
      PROVE  \E k \in DOMAIN stage.wire : p \in PathsOf(k, Nth(<<"out">>, args.inst), stage.shape[args.batch][k])
  <2>1. p[1] \in OutDirs
    BY <1>4, <1>7 DEF OutDirs, Args
  <2>2. PICK b \in Batches : \E k \in DOMAIN stage.wire : p \in PathsOf(k, p[1], stage.shape[b][k])
    BY <1>3, <1>7, <2>1 DEF FInv
  <2>3. stage.shape[b] = stage.shape[args.batch]
    BY <1>4 DEF Loads, Steady
  <2> QED BY <1>7, <2>2, <2>3
<1> QED BY <1>4, <1>5, <1>6, <1>7

LEMMA PathBegins ==
  ASSUME NEW d, NEW N, NEW b
  PROVE  File(<<d>>, N)[1] = d /\ BatchDir(<<d>>, b)[1] = d /\ File(BatchDir(<<d>>, b), N)[1] = d
<1>1. \A x, y : <<d, x>>[1] = d /\ <<d, x, y>>[1] = d
  OBVIOUS
<1> QED BY <1>1, PathsAre

(* Elements are loaded as long as there are files.                         *)
Elementwise(dir, f, m) == [i \in 1 .. m |-> files[File(dir, Nth(f.name, i - 1))]]

LEMMA LoadedElements ==
  ASSUME NEW dir, NEW f, NEW m \in 0 .. MaxNumber,
         \A i \in Indices : File(dir, Nth(f.name, i - 1)) \in DOMAIN files <=> i \in 1 .. m
  PROVE  LoadElements(files, dir, f) = Elementwise(dir, f, m)
<1> DEFINE there == {j \in Indices : File(dir, Nth(f.name, j - 1)) \in DOMAIN files}
<1>1. there \subseteq Indices /\ \A j \in Indices : j \in there <=> j \in 1 .. m
  OBVIOUS
<1>2. LoadElements(files, dir, f) = [i \in 1 .. LengthOf(there) |-> files[File(dir, Nth(f.name, i - 1))]]
  BY DEF LoadElements
<1> HIDE DEF there
<1>3. LengthOf(there) = m
  BY <1>1, LengthExact
<1> QED BY <1>2, <1>3 DEF Elementwise

LEMMA LoadedBatches ==
  ASSUME NEW dir, NEW f, NEW m \in 0 .. MaxNumber,
         \A b \in Indices : BatchDir(dir, b - 1) \in DOMAIN files <=> b \in 1 .. m
  PROVE  LoadBatches(files, dir, f) = [b \in 1 .. m |-> LoadElements(files, BatchDir(dir, b - 1), f)]
<1> DEFINE there == {c \in Indices : BatchDir(dir, c - 1) \in DOMAIN files}
<1>1. there \subseteq Indices /\ \A j \in Indices : j \in there <=> j \in 1 .. m
  OBVIOUS
<1>2. LoadBatches(files, dir, f) = [b \in 1 .. LengthOf(there) |-> LoadElements(files, BatchDir(dir, b - 1), f)]
  BY DEF LoadBatches
<1> HIDE DEF there
<1>3. LengthOf(there) = m
  BY <1>1, LengthExact
<1> QED BY <1>2, <1>3

(* The files of the directory, one kind of field after the other.          *)
LEMMA OneLoads ==
  ASSUME Base, RInv, LInv, exit = "ok", Loads, stage.writes = "wire", NEW k \in DOMAIN stage.wire, stage.wire[k].kind = "enc"
  PROVE  \E h \in {FALSE, args.hollow} :
           LoadField(files, OutputDir(args), stage.wire[k]) = FieldOf(stage.wire[k], stage.shape[args.batch][k], Result(h))
<1> DEFINE d == Nth(<<"out">>, args.inst)
           f == stage.wire[k]
           v == result[f.name]
<1>1. \A x \in WritesOf(k, d, v) : x.path \in DOMAIN files /\ files[x.path] = x.value
  BY AtTheEnd
<1>2. PICK h \in {FALSE, args.hollow} : v = FieldOf(f, stage.shape[args.batch][k], Result(h))
  BY AtTheEnd DEF FieldRight
<1> HIDE DEF d, v
<1>3. Write(File(<<d>>, f.name), v) \in WritesOf(k, d, v)
  BY DEF WritesOf
<1>4. File(<<d>>, f.name) \in DOMAIN files /\ files[File(<<d>>, f.name)] = v
  BY <1>1, <1>3 DEF Write
<1>5. LoadField(files, OutputDir(args), f) = v
  BY <1>4 DEF LoadField, At, OutputDir, d
<1> QED BY <1>2, <1>5

LEMMA VectorLoads ==
  ASSUME Base, RInv, LInv, exit = "ok", Loads, stage.writes = "wire", NEW k \in DOMAIN stage.wire, stage.wire[k].kind = "vec"
  PROVE  \E h \in {FALSE, args.hollow} :
           LoadField(files, OutputDir(args), stage.wire[k]) = FieldOf(stage.wire[k], stage.shape[args.batch][k], Result(h))
<1> DEFINE d == Nth(<<"out">>, args.inst)
           f == stage.wire[k]
           n(j) == stage.shape[args.batch][j]
           v == result[f.name]
<1>1. \A x \in WritesOf(k, d, v) : x.path \in DOMAIN files /\ files[x.path] = x.value
  BY AtTheEnd
<1>2. PICK h \in {FALSE, args.hollow} : v = FieldOf(f, n(k), Result(h))
  BY AtTheEnd DEF FieldRight
<1>3. /\ Good(stage) /\ \A j \in DOMAIN stage.wire : LengthsFit(j, n(j))
      /\ \A p \in DOMAIN files : p[1] = d => \E j \in DOMAIN stage.wire : p \in PathsOf(j, d, n(j))
  BY AtTheEnd
<1>4. f.name \in Seq(Words) /\ n(k)[1] \in 0 .. MaxNumber /\ n(k)[1] \in Nat
  <2>1. n(k)[1] \in 0 .. MaxNumber
    BY <1>3 DEF LengthsFit
  <2> QED BY <1>3, <2>1, FieldIs, WordsAssumption DEF Names
<1>5. v = [i \in 1 .. n(k)[1] |-> Of(Result(h), Nth(f.name, i - 1))]
  BY <1>2 DEF FieldOf
<1> HIDE DEF d, v, n
<1>6. ASSUME NEW i \in 1 .. n(k)[1]
      PROVE  File(<<d>>, Nth(f.name, i - 1)) \in DOMAIN files /\ files[File(<<d>>, Nth(f.name, i - 1))] = v[i]
  <2>1. Write(File(<<d>>, Nth(f.name, i - 1)), v[i]) \in WritesOf(k, d, v)
    BY <1>5 DEF WritesOf
  <2> QED BY <1>1, <2>1 DEF Write
<1>7. ASSUME NEW i \in Indices, File(<<d>>, Nth(f.name, i - 1)) \in DOMAIN files PROVE i \in 1 .. n(k)[1]
  <2> DEFINE N == Nth(f.name, i - 1)
  <2>1. i - 1 \in 0 .. MaxNumber /\ i \in Int
    BY Numbers DEF Indices
  <2>2. N \in Seq(Words) /\ Begins(N, f.name)
    BY <1>4, <2>1, NthIs, NthBegins
  <2>3. File(<<d>>, N)[1] = d
    BY PathBegins
  <2>4. PICK j \in DOMAIN stage.wire : File(<<d>>, N) \in PathsOf(j, d, n(j))
    BY <1>3, <1>7, <2>3
  <2>5. j = k /\ \E g \in 1 .. n(k)[1] : N = Nth(f.name, g - 1)
    <3> HIDE DEF N
    <3>1. LengthsFit(j, n(j))
      BY <1>3
    <3>2. j = k /\ \E g \in 1 .. n(j)[1] : N = Nth(f.name, g - 1)
      BY <1>3, <2>2, <2>4, <3>1, SameFile DEF Loads
    <3> QED BY <3>2
  <2>6. PICK g \in 1 .. n(k)[1] : N = Nth(f.name, g - 1)
    BY <2>5
  <2>7. g - 1 \in 0 .. MaxNumber /\ g \in Int
    BY <1>4, WordsAssumption
  <2>8. i - 1 = g - 1
    BY <1>4, <2>1, <2>6, <2>7, NthInjective
  <2> QED BY <2>1, <2>7, <2>8
<1>8. LoadElements(files, <<d>>, f) = Elementwise(<<d>>, f, n(k)[1])
  <2>1. \A i \in Indices : File(<<d>>, Nth(f.name, i - 1)) \in DOMAIN files <=> i \in 1 .. n(k)[1]
    BY <1>6, <1>7
  <2> QED BY <1>4, <2>1, LoadedElements
<1>9. LoadElements(files, <<d>>, f) = v
  BY <1>5, <1>6, <1>8 DEF Elementwise
<1>10. LoadField(files, OutputDir(args), f) = v
  BY <1>9 DEF LoadField, OutputDir, d
<1> QED BY <1>2, <1>10 DEF n

LEMMA MatrixLoads ==
  ASSUME Base, RInv, LInv, exit = "ok", Loads, stage.writes = "wire", NEW k \in DOMAIN stage.wire, stage.wire[k].kind = "mat"
  PROVE  \E h \in {FALSE, args.hollow} :
           LoadField(files, OutputDir(args), stage.wire[k]) = FieldOf(stage.wire[k], stage.shape[args.batch][k], Result(h))
<1> DEFINE d == Nth(<<"out">>, args.inst)
           f == stage.wire[k]
           n(j) == stage.shape[args.batch][j]
           v == result[f.name]
<1>1. \A x \in WritesOf(k, d, v) : x.path \in DOMAIN files /\ files[x.path] = x.value
  BY AtTheEnd
<1>2. PICK h \in {FALSE, args.hollow} : v = FieldOf(f, n(k), Result(h))
  BY AtTheEnd DEF FieldRight
<1>3. /\ Good(stage) /\ \A j \in DOMAIN stage.wire : LengthsFit(j, n(j))
      /\ \A p \in DOMAIN files : p[1] = d => \E j \in DOMAIN stage.wire : p \in PathsOf(j, d, n(j))
  BY AtTheEnd
<1>4. /\ f.name \in Seq(Words) /\ Len(n(k)) \in 0 .. MaxNumber /\ DOMAIN n(k) = 1 .. Len(n(k))
      /\ \A b \in DOMAIN n(k) : n(k)[b] \in 0 .. MaxNumber
  <2>1. /\ Len(n(k)) \in 0 .. MaxNumber /\ DOMAIN n(k) = 1 .. Len(n(k))
        /\ \A b \in DOMAIN n(k) : n(k)[b] \in 0 .. MaxNumber
    BY <1>3 DEF LengthsFit
  <2> QED BY <1>3, <2>1, FieldIs DEF Names
<1>5. v = [b \in DOMAIN n(k) |-> [i \in 1 .. n(k)[b] |-> Of(Result(h), Nth(Nth(f.name, b - 1), i - 1))]]
  BY <1>2 DEF FieldOf
<1>20. ASSUME NEW j \in DOMAIN stage.wire, stage.wire[j].kind = "mat" PROVE DOMAIN n(j) = DOMAIN n(k)
  <2>1. Len(n(j)) = Len(n(k))
    BY <1>20, AtTheEnd DEF Loads, SameRows, Matrices
  <2> QED BY <1>3, <1>20, <2>1 DEF LengthsFit
<1> HIDE DEF d, v, n
<1>6. Fits(k, n(k), v)
  BY <1>2, FieldFits
<1>7. ASSUME NEW b \in DOMAIN n(k) PROVE BatchDir(<<d>>, b - 1) \in DOMAIN files
  <2>1. MakeDir(BatchDir(<<d>>, b - 1)) \in WritesOf(k, d, v)
    BY <1>5 DEF WritesOf
  <2> QED BY <1>1, <2>1 DEF MakeDir
<1>8. ASSUME NEW b \in DOMAIN n(k), NEW i \in 1 .. n(k)[b]
      PROVE  /\ File(BatchDir(<<d>>, b - 1), Nth(f.name, i - 1)) \in DOMAIN files
             /\ files[File(BatchDir(<<d>>, b - 1), Nth(f.name, i - 1))] = v[b][i]
  <2>1. Write(File(BatchDir(<<d>>, b - 1), Nth(f.name, i - 1)), v[b][i]) \in WritesOf(k, d, v)
    BY <1>5 DEF WritesOf
  <2> QED BY <1>1, <2>1 DEF Write
<1>9. ASSUME NEW b \in Indices, BatchDir(<<d>>, b - 1) \in DOMAIN files PROVE b \in DOMAIN n(k)
  <2>1. b - 1 \in 0 .. MaxNumber /\ b \in Int
    BY Numbers DEF Indices
  <2>2. BatchDir(<<d>>, b - 1)[1] = d
    BY PathBegins
  <2>3. PICK j \in DOMAIN stage.wire : BatchDir(<<d>>, b - 1) \in PathsOf(j, d, n(j))
    BY <1>3, <1>9, <2>2
  <2>4. LengthsFit(j, n(j))
    BY <1>3
  <2>5. stage.wire[j].kind = "mat" /\ (b - 1) + 1 \in DOMAIN n(j)
    BY <1>3, <2>1, <2>3, <2>4, SameDir
  <2> QED BY <1>20, <2>1, <2>5
<1>10. ASSUME NEW b \in DOMAIN n(k), NEW i \in Indices, File(BatchDir(<<d>>, b - 1), Nth(f.name, i - 1)) \in DOMAIN files
       PROVE  i \in 1 .. n(k)[b]
  <2> DEFINE N == Nth(f.name, i - 1)
  <2>1. i - 1 \in 0 .. MaxNumber /\ i \in Int /\ b - 1 \in 0 .. MaxNumber /\ (b - 1) + 1 = b
    BY <1>4, Numbers, WordsAssumption DEF Indices
  <2>2. N \in Seq(Words) /\ Begins(N, f.name)
    BY <1>4, <2>1, NthIs, NthBegins
  <2>3. File(BatchDir(<<d>>, b - 1), N)[1] = d
    BY PathBegins
  <2>4. PICK j \in DOMAIN stage.wire : File(BatchDir(<<d>>, b - 1), N) \in PathsOf(j, d, n(j))
    BY <1>3, <1>10, <2>3
  <2>5. j = k /\ \E g \in 1 .. n(k)[b] : N = Nth(f.name, g - 1)
    <3> HIDE DEF N
    <3>1. LengthsFit(j, n(j))
      BY <1>3
    <3>2. j = k /\ \E g \in 1 .. n(j)[(b - 1) + 1] : N = Nth(f.name, g - 1)
      BY <1>3, <2>1, <2>2, <2>4, <3>1, SameRowFile DEF Loads
    <3> QED BY <2>1, <3>2
  <2>6. PICK g \in 1 .. n(k)[b] : N = Nth(f.name, g - 1)
    BY <2>5
  <2>7. g - 1 \in 0 .. MaxNumber /\ g \in Int
    <3>1. n(k)[b] \in 0 .. MaxNumber
      BY <1>4
    <3> QED BY <3>1, WordsAssumption
  <2>8. i - 1 = g - 1
    BY <1>4, <2>1, <2>6, <2>7, NthInjective
  <2> QED BY <2>1, <2>7, <2>8
<1>11. LoadBatches(files, <<d>>, f) = [b \in 1 .. Len(n(k)) |-> LoadElements(files, BatchDir(<<d>>, b - 1), f)]
  BY <1>4, <1>7, <1>9, LoadedBatches
<1>12. ASSUME NEW b \in DOMAIN n(k) PROVE LoadElements(files, BatchDir(<<d>>, b - 1), f) = v[b]
  <2>1. \A i \in Indices : File(BatchDir(<<d>>, b - 1), Nth(f.name, i - 1)) \in DOMAIN files <=> i \in 1 .. n(k)[b]
    BY <1>8, <1>10
  <2>2. LoadElements(files, BatchDir(<<d>>, b - 1), f) = Elementwise(BatchDir(<<d>>, b - 1), f, n(k)[b])
    BY <1>4, <2>1, LoadedElements
  <2>3. v[b] = [i \in 1 .. n(k)[b] |-> v[b][i]]
    BY <1>5
  <2>4. \A i \in 1 .. n(k)[b] : files[File(BatchDir(<<d>>, b - 1), Nth(f.name, i - 1))] = v[b][i]
    BY <1>8
  <2> QED BY <2>2, <2>3, <2>4 DEF Elementwise
<1>13. v = [b \in DOMAIN n(k) |-> v[b]]
  BY <1>5
<1>14. LoadBatches(files, <<d>>, f) = v
  BY <1>4, <1>11, <1>12, <1>13
<1>15. LoadField(files, OutputDir(args), f) = v
  BY <1>14 DEF LoadField, OutputDir, d
<1> QED BY <1>2, <1>15 DEF n

(* The directory of the wire is not a file of save().                      *)
LEMMA LoadsFields ==
  ASSUME Base, RInv, LInv, exit = "ok", Loads, stage.writes = "wire", NEW k \in DOMAIN stage.wire
  PROVE  LoadWire(files, OutputDir(args), stage.wire)[stage.wire[k].name] = LoadField(files, OutputDir(args), stage.wire[k])
<1> DEFINE d == Nth(<<"out">>, args.inst)
           f == stage.wire[k]
<1>1. /\ Good(stage) /\ OutputDir(args) = <<d>>
      /\ \A p \in DOMAIN files : p[1] = d => \E j \in DOMAIN stage.wire : p \in PathsOf(j, d, stage.shape[args.batch][j])
  BY AtTheEnd DEF OutputDir
<1> HIDE DEF d
<1>2. (CHOOSE j \in DOMAIN stage.wire : stage.wire[j].name = f.name) = k
  <2>1. \A j \in DOMAIN stage.wire : stage.wire[j].name = f.name => j = k
    BY <1>1, StageIs DEF Good
  <2> QED BY <2>1
<1>3. <<d>> \notin DOMAIN files
  <2> SUFFICES ASSUME <<d>> \in DOMAIN files PROVE FALSE
    OBVIOUS
  <2>1. <<d>>[1] = d
    OBVIOUS
  <2>2. PICK j \in DOMAIN stage.wire : <<d>> \in PathsOf(j, d, stage.shape[args.batch][j])
    BY <1>1, <2>1
  <2>3. \A x, y : <<d>> # <<d, x>> /\ <<d>> # <<d, x, y>>
    OBVIOUS
  <2>4. \A N, b : <<d>> # File(<<d>>, N) /\ <<d>> # BatchDir(<<d>>, b) /\ <<d>> # File(BatchDir(<<d>>, b), N)
    <3> SUFFICES ASSUME NEW N, NEW b
                 PROVE  <<d>> # File(<<d>>, N) /\ <<d>> # BatchDir(<<d>>, b) /\ <<d>> # File(BatchDir(<<d>>, b), N)
      OBVIOUS
    <3>1. /\ File(<<d>>, N) = <<d, Append(N, ".bin")>>
          /\ BatchDir(<<d>>, b) = <<d, Nth(<<"batch">>, b)>>
          /\ File(BatchDir(<<d>>, b), N) = <<d, Nth(<<"batch">>, b), Append(N, ".bin")>>
      BY PathsAre
    <3> QED BY <2>3, <3>1, Zenon
  <2>5. stage.wire[j].kind \in Kinds
    BY <1>1, FieldIs
  <2> QED BY <2>2, <2>4, <2>5 DEF PathsOf, Kinds
<1>4. At(files, <<d>>) = Null
  BY <1>3 DEF At
<1> QED BY <1>1, <1>2, <1>4 DEF LoadWire

(* The file of an indexed wire of one ciphertext.                          *)
LEMMA IndexedLoads ==
  ASSUME Base, RInv, LInv, exit = "ok", Loads, stage.writes = "indexed", NEW k \in DOMAIN stage.wire
  PROVE  /\ stage.wire[k].kind = "enc"
         /\ \E h \in {FALSE, args.hollow} :
              LoadWire(files, LoadedFrom, stage.wire)[stage.wire[k].name]
                = FieldOf(stage.wire[k], stage.shape[args.batch][k], Result(h))
<1> DEFINE f == stage.wire[1]
           from == IndexedFile(args, f)
           v == result[f.name]
<1>1. Good(stage) /\ args \in Args /\ OneCiphertext
  BY AtTheEnd DEF Loads, Loadable
<1>2. DOMAIN stage.wire = {1} /\ k = 1 /\ Len(stage.wire) = 1 /\ f.kind = "enc"
  <2>1. stage.wire \in Seq(Fields) /\ Len(stage.wire) = 1
    BY <1>1, StageIs DEF Good, OneCiphertext
  <2>2. DOMAIN stage.wire = {1}
    BY <2>1, LenProperties
  <2> QED BY <1>1, <2>1, <2>2 DEF OneCiphertext
<1>3. Write(from, v) \in WriteSet
  BY <1>1, IndexedIs
<1>4. from \in DOMAIN files /\ files[from] = v
  BY <1>3, AtTheEnd DEF Write
<1>5. PICK h \in {FALSE, args.hollow} : v = FieldOf(f, stage.shape[args.batch][k], Result(h))
  BY <1>2, AtTheEnd DEF FieldRight
<1>6. v = Value(f.name, args, input, h)
  <2>1. v = Of(Result(h), f.name)
    BY <1>2, <1>5 DEF FieldOf
  <2> QED BY <2>1, OfValue DEF Result
<1>7. v \notin {Null, Directory}
  <2>1. \A what : Value(what, args, input, h) \notin {Null, Directory}
    BY ValueIs, Zenon
  <2>2. v = Value(f.name, args, input, h)
    BY <1>6
  <2> QED BY <2>1, <2>2, Zenon
<1>8. LoadedFrom = from
  BY DEF LoadedFrom
<1> HIDE DEF from, v
<1>9. (CHOOSE j \in DOMAIN stage.wire : stage.wire[j].name = f.name) = 1
  BY <1>2
<1>10. {stage.wire[j].name : j \in DOMAIN stage.wire} = {f.name}
  BY <1>2
<1>11. At(files, from) \notin {Null, Directory}
  BY <1>4, <1>7 DEF At
<1>12. LoadWire(files, from, stage.wire)[f.name] = files[from]
  BY <1>2, <1>9, <1>10, <1>11 DEF LoadWire
<1> QED BY <1>2, <1>4, <1>5, <1>8, <1>12

(* From where it is to be loaded, the result is loaded.                    *)
LEMMA LoadsField ==
  ASSUME Base, RInv, LInv, exit = "ok", Loads, NEW k \in DOMAIN stage.wire, stage.wire[k].kind # "plain"
  PROVE  \E h \in {FALSE, args.hollow} :
           LoadWire(files, LoadedFrom, stage.wire)[stage.wire[k].name]
             = FieldOf(stage.wire[k], stage.shape[args.batch][k], Result(h))
<1>1. stage.wire[k].kind \in {"enc", "vec", "mat"}
  BY AtTheEnd, FieldIs DEF Kinds
<1>2. CASE stage.writes = "wire"
  <2>1. /\ LoadedFrom = OutputDir(args)
        /\ LoadWire(files, OutputDir(args), stage.wire)[stage.wire[k].name] = LoadField(files, OutputDir(args), stage.wire[k])
    BY <1>2, LoadsFields DEF LoadedFrom
  <2>2. \E h \in {FALSE, args.hollow} :
          LoadField(files, OutputDir(args), stage.wire[k]) = FieldOf(stage.wire[k], stage.shape[args.batch][k], Result(h))
    BY <1>1, <1>2, OneLoads, VectorLoads, MatrixLoads
  <2> QED BY <2>1, <2>2
<1>3. CASE stage.writes = "indexed"
  BY <1>3, IndexedLoads
<1> QED BY <1>2, <1>3 DEF Loads, Loadable

LEMMA LoadsWhole ==
  ASSUME Base, RInv, LInv, exit = "ok", Loads, NEW k \in DOMAIN stage.wire
  PROVE  LET f == stage.wire[k]
             v == LoadWire(files, LoadedFrom, stage.wire)[f.name]
             w == ResultOf(stage, args, Meant(<<>>))[f.name]
         IN  CASE f.kind = "enc" -> Same(v, w)
               [] f.kind = "vec" -> Len(v) = Len(w) /\ \A i \in DOMAIN w : Same(v[i], w[i])
               [] f.kind = "mat" ->
                     Len(v) = Len(w) /\ \A b \in DOMAIN w : Len(v[b]) = Len(w[b]) /\ \A i \in DOMAIN w[b] : Same(v[b][i], w[b][i])
               [] OTHER -> TRUE
<1> DEFINE f == stage.wire[k]
           n == stage.shape[args.batch][k]
           v == LoadWire(files, LoadedFrom, stage.wire)[f.name]
           w == ResultOf(stage, args, Meant(<<>>))[f.name]
           m == Meant(<<>>)
<1>1. Good(stage) /\ args.hollow \in BOOLEAN /\ LengthsFit(k, n)
  BY AtTheEnd DEF Args
<1>2. w = FieldOf(f, n, m)
  BY <1>1, ResultField
<1>3. f.kind # "plain" => \E h \in {FALSE, args.hollow} : v = FieldOf(f, n, Result(h))
  BY LoadsField
<1>4. ASSUME NEW h \in {FALSE, args.hollow}, NEW what PROVE Same(Of(Result(h), what), Of(m, what))
  BY <1>1, SameAs
<1> HIDE DEF v, w, n, m
<1>5. CASE f.kind = "enc"
  <2>1. PICK h \in {FALSE, args.hollow} : v = FieldOf(f, n, Result(h))
    BY <1>3, <1>5
  <2>2. v = Of(Result(h), f.name) /\ w = Of(m, f.name)
    BY <1>2, <1>5, <2>1 DEF FieldOf
  <2>3. Same(v, w)
    BY <1>4, <2>2
  <2> QED BY <1>5, <2>3 DEF v, w
<1>6. CASE f.kind = "vec"
  <2>1. PICK h \in {FALSE, args.hollow} : v = FieldOf(f, n, Result(h))
    BY <1>3, <1>6
  <2>2. /\ v = [i \in 1 .. n[1] |-> Of(Result(h), Nth(f.name, i - 1))]
        /\ w = [i \in 1 .. n[1] |-> Of(m, Nth(f.name, i - 1))]
    BY <1>2, <1>6, <2>1 DEF FieldOf
  <2>3. n[1] \in Nat
    BY <1>1, <1>6, WordsAssumption DEF LengthsFit
  <2>4. Len(v) = n[1] /\ Len(w) = n[1]
    BY <2>2, <2>3, LenIs
  <2>5. \A i \in DOMAIN w : Same(v[i], w[i])
    BY <1>4, <2>2
  <2>6. Len(v) = Len(w) /\ \A i \in DOMAIN w : Same(v[i], w[i])
    BY <2>4, <2>5
  <2> QED BY <1>6, <2>6 DEF v, w
<1>7. CASE f.kind = "mat"
  <2>1. PICK h \in {FALSE, args.hollow} : v = FieldOf(f, n, Result(h))
    BY <1>3, <1>7
  <2>2. /\ v = [b \in DOMAIN n |-> [i \in 1 .. n[b] |-> Of(Result(h), Nth(Nth(f.name, b - 1), i - 1))]]
        /\ w = [b \in DOMAIN n |-> [i \in 1 .. n[b] |-> Of(m, Nth(Nth(f.name, b - 1), i - 1))]]
    BY <1>2, <1>7, <2>1 DEF FieldOf
  <2>3. DOMAIN n = 1 .. Len(n) /\ Len(n) \in Nat /\ \A b \in DOMAIN n : n[b] \in Nat
    BY <1>1, <1>7, WordsAssumption DEF LengthsFit
  <2>4. DOMAIN v = DOMAIN n /\ DOMAIN w = DOMAIN n
    BY <2>2
  <2>5. Len(v) = Len(n) /\ Len(w) = Len(n)
    <3>1. v = [b \in 1 .. Len(n) |-> v[b]] /\ w = [b \in 1 .. Len(n) |-> w[b]]
      BY <2>2, <2>3
    <3> QED BY <2>3, <3>1, LenIs
  <2>6. ASSUME NEW b \in DOMAIN n PROVE Len(v[b]) = Len(w[b]) /\ \A i \in DOMAIN w[b] : Same(v[b][i], w[b][i])
    <3>1. /\ v[b] = [i \in 1 .. n[b] |-> Of(Result(h), Nth(Nth(f.name, b - 1), i - 1))]
          /\ w[b] = [i \in 1 .. n[b] |-> Of(m, Nth(Nth(f.name, b - 1), i - 1))]
      BY <2>2
    <3>2. v[b] = [i \in 1 .. n[b] |-> v[b][i]] /\ w[b] = [i \in 1 .. n[b] |-> w[b][i]]
      BY <3>1
    <3>3. Len(v[b]) = n[b] /\ Len(w[b]) = n[b]
      BY <2>3, <3>2, LenIs
    <3>4. ASSUME NEW i \in 1 .. n[b] PROVE Same(v[b][i], w[b][i])
      <4>1. Same(Of(Result(h), Nth(Nth(f.name, b - 1), i - 1)), Of(m, Nth(Nth(f.name, b - 1), i - 1)))
        BY <1>4
      <4>2. /\ v[b][i] = Of(Result(h), Nth(Nth(f.name, b - 1), i - 1))
            /\ w[b][i] = Of(m, Nth(Nth(f.name, b - 1), i - 1))
        BY <3>1
      <4> QED BY <4>1, <4>2, Zenon
    <3> QED BY <3>1, <3>3, <3>4
  <2>7. /\ Len(v) = Len(w)
        /\ \A b \in DOMAIN w : Len(v[b]) = Len(w[b]) /\ \A i \in DOMAIN w[b] : Same(v[b][i], w[b][i])
    BY <2>4, <2>5, <2>6
  <2> QED BY <1>7, <2>7 DEF v, w
<1>8. CASE f.kind = "plain"
  BY <1>8
<1>9. f.kind \in Kinds
  BY <1>1, FieldIs
<1> QED BY <1>5, <1>6, <1>7, <1>8, <1>9 DEF Kinds

(* What the next stage loads is what this one returned: as many elements   *)
(* and rows, each of them the right one, whether the process recorded or   *)
(* replayed and whatever was killed before it: of any stage that compiles  *)
(* and writes a wire, loaded from its directory, or an indexed wire of one *)
(* ciphertext, loaded from its file, with names apart, a whole cache key,  *)
(* results that do not shrink from one batch to the next, no empty rows    *)
(* and matrices of as many rows.  Other indexed wires are not loaded.      *)
THEOREM LoadedBack == Spec => []LoadsBack
<1>1. Base /\ RInv /\ LInv => LoadsBack
  BY LoadsWhole DEF LoadsBack, LoadedRight, Loads
<1>2. Init => Base /\ RInv /\ LInv
  BY InitIInv, InitLInv DEF IInv
<1>3. Base /\ RInv /\ LInv /\ [Next]_vars => (Base /\ RInv /\ LInv)'
  BY BaseNext, RInvNext, NextLInv
<1> QED BY <1>1, <1>2, <1>3, PTL DEF Spec
=============================================================================
