----------------------------- MODULE StageProgram -----------------------------
(***************************************************************************)
(* The program that codegen.py generates of a @server @hardware stage: a   *)
(* process records the stage, or, when there is a recording of its cache   *)
(* key, replays that and writes the same files.  Processes run one after   *)
(* the other, each may be killed; the stage's inputs are encrypted anew    *)
(* between them.                                                           *)
(*                                                                         *)
(* A stage is [wire, writes, index, shape, saves, key]: the wire it        *)
(* returns, whether it writes() the wire, the wire[index] or nothing,      *)
(* [batch -> the index], [batch -> for each field how long its sequence or *)
(* each of its rows is], its save()s in the order of the code, each [stem, *)
(* fields, local, batches, dir, plain], and how many names its cache key   *)
(* has.  A save of several fields writes a directory, one of none a file.  *)
(* A process has the arguments [inst, batch], the value set of a parameter *)
(* of --set and the --hollow flag.  A stage that writes() a simple type is *)
(* one that writes the wire of one ciphertext of that name.  One that      *)
(* writes_plaintext() ciphertexts, or that has two wires in its clause, or *)
(* two indexed ones, is no C++.                                            *)
(*                                                                         *)
(* A wire is a sequence of fields [name, kind]; its value gives every      *)
(* field a ciphertext (enc), a sequence of them (vec), a sequence of       *)
(* sequences (mat) or something else (plain).  A name is a sequence of     *)
(* words, what joins them in C++ is "_": so result_f_0 is one name,        *)
(* whether of element 0 of f or of f_0.  A path is a sequence of names.    *)
(*                                                                         *)
(* External, from the calls: the compiler's probe, stop, is_cache_valid,   *)
(* replay, which computes with the inputs as they are now, and result.     *)
(***************************************************************************)
EXTENDS Integers, SequencesExt

CONSTANTS
    Words,          \* of which names are made
    Numeral(_),     \* the word of a number
    MaxNumber,      \* the largest number of an instance, a batch, an element
    Stages,     \* the stages considered
    Insts, Batches, Params,     \* arguments and values of --set
    MaxRuns,    \* how many processes
    MaxInputs   \* how many times inputs are encrypted

ASSUME WordsAssumption ==
    /\ MaxNumber \in Nat /\ {"out", "dir", "batch", "result", ".bin"} \subseteq Words
    /\ \A i, j \in 0 .. MaxNumber :
         Numeral(i) \in Words \ {".bin"} /\ (Numeral(i) = Numeral(j) => i = j)

(* What maps x to v; the function g but where f says something else.       *)
One(x, v) == [y \in {x} |-> v]
Over(f, g) == [x \in DOMAIN f \cup DOMAIN g |-> IF x \in DOMAIN f THEN f[x] ELSE g[x]]

Null == [what |-> <<"nothing">>]
Directory == [what |-> <<"directory">>]
Kinds == {"enc", "vec", "mat", "plain"}

Nth(name, i) == Append(name, Numeral(i))

(* The file of that name in dir, and the name of a file.                   *)
File(dir, name) == Append(dir, Append(name, ".bin"))
NameOf(path) == Front(Last(path))

BatchDir(dir, b) == Append(dir, Nth(<<"batch">>, b))

Names == Seq(Words) \ {<<>>}
Fields == [name : Names, kind : Kinds]
Saves ==
    [stem : Names, fields : Seq(Names), local : BOOLEAN, batches : SUBSET Batches,
     dir : {"inst", "batch"}, plain : BOOLEAN]
ASSUME StagesAssumption ==
    /\ Insts \subseteq 0 .. MaxNumber /\ Batches \subseteq 0 .. MaxNumber
    /\ \A st \in Stages :
         /\ st.wire \in Seq(Fields) /\ st.saves \in Seq(Saves)
         /\ st.writes \in {"wire", "indexed", "nothing"} /\ st.index \in [Batches -> 0 .. MaxNumber]
         /\ st.key \in 0 .. 2
         /\ \A j, k \in DOMAIN st.wire : st.wire[j].name = st.wire[k].name => j = k
         /\ st.shape \in [Batches -> Seq(Seq(0 .. MaxNumber))]
         /\ \A b \in Batches : \A k \in DOMAIN st.wire :
              /\ k \in DOMAIN st.shape[b]
              /\ st.wire[k].kind = "vec" => Len(st.shape[b][k]) = 1
              /\ st.wire[k].kind = "mat" => Len(st.shape[b][k]) \in 0 .. MaxNumber

-----------------------------------------------------------------------------
(* What _gen_serialize_wire does, one file or directory after the other.   *)

Write(path, v) == [path |-> path, value |-> v]
MakeDir(path) == [path |-> path, value |-> Directory]

SerializeElements(dir, f, v) == [i \in DOMAIN v |-> Write(File(dir, Nth(f.name, i - 1)), v[i])]
SerializeField(dir, f, v) ==
    CASE f.kind \in {"enc", "plain"} -> <<Write(File(dir, f.name), v)>>
      [] f.kind = "vec" -> SerializeElements(dir, f, v)
      [] f.kind = "mat" ->
            FlattenSeq([b \in DOMAIN v |->
                <<MakeDir(BatchDir(dir, b - 1))>> \o SerializeElements(BatchDir(dir, b - 1), f, v[b])])
SerializeWire(dir, wire, w) ==
    FlattenSeq([k \in DOMAIN wire |-> SerializeField(dir, wire[k], w[wire[k].name])])

-----------------------------------------------------------------------------
(* What _gen_load reads of files, [path -> value]: a file that is not      *)
(* there is no error, a sequence ends before the first one that is not.    *)

At(files, path) == IF path \in DOMAIN files THEN files[path] ELSE Null

(* How many come before the first that is not there.                       *)
LengthOf(there) ==
    CHOOSE n \in 0 .. MaxNumber : 1 .. n \subseteq there /\ (n = MaxNumber \/ n + 1 \notin there)
Indices == 1 .. MaxNumber

LoadElements(files, dir, f) ==
    [i \in 1 .. LengthOf({j \in Indices : File(dir, Nth(f.name, j - 1)) \in DOMAIN files}) |->
        files[File(dir, Nth(f.name, i - 1))]]
LoadBatches(files, dir, f) ==
    [b \in 1 .. LengthOf({c \in Indices : BatchDir(dir, c - 1) \in DOMAIN files}) |->
        LoadElements(files, BatchDir(dir, b - 1), f)]

LoadField(files, dir, f) ==
    CASE f.kind = "enc" -> At(files, File(dir, f.name))
      [] f.kind = "vec" -> LoadElements(files, dir, f)
      [] f.kind = "mat" -> LoadBatches(files, dir, f)
      [] f.kind = "plain" -> Null

(* A wire of one ciphertext is also loaded from the very file that save()  *)
(* has written.                                                            *)
LoadWire(files, from, wire) ==
    [n \in {wire[k].name : k \in DOMAIN wire} |->
        LET f == wire[CHOOSE k \in DOMAIN wire : wire[k].name = n]
        IN  IF /\ Len(wire) = 1 /\ f.kind = "enc"
               /\ At(files, from) \notin {Null, Directory}
            THEN files[from] ELSE LoadField(files, from, f)]

-----------------------------------------------------------------------------
VARIABLES
    stage,      \* the stage, or NoStage as long as none is compiled
    args,       \* of the process: [inst, batch, param, hollow]
    todo,       \* the steps of main() that are left
    exit,       \* "running", how it ended, or "none" since the inputs are new
    result,     \* main()'s wire: [field name -> value]
    probes,     \* probe()d by this process: [name -> value]
    cache,      \* [cache key -> probes of the recording]
    files,      \* [path -> value]
    input,      \* how many times the inputs have been encrypted
    runs        \* how many processes there were
vars == <<stage, args, todo, exit, result, probes, cache, files, input, runs>>

NoStage ==
    [wire |-> <<>>, writes |-> "nothing", index |-> <<>>, shape |-> <<>>, saves |-> <<>>, key |-> 0]
NoArgs == [inst |-> 0, batch |-> 0, param |-> 0, hollow |-> FALSE]

Init ==
    /\ stage = NoStage /\ args = NoArgs /\ todo = <<>> /\ exit = "none"
    /\ result = <<>> /\ probes = <<>> /\ cache = <<>> /\ files = <<>>
    /\ input = 1 /\ runs = 0

-----------------------------------------------------------------------------
(* Code generation: the save()s of a stage, each under names to probe.     *)

Stems(s) == IF s.plain THEN <<>> ELSE IF s.fields = <<>> THEN <<s.stem>> ELSE s.fields
ResultStem == <<"result">>
SavedBefore(st, k) == UNION {ToSet(Stems(st.saves[j])) : j \in 1 .. k - 1}

\* The bug of not asking whether the name is taken.
BugRegistered(st, k) == ~st.saves[k].local

(* _register_hw_save: main() must be able to find the file again, and the  *)
(* ciphertext.                                                             *)
Registered(st, k) ==
    LET stems == Stems(st.saves[k])
    IN  stems # <<>> => /\ ~st.saves[k].local
                        /\ IsInjective(stems)
                        /\ ToSet(stems) \cap (SavedBefore(st, k) \cup {ResultStem}) = {}

Compile ==
    /\ stage = NoStage
    /\ \E st \in Stages :
         /\ \A k \in DOMAIN st.saves : Registered(st, k)
         /\ stage' = st
    /\ UNCHANGED <<args, todo, exit, result, probes, cache, files, input, runs>>

-----------------------------------------------------------------------------
(* Values: what the stage computes of its arguments and inputs.            *)

Value(what, a, i, hollow) ==
    [what |-> what, inst |-> a.inst, batch |-> a.batch, param |-> a.param,
     input |-> i, hollow |-> hollow]
Computed(what) == Value(what, args, input, args.hollow)
(* The result of stage st, all of it computed as value is.                 *)
Of(value, name) == [value EXCEPT !.what = name]
FieldOf(f, n, value) ==
    CASE f.kind \in {"enc", "plain"} -> Of(value, f.name)
      [] f.kind = "vec" -> [i \in 1 .. n[1] |-> Of(value, Nth(f.name, i - 1))]
      [] f.kind = "mat" -> [b \in DOMAIN n |-> [i \in 1 .. n[b] |-> Of(value, Nth(Nth(f.name, b - 1), i - 1))]]
ResultOf(st, a, value) ==
    [m \in {st.wire[k].name : k \in DOMAIN st.wire} |->
        LET k == CHOOSE k \in DOMAIN st.wire : st.wire[k].name = m
        IN  FieldOf(st.wire[k], st.shape[a.batch][k], value)]

OutputDir(a) == <<Nth(<<"out">>, a.inst)>>

(* What save s writes, by name: the file of each, and what is in it.       *)
Saved(s) == IF s.fields = <<>> THEN {s.stem} ELSE ToSet(s.fields)
SaveDir(s, a) ==
    LET dir == <<Nth(<<"dir">>, a.inst)>>
        to == IF s.dir = "batch" THEN Append(dir, <<Numeral(a.batch)>>) ELSE dir
    IN  IF s.fields = <<>> THEN to ELSE Append(to, s.stem)
SaveFile(s, a, n) == File(SaveDir(s, a), n)
What(s, n) ==
    IF s.plain THEN <<"plain">> \o n ELSE IF s.fields = <<>> THEN n ELSE s.stem \o n

-----------------------------------------------------------------------------
(* main().                                                                 *)

(* The first name of a cache_key stands for the first argument, whatever   *)
(* the name, the second for the second.                                    *)
CacheKey(a) ==
    [inst |-> IF stage.key >= 1 THEN a.inst ELSE 0,
     batch |-> IF stage.key >= 2 THEN a.batch ELSE 0, param |-> a.param]

(* What main() has left to do, from its kth save, field or file on.        *)
Steps(tag, k, n) == [i \in 1 .. n - k + 1 |-> <<tag, k + i - 1>>]
Recording(k) == Steps("save", k, Len(stage.saves)) \o << <<"probe">>, <<"stop">>, <<"serialize">> >>
Restoring(k) == Steps("restore", k, Len(stage.saves)) \o << <<"serialize">> >>
Rehydrating(k) == Steps("rehydrate", k, Len(stage.wire)) \o Restoring(1)

(* A process starts: the gate of main() decides what it will do.           *)
Begin ==
    /\ stage # NoStage /\ exit # "running" /\ runs < MaxRuns
    /\ \E i \in Insts, b \in Batches, p \in Params, h \in BOOLEAN :
         args' = [inst |-> i, batch |-> b, param |-> p, hollow |-> h]
    /\ todo' = IF CacheKey(args') \in DOMAIN cache THEN << <<"replay">> >> \o Rehydrating(1) ELSE Recording(1)
    /\ exit' = "running" /\ runs' = runs + 1
    /\ result' = <<>> /\ probes' = <<>>
    /\ UNCHANGED <<stage, cache, files, input>>

Step(tag) == exit = "running" /\ todo # <<>> /\ Head(todo)[1] = tag
Operand == Head(todo)[2]
Goes == todo' = Tail(todo) /\ UNCHANGED <<stage, args, exit, input, runs>>
Fails == exit' = "failed" /\ UNCHANGED <<stage, args, todo, result, probes, cache, files, input, runs>>

(* A save() of the stage's body, if the body comes by it: its files, and   *)
(* the probes that make them outputs of the recording.                     *)
Save ==
    /\ Step("save")
    /\ LET s == stage.saves[Operand]
           written == [p \in {SaveFile(s, args, n) : n \in Saved(s)} |-> Computed(What(s, NameOf(p)))]
           probed == [n \in ToSet(Stems(s)) |-> Computed(What(s, n))]
       IN  IF args.batch \in s.batches
           THEN files' = Over(written, files) /\ probes' = Over(probed, probes)
           ELSE UNCHANGED <<files, probes>>
    /\ Goes /\ UNCHANGED <<result, cache>>

(* _gen_result_io(probe): the stage has returned.                          *)
ProbeBase(f) == IF Len(stage.wire) = 1 THEN ResultStem ELSE ResultStem \o f.name

Named(elements) ==
    [n \in {Nth(e[1], e[2]) : e \in elements} |-> (CHOOSE e \in elements : n = Nth(e[1], e[2]))[3]]

\* The bug of a field's own name whether it is the only one or not.
BugProbed(f, v) == IF f.kind = "enc" THEN One(ResultStem \o f.name, v) ELSE <<>>

Probed(f, v) ==
    CASE f.kind = "enc" -> One(ProbeBase(f), v)
      [] f.kind = "vec" -> Named({<<ProbeBase(f), i - 1, v[i]>> : i \in DOMAIN v})
      [] f.kind = "mat" -> Named(UNION {{<<Nth(ProbeBase(f), b - 1), i - 1, v[b][i]>> : i \in DOMAIN v[b]} : b \in DOMAIN v})
      [] f.kind = "plain" -> <<>>

(* The probes of all the fields: of two of a name the later one is kept.   *)
ProbedAt(k, w) == Probed(stage.wire[k], w[stage.wire[k].name])
AllProbed(w) ==
    [n \in UNION {DOMAIN ProbedAt(k, w) : k \in DOMAIN stage.wire} |->
        LET by == {k \in DOMAIN stage.wire : n \in DOMAIN ProbedAt(k, w)}
        IN  ProbedAt(CHOOSE k \in by : \A j \in by : j <= k, w)[n]]
Probe ==
    /\ Step("probe")
    /\ result' = ResultOf(stage, args, Computed(<<>>))
    /\ probes' = Over(AllProbed(result'), probes)
    /\ Goes /\ UNCHANGED <<cache, files>>

(* stop(): from now on there is a recording.                               *)
Stop ==
    /\ Step("stop")
    /\ cache' = Over(One(CacheKey(args), probes), cache)
    /\ Goes /\ UNCHANGED <<result, probes, files>>

(* replay(): what result() finds are the probes, with the inputs of today. *)
Replay ==
    /\ Step("replay")
    /\ LET Again(v) == Value(v.what, v, input, FALSE)
           recorded == cache[CacheKey(args)]
       IN  \/ /\ probes' = [n \in DOMAIN recorded |-> Again(recorded[n])]
              /\ Goes /\ UNCHANGED <<result, cache, files>>
           \/ Fails

(* _gen_result_io(rehydrate): a ciphertext that is not there is an error,  *)
(* a sequence is as long as there are elements.                            *)
Elements(base) ==
    [i \in 1 .. LengthOf({j \in Indices : Nth(base, j - 1) \in DOMAIN probes}) |-> probes[Nth(base, i - 1)]]
Rows(base) ==
    [b \in 1 .. LengthOf({c \in Indices : Elements(Nth(base, c - 1)) # <<>>}) |-> Elements(Nth(base, b - 1))]

\* The bug of a loop over the elements that result has already.
BugRehydrated(f) ==
    CASE f.kind = "enc" -> probes[ProbeBase(f)]
      [] f.kind \in {"vec", "mat"} -> <<>>
      [] f.kind = "plain" -> Null

Rehydrated(f) ==
    CASE f.kind = "enc" -> probes[ProbeBase(f)]
      [] f.kind = "vec" -> Elements(ProbeBase(f))
      [] f.kind = "mat" -> Rows(ProbeBase(f))
      [] f.kind = "plain" -> Null
Rehydrate ==
    /\ Step("rehydrate")
    /\ LET f == stage.wire[Operand]
       IN  IF f.kind = "enc" /\ ProbeBase(f) \notin DOMAIN probes THEN Fails
           ELSE /\ result' = Over(One(f.name, Rehydrated(f)), result)
                /\ Goes /\ UNCHANGED <<probes, cache, files>>

(* What each save() has written is written again; the first ciphertext     *)
(* that is not there ends the program, what is before it has been written. *)
Restore ==
    /\ Step("restore")
    /\ LET s == stage.saves[Operand]
           stems == Stems(s)
           there == {k \in DOMAIN stems : \A j \in 1 .. k : stems[j] \in DOMAIN probes}
       IN  /\ files' = Over([p \in {SaveFile(s, args, stems[k]) : k \in there} |-> probes[NameOf(p)]], files)
           /\ IF there = DOMAIN stems THEN todo' = Tail(todo) /\ UNCHANGED exit
              ELSE exit' = "failed" /\ UNCHANGED todo
    /\ UNCHANGED <<stage, args, result, probes, cache, input, runs>>

(* _gen_result_serialization: one file after the other.  An indexed wire   *)
(* has a file for a field, of the name of its type, the index and, if it   *)
(* has several fields, the field.                                          *)
IndexedFile(a, f) ==
    File(OutputDir(a), Nth(ResultStem, stage.index[a.batch]) \o (IF Len(stage.wire) = 1 THEN <<>> ELSE f.name))
SerializeIndexed ==
    [k \in DOMAIN stage.wire |-> Write(IndexedFile(args, stage.wire[k]), result[stage.wire[k].name])]
Written ==
    CASE stage.writes = "wire" -> SerializeWire(OutputDir(args), stage.wire, result)
      [] stage.writes = "indexed" -> SerializeIndexed
      [] stage.writes = "nothing" -> <<>>
Serialize ==
    /\ Step("serialize")
    /\ todo' = [k \in DOMAIN Written |-> <<"write", Written[k]>>] \o Tail(todo)
    /\ UNCHANGED <<stage, args, exit, result, probes, cache, files, input, runs>>
WriteFile ==
    /\ Step("write")
    /\ files' = Over(One(Operand.path, Operand.value), files)
    /\ Goes /\ UNCHANGED <<result, probes, cache>>

Exit ==
    /\ exit = "running" /\ todo = <<>> /\ exit' = "ok"
    /\ UNCHANGED <<stage, args, todo, result, probes, cache, files, input, runs>>

Kill ==
    /\ exit = "running" /\ exit' = "killed"
    /\ UNCHANGED <<stage, args, todo, result, probes, cache, files, input, runs>>

(* The client encrypts new inputs.                                         *)
Encrypt ==
    /\ exit # "running" /\ input < MaxInputs /\ input' = input + 1 /\ exit' = "none"
    /\ UNCHANGED <<stage, args, todo, result, probes, cache, files, runs>>

Next ==
    \/ Compile \/ Begin \/ Save \/ Probe \/ Stop \/ Replay \/ Rehydrate \/ Restore
    \/ Serialize \/ WriteFile \/ Exit \/ Kill \/ Encrypt

Spec == Init /\ [][Next]_vars

-----------------------------------------------------------------------------
(* Properties.                                                             *)

(* Everything a run probes, and a file that it does not probe, has a name  *)
(* of its own.                                                             *)
NamesApart ==
    /\ \A f, g \in ToSet(stage.wire) : f # g => ~IsPrefix(f.name, g.name)
    /\ \A k \in DOMAIN stage.saves : \A n \in ToSet(Stems(stage.saves[k])) : Head(n) # "result"
    /\ \A j, k \in DOMAIN stage.saves :
         j # k /\ stage.saves[k].plain => Saved(stage.saves[j]) \cap Saved(stage.saves[k]) = {}
Keyed == stage.key = 2
Unconditional == \A k \in DOMAIN stage.saves : stage.saves[k].batches = Batches

Same(v, w) == v = w \/ (args.hollow /\ v \notin {Null, Directory} /\ [v EXCEPT !.hollow = FALSE] = w)
Meant(what) == Value(what, args, input, FALSE)

(* A process that ends well has left in every file that the stage saves    *)
(* what the stage computes of this process's arguments and inputs, whether *)
(* it recorded or replayed, and whatever was killed before it: as long as  *)
(* the names are apart and the cache key has every argument that matters.  *)
SavesRight ==
    exit = "ok" /\ NamesApart /\ Keyed =>
      \A k \in DOMAIN stage.saves :
        LET s == stage.saves[k]
        IN  args.batch \in s.batches /\ ~s.plain =>
              \A n \in Saved(s) : Same(At(files, SaveFile(s, args, n)), Meant(What(s, n)))

(* What load() makes of from is what this stage returned: as many elements *)
(* and rows, each of them the right one.                                   *)
LoadedRight(from) ==
    LET loaded == LoadWire(files, from, stage.wire)
        meant == ResultOf(stage, args, Meant(<<>>))
    IN  \A k \in DOMAIN stage.wire :
          LET v == loaded[stage.wire[k].name]
              w == meant[stage.wire[k].name]
          IN  CASE stage.wire[k].kind = "enc" -> Same(v, w)
                [] stage.wire[k].kind = "vec" -> Len(v) = Len(w) /\ \A i \in DOMAIN w : Same(v[i], w[i])
                [] stage.wire[k].kind = "mat" ->
                      Len(v) = Len(w) /\ \A b \in DOMAIN w : Len(v[b]) = Len(w[b]) /\ \A i \in DOMAIN w[b] : Same(v[b][i], w[b][i])
                [] OTHER -> TRUE

(* Where a result is to be loaded from: a wire from its directory, an      *)
(* indexed wire of one ciphertext from the file whose name the next stage  *)
(* puts together itself.  No load() reads another indexed wire.            *)
OneCiphertext == Len(stage.wire) = 1 /\ stage.wire[1].kind = "enc"
Loadable == stage.writes = "wire" \/ (stage.writes = "indexed" /\ OneCiphertext)
LoadedFrom == IF stage.writes = "indexed" THEN IndexedFile(args, stage.wire[1]) ELSE OutputDir(args)

(* What the next stage loads is what this one returned, of a wire that can *)
(* be loaded.  That takes rows that are not empty, results that do not     *)
(* shrink from one batch to the next, and matrices of as many rows: they   *)
(* share the directories of a wire.                                        *)
Steady == \A a, b \in Batches : stage.shape[a] = stage.shape[b]
Matrices == {k \in DOMAIN stage.wire : stage.wire[k].kind = "mat"}
NoEmptyRow == \A k \in Matrices : \A b \in Batches : 0 \notin ToSet(stage.shape[b][k])
SameRows == \A j, k \in Matrices : \A b \in Batches : Len(stage.shape[b][j]) = Len(stage.shape[b][k])
LoadsBack ==
    exit = "ok" /\ NamesApart /\ Keyed /\ Steady /\ NoEmptyRow /\ SameRows /\ Loadable => LoadedRight(LoadedFrom)

(* load(Wire[index], from: the output directory) loads what the stage that *)
(* writes(Wire[index]) has written: it does not, _gen_load drops the index *)
(* and reads the files of the wire.                                        *)
IndexedLoadsBack ==
    exit = "ok" /\ NamesApart /\ Keyed /\ stage.writes = "indexed" => LoadedRight(OutputDir(args))

(* A recording is enough: a process that ends with an error has one in     *)
(* replay(); what result() is asked for is there, provided that the stage  *)
(* comes by all of its saves.                                              *)
RecordingEnough == exit = "failed" /\ Unconditional => Head(todo)[1] = "replay"
=============================================================================
