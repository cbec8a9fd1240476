----------------------------- MODULE AutoFacade -----------------------------
(***************************************************************************)
(* The hooks of src/auto_facade/AutoFacade.cpp under an OpenFHE program    *)
(* that knows nothing of them.  The first process that runs the program    *)
(* records it; the next one, the cache being valid, replays: ciphertexts   *)
(* are computed by the hardware, the program's own operations return       *)
(* dummies, and the hooks put the hardware's results in their place.       *)
(*                                                                         *)
(* The program is any sequence of the operations below and is              *)
(* deterministic: a replay performs the operations that were recorded.  A  *)
(* ciphertext is named by the position of the operation that made it, and  *)
(* so is its value; what differs between two processes is the address it   *)
(* is given, by which the hooks tell ciphertexts apart, and the slot in    *)
(* the accelerator's memory, by which the recorded trace finds an input.   *)
(*                                                                         *)
(* External, from the way the hooks use and describe them: Compiler        *)
(* (start, stop, probe, replay, result), the instrumented Decrypt, which   *)
(* calls itself on a substituted ciphertext, and the two allocators, the   *)
(* program's, which may give a freed address out again, and FHETCH's,      *)
(* which gives slots out in order.                                         *)
(***************************************************************************)
EXTENDS Naturals, Sequences, Functions

CONSTANTS
    Paths,      \* the files the program loads ciphertexts from
    Stems,      \* the stems of the files it serializes ciphertexts to
    MaxSteps,   \* bound on the operations of the program
    MaxRuns     \* bound on the processes that run it

ASSUME FacadeAssumption == MaxSteps \in Nat /\ MaxRuns \in Nat

\* A ciphertext without the value it should have.
Dummy == 0

\* The evaluation keys, among the inputs, which are positions otherwise.
Keys == 0

VARIABLES
    run,        \* the process, 0 before the first one
    configured, \* NIOBIUM_CONFIG names a file
    mode,       \* g_mode
    script,     \* what the program has done in this process
    objs,       \* its ciphertexts: address, content, inputs depended on
    freed,      \* the addresses given back
    next,       \* the first address never given out
    probed,     \* g_probed_cts, from addresses to probe names
    substituted, \* g_substituted_cts
    probe_counter, load_counter, plaintext_counter,
    slot,       \* the next slot of the FHETCH allocator
    tagged,     \* the inputs tagged so far: name and slot
    probes,     \* what probe() registered, by name
    results,    \* {} or {what replay() computed, by name}
    cached,     \* {} or {the recording stop() left}
    seen,       \* history: the ciphertexts that left the program, as they
                \* should be and as they were
    mistaken    \* history: a Decrypt met a ciphertext that was no output yet
                \* at an address the hooks remembered

facade == <<mode, probed, substituted, probe_counter, load_counter,
            plaintext_counter, slot, tagged, probes, results>>
program == <<script, objs, freed, next, seen, mistaken>>
process == <<run, configured>>
vars == <<process, facade, program, cached>>

Empty == [x \in {} |-> x]

\* The map f with v at k.
With(f, k, v) == [x \in DOMAIN f \cup {k} |-> IF x = k THEN v ELSE f[x]]

Init ==
    /\ run = 0
    /\ configured \in BOOLEAN
    /\ mode = "UNINITIALIZED"
    /\ script = <<>> /\ objs = Empty /\ freed = {} /\ next = 1
    /\ seen = {} /\ mistaken = FALSE
    /\ probed = Empty /\ substituted = {}
    /\ probe_counter = 0 /\ plaintext_counter = 0
    /\ load_counter = [p \in Paths |-> 0]
    /\ slot = 1 /\ tagged = Empty /\ probes = Empty /\ results = {}
    /\ cached = {}

\* A process of the program begins, wherever the last one was: nothing of that
\* one's memory is left.
Begin ==
    /\ run < MaxRuns
    /\ run' = run + 1
    /\ mode' = "UNINITIALIZED"
    /\ script' = <<>> /\ objs' = Empty /\ freed' = {} /\ next' = 1
    /\ seen' = {} /\ mistaken' = FALSE
    /\ probed' = Empty /\ substituted' = {}
    /\ probe_counter' = 0 /\ plaintext_counter' = 0
    /\ load_counter' = [p \in Paths |-> 0]
    /\ slot' = 1 /\ tagged' = Empty /\ probes' = Empty /\ results' = {}
    /\ UNCHANGED <<configured, cached>>

-----------------------------------------------------------------------------
(* The context is deserialized.  cooperative: the host has called          *)
(* enable_auto_tagging() before.                                           *)

OnDeserializeCryptoContext ==
    /\ run > 0 /\ mode = "UNINITIALIZED"
    /\ \E cooperative \in BOOLEAN :
          mode' = IF configured THEN IF cached # {} THEN "REPLAY" ELSE "RECORD"
                  ELSE IF cooperative THEN "COOPERATIVE" ELSE "DORMANT"
    /\ UNCHANGED <<process, program, probed, substituted, probe_counter,
                   load_counter, plaintext_counter, slot, tagged, probes,
                   results, cached>>

-----------------------------------------------------------------------------
(* One operation of the program.                                           *)

Here == Len(script) + 1     \* its position

\* op is applied to the ciphertext of, or 0, and the file file, or "".
Op(op, of, file) == [op |-> op, of |-> of, file |-> file]

Done(ops) == {k \in DOMAIN script : script[k].op \in ops}

\* The program may do op next: a replay does what was recorded.
Does(op) ==
    /\ mode \notin {"UNINITIALIZED", "EXITED"}
    /\ IF mode = "REPLAY"
       THEN \E c \in cached : Here <= Len(c.script) /\ c.script[Here] = op
       ELSE Len(script) < MaxSteps
    /\ script' = Append(script, op)

\* An input as it is tagged.
Tag(name, at) == [name |-> name, slot |-> at]

\* The program's ciphertexts once one with this content is made at a, which is
\* freed or the next address.
Make(a, content, inputs) ==
    /\ objs' = With(objs, Here, [at |-> a, holds |-> content, inputs |-> inputs])
    /\ next' = IF a = next THEN next + 1 ELSE next
    /\ freed' = freed \ {a}

\* The input names of the keys, the n-th load of a path and the n-th plaintext.
KeysName == <<"keys">>
InputName(path, n) == <<path, "load", n>>
PlaintextName(n) == <<"pt", n>>

\* DeserializeFromFile, on_deserialize_ciphertext: tag_keys() before the first
\* of the process.
Load(path, a) ==
    LET first == Keys \notin DOMAIN tagged
        keyed == IF first THEN With(tagged, Keys, Tag(KeysName, slot)) ELSE tagged
        at    == IF first THEN slot + 1 ELSE slot
    IN
    /\ Does(Op("load", 0, path))
    /\ Make(a, Here, {Here})
    /\ IF mode = "DORMANT"
       THEN UNCHANGED <<slot, load_counter, tagged>>
       ELSE /\ load_counter' = [load_counter EXCEPT ![path] = @ + 1]
            /\ tagged' = With(keyed, Here, Tag(InputName(path, load_counter[path]), at))
            /\ slot' = at + 1
    /\ UNCHANGED <<process, mode, probed, substituted, probe_counter,
                   plaintext_counter, probes, results, cached, seen, mistaken>>

\* An operation on v, the keys and the plaintexts made so far.  A replay returns
\* a dummy, which takes no slot.
Eval(v, a) ==
    /\ Does(Op("eval", v, ""))
    /\ Make(a, IF mode = "REPLAY" THEN Dummy ELSE Here,
            objs[v].inputs \cup (({Keys} \cup Done({"plaintext"})) \cap DOMAIN tagged))
    /\ slot' = IF mode = "REPLAY" THEN slot ELSE slot + 1
    /\ UNCHANGED <<process, mode, probed, substituted, probe_counter, load_counter,
                   plaintext_counter, tagged, probes, results, cached, seen, mistaken>>

\* What the recording wrote for a plaintext: its record-time slot.
Filed(name) ==
    UNION {{c.tagged[k] : k \in {i \in DOMAIN c.tagged : c.tagged[i].name = name}} :
              c \in cached}

\* The plaintext goes by this name.  A recording tags it, a replay reads its
\* file back, if there is one.
Interned(name) ==
    IF mode # "REPLAY"
    THEN tagged' = With(tagged, Here, Tag(name, slot)) /\ slot' = slot + 1
    ELSE /\ IF Filed(name) = {} THEN tagged' = tagged
            ELSE \E t \in Filed(name) : tagged' = With(tagged, Here, t)
         /\ slot' = slot

\* The bug of a counter that only a recording advances.
BugMakePlaintext ==
    /\ Does(Op("plaintext", 0, ""))
    /\ IF mode = "DORMANT"
       THEN UNCHANGED <<plaintext_counter, slot, tagged>>
       ELSE /\ plaintext_counter' = IF mode = "REPLAY" THEN plaintext_counter
                                                       ELSE plaintext_counter + 1
            /\ Interned(PlaintextName(plaintext_counter))
    /\ UNCHANGED <<process, mode, objs, freed, next, seen, mistaken, probed,
                   substituted, probe_counter, load_counter, probes, results, cached>>

\* Make*Plaintext, on_make_plaintext.
MakePlaintext ==
    /\ Does(Op("plaintext", 0, ""))
    /\ IF mode = "DORMANT"
       THEN UNCHANGED <<plaintext_counter, slot, tagged>>
       ELSE /\ plaintext_counter' = plaintext_counter + 1
            /\ Interned(PlaintextName(plaintext_counter))
    /\ UNCHANGED <<process, mode, objs, freed, next, seen, mistaken, probed,
                   substituted, probe_counter, load_counter, probes, results, cached>>

\* The program drops its last reference to v.
Release(v) ==
    /\ Does(Op("release", v, ""))
    /\ objs' = Restrict(objs, DOMAIN objs \ {v})
    /\ freed' = freed \cup {objs[v].at}
    /\ UNCHANGED <<process, facade, cached, seen, mistaken, next>>

-----------------------------------------------------------------------------
(* Outputs.                                                                *)

\* The trace of c finds the input k, and nothing else, at the slot it reads.
Backed(c, k) ==
    {j \in DOMAIN tagged : tagged[j].slot = c.tagged[k].slot} = {k}

\* replay(): the trace runs on what has been tagged in this process.
Computed(c) ==
    [n \in DOMAIN c.probes |->
        IF \A k \in c.probes[n].inputs : Backed(c, k) THEN c.probes[n].value
                                                      ELSE Dummy]

\* ensure_replayed(), on the first output of a replay.
Replayed == IF results = {} THEN {Computed(c) : c \in cached} ELSE results

Probe(name, v) ==
    With(probes, name, [value |-> objs[v].holds, inputs |-> objs[v].inputs])

\* probed, with the addresses in as bound to name.
Bind(as, name) ==
    [a \in DOMAIN probed \cup as |-> IF a \in as THEN name ELSE probed[a]]

\* A ciphertext leaves the program: it should be v, it is got.
See(v, got) == seen' = seen \cup {[want |-> v, got |-> got]}

\* SerializeToFile, on_serialize_ciphertext.
Serialize(v, stem) ==
    LET at == objs[v].at IN
    /\ Does(Op("serialize", v, stem))
    /\ CASE mode = "RECORD" ->
              /\ probes' = Probe(stem, v)
              /\ probed' = Bind({at}, stem)
              /\ See(v, objs[v].holds)
              /\ UNCHANGED <<results, substituted, objs>>
         [] mode = "REPLAY" ->
              /\ results' = Replayed
              /\ \E r \in results' :
                    IF stem \in DOMAIN r
                    THEN /\ probed' = Bind({at}, stem)
                         /\ substituted' = substituted \cup {at}
                         /\ objs' = [objs EXCEPT ![v].holds = r[stem]]
                         /\ See(v, r[stem])
                    ELSE /\ See(v, objs[v].holds)
                         /\ UNCHANGED <<probed, substituted, objs>>
              /\ UNCHANGED probes
         [] OTHER ->
              /\ See(v, objs[v].holds)
              /\ UNCHANGED <<probes, probed, results, substituted, objs>>
    /\ UNCHANGED <<process, mode, freed, next, mistaken, probe_counter, load_counter,
                   plaintext_counter, slot, tagged, cached>>

\* The bug of a counter that is not in the name.
BugOutputName(n) == <<"output", 0>>

OutputName(n) == <<"output", n>>

\* v was serialized or decrypted before.
WasOutput(v) == \E k \in Done({"serialize", "decrypt"}) : script[k].of = v

\* Decrypt, on_decrypt.  hw is the address result() gives what it loads, which
\* is gone when Decrypt returns.
Decrypt(v, hw) ==
    LET at    == objs[v].at
        known == at \in DOMAIN probed
        name  == IF known THEN probed[at] ELSE OutputName(probe_counter)
    IN
    /\ Does(Op("decrypt", v, ""))
    /\ mistaken' = (mistaken \/ (known /\ ~WasOutput(v)))
    /\ probe_counter' = IF known THEN probe_counter ELSE probe_counter + 1
    /\ CASE mode = "RECORD" ->
              /\ See(v, objs[v].holds)
              /\ IF known
                 THEN UNCHANGED <<probes, probed>>
                 ELSE probes' = Probe(name, v) /\ probed' = Bind({at}, name)
              /\ UNCHANGED <<results, substituted, freed, next>>
         [] mode = "REPLAY" ->
              /\ results' = Replayed
              /\ \E r \in results' :
                    IF at \notin substituted /\ name \in DOMAIN r
                    THEN /\ See(v, r[name])
                         /\ probed' = Bind({at, hw}, name)
                         /\ substituted' = substituted \cup {hw}
                         /\ freed' = freed \cup {hw}
                         /\ next' = IF hw = next THEN next + 1 ELSE next
                    ELSE /\ See(v, objs[v].holds)
                         /\ UNCHANGED <<probed, substituted, freed, next>>
              /\ UNCHANGED probes
         [] OTHER ->
              /\ See(v, objs[v].holds)
              /\ UNCHANGED <<probes, probed, results, substituted, freed, next>>
    /\ UNCHANGED <<process, mode, objs, load_counter, plaintext_counter,
                   slot, tagged, cached>>

\* The program returns from main(): atexit_handler() ends a recording.
Exit ==
    /\ mode = "REPLAY" => \A c \in cached : Len(script) = Len(c.script)
    /\ mode \notin {"UNINITIALIZED", "EXITED"}
    /\ mode' = "EXITED"
    /\ cached' = IF mode = "RECORD"
                 THEN {[script |-> script, probes |-> probes, tagged |-> tagged,
                       mistaken |-> mistaken]}
                 ELSE cached
    /\ UNCHANGED <<process, program, probed, substituted, probe_counter,
                   load_counter, plaintext_counter, slot, tagged, probes, results>>

Next ==
    \/ Begin \/ OnDeserializeCryptoContext \/ Exit \/ MakePlaintext
    \/ \E a \in freed \cup {next} :
          \/ \E path \in Paths : Load(path, a)
          \/ \E v \in DOMAIN objs : Eval(v, a) \/ Decrypt(v, a)
    \/ \E v \in DOMAIN objs :
          Release(v) \/ \E stem \in Stems : Serialize(v, stem)

Spec == Init /\ [][Next]_vars

-----------------------------------------------------------------------------

Modes == {"UNINITIALIZED", "DORMANT", "RECORD", "REPLAY", "COOPERATIVE",
          "EXITED"}
ProbeNames == Stems \cup {OutputName(n) : n \in 0 .. MaxSteps}
InputNames ==
    {KeysName} \cup {InputName(f, n) : f \in Paths, n \in 0 .. MaxSteps}
             \cup {PlaintextName(n) : n \in 0 .. MaxSteps}
Positions == 1 .. MaxSteps
Slots == 1 .. MaxSteps + 1

(* Next to the types: a ciphertext that holds a result is known by name,   *)
(* so that the Decrypt that calls itself on it makes up no other name.     *)
TypeOK ==
    /\ run \in 0 .. MaxRuns
    /\ mode \in Modes
    /\ Len(script) <= MaxSteps
    /\ DOMAIN objs \subseteq DOMAIN script
    /\ \A v \in DOMAIN objs :
          /\ objs[v].at \in 1 .. next - 1 /\ objs[v].at \notin freed
          /\ objs[v].holds \in Positions \cup {Dummy}
          /\ objs[v].inputs \subseteq Positions \cup {Keys}
    /\ probed \in [DOMAIN probed -> ProbeNames]
    /\ substituted \subseteq DOMAIN probed
    /\ slot \in 1 .. MaxSteps + 2
    /\ tagged \in [DOMAIN tagged -> [name : InputNames, slot : Slots]]
    /\ DOMAIN probes \subseteq ProbeNames
    /\ \A r \in results : r \in [DOMAIN r -> Positions \cup {Dummy}]
    /\ mistaken \in BOOLEAN

\* Ciphertexts are loaded before anything else is done with them, and plaintexts
\* made before anything is put out.
InputsFirst(s) ==
    \A j, k \in DOMAIN s : j < k =>
        /\ s[j].op \in {"plaintext", "eval", "serialize", "decrypt"} => s[k].op # "load"
        /\ s[j].op \in {"serialize", "decrypt"} => s[k].op # "plaintext"

\* No two ciphertexts are serialized under the same stem.
StemsApart(s) ==
    \A j, k \in DOMAIN s :
        /\ s[j].op = "serialize" /\ s[k].op = "serialize" /\ s[j].file = s[k].file
        => s[j].of = s[k].of

\* A recording the hooks can replay.
Faithful(c) == InputsFirst(c.script) /\ StemsApart(c.script) /\ ~c.mistaken

(* OutputsCorrect: "Replay: calls compiler().result(cc, name, hw_ct),      *)
(* substitutes the dummy ciphertext with the HW result" (AUTO_FACADE.md:   *)
(* 212, and 208 for files).  What leaves the program is the value the      *)
(* program computes, whatever the order of serialize and decrypt and       *)
(* however often each is called, though the two processes have nothing in  *)
(* common but the recording.  A replay may go wrong only if the program    *)
(* loads ciphertexts late or serializes two under one stem, or if, in it   *)
(* or in the recording, a Decrypt took a new ciphertext for one that had   *)
(* been at its address.                                                    *)
OutputsCorrect ==
    \/ \A s \in seen : s.got = s.want
    \/ results # {} /\ (mistaken \/ \E c \in cached : ~Faithful(c))

(* SameTags: a replay tags its inputs under the names of the recording.    *)
(* The slot of a plaintext is the recorded one always; that of the keys,   *)
(* and of a ciphertext, if it is loaded before anything that takes a slot  *)
(* in a recording and none in a replay.                                    *)
SameTags ==
    LET Shifts == Done({"plaintext", "eval"})
        \* the ciphertext whose loading tagged k
        By(k) == IF k = Keys THEN Done({"load"}) ELSE {k}
    IN
    mode = "REPLAY" =>
        \A c \in cached : \A k \in DOMAIN tagged :
            /\ k \in DOMAIN c.tagged /\ tagged[k].name = c.tagged[k].name
            /\ k \in Shifts \/ (\A j \in Shifts : \E i \in By(k) : i < j)
               => tagged[k].slot = c.tagged[k].slot

(* LiveInsBacked: at the first output "every input ciphertext has already  *)
(* come through on_deserialize_ciphertext", so that "Compiler::replay()    *)
(* can run to completion with every live-in address backed by real values" *)
(* (AutoFacade.cpp:577-580).                                               *)
LiveInsBacked ==
    mode = "REPLAY" /\ results # {} =>
        \A c \in cached : \A k \in DOMAIN c.script :
            c.script[k].op = "load" => Backed(c, k)

(* SubstitutedWerePut: g_substituted_cts has "ciphertexts whose contents   *)
(* already ARE the reconstructed HW result - substituted by on_decrypt or  *)
(* refreshed in place by on_serialize_ciphertext" (AutoFacade.cpp:121-123): *)
(* a ciphertext of the program's that is in it has been through a hook.    *)
SubstitutedWerePut ==
    \A v \in DOMAIN objs : objs[v].at \in substituted => WasOutput(v)
=============================================================================
