----------------------------- MODULE NbccDriver -----------------------------
(***************************************************************************)
(* tools/nbcc.py, run after run: the options of a command line become a    *)
(* configuration file named after its content, and the run turns into the  *)
(* program (which records, or replays what it has recorded) or, once there *)
(* is a trace, into fhetch_driver.  Runs may overlap and be killed.        *)
(*                                                                         *)
(* A command line is [given, command]: a sequence of <<dest, value>>, the  *)
(* two flags of an exclusive pair being the values of one dest, and the    *)
(* words behind the options.  A configuration is its own digest.  The      *)
(* program and the driver are external: of them is modelled which files    *)
(* they read and write.                                                    *)
(***************************************************************************)
EXTENDS WorkloadDir, SequencesExt

CONSTANTS MaxRuns,      \* how often nbcc.py is run
          CommandLines, \* with which options
          None,         \* an option that is not given
          Stem          \* the name of the program

VARIABLES
    ymls,       \* [configuration -> the file .nbcc/<digest>.yml]
    run,        \* by run, where it is
    line,       \* its command line
    config,     \* what the program has read of its configuration
    recorder,   \* {} or {the run that is recording}
    robbed      \* history: the runs whose file another truncated behind their write
nbcc == <<ymls, run, line, config, recorder, robbed>>

Runs == 1 .. MaxRuns

Repeatable == {"cache", "driver_output"}
Exclusive == {"fence", "binary_json"}       \* --fence | --no-fence, --binary-json | --ascii-json
CompilerOptions ==
    {"target", "trace_format", "optimization", "registers", "memory", "niobium_hw", "hollow",
     "fence", "noop", "multiplier", "config_sectors", "binary_json", "no_cereal_binary",
     "transform_bin_to_json", "no_preserve_input_ciphertexts", "formal", "lock_timing",
     "no_ring_dim_check"}
Dests == CompilerOptions \cup Repeatable
    \cup {"name", "version", "description", "keys_mult", "keys_auto",
          "fhetch_driver", "driver_cc", "driver_ring_dim"}
Allowed == [trace_format |-> {"text", "binary", "both"}, multiplier |-> {"standard", "shoup"}]

Values(cl, d) == LET of == SelectSeq(cl.given, LAMBDA g : g[1] = d)
                 IN [i \in DOMAIN of |-> of[i][2]]

(* The namespace of argparse: the last value of an option stands, those    *)
(* that are repeatable are collected.                                      *)
Args(cl) ==
    [d \in Dests |-> LET vs == Values(cl, d)
                     IN CASE vs = <<>> -> IF d = "target" THEN "local" ELSE None
                          [] d \in Repeatable -> vs
                          [] OTHER -> Last(vs)]

Command(cl) == IF cl.command # <<>> /\ Head(cl.command) = "--" THEN Tail(cl.command) ELSE cl.command

(* What parse_args() accepts; anything else is exit status 2.              *)
Parses(cl) ==
    /\ Values(cl, "name") # <<>>
    /\ \A d \in Exclusive : Cardinality(ToSet(Values(cl, d))) <= 1
    /\ \A d \in DOMAIN Allowed : ToSet(Values(cl, d)) \subseteq Allowed[d]
    /\ Command(cl) # <<>>

(* The lines of a section, options that were not given left out.           *)
Set(args, dests) == {<<d, args[d]>> : d \in {e \in dests : args[e] # None}}
NonEmpty(args, dests) == {l \in Set(args, dests) : l[2] # ""}

(* A cache parameter is [key, value], or [key] when the "=" is missing.    *)
Cache(args) == IF args["cache"] = None THEN <<>> ELSE args["cache"]
YamlFails(args) == \E i \in DOMAIN Cache(args) : DOMAIN Cache(args)[i] = {"key"}

BuildYaml(args) ==
    [program |-> NonEmpty(args, {"name", "version", "description"}),
     cache_parameters |-> Cache(args),
     keys |-> NonEmpty(args, {"keys_mult", "keys_auto"}),
     compiler |-> Set(args, CompilerOptions)]

Yaml(r) == BuildYaml(Args(line[r]))
Goto(r, where) == run' = [run EXCEPT ![r] = where]
End(r) ==
    /\ Goto(r, "over")
    /\ line' = [line EXCEPT ![r] = <<>>] /\ config' = [config EXCEPT ![r] = <<>>]

-----------------------------------------------------------------------------
(* nbcc.py itself.                                                         *)

Live == {"parsed", "opened", "written", "program", "recording", "replaying", "elsewhere"}

Parse(r, cl) ==
    /\ run[r] = "idle" /\ \A q \in Runs : q < r => run[q] # "idle"
    /\ \/ ~Parses(cl) /\ End(r)
       \/ Parses(cl) /\ YamlFails(Args(cl)) /\ End(r)
       \/ /\ Parses(cl) /\ ~YamlFails(Args(cl)) /\ Goto(r, "parsed")
          /\ line' = [line EXCEPT ![r] = cl] /\ UNCHANGED config
    /\ UNCHANGED <<dir, ymls, recorder, robbed>>

\* The bug of taking a file that is there for one that is written.
BugOpenYml(r) ==
    /\ run[r] = "parsed"
    /\ ymls' = IF Yaml(r) \in DOMAIN ymls THEN ymls ELSE Overlay(Only(Yaml(r), {}), ymls)
    /\ Goto(r, IF Yaml(r) \in DOMAIN ymls THEN "written" ELSE "opened")
    /\ UNCHANGED <<dir, line, config, recorder, robbed>>

(* open(yml_path, "w"), and the write that follows.  The file is the same  *)
(* for all runs with the same options, whether they have read it or not.   *)
OpenYml(r) ==
    /\ run[r] = "parsed"
    /\ ymls' = Overlay(Only(Yaml(r), {}), ymls)
    /\ robbed' = robbed \cup {q \in Runs : run[q] \in {"written", "program"} /\ Yaml(q) = Yaml(r)}
    /\ Goto(r, "opened")
    /\ UNCHANGED <<dir, line, config, recorder>>

WriteYml(r) ==
    /\ run[r] = "opened"
    /\ ymls' = [ymls EXCEPT ![Yaml(r)] = {BuildYaml(Args(line[r]))}]
    /\ Goto(r, "written")
    /\ UNCHANGED <<dir, line, config, recorder, robbed>>

(* The trace the driver would replay: binary before text.                  *)
TraceFile(ext) == [dirs |-> {}, stem |-> Stem, marks |-> {}, ext |-> ext]
TraceFound ==
    LET here == SelectSeq(<<TraceFile(".fhex"), TraceFile(".fhetch")>>, LAMBDA n : n \in DOMAIN files)
    IN IF here = <<>> THEN {} ELSE {Head(here)}

Exec(r) ==
    /\ run[r] = "written"
    /\ LET args == Args(line[r])
       IN \/ /\ args["fhetch_driver"] = None \/ TraceFound = {}
             /\ Goto(r, "program") /\ UNCHANGED <<line, config>>
          \/ /\ args["fhetch_driver"] # None /\ TraceFound # {}
             /\ IF args["driver_cc"] = None \/ args["driver_ring_dim"] = None
                THEN End(r)
                ELSE Goto(r, "driver") /\ UNCHANGED <<line, config>>
    /\ UNCHANGED <<dir, ymls, recorder, robbed>>

-----------------------------------------------------------------------------
(* What it turns into.                                                     *)

(* A trace: the cache parameters it was recorded with, and its end.        *)
Recording(r, whole) == <<"trace", config[r].cache_parameters, whole>>
Formats(conf) ==
    LET given == {l[2] : l \in {k \in conf.compiler : k[1] = "trace_format"}}
    IN CASE "text" \in given -> {".fhetch"} [] "both" \in given -> {".fhex", ".fhetch"}
         [] OTHER -> {".fhex"}
Capture == [dirs |-> {}, stem |-> "x", marks |-> {".input_"}, ext |-> ".bin"]
Answer(name) == [dirs |-> {PROBE_DIR}, stem |-> name, marks |-> {}, ext |-> ".bin"]

(* What Compiler::is_cache_valid() says to the program: a complete trace   *)
(* recorded with these cache parameters.                                   *)
CacheValid(conf) ==
    \E n \in DOMAIN files :
       /\ n \in {TraceFile(e) : e \in Formats(conf)}
       /\ files[n].data = <<"trace", conf.cache_parameters, TRUE>>

(* load_config() takes the defaults from a file that says nothing.  A      *)
(* program that is not told its name works in a directory named by the     *)
(* default.  Two recordings do not share this directory.                   *)
Defaults == [program |-> {}, cache_parameters |-> <<>>, keys |-> {}, compiler |-> {}]
Contents(yml) == IF yml = {} THEN Defaults ELSE CHOOSE conf \in yml : TRUE
Here(conf) == <<"name", Stem>> \in conf.program

ProgramStarts(r) ==
    /\ run[r] = "program"
    /\ LET conf == Contents(ymls[Yaml(r)])
       IN /\ config' = [config EXCEPT ![r] = conf]
          /\ \/ ~Here(conf) /\ Goto(r, "elsewhere") /\ UNCHANGED recorder
             \/ Here(conf) /\ CacheValid(conf) /\ Goto(r, "replaying") /\ UNCHANGED recorder
             \/ /\ Here(conf) /\ ~CacheValid(conf) /\ recorder = {}
                /\ Goto(r, "recording") /\ recorder' = {r}
    /\ UNCHANGED <<dir, ymls, line, robbed>>

EndsElsewhere(r) == run[r] = "elsewhere" /\ End(r) /\ UNCHANGED <<dir, ymls, recorder, robbed>>

(* start() opens the trace and stop() completes it.                        *)
Opened(r) == \E n \in DOMAIN files : IsTrace(n) /\ files[n].data = Recording(r, FALSE)

RecordStart(r) ==
    /\ run[r] = "recording" /\ ~Opened(r)
    /\ Write([n \in {TraceFile(e) : e \in Formats(config[r])} |-> Recording(r, FALSE)])
    /\ UNCHANGED nbcc

RecordStop(r) ==
    /\ run[r] = "recording" /\ Opened(r)
    /\ Write(Overlay([n \in {TraceFile(e) : e \in Formats(config[r])} |-> Recording(r, TRUE)],
                     Only(Capture, <<"input", r>>)))
    /\ recorder' = {} /\ End(r)
    /\ UNCHANGED <<ymls, robbed>>

(* A replay in the program refreshes its inputs and leaves its probes.     *)
ReplayInProgram(r) ==
    /\ run[r] = "replaying"
    /\ Write(Overlay(Only(Capture, <<"input", r>>), Only(Answer("ra"), <<"replayed", r>>)))
    /\ End(r)
    /\ UNCHANGED <<ymls, recorder, robbed>>

ReplayInDriver(r) ==
    /\ run[r] = "driver"
    /\ Write(Only(Answer("ra"), <<"replayed", r>>))
    /\ End(r)
    /\ UNCHANGED <<ymls, recorder, robbed>>

Kill(r) ==
    /\ run[r] \in Live
    /\ End(r)
    /\ recorder' = recorder \ {r}
    /\ UNCHANGED <<dir, ymls, robbed>>

NbccInit ==
    /\ ymls = <<>> /\ recorder = {} /\ robbed = {}
    /\ run = [r \in Runs |-> "idle"]
    /\ line = [r \in Runs |-> <<>>]
    /\ config = [r \in Runs |-> <<>>]
=============================================================================
