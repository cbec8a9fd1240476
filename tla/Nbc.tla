-------------------------------- MODULE Nbc ----------------------------------
(***************************************************************************)
(* nbc compile, one invocation after another into one output directory:    *)
(* the options are applied to the loaded program, it is analyzed, code and *)
(* schedule are generated, and only then are files written, one by one.    *)
(* A job is [items, sets, schemes, schedule]: the loaded program and the   *)
(* command line.  The analyzer and the schedule builder, which are in      *)
(* Semantic and StageSchedule, are parameters.  Of a file it matters which *)
(* job wrote it.                                                           *)
(***************************************************************************)
EXTENDS Params

CONSTANTS Jobs,             \* the jobs considered
          Rebuilds,         \* those that may follow one another
          MaxJobs,          \* how many there are
          NotAnalyzed,      \* an analyzer that has not started
          Analyzed(_),      \* what it returns for a sequence of items
          Scheduled(_, _)   \* what the builder does, from items and constants

(* An item is what Semantic says: a constant has its name (of a module and *)
(* its own, or only that), type and value, a scheme block its fields.      *)
IsItem(c) ==
    /\ c[1] = "const" => c = <<"const", c[2], c[3], c[4]>> /\ c[2] \in {<<Last(c[2])>>, <<c[2][1], Last(c[2])>>}
    /\ IsScheme(c) => c = <<"scheme", [f \in DOMAIN c[2] |-> c[2][f]]>>

(* The words of an option, and what its text can be read as.               *)
IsText(text) == "int" \in DOMAIN text => text["int"] \in Int

ASSUME JobsAssumption ==
    \A j \in Jobs \cup Rebuilds :
       /\ j.items \in Seq(ToSet(j.items)) /\ \A c \in ToSet(j.items) : IsItem(c)
       /\ \A os \in {j.sets, j.schemes} :
             os \in Seq(ToSet(os)) /\ \A o \in ToSet(os) \ {None} : IsText(o.text)

VARIABLES
    jobs,       \* how many have been started
    job,        \* the one at hand
    phase,      \* how far it is
    items,      \* its program, with what the options have changed
    params,     \* the constants that --set has given a value
    analysis,   \* what analyze() returned
    schedule,   \* what schedule.build() returned
    pending,    \* the files still to be written
    outdir      \* [file -> job that wrote it]
nbcVars == <<jobs, job, phase, items, params, analysis, schedule, pending, outdir>>

Idle == {"ready", "done", "failed", "killed"}
NoJob == [items |-> <<>>, sets |-> <<>>, schemes |-> <<>>, schedule |-> FALSE]
NoSchedules == [entries |-> <<>>, refused |-> {}]
ScheduleFile == "nb_schedule.json"

NbcInit ==
    /\ jobs = 0 /\ job = NoJob /\ phase = "ready"
    /\ items = <<>> /\ params = <<>> /\ analysis = NotAnalyzed /\ schedule = NoSchedules
    /\ pending = <<>> /\ outdir = <<>>

(* A CompileError is reported, any other exception ends Python: either way *)
(* nothing more happens, and the exit status is 1.                         *)
Fail == phase' = "failed" /\ UNCHANGED <<jobs, job, items, params, analysis, schedule, pending, outdir>>

(* load_program(); ModuleLoader says when it fails.                        *)
Start ==
    /\ phase \in Idle /\ jobs < MaxJobs
    /\ jobs = 0 \/ job \in Rebuilds
    /\ \E j \in IF jobs = 0 THEN Jobs ELSE Rebuilds :
         /\ job' = j /\ items' = j.items
    /\ jobs' = jobs + 1 /\ phase' = "loaded"
    /\ params' = <<>> /\ analysis' = NotAnalyzed /\ schedule' = NoSchedules /\ pending' = <<>>
    /\ UNCHANGED outdir

NotLoaded == phase = "loaded" /\ Fail

(* apply_overrides() and apply_scheme_overrides().                         *)
Override ==
    /\ phase = "loaded"
    /\ LET set == ApplyOverrides(items, job.sets)
           both == ApplySchemeOverrides(set.items, job.schemes)
       IN  IF set.ok /\ both.ok
           THEN /\ phase' = "set" /\ items' = both.items /\ params' = set.params
                /\ UNCHANGED <<jobs, job, analysis, schedule, pending, outdir>>
           ELSE Fail

(* semantic_analyze(), and the end of the compilation if it found errors.  *)
AnalyzeProgram ==
    /\ phase = "set"
    /\ analysis' = Analyzed(items)
    /\ phase' = IF analysis'.crashed \/ analysis'.errors # {} THEN "failed" ELSE "analyzed"
    /\ UNCHANGED <<jobs, job, items, params, schedule, pending, outdir>>

(* generate(): one file for every stage, and a header; it has errors of    *)
(* its own to report.                                                      *)
WithFile(files, item) ==
    IF item[1] = "fn" /\ item[2].stage # NoName THEN Append(files, item[2].stage) ELSE files
StageFiles ==
    LET files[k \in 0 .. Len(items)] == IF k = 0 THEN <<>> ELSE WithFile(files[k - 1], items[k])
    IN  files[Len(items)]
Generate ==
    /\ phase = "analyzed"
    /\ phase' = "generated" /\ pending' = Append(StageFiles, "header")
    /\ UNCHANGED <<jobs, job, items, params, analysis, schedule, outdir>>

GenerateFails == phase = "analyzed" /\ Fail

\* The bug of making the output directory's schedule before it is known.
BugBuildSchedule ==
    /\ phase = "generated" /\ phase' = "writing"
    /\ schedule' = IF job.schedule THEN Scheduled(items, analysis.consts) ELSE NoSchedules
    /\ pending' = IF job.schedule THEN Append(pending, ScheduleFile) ELSE pending
    /\ UNCHANGED <<jobs, job, items, params, analysis, outdir>>

(* schedule.build(): a document only if an entry point has a schedule.     *)
BuildSchedule ==
    /\ phase = "generated" /\ phase' = "writing"
    /\ schedule' = IF job.schedule THEN Scheduled(items, analysis.consts) ELSE NoSchedules
    /\ pending' = IF schedule'.entries # <<>> THEN Append(pending, ScheduleFile) ELSE pending
    /\ UNCHANGED <<jobs, job, items, params, analysis, outdir>>

(* Files are written in place; those of earlier jobs are not removed.      *)
WriteFile ==
    /\ phase = "writing" /\ pending # <<>>
    /\ outdir' = Put(outdir, Head(pending), jobs)
    /\ pending' = Tail(pending)
    /\ UNCHANGED <<jobs, job, phase, items, params, analysis, schedule>>

Finish ==
    /\ phase = "writing" /\ pending = <<>> /\ phase' = "done"
    /\ UNCHANGED <<jobs, job, items, params, analysis, schedule, pending, outdir>>

(* The process is killed, or a file cannot be written.                     *)
Killed ==
    /\ phase \notin Idle /\ phase' = "killed"
    /\ UNCHANGED <<jobs, job, items, params, analysis, schedule, pending, outdir>>

NbcNext ==
    \/ Start \/ NotLoaded \/ Override \/ AnalyzeProgram \/ Generate \/ GenerateFails
    \/ BuildSchedule \/ WriteFile \/ Finish \/ Killed

NbcSpec == NbcInit /\ [][NbcNext]_nbcVars

-----------------------------------------------------------------------------
(* Properties.                                                             *)

(* The words of params.py: a constant is named by its name or the end of   *)
(* it, and of a primitive type, declared or that of its literal.           *)
Target(is, name) ==
    {k \in DOMAIN is : is[k][1] = "const" /\ \E b \in 0 .. Len(is[k][2]) - 1 :
                          name = SubSeq(is[k][2], b + 1, Len(is[k][2]))}
HasPrim(c) == c[3] # None /\ c[3][1] = "prim"
PrimOf(c) == IF HasPrim(c) THEN c[3][2] ELSE c[4][2]
ReadsAs(c, text) ==
    /\ HasPrim(c) \/ c[4][1] = "lit"
    /\ Kind(PrimOf(c)) \in {"int", "float", "bool", "string"} \cap DOMAIN text
    /\ PrimOf(c) \in Unsigned => text[Kind(PrimOf(c))] >= 0

SetsAccepted(is, sets) ==
    /\ \A n \in DOMAIN sets : sets[n] # None
    /\ \A n \in DOMAIN sets : \E k \in DOMAIN is :
          Target(is, sets[n].name) = {k} /\ ReadsAs(is[k], sets[n].text)
    /\ \A m, n \in DOMAIN sets : Target(is, sets[m].name) = Target(is, sets[n].name) => m = n
SchemesAccepted(is, schemes) ==
    /\ \A n \in DOMAIN schemes : schemes[n] # None
    /\ \A n \in DOMAIN schemes :
          schemes[n].name \in Overridable /\ DOMAIN schemes[n].text \cap {"int", "word", "size"} # {}
    /\ \A m, n \in DOMAIN schemes : schemes[m].name = schemes[n].name => m = n
    /\ schemes # <<>> => \E i \in ToSet(is) : i[1] = "scheme"
Accepted(j) == SetsAccepted(j.items, j.sets) /\ SchemesAccepted(j.items, j.schemes)

SetTo(c, text) == <<"const", c[2], c[3], <<"lit", Kind(PrimOf(c)), text[Kind(PrimOf(c))]>> >>
MeantItem(j, k) ==
    LET c == j.items[k]
        sets == {o \in ToSet(j.sets) : Target(j.items, o.name) = {k}}
        given == {o.name : o \in ToSet(j.schemes)}
    IN  IF c[1] = "scheme"
        THEN <<"scheme", [f \in DOMAIN c[2] \cup given |->
                            IF f \in given THEN (CHOOSE o \in ToSet(j.schemes) : o.name = f).text
                            ELSE c[2][f]]>>
        ELSE IF sets = {} THEN c ELSE SetTo(c, (CHOOSE o \in sets : TRUE).text)

OptionsApply ==
    /\ ApplyOverrides(items, job.sets).ok
    /\ ApplySchemeOverrides(ApplyOverrides(items, job.sets).items, job.schemes).ok

(* What --set and --scheme are taken for depends on nothing but the set of *)
(* them: they are accepted if each names one declaration, no two the same, *)
(* and reads as its type; then those declarations, and no others, change.  *)
OverridesMeant ==
    /\ phase = "loaded" => (OptionsApply <=> Accepted(job))
    /\ phase \notin {"ready", "loaded", "failed", "killed"} =>
          Accepted(job) /\ items = [k \in DOMAIN job.items |-> MeantItem(job, k)]

Written == {f \in DOMAIN outdir : outdir[f] = jobs}
Outputs == ToSet(StageFiles) \cup {"header"} \cup (IF schedule.entries = <<>> THEN {} ELSE {ScheduleFile})

(* A compilation writes all of its files or, if it reports an error, none; *)
(* there is a schedule of this program exactly if an entry point has one,  *)
(* so that a driver never finds an empty one.                              *)
OutputsWhole ==
    /\ phase = "failed" => Written = {}
    /\ phase = "done" => Written = Outputs
=============================================================================
