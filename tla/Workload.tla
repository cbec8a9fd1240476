------------------------------ MODULE Workload ------------------------------
(***************************************************************************)
(* The tools that work on one workload directory together: nbcc.py and     *)
(* what it runs, the submission of the workload to a worker, and the check *)
(* that a replay has recorded nothing.  The Makefiles and the user run one *)
(* kind of tool at a time; runs of nbcc.py may overlap.                    *)
(***************************************************************************)
EXTENDS NbccDriver, FogClient

CONSTANTS Initial,      \* the directories the tools may find
          Suspects,     \* the names such a replay may get at
          MaxChanges    \* bound on the changes after which it does

\* The tools find files older than anything they do.
ASSUME WorkloadAssumption ==
    /\ MaxRuns \in Nat
    /\ \A cl \in CommandLines : Parses(cl) => Args(cl)["name"] = Stem /\ Stem # ""
    /\ {TraceFile(".fhex"), TraceFile(".fhetch"), Capture, Answer("ra")} \subseteq Names
    /\ Suspects \cup UNION Replies \subseteq Names
    /\ \A fs \in Initial : \A n \in DOMAIN fs :
          n \in Names /\ fs[n] \in [data : {fs[n].data}, mtime : {0, 1}, inode : {0, 1}]

vars == <<dir, nbcc, fog, verdict>>

Init ==
    /\ files \in Initial /\ clock = 1 /\ touched = {}
    /\ NbccInit
    /\ FogInit
    /\ manifest = {} /\ verdict = "none"

Quiet == \A r \in Runs : run[r] \notin Live \cup {"driver"}
Submitting == stage \notin {"idle"} \cup Ended

Nbcc ==
    /\ stage = "idle"
    /\ \E r \in Runs :
         \/ \E cl \in CommandLines : Parse(r, cl)
         \/ OpenYml(r) \/ WriteYml(r) \/ Exec(r)
         \/ ProgramStarts(r) \/ RecordStart(r) \/ RecordStop(r)
         \/ EndsElsewhere(r) \/ ReplayInProgram(r) \/ ReplayInDriver(r)
         \/ Kill(r)
    /\ UNCHANGED <<fog, verdict>>

Submission ==
    /\ Quiet
    /\ \/ run[MaxRuns] = "idle" /\ \E c \in Callers : Call(c)
       \/ Provision \/ Poll \/ GiveUp
       \/ Pack \/ Reply \/ Clean \/ Unpack \/ UnpackRaises \/ Return
       \/ KillClient
    /\ UNCHANGED <<nbcc, verdict>>

(* What else a replay that is not what it should be might do.              *)
Disturb ==
    /\ Quiet /\ ~Submitting /\ manifest # {}
    /\ clock < MaxChanges
    /\ \E n \in Suspects :
         \/ Write(Only(n, <<"other">>))
         \/ n \in DOMAIN files /\ Write(Only(n, files[n].data))
         \/ n \in DOMAIN files /\ Erase({n})
         \/ CopyOver(n)
    /\ UNCHANGED <<nbcc, fog, verdict>>

Check ==
    /\ Quiet /\ ~Submitting
    /\ Snapshot \/ Verify
    /\ UNCHANGED <<nbcc, fog>>

Next == Nbcc \/ Submission \/ Disturb \/ Check
Spec == Init /\ [][Next]_vars

(* A client that is not killed goes on.                                    *)
Advance == Provision \/ Poll \/ GiveUp
FairSpec == Spec /\ WF_vars(Quiet /\ Advance /\ UNCHANGED <<nbcc, verdict>>)

-----------------------------------------------------------------------------
(* The variables hold what their declarations say.                         *)
TypeOK ==
    /\ DOMAIN files \subseteq Names /\ touched \subseteq Names
    /\ \A n \in DOMAIN files : files[n].mtime <= clock /\ files[n].inode <= clock
    /\ \A r \in Runs : run[r] \in Live \cup {"idle", "driver", "over"}
    /\ stage \in Stages /\ waited \in Nat /\ left \subseteq answer
    /\ Cardinality(manifest) <= 1 /\ verdict \in {"none", "pass", "fail"}

(* What a run of the program reads of its configuration is what the        *)
(* options of its own command line say, whatever other runs write and       *)
(* whatever a run that was killed has left behind; or nothing at all, and   *)
(* that only when a run with the same options has truncated the file        *)
(* between its write and its read (nbcc.py:196-203).                       *)
OwnConfig(r) ==
    LET args == Args(line[r])
    IN  /\ config[r].cache_parameters = Cache(args)
        /\ config[r].compiler = Set(args, CompilerOptions)
        /\ config[r].program = NonEmpty(args, {"name", "version", "description"})
Started(r) == run[r] \in {"recording", "replaying", "elsewhere"}

ReadsOwnConfig ==
    \A r \in Runs : Started(r) => OwnConfig(r) \/ (config[r] = Defaults /\ r \in robbed)

(* "Same flags always produce the same config file (content-hashed), so    *)
(* recording and replay runs find the same cache automatically"            *)
(* (AUTO_FACADE.md:131): no run is sent to another directory.              *)
FindsItsCache == \A r \in Runs : run[r] # "elsewhere"

(* When verify says PASS no artifact of the recording was written, copied  *)
(* over or removed since the snapshot, whatever its bytes are now, no      *)
(* input is gone, and what is new are probes; when it says FAIL, one of    *)
(* these has happened (verify_replay_integrity.py:112-173).                *)
Harm(before) ==
    \/ \E n \in DOMAIN before : IsArtifact(n) /\ n \in touched
    \/ ~ DOMAIN before \subseteq DOMAIN files
    \/ \E n \in DOMAIN files \ DOMAIN before : IsJunkOutputCapture(n) \/ ~IsProbeOutput(n)

VerdictRight ==
    [][/\ verdict' = "pass" => verdict = "pass" \/ \A before \in manifest : ~Harm(before)
       /\ verdict' = "fail" => verdict = "fail" \/ \A before \in manifest : Harm(before)]_vars

(* When submit() returns, what it has posted is the recording that is on   *)
(* disk, to the worker and with the ticket of the job if there is one, the *)
(* probes are those of the reply to it, all of them, and there is no other *)
(* probe but old ones that cannot be removed (client.py:102-128, fog.py:   *)
(* 68-84).                                                                 *)
Delivered(p) ==
    /\ p.files = {<<n, files[n].data>> : n \in DOMAIN files \ Probes}
    /\ caller.job => p.url = [origin |-> Worker, path |-> "run"] /\ p.token = Ticket
    /\ answer # {} /\ answer \subseteq Probes
    /\ \A n \in answer : files[n].data = <<"answered", posted>>
    /\ Probes \ answer \subseteq Stuck

SubmitDelivers ==
    [][stage' = "returned" /\ stage # "returned" => \A p \in posted : Delivered(p)]_vars

(* Provisioning ends: with a worker, or because run() has given up.        *)
ProvisionEnds == stage \in Provisioning ~> stage \notin Provisioning

(* "On cache-valid runs, replay the recorded trace via fhetch_driver"      *)
(* (nbcc.py:103-104): what the driver is run on is a complete trace that   *)
(* was recorded with the cache parameters of the run.                      *)
ReplaysCurrent ==
    \A r \in Runs : run[r] = "driver" =>
        \A n \in TraceFound : files[n].data = <<"trace", Cache(Args(line[r])), TRUE>>
=============================================================================
