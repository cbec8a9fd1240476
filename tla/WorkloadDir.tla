---------------------------- MODULE WorkloadDir ----------------------------
(***************************************************************************)
(* The directory of one workload, as rglob() and stat() show it: the trace *)
(* of its recording, the maps and captured inputs beside it, and the       *)
(* probes a replay leaves under serialized_probes/.  It is shared by the   *)
(* recorder and the driver (NbccDriver), by submit() (FogClient) and by    *)
(* dsl_fhe/tools/verify_replay_integrity.py: snapshot, run once the        *)
(* recording is complete, keeps what stat() and a hash say of every file   *)
(* of the workload; verify, run after the replay, compares.  A replay may  *)
(* refresh captured inputs in place and write probes, and nothing else.    *)
(*                                                                         *)
(* A name is [dirs, stem, marks, ext]: the directories above the file, and *)
(* of its last part the suffix and the substrings the tools look for.      *)
(***************************************************************************)
EXTENDS Naturals, Sequences, FiniteSets, Functions

CONSTANTS Names     \* the names files of the directory may have

VARIABLES
    verdict,    \* what verify said: "none", "pass" or "fail"
    files,      \* [name -> [data, mtime, inode]]: the files there are
    clock,      \* the time of the last change, and the last inode given out
    manifest,   \* {} or {what the snapshot has seen}
    touched     \* history: what was written or removed since the snapshot
dir == <<files, clock, manifest, touched>>

PROBE_DIR == "serialized_probes"

(* is_input_capture: "captured-input artifacts that may be rewritten".     *)
IsInputCapture(n) ==
    /\ n.ext \in {".bin", ".ids", ".dat"}
    /\ n.marks \cap {".input_", ".mk.", ".rk.", ".cc."} # {} \/ n.stem = "cryptocontext.dat"

IsProbeOutput(n) == PROBE_DIR \in n.dirs

(* A reconstructed output that was captured as an input.                   *)
IsJunkOutputCapture(n) == IsInputCapture(n) /\ PROBE_DIR \in n.marks

IsTrace(n) == n.ext \in {".fhex", ".fhetch"}

(* What no replay may touch: the trace, the maps, the metadata.            *)
IsArtifact(n) == ~IsInputCapture(n) /\ ~IsProbeOutput(n)

Probes == {n \in DOMAIN files : IsProbeOutput(n)}

Touch(ns) ==
    /\ touched' = IF manifest = {} THEN {} ELSE touched \cup ns
    /\ UNCHANGED manifest

(* A function of one name, and new in the place of what old has.           *)
Only(n, v) == [m \in {n} |-> v]
Overlay(new, old) ==
    [n \in DOMAIN new \cup DOMAIN old |-> IF n \in DOMAIN new THEN new[n] ELSE old[n]]

(* Time passes between two changes, and a file that is written in place    *)
(* keeps its inode.                                                        *)
Write(new) ==
    /\ clock' = clock + 1
    /\ files' = Overlay([n \in DOMAIN new |->
                           [data |-> new[n], mtime |-> clock',
                            inode |-> IF n \in DOMAIN files THEN files[n].inode ELSE clock']],
                        files)
    /\ Touch(DOMAIN new)

Erase(ns) ==
    /\ clock' = clock + 1
    /\ files' = Restrict(files, DOMAIN files \ ns)
    /\ Touch(ns)

(* A file with the times of the original is renamed to its place, as rsync *)
(* and install do.  cp -p over the file itself leaves inode and time as    *)
(* they were, which no stat() shows: it is not among the changes.          *)
CopyOver(n) ==
    /\ n \in DOMAIN files
    /\ clock' = clock + 1
    /\ files' = [files EXCEPT ![n].inode = clock']
    /\ Touch({n})

-----------------------------------------------------------------------------
(* The check that a replay records nothing.                                *)

(* cmd_snapshot: without a trace nothing is kept.                          *)
Snapshot ==
    /\ manifest = {} /\ verdict = "none"
    /\ \E n \in DOMAIN files : IsTrace(n)
    /\ manifest' = {files} /\ touched' = {}
    /\ UNCHANGED <<files, clock, verdict>>

\* The bug of trusting the time stamp.
BugUntouched(old, now) == now.data = old.data /\ now.mtime = old.mtime

(* Same content, same file: identical bytes are not enough.                *)
Untouched(old, now) ==
    /\ now.data = old.data
    /\ now.mtime = old.mtime
    /\ now.inode = old.inode

(* The files cmd_verify reports.                                           *)
Deleted(before) == DOMAIN before \ DOMAIN files
Regenerated(before) ==
    {n \in DOMAIN before \cap DOMAIN files : IsArtifact(n) /\ ~Untouched(before[n], files[n])}
Added(before) ==
    {n \in DOMAIN files \ DOMAIN before : IsJunkOutputCapture(n) \/ ~IsProbeOutput(n)}

Verify ==
    /\ \E before \in manifest :
         verdict' = IF Deleted(before) \cup Regenerated(before) \cup Added(before) = {}
                    THEN "pass" ELSE "fail"
    /\ manifest' = {} /\ touched' = {}
    /\ UNCHANGED <<files, clock>>
============================================================================
