-------------------------- MODULE ReplayTransport --------------------------
(***************************************************************************)
(* One project directory and the replays a user starts on it one after the *)
(* other: the forwarder nbcc_fhetch_replay (src/fhetch_transport/          *)
(* client.cpp) posts the project to the replay server (server.cpp), whose  *)
(* request threads unpack it, run the compiler on it and return the probes *)
(* the compiler wrote, which the forwarder puts in place of those it finds *)
(* in the project.                                                         *)
(*                                                                         *)
(* Attempts are sequential, their requests are not: a forwarder that gave  *)
(* up leaves a request behind that the server is still working on.  An     *)
(* archive is the set of its entries: ArchiveUnpacker and BufferedUnpack   *)
(* say why a receiver may be seen that way, one entry at a time, and when  *)
(* the file of an entry holds less than the entry's data.                  *)
(***************************************************************************)
EXTENDS Naturals, FiniteSets

CONSTANTS
    MaxAttempts,    \* bound on the number of replays
    MaxCrashes,     \* bound on the number of times the server dies
    TraceFiles,     \* what the recording left in the project directory
    ProbeNames,     \* the names the compiler may give to probes
    OddNames,       \* those of them validate_untrusted_entry_name refuses
    NoDir           \* there is no temporary directory

Attempts == 1 .. MaxAttempts

(* A file of a project directory: a part of the trace, or a probe under    *)
(* serialized_probes/ that the compiler wrote for an attempt.              *)
Trace(n) == [name |-> n, from |-> 0]
Probe(n, a) == [name |-> n, from |-> a]
IsProbe(file) == file.from # 0
TraceSet == {Trace(n) : n \in TraceFiles}
Probes == {Probe(n, a) : n \in ProbeNames, a \in Attempts}
Files == TraceSet \cup Probes

ASSUME TransportAssumption ==
    /\ MaxAttempts \in Nat /\ MaxCrashes \in Nat
    /\ OddNames \subseteq ProbeNames
    /\ \A dir \in SUBSET Files : dir # NoDir

VARIABLES
    \* the forwarder, by attempt
    cpc,        \* where main() is
    code,       \* {} or {its exit status}
    entries,    \* what scan_directory returned
    sent,       \* the entries stream_archive has emitted
    body,       \* the request body: "open", "complete" or "broken"
    left,       \* the entries of the response not yet extracted
    probes,     \* the project's serialized_probes/
    \* the server, by attempt
    up,         \* the process is there
    crashes,    \* how many times it was not
    hpc,        \* where the request's thread is
    tempdir,    \* its temporary directory
    reply,      \* {} or {the response it has sent}
    kept,       \* the attempts whose directory the handler failed to remove
    \* history
    before,     \* the project's probes when the attempt began
    produced    \* what the compiler wrote for the attempt

client == <<cpc, code, entries, sent, body, left, probes, before>>
server == <<up, crashes, hpc, tempdir, kept, reply, produced>>
vars == <<client, server>>

Init ==
    /\ cpc = [a \in Attempts |-> "idle"]
    /\ code = [a \in Attempts |-> {}]
    /\ entries = [a \in Attempts |-> {}]
    /\ sent = [a \in Attempts |-> {}]
    /\ body = [a \in Attempts |-> "open"]
    /\ left = [a \in Attempts |-> {}]
    /\ probes = {}
    /\ up = TRUE
    /\ crashes = 0
    /\ hpc = [a \in Attempts |-> "none"]
    /\ tempdir = [a \in Attempts |-> NoDir]
    /\ kept = {}
    /\ reply = [a \in Attempts |-> {}]
    /\ before = [a \in Attempts |-> {}]
    /\ produced = [a \in Attempts |-> {}]

-----------------------------------------------------------------------------
(* The forwarder.                                                          *)

Exit(a, c) ==
    /\ cpc' = [cpc EXCEPT ![a] = "exited"]
    /\ code' = [code EXCEPT ![a] = {c}]

Goto(a, where) == cpc' = [cpc EXCEPT ![a] = where] /\ UNCHANGED code

\* The bug of shipping the whole project, old probes included.
BugShipped(file) == TRUE

\* Old probes are not shipped.
Shipped(file) == ~IsProbe(file)

\* main() up to the POST: bad arguments, or a scan that fails, end it.
Begin(a) ==
    /\ cpc[a] = "idle"
    /\ \A b \in 1 .. a - 1 : cpc[b] = "exited"
    /\ before' = [before EXCEPT ![a] = probes]
    /\ \/ \E c \in {1, 2} : Exit(a, c) /\ UNCHANGED entries
       \/ /\ Goto(a, "connect")
          /\ entries' = [entries EXCEPT ![a] =
                            {f \in TraceSet \cup probes : Shipped(f)}]
    /\ UNCHANGED <<sent, body, left, probes, server>>

Connect(a) ==
    /\ cpc[a] = "connect"
    /\ \/ up /\ Goto(a, "stream") /\ hpc' = [hpc EXCEPT ![a] = "headers"]
       \/ Exit(a, 3) /\ UNCHANGED hpc
    /\ UNCHANGED <<entries, sent, body, left, probes, before, up, crashes,
                   tempdir, kept, reply, produced>>

\* The content provider emits an entry, and after the last one sink.done().
Send(a) ==
    /\ cpc[a] = "stream"
    /\ IF sent[a] = entries[a]
       THEN /\ Goto(a, "await")
            /\ body' = [body EXCEPT ![a] = "complete"]
            /\ UNCHANGED sent
       ELSE /\ \E f \in entries[a] \ sent[a] :
                  sent' = [sent EXCEPT ![a] = @ \cup {f}]
            /\ UNCHANGED <<cpc, code, body>>
    /\ UNCHANGED <<entries, left, probes, before, server>>

\* The bug of a read without a timeout.
BugPostFails(a) ==
    /\ cpc[a] = "stream"
    /\ Exit(a, 3)
    /\ body' = [body EXCEPT ![a] = "broken"]
    /\ UNCHANGED <<entries, sent, left, probes, before, server>>

\* A file that shrank or went away since the scan, a closed socket, a write
\* timeout while streaming; a lost connection or the read timeout afterwards.
PostFails(a) ==
    /\ cpc[a] \in {"stream", "await"}
    /\ Exit(a, 3)
    /\ body' = [body EXCEPT ![a] = IF @ = "open" THEN "broken" ELSE @]
    /\ UNCHANGED <<entries, sent, left, probes, before, server>>

Receive(a) ==
    /\ cpc[a] = "await"
    /\ \E r \in reply[a] :
          IF r.status # 200
          THEN Exit(a, 4) /\ UNCHANGED left
          ELSE Goto(a, "clean") /\ left' = [left EXCEPT ![a] = r.files]
    /\ UNCHANGED <<entries, sent, body, probes, before, server>>

\* The bug of extracting over the old probes.
BugClean(a) ==
    /\ cpc[a] = "clean"
    /\ Goto(a, "unpack")
    /\ UNCHANGED <<entries, sent, body, left, probes, before, server>>

\* The probes on disk with p written over the one of its name.
Put(p) == {q \in probes : q.name # p.name} \cup {p}

\* What may be on disk when the forwarder is interrupted: a part of the old
\* probes is removed, or the file of an entry created and not yet full.
Interrupted(a) ==
    CASE cpc[a] = "clean" -> SUBSET probes
      [] cpc[a] = "unpack" ->
            {probes} \cup {Put(p) : p \in {q \in left[a] : q.name \notin OddNames}}
      [] OTHER -> {probes}

\* remove_all(probes_dir): it may throw.
Clean(a) ==
    /\ cpc[a] = "clean"
    /\ \/ probes' = {} /\ Goto(a, "unpack")
       \/ probes' \in Interrupted(a) /\ Exit(a, 6)
    /\ UNCHANGED <<entries, sent, body, left, before, server>>

\* unpack_into, one entry of its loop: a name may be refused, a write fail.
Unpack(a) ==
    /\ cpc[a] = "unpack"
    /\ \E p \in left[a] :
          \/ /\ p.name \notin OddNames
             /\ probes' = Put(p)
             /\ left' = [left EXCEPT ![a] = @ \ {p}]
             /\ UNCHANGED <<cpc, code>>
          \/ p.name \in OddNames /\ Exit(a, 6) /\ UNCHANGED <<probes, left>>
    /\ UNCHANGED <<entries, sent, body, before, server>>

\* The file cannot be created, or the write is short and leaves a part.
UnpackDiskFails(a) ==
    /\ cpc[a] = "unpack"
    /\ left[a] # {} /\ probes' \in Interrupted(a)
    /\ Exit(a, 6)
    /\ UNCHANGED <<entries, sent, body, left, before, server>>

\* The loop is over; an archive of no entry is reported.
Return(a) ==
    /\ cpc[a] = "unpack" /\ left[a] = {}
    /\ Exit(a, IF \A r \in reply[a] : r.files = {} THEN 5 ELSE 0)
    /\ UNCHANGED <<entries, sent, body, left, probes, before, server>>

Killed(a) ==
    /\ cpc[a] \notin {"idle", "exited"}
    /\ Exit(a, 137)
    /\ body' = [body EXCEPT ![a] = IF @ = "open" THEN "broken" ELSE @]
    /\ probes' \in Interrupted(a)
    /\ UNCHANGED <<entries, sent, left, before, server>>

-----------------------------------------------------------------------------
(* The server: Handler::operator() on the thread of request a.             *)

Active(a) == hpc[a] \notin {"none", "done", "dead"}

Answer(a, status, files) ==
    /\ hpc' = [hpc EXCEPT ![a] = "done"]
    /\ reply' = [reply EXCEPT ![a] = {[status |-> status, files |-> files]}]
    /\ UNCHANGED <<client, up, crashes>>

\* fs::remove_all(tempdir, ec): nobody looks at ec, nor at what is left.
RemoveAll(a) ==
    \/ tempdir' = [tempdir EXCEPT ![a] = NoDir] /\ UNCHANGED kept
    \/ kept' = kept \cup {a} /\ UNCHANGED tempdir

\* A header is missing or malformed: the body is drained before the 400.
Headers(a) ==
    /\ hpc[a] = "headers"
    /\ \/ /\ hpc' = [hpc EXCEPT ![a] = "drain"]
          /\ UNCHANGED tempdir
       \/ /\ hpc' = [hpc EXCEPT ![a] = "unpack"]
          /\ tempdir' = [tempdir EXCEPT ![a] = {}]
    /\ UNCHANGED <<client, up, crashes, kept, reply, produced>>

Reject(a) ==
    /\ hpc[a] = "drain" /\ body[a] # "open"
    /\ Answer(a, 400, {})
    /\ UNCHANGED <<tempdir, kept, produced>>

\* mkdtemp fails: there is nothing to remove.
MkdtempFails(a) ==
    /\ hpc[a] = "headers"
    /\ Answer(a, 400, {})
    /\ UNCHANGED <<tempdir, kept, produced>>

Extract(a) ==
    /\ hpc[a] = "unpack"
    /\ \E f \in sent[a] \ tempdir[a] :
          tempdir' = [tempdir EXCEPT ![a] = @ \cup {f}]
    /\ UNCHANGED <<client, up, crashes, hpc, kept, reply, produced>>

\* An entry fails, or the body ends before the archive does.
UnpackFails(a) ==
    /\ hpc[a] = "unpack"
    /\ Answer(a, 400, {}) /\ RemoveAll(a)
    /\ UNCHANGED produced

\* The bug of not calling finish().
BugUnpackDone(a) ==
    /\ hpc[a] = "unpack"
    /\ body[a] # "open" /\ tempdir[a] = sent[a]
    /\ hpc' = [hpc EXCEPT ![a] = "compile"]
    /\ UNCHANGED <<client, up, crashes, tempdir, kept, reply, produced>>

UnpackDone(a) ==
    /\ hpc[a] = "unpack"
    /\ body[a] = "complete" /\ tempdir[a] = sent[a]
    /\ hpc' = [hpc EXCEPT ![a] = "compile"]
    /\ UNCHANGED <<client, up, crashes, tempdir, kept, reply, produced>>

SpawnFails(a) ==
    /\ hpc[a] = "compile"
    /\ Answer(a, 500, {}) /\ RemoveAll(a)
    /\ UNCHANGED produced

\* The bug of leaving the project to be looked at.
BugCompilerFails(a) ==
    /\ hpc[a] = "compile"
    /\ Answer(a, 500, {})
    /\ UNCHANGED <<tempdir, kept, produced>>

\* The compiler exits with a status other than 0.
CompilerFails(a) ==
    /\ hpc[a] = "compile"
    /\ Answer(a, 500, {}) /\ RemoveAll(a)
    /\ UNCHANGED produced

\* It exits with 0 and has written serialized_probes/.
Compile(a) ==
    /\ hpc[a] = "compile"
    /\ \E names \in SUBSET ProbeNames :
          LET new == {Probe(n, a) : n \in names} IN
          /\ produced' = [produced EXCEPT ![a] = new]
          /\ tempdir' = [tempdir EXCEPT ![a] =
                            {f \in @ : ~(IsProbe(f) /\ f.name \in names)} \cup new]
    /\ hpc' = [hpc EXCEPT ![a] = "pack"]
    /\ UNCHANGED <<client, up, crashes, kept, reply>>

\* It exits with 0 and has written none.
NoProbes(a) ==
    /\ hpc[a] = "compile"
    /\ Answer(a, 500, {}) /\ RemoveAll(a)
    /\ UNCHANGED produced

\* fs::exists(probes) throws, say for a link that leads to itself: the
\* exception passes remove_all, and httplib answers with 500.
ExistsThrows(a) ==
    /\ hpc[a] = "compile"
    /\ Answer(a, 500, {})
    /\ kept' = kept \cup {a}
    /\ UNCHANGED <<tempdir, produced>>

\* Probes that cannot be packed are a 500.
Pack(a) ==
    /\ hpc[a] = "pack"
    /\ \/ Answer(a, 200, {f \in tempdir[a] : IsProbe(f)})
       \/ Answer(a, 500, {})
    /\ RemoveAll(a)
    /\ UNCHANGED produced

\* The server is killed: its threads are gone, their directories are not.
Crash ==
    /\ up /\ crashes < MaxCrashes
    /\ up' = FALSE
    /\ crashes' = crashes + 1
    /\ hpc' = [a \in Attempts |-> IF Active(a) THEN "dead" ELSE hpc[a]]
    /\ UNCHANGED <<client, tempdir, kept, reply, produced>>

Restart ==
    /\ ~up /\ up' = TRUE
    /\ UNCHANGED <<client, crashes, hpc, tempdir, kept, reply, produced>>

-----------------------------------------------------------------------------

Forwarder(a) ==
    \/ Begin(a) \/ Connect(a) \/ Send(a) \/ PostFails(a) \/ Receive(a)
    \/ Clean(a) \/ Unpack(a) \/ UnpackDiskFails(a) \/ Return(a)

Handler(a) ==
    \/ Headers(a) \/ Reject(a) \/ MkdtempFails(a)
    \/ Extract(a) \/ UnpackFails(a) \/ UnpackDone(a)
    \/ SpawnFails(a) \/ CompilerFails(a) \/ Compile(a)
    \/ NoProbes(a) \/ ExistsThrows(a) \/ Pack(a)

Next ==
    \/ \E a \in Attempts : Forwarder(a) \/ Killed(a) \/ Handler(a)
    \/ Crash \/ Restart

Spec == Init /\ [][Next]_vars

\* The request waits for more of its body: that may fail, but need not.
Waits(a) == hpc[a] = "unpack" /\ body[a] = "open" /\ tempdir[a] = sent[a]

(* A forwarder that is started runs: its read and write timeouts end every *)
(* wait of its own, which is PostFails.  A request thread runs, and the    *)
(* compiler it waits for terminates.                                       *)
Fairness ==
    \A a \in Attempts :
        /\ WF_vars(cpc[a] # "idle" /\ Forwarder(a))
        /\ WF_vars(Handler(a) /\ ~Waits(a))

FairSpec == Spec /\ Fairness

-----------------------------------------------------------------------------

ClientStates ==
    {"idle", "connect", "stream", "await", "clean", "unpack", "exited"}

TypeOK ==
    /\ cpc \in [Attempts -> ClientStates]
    /\ code \in [Attempts -> SUBSET (0 .. 6 \cup {137})]
    /\ entries \in [Attempts -> SUBSET Files]
    /\ sent \in [Attempts -> SUBSET Files]
    /\ body \in [Attempts -> {"open", "complete", "broken"}]
    /\ left \in [Attempts -> SUBSET Probes]
    /\ probes \subseteq Probes
    /\ up \in BOOLEAN /\ crashes \in 0 .. MaxCrashes
    /\ hpc \in [Attempts -> {"none", "headers", "drain", "unpack", "compile",
                             "pack", "done", "dead"}]
    /\ tempdir \in [Attempts -> {NoDir} \cup SUBSET Files]
    /\ kept \subseteq Attempts
    /\ reply \in [Attempts -> SUBSET [status : {200, 400, 500},
                                     files : SUBSET Probes]]
    /\ before \in [Attempts -> SUBSET Probes]
    /\ produced \in [Attempts -> SUBSET Probes]

Latest(a) == cpc[a] # "idle" /\ \A b \in Attempts : b > a => cpc[b] = "idle"

(* Fresh: when the last replay succeeded, the project holds exactly the    *)
(* probes the compiler wrote for it, at least one, and none of an earlier  *)
(* replay, however many requests were abandoned on the way and wherever    *)
(* the server died.                                                        *)
Fresh ==
    \A a \in Attempts :
        Latest(a) /\ code[a] = {0} => probes = produced[a] /\ probes # {}

(* NeverMixed: the probes on disk, whole or in part, in the middle of a    *)
(* replay or behind one that failed, were all written for one replay.      *)
NeverMixed == \A p, q \in probes : p.from = q.from

(* KeepsOld: the probes of the replay before are touched only once the     *)
(* server has answered this one with an archive.                           *)
KeepsOld ==
    \A a \in Attempts :
        Latest(a) /\ probes # before[a] =>
            \E r \in reply[a] : r.status = 200 /\ hpc[a] = "done"

(* OldOrNew: whatever is abandoned, killed or refused on the way, the      *)
(* probes on disk are of one replay, and those of the replay before as     *)
(* long as the server has not answered this one.                           *)
OldOrNew == NeverMixed /\ KeepsOld

(* CompilesWhole: the compiler is never run on a part of a project, nor on *)
(* anything but what the forwarder scanned: an upload that was cut off is  *)
(* a 400, whichever entry it was cut at.                                   *)
CompilesWhole ==
    \A a \in Attempts : hpc[a] = "compile" => tempdir[a] = entries[a]

(* TempdirsAccounted: a temporary directory outlives its request only when *)
(* the server was killed, when remove_all failed on it, or when an         *)
(* exception took the handler past remove_all: each of the handler's other *)
(* returns has removed the directory the request had, and none of them     *)
(* removes one that is still in use.                                       *)
TempdirsAccounted ==
    \A a \in Attempts :
        /\ tempdir[a] # NoDir => Active(a) \/ hpc[a] = "dead" \/ a \in kept
        /\ hpc[a] \in {"unpack", "compile", "pack"} => tempdir[a] # NoDir
        /\ a \in kept => hpc[a] = "done"

(* DirectoriesRight: the server's directories hold whole projects while    *)
(* they are compiled, and none is left behind but where the file system    *)
(* keeps it.                                                               *)
DirectoriesRight == CompilesWhole /\ TempdirsAccounted

(* ReplayEnds: a replay that is started ends, even when the server dies    *)
(* or never answers.                                                       *)
ReplayEnds ==
    \A a \in Attempts : cpc[a] # "idle" ~> cpc[a] = "exited"

(* RequestEnds: so does a request, even when its client has gone away in   *)
(* the middle of the body.                                                 *)
RequestEnds ==
    \A a \in Attempts : Active(a) ~> ~Active(a)

(* ExchangeEnds: neither side waits for the other for ever.                *)
ExchangeEnds == ReplayEnds /\ RequestEnds
=============================================================================
