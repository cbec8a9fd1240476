----------------------------- MODULE RunCapture -----------------------------
(***************************************************************************)
(* run_capture() of src/fhetch_transport/server.cpp: a request thread runs *)
(* the compiler as a child process and reads what it prints from a pipe    *)
(* until end of file.                                                      *)
(*                                                                         *)
(* Threads of the server do so concurrently and share its table of file    *)
(* descriptors.  A pipe is made without O_CLOEXEC: a child inherits, next  *)
(* to its own, the ends of every pipe open in the server when it is        *)
(* spawned, and a pipe is at its end only when the last process that holds *)
(* its write end is gone.                                                  *)
(***************************************************************************)
EXTENDS Integers, FiniteSets

CONSTANTS
    Requests,       \* request threads, each in one run_capture()
    PipeCapacity,   \* what a pipe holds before a writer blocks
    MaxOutput,      \* bound on what a child prints
    Statuses,       \* the exit statuses of the compiler
    Killed,         \* 128 + the number of the signal that killed it
    AutoReap        \* the server was started with SIGCHLD ignored

ASSUME CaptureAssumption ==
    /\ PipeCapacity \in Nat \ {0} /\ MaxOutput \in Nat
    /\ Statuses \subseteq 0 .. 255 /\ Killed \in 129 .. 255
    /\ AutoReap \in BOOLEAN

kSpawnFailed == -1

Ends == Requests \X {"read", "write"}    \* the ends of each thread's fds[2]

VARIABLES
    phase,      \* where the thread is
    open,       \* the ends open in the server
    held,       \* the ends open in each child
    child,      \* the child: "none", "running", "exited" or "reaped"
    todo,       \* what the child has yet to print
    pipe,       \* what is in the pipe
    log,        \* what the thread has read
    result,     \* {} or {what run_capture() returned}
    printed,    \* history: what the child has printed
    status      \* history: {} or {how the child ended}

captureVars == <<phase, open, held, child, todo, pipe, log, result, printed, status>>

CaptureInit ==
    /\ phase = [t \in Requests |-> "start"]
    /\ open = {}
    /\ held = [t \in Requests |-> {}]
    /\ child = [t \in Requests |-> "none"]
    /\ todo = [t \in Requests |-> 0]
    /\ pipe = [t \in Requests |-> 0]
    /\ log = [t \in Requests |-> 0]
    /\ result = [t \in Requests |-> {}]
    /\ printed = [t \in Requests |-> 0]
    /\ status = [t \in Requests |-> {}]

Goto(t, where) == phase' = [phase EXCEPT ![t] = where]

ReturnCode(t, code) ==
    /\ Goto(t, "returned")
    /\ result' = [result EXCEPT ![t] = {code}]

-----------------------------------------------------------------------------

MakePipe(t) ==
    /\ phase[t] = "start"
    /\ \/ /\ Goto(t, "spawn")
          /\ open' = open \cup {<<t, "read">>, <<t, "write">>}
          /\ UNCHANGED result
       \/ ReturnCode(t, kSpawnFailed) /\ UNCHANGED open
    /\ UNCHANGED <<held, child, todo, pipe, log, printed, status>>

\* The file actions close the read end of this pipe in the child and move its
\* write end to stdout and stderr; of the other pipes they say nothing.
Inherited(t) == open \ {<<t, "read">>}

Spawn(t) ==
    /\ phase[t] = "spawn"
    /\ \/ /\ child' = [child EXCEPT ![t] = "running"]
          /\ held' = [held EXCEPT ![t] = Inherited(t)]
          /\ \E n \in 0 .. MaxOutput : todo' = [todo EXCEPT ![t] = n]
       \/ UNCHANGED <<child, held, todo>>
    /\ Goto(t, "spawned")
    /\ UNCHANGED <<open, pipe, log, result, printed, status>>

\* The bug of returning without closing the pipe.
BugSpawnFailed(t) ==
    /\ phase[t] = "spawned" /\ child[t] = "none"
    /\ open' = open \ {<<t, "write">>}
    /\ ReturnCode(t, kSpawnFailed)
    /\ UNCHANGED <<held, child, todo, pipe, log, printed, status>>

SpawnFailed(t) ==
    /\ phase[t] = "spawned" /\ child[t] = "none"
    /\ open' = open \ {<<t, "read">>, <<t, "write">>}
    /\ ReturnCode(t, kSpawnFailed)
    /\ UNCHANGED <<held, child, todo, pipe, log, printed, status>>

\* The bug of keeping the write end.
BugCloseWrite(t) ==
    /\ phase[t] = "spawned" /\ child[t] # "none"
    /\ Goto(t, "read")
    /\ UNCHANGED <<open, held, child, todo, pipe, log, result, printed, status>>

CloseWrite(t) ==
    /\ phase[t] = "spawned" /\ child[t] # "none"
    /\ open' = open \ {<<t, "write">>}
    /\ Goto(t, "read")
    /\ UNCHANGED <<held, child, todo, pipe, log, result, printed, status>>

\* read() takes what is there, up to the size of buf.
Read(t) ==
    /\ phase[t] = "read" /\ pipe[t] > 0
    /\ \E n \in 1 .. pipe[t] :
          /\ pipe' = [pipe EXCEPT ![t] = @ - n]
          /\ log' = [log EXCEPT ![t] = @ + n]
    /\ UNCHANGED <<phase, open, held, child, todo, result, printed, status>>

AllHolders(end) == {t \in Requests : end \in held[t]}

\* The pipe is empty and nobody can write to it any more.
AtEnd(t) ==
    /\ pipe[t] = 0
    /\ <<t, "write">> \notin open /\ AllHolders(<<t, "write">>) = {}

EndOfFile(t) ==
    /\ phase[t] = "read" /\ AtEnd(t)
    /\ open' = open \ {<<t, "read">>}
    /\ Goto(t, "wait")
    /\ UNCHANGED <<held, child, todo, pipe, log, result, printed, status>>

\* The bug of not waiting for the child.
BugWait(t) ==
    /\ phase[t] = "wait"
    /\ ReturnCode(t, 0)
    /\ UNCHANGED <<open, held, child, todo, pipe, log, printed, status>>

\* waitpid().  With SIGCHLD ignored the kernel has discarded the status: the
\* call fails, not with EINTR, and status keeps its 0, an exit with 0.
Wait(t) ==
    /\ phase[t] = "wait" /\ child[t] = "exited"
    /\ child' = [child EXCEPT ![t] = "reaped"]
    /\ \E code \in IF AutoReap THEN {0} ELSE status[t] : ReturnCode(t, code)
    /\ UNCHANGED <<open, held, todo, pipe, log, printed, status>>

-----------------------------------------------------------------------------
(* The child: the compiler, from outside.                                  *)

WriteOutput(t) ==
    /\ child[t] = "running" /\ todo[t] > 0
    /\ pipe[t] < PipeCapacity
    /\ todo' = [todo EXCEPT ![t] = @ - 1]
    /\ pipe' = [pipe EXCEPT ![t] = @ + 1]
    /\ printed' = [printed EXCEPT ![t] = @ + 1]
    /\ UNCHANGED <<phase, open, held, child, log, result, status>>

End(t, code) ==
    /\ child[t] = "running"
    /\ child' = [child EXCEPT ![t] = "exited"]
    /\ held' = [held EXCEPT ![t] = {}]
    /\ status' = [status EXCEPT ![t] = {code}]
    /\ UNCHANGED <<phase, open, todo, pipe, log, result, printed>>

Exit(t) == todo[t] = 0 /\ \E code \in Statuses : End(t, code)

Kill(t) == End(t, Killed)

-----------------------------------------------------------------------------

Thread(t) ==
    \/ MakePipe(t) \/ Spawn(t) \/ SpawnFailed(t) \/ CloseWrite(t)
    \/ Read(t) \/ EndOfFile(t) \/ Wait(t)

Child(t) == WriteOutput(t) \/ Exit(t)

CaptureNext == \E t \in Requests : Thread(t) \/ Child(t) \/ Kill(t)

CaptureSpec == CaptureInit /\ [][CaptureNext]_captureVars

(* A thread runs; a compiler prints what it has to and exits.              *)
CaptureFairSpec ==
    /\ CaptureSpec
    /\ \A t \in Requests : WF_captureVars(Thread(t)) /\ WF_captureVars(Child(t))

-----------------------------------------------------------------------------

CaptureTypeOK ==
    /\ phase \in [Requests -> {"start", "spawn", "spawned", "read", "wait",
                           "returned"}]
    /\ open \subseteq Ends
    /\ held \in [Requests -> SUBSET Ends]
    /\ child \in [Requests -> {"none", "running", "exited", "reaped"}]
    /\ todo \in [Requests -> 0 .. MaxOutput]
    /\ pipe \in [Requests -> 0 .. PipeCapacity]
    /\ log \in [Requests -> 0 .. MaxOutput]
    /\ printed \in [Requests -> 0 .. MaxOutput]
    /\ result \in [Requests -> SUBSET ({kSpawnFailed} \cup 0 .. 255)]
    /\ status \in [Requests -> SUBSET (0 .. 255)]

(* LogComplete: what the handler relays and the server logs is all the     *)
(* compiler printed, also when it was killed.                              *)
LogComplete ==
    \A t \in Requests : phase[t] = "returned" => log[t] = printed[t]

(* NothingLeaks: when run_capture() returns, on any path, its pipe is      *)
(* closed in the server and its child is no zombie.  A child keeps the     *)
(* ends it inherited no longer than it lives.                              *)
NothingLeaks ==
    \A t \in Requests :
        /\ phase[t] = "returned" =>
              /\ <<t, "read">> \notin open /\ <<t, "write">> \notin open
              /\ child[t] \in {"none", "reaped"}
        /\ child[t] # "running" => held[t] = {}

(* StatusReturned: "Returns the child's exit status, 128+signal if it was  *)
(* killed, or kSpawnFailed" (server.cpp:219-220).                          *)
StatusReturned ==
    \A t \in Requests :
        phase[t] = "returned" =>
            result[t] = IF child[t] = "none" THEN {kSpawnFailed} ELSE status[t]

(* WaitsForTheLiving: a thread that waits for the end of a pipe whose      *)
(* child is gone waits for a child of another thread, and that child is    *)
(* running: it inherited the write end and will give it back.              *)
WaitsForTheLiving ==
    \A t \in Requests :
        phase[t] = "read" /\ child[t] = "exited" /\ pipe[t] = 0 /\ ~AtEnd(t) =>
            \E u \in Requests \ {t} :
                child[u] = "running" /\ <<t, "write">> \in held[u]

(* ReturnsRight: what run_capture() hands back is the whole output and the *)
(* status of its own child, whatever the other thread spawns and reaps.    *)
ReturnsRight == LogComplete /\ StatusReturned

(* PipesRight: inherited ends are given back by their owners' death and by *)
(* nothing else, and none is left open.                                    *)
PipesRight == NothingLeaks /\ WaitsForTheLiving

(* Returns: run_capture() returns, however the descriptors its children    *)
(* inherited from each other delay the end of file.                        *)
Returns == \A t \in Requests : <>(phase[t] = "returned")
=============================================================================
