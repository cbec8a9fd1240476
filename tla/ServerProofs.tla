---------------------------- MODULE ServerProofs ----------------------------
(***************************************************************************)
(* The replay server below its transport: the capture of a compiler's run  *)
(* by request threads, and how main() is stopped.  Two modules of other    *)
(* variables, whose theorems need nothing of each other.                   *)
(***************************************************************************)
EXTENDS RunCapture, ServerShutdown, TLAPS

-----------------------------------------------------------------------------
(***************************************************************************)
(* For any set of request threads, pipe and output: run_capture() returns  *)
(* all its child has printed and that child's own status, and leaves no    *)
(* descriptor and no zombie.  Stage ties where a thread is to what its     *)
(* pipe and its child are; what the other threads do touches neither but   *)
(* by inheriting the ends, and those die with the children that have them. *)
(***************************************************************************)

IsOpen(t, end) == <<t, end>> \in open

(* What is true of thread t and its child, by where the thread is.         *)
Before(t) ==
    phase[t] \in {"start", "spawn"} =>
       /\ child[t] = "none" /\ log[t] = 0 /\ pipe[t] = 0 /\ printed[t] = 0 /\ todo[t] = 0
       /\ status[t] = {}

PipeOf(t) ==
    /\ phase[t] \in {"spawn", "spawned"} => IsOpen(t, "read") /\ IsOpen(t, "write")
    /\ phase[t] = "read" => IsOpen(t, "read") /\ ~IsOpen(t, "write")
    /\ phase[t] \in {"start", "wait", "returned"} => ~IsOpen(t, "read") /\ ~IsOpen(t, "write")

ChildOf(t) ==
    /\ phase[t] \in {"read", "wait"} => child[t] \in {"running", "exited"}
    /\ phase[t] = "wait" => child[t] = "exited" /\ pipe[t] = 0
    /\ phase[t] = "spawned" => child[t] # "reaped"
    /\ phase[t] = "returned" => child[t] \in {"none", "reaped"} /\ pipe[t] = 0

(* Nobody but a running child holds an end, the child of t its own.        *)
Holds(t) ==
    /\ child[t] = "running" => <<t, "write">> \in held[t]
    /\ child[t] # "running" => held[t] = {}

(* Of what has been printed nothing is anywhere but in the log or the pipe.*)
Amounts(t) ==
    /\ log[t] + pipe[t] = printed[t]
    /\ printed[t] + todo[t] \in 0 .. MaxOutput
    /\ child[t] = "none" => log[t] = 0 /\ printed[t] = 0 /\ todo[t] = 0

Status(t) ==
    /\ child[t] \in {"none", "running"} => status[t] = {}
    /\ child[t] \in {"exited", "reaped"} => \E c \in 0 .. 255 : status[t] = {c}
    /\ phase[t] = "returned" /\ child[t] = "none" => result[t] = {kSpawnFailed}
    /\ phase[t] = "returned" /\ child[t] = "reaped" /\ ~AutoReap => result[t] = status[t]

Stage(t) == Before(t) /\ PipeOf(t) /\ ChildOf(t) /\ Holds(t) /\ Amounts(t) /\ Status(t)

CaptureInv == CaptureTypeOK /\ \A t \in Requests : Stage(t)

-----------------------------------------------------------------------------

LEMMA InitCaptureInv == CaptureInit => CaptureInv
<1> SUFFICES ASSUME CaptureInit PROVE CaptureInv
  OBVIOUS
<1>1. CaptureTypeOK
  BY CaptureAssumption DEF CaptureInit, CaptureTypeOK, Ends
<1>2. ASSUME NEW t \in Requests PROVE Stage(t)
  BY CaptureAssumption DEF CaptureInit, Stage, Before, PipeOf, ChildOf, Holds, Amounts, Status, IsOpen
<1> QED BY <1>1, <1>2 DEF CaptureInv

(* What a step leaves of u as it was keeps its stage.                      *)
LEMMA Untouched ==
  ASSUME NEW u \in Requests, Stage(u),
         phase'[u] = phase[u], held'[u] = held[u], child'[u] = child[u], todo'[u] = todo[u],
         pipe'[u] = pipe[u], log'[u] = log[u], result'[u] = result[u],
         printed'[u] = printed[u], status'[u] = status[u],
         <<u, "read">> \in open' <=> <<u, "read">> \in open,
         <<u, "write">> \in open' <=> <<u, "write">> \in open
  PROVE  Stage(u)'
BY DEF Stage, Before, PipeOf, ChildOf, Holds, Amounts, Status, IsOpen

LEMMA MakePipeKeeps == ASSUME NEW t \in Requests, CaptureInv, MakePipe(t) PROVE CaptureInv'
<1> USE DEF CaptureInv, MakePipe, Goto, ReturnCode, CaptureTypeOK
<1>1. CaptureTypeOK'
  BY DEF Ends
<1>2. Stage(t)'
  BY DEF Stage, Before, PipeOf, ChildOf, Holds, Amounts, Status, IsOpen
<1>3. ASSUME NEW u \in Requests, u # t PROVE Stage(u)'
  BY <1>3, Untouched
<1> QED BY <1>1, <1>2, <1>3

LEMMA SpawnKeeps == ASSUME NEW t \in Requests, CaptureInv, Spawn(t) PROVE CaptureInv'
<1> USE DEF CaptureInv, Spawn, Goto, Inherited, CaptureTypeOK
<1>1. CaptureTypeOK'
  OBVIOUS
<1>2. Stage(t)'
  BY DEF Stage, Before, PipeOf, ChildOf, Holds, Amounts, Status, IsOpen
<1>3. ASSUME NEW u \in Requests, u # t PROVE Stage(u)'
  BY <1>3, Untouched
<1> QED BY <1>1, <1>2, <1>3

LEMMA SpawnFailedKeeps == ASSUME NEW t \in Requests, CaptureInv, SpawnFailed(t) PROVE CaptureInv'
<1> USE DEF CaptureInv, SpawnFailed, Goto, ReturnCode, CaptureTypeOK
<1>1. CaptureTypeOK'
  OBVIOUS
<1>2. Stage(t)'
  <2>1. pipe[t] = 0
    BY DEF Stage, Amounts
  <2>2. ~IsOpen(t, "read")' /\ ~IsOpen(t, "write")'
    BY DEF IsOpen
  <2>3. Before(t)' /\ PipeOf(t)'
    BY <2>2 DEF Before, PipeOf
  <2>4. ChildOf(t)'
    BY <2>1 DEF ChildOf
  <2>5. Holds(t)' /\ Amounts(t)'
    BY DEF Stage, Holds, Amounts
  <2>6. Status(t)'
    BY DEF Stage, Status
  <2> QED BY <2>3, <2>4, <2>5, <2>6 DEF Stage
<1>3. ASSUME NEW u \in Requests, u # t PROVE Stage(u)'
  BY <1>3, Untouched
<1> QED BY <1>1, <1>2, <1>3

LEMMA CloseWriteKeeps == ASSUME NEW t \in Requests, CaptureInv, CloseWrite(t) PROVE CaptureInv'
<1> USE DEF CaptureInv, CloseWrite, Goto, CaptureTypeOK
<1>1. CaptureTypeOK'
  OBVIOUS
<1>2. Stage(t)'
  <2>1. PipeOf(t)'
    BY DEF Stage, PipeOf, IsOpen
  <2>2. Before(t)' /\ ChildOf(t)'
    BY DEF Stage, Before, ChildOf
  <2>3. Holds(t)' /\ Amounts(t)'
    BY DEF Stage, Holds, Amounts
  <2>4. Status(t)'
    <3>1. phase'[t] = "read" /\ child'[t] = child[t] /\ status'[t] = status[t] /\ Status(t)
      BY DEF Stage
    <3> QED BY <3>1 DEF Status
  <2> QED BY <2>1, <2>2, <2>3, <2>4 DEF Stage
<1>3. ASSUME NEW u \in Requests, u # t PROVE Stage(u)'
  BY <1>3, Untouched
<1> QED BY <1>1, <1>2, <1>3

LEMMA ReadKeeps == ASSUME NEW t \in Requests, CaptureInv, Read(t) PROVE CaptureInv'
<1> USE CaptureAssumption DEF CaptureInv, Read, CaptureTypeOK
<1> PICK n \in 1 .. pipe[t] : /\ pipe' = [pipe EXCEPT ![t] = @ - n]
                              /\ log' = [log EXCEPT ![t] = @ + n]
  OBVIOUS
<1>1. Amounts(t)'
  BY DEF Stage, Amounts
<1>2. CaptureTypeOK'
  BY <1>1 DEF Stage, Amounts
<1>3. Stage(t)'
  <2>1. Before(t)' /\ PipeOf(t)'
    BY DEF Stage, Before, PipeOf, IsOpen
  <2>2. ChildOf(t)' /\ Holds(t)'
    BY DEF Stage, ChildOf, Holds
  <2>3. Status(t)'
    BY DEF Stage, Status
  <2> QED BY <1>1, <2>1, <2>2, <2>3 DEF Stage
<1>4. ASSUME NEW u \in Requests, u # t PROVE Stage(u)'
  BY <1>4, Untouched
<1> QED BY <1>2, <1>3, <1>4

LEMMA EndOfFileKeeps == ASSUME NEW t \in Requests, CaptureInv, EndOfFile(t) PROVE CaptureInv'
<1> USE DEF CaptureInv, EndOfFile, Goto, CaptureTypeOK
<1>1. CaptureTypeOK'
  OBVIOUS
<1>2. Stage(t)'
  <2>1. child[t] = "exited"         \* a running child would hold the write end
    BY DEF Stage, ChildOf, Holds, AtEnd, AllHolders
  <2>2. ~IsOpen(t, "read")' /\ ~IsOpen(t, "write")'
    BY DEF IsOpen, AtEnd
  <2>3. Before(t)' /\ PipeOf(t)'
    BY <2>2 DEF Before, PipeOf
  <2>4. ChildOf(t)'
    BY <2>1 DEF ChildOf, AtEnd
  <2>5. Holds(t)' /\ Amounts(t)'
    BY DEF Stage, Holds, Amounts
  <2>6. Status(t)'
    BY <2>1 DEF Stage, Status
  <2> QED BY <2>3, <2>4, <2>5, <2>6 DEF Stage
<1>3. ASSUME NEW u \in Requests, u # t PROVE Stage(u)'
  BY <1>3, Untouched
<1> QED BY <1>1, <1>2, <1>3

LEMMA WaitKeeps == ASSUME NEW t \in Requests, CaptureInv, Wait(t) PROVE CaptureInv'
<1> USE DEF CaptureInv, Wait, Goto, ReturnCode, CaptureTypeOK
<1> PICK code \in IF AutoReap THEN {0} ELSE status[t] : result' = [result EXCEPT ![t] = {code}]
  OBVIOUS
<1>1. PICK c \in 0 .. 255 : status[t] = {c}
  BY DEF Stage, Status
<1>2. code \in 0 .. 255 /\ (~AutoReap => {code} = status[t])
  BY <1>1
<1>3. CaptureTypeOK'
  BY <1>2
<1>4. Stage(t)'
  BY <1>1, <1>2 DEF Stage, Before, PipeOf, ChildOf, Holds, Amounts, Status, IsOpen
<1>5. ASSUME NEW u \in Requests, u # t PROVE Stage(u)'
  BY <1>5, Untouched
<1> QED BY <1>3, <1>4, <1>5

LEMMA WriteOutputKeeps == ASSUME NEW t \in Requests, CaptureInv, WriteOutput(t) PROVE CaptureInv'
<1> USE CaptureAssumption DEF CaptureInv, WriteOutput, CaptureTypeOK
<1>1. Amounts(t)'
  BY DEF Stage, Amounts
<1>2. CaptureTypeOK'
  BY <1>1 DEF Stage, Amounts
<1>3. Stage(t)'
  <2>1. Before(t)' /\ PipeOf(t)'
    BY DEF Stage, Before, PipeOf, IsOpen
  <2>2. ChildOf(t)' /\ Holds(t)' /\ Status(t)'
    BY DEF Stage, ChildOf, Holds, Status
  <2> QED BY <1>1, <2>1, <2>2 DEF Stage
<1>4. ASSUME NEW u \in Requests, u # t PROVE Stage(u)'
  BY <1>4, Untouched
<1> QED BY <1>2, <1>3, <1>4

LEMMA EndKeeps == ASSUME NEW t \in Requests, NEW code \in 0 .. 255, CaptureInv, End(t, code) PROVE CaptureInv'
<1> USE DEF CaptureInv, End, CaptureTypeOK
<1>1. CaptureTypeOK'
  OBVIOUS
<1>2. Stage(t)'
  <2>1. /\ child'[t] = "exited" /\ held'[t] = {} /\ status'[t] = {code}
        /\ phase'[t] = phase[t] /\ child[t] = "running" /\ Stage(t)
    OBVIOUS
  <2>2. Before(t)' /\ PipeOf(t)' /\ Amounts(t)'
    BY <2>1 DEF Stage, Before, PipeOf, Amounts, IsOpen
  <2>3. ChildOf(t)' /\ Holds(t)'
    BY <2>1 DEF Stage, ChildOf, Holds
  <2>4. Status(t)'
    <3>1. phase[t] # "returned"
      BY <2>1 DEF Stage, ChildOf
    <3> QED BY <2>1, <3>1 DEF Status
  <2> QED BY <2>2, <2>3, <2>4 DEF Stage
<1>3. ASSUME NEW u \in Requests, u # t PROVE Stage(u)'
  BY <1>3, Untouched
<1> QED BY <1>1, <1>2, <1>3

LEMMA NextCaptureInv == CaptureInv /\ [CaptureNext]_captureVars => CaptureInv'
<1> SUFFICES ASSUME CaptureInv, [CaptureNext]_captureVars PROVE CaptureInv'
  OBVIOUS
<1>1. ASSUME NEW t \in Requests, Thread(t) PROVE CaptureInv'
  BY <1>1, MakePipeKeeps, SpawnKeeps, SpawnFailedKeeps, CloseWriteKeeps, ReadKeeps,
     EndOfFileKeeps, WaitKeeps DEF Thread
<1>2. ASSUME NEW t \in Requests, Child(t) PROVE CaptureInv'
  BY <1>2, WriteOutputKeeps, EndKeeps, CaptureAssumption DEF Child, Exit
<1>3. ASSUME NEW t \in Requests, Kill(t) PROVE CaptureInv'
  BY <1>3, EndKeeps, CaptureAssumption DEF Kill
<1>4. CASE UNCHANGED captureVars
  <2>1. CaptureTypeOK'
    BY <1>4 DEF captureVars, CaptureInv, CaptureTypeOK
  <2>2. ASSUME NEW u \in Requests PROVE Stage(u)'
    BY <1>4, Untouched DEF captureVars, CaptureInv
  <2> QED BY <2>1, <2>2 DEF CaptureInv
<1> QED BY <1>1, <1>2, <1>3, <1>4 DEF CaptureNext

LEMMA CaptureInvariance == CaptureSpec => []CaptureInv
BY InitCaptureInv, NextCaptureInv, PTL DEF CaptureSpec

-----------------------------------------------------------------------------

(* The variables are what RunCapture says they are: no more is read or     *)
(* printed than there is, and no more in a pipe than it holds.             *)
THEOREM CaptureTyped == CaptureSpec => []CaptureTypeOK
<1>1. CaptureInv => CaptureTypeOK
  BY DEF CaptureInv
<1> QED BY <1>1, CaptureInvariance, PTL

(* With SIGCHLD not ignored, run_capture() returns all its child printed   *)
(* and the status of that child, whatever other threads do.                *)
THEOREM ReturnsWhatWasPrinted == ASSUME ~AutoReap PROVE CaptureSpec => []ReturnsRight
<1>1. CaptureInv => LogComplete
  BY DEF CaptureInv, CaptureTypeOK, Stage, ChildOf, Amounts, LogComplete
<1>2. CaptureInv => StatusReturned
  BY DEF CaptureInv, Stage, ChildOf, Status, StatusReturned
<1>3. CaptureInv => ReturnsRight
  BY <1>1, <1>2 DEF ReturnsRight
<1> QED BY <1>3, CaptureInvariance, PTL

(* No thread returns with an end open or a zombie left, and one that waits *)
(* for the end of a dead child's pipe waits for a child that is alive.     *)
THEOREM PipesGivenBack == CaptureSpec => []PipesRight
<1>1. CaptureInv => NothingLeaks
  BY DEF CaptureInv, Stage, PipeOf, ChildOf, Holds, IsOpen, NothingLeaks
<1>2. CaptureInv => WaitsForTheLiving
  BY DEF CaptureInv, CaptureTypeOK, Stage, PipeOf, ChildOf, Holds, IsOpen, WaitsForTheLiving, AtEnd, AllHolders
<1>3. CaptureInv => PipesRight
  BY <1>1, <1>2 DEF PipesRight
<1> QED BY <1>3, CaptureInvariance, PTL

-----------------------------------------------------------------------------
(***************************************************************************)
(* For any pool, any clients and any number of signals: a main() that      *)
(* returns from listen() has answered every request it could read, and one *)
(* signal cuts nothing off.                                                *)
(*                                                                         *)
(* The first rests on the order of main(): the listener is gone before the *)
(* pool is joined, so that nothing is accepted behind the last answer      *)
(* (Ordered).  The second rests on there being one handler at most while   *)
(* one signal was sent: it finds the socket as main() has left it (Alone). *)
(***************************************************************************)

Typed ==
    /\ conn \in [Clients -> {"none", "backlog", "queued", "serving", "answered",
                             "hungup", "reset"}]
    /\ job \in [Workers -> Clients \cup {None}]
    /\ frames = [t \in Threads |-> frames[t]]
    /\ sock \in {"none", "open", "stale", "invalid"}
    /\ sent \in Nat

AllAnswered == \A c \in Clients : conn[c] \notin {"queued", "serving", "backlog"}

Silent == \A c \in Clients : conn[c] \in {"none", "hungup"} => c \notin spoke

Fresh == \A c \in Clients : conn[c] = "none"

Starting == pc \in {"register", "preflight", "bind"}

Ordered ==
    /\ pc \in {"drain", "return"} => sock \in {"stale", "invalid"}
    /\ pc = "return" => AllAnswered /\ \A w \in Workers : job[w] = None
    /\ proc = "exited" => pc = "return"
    /\ proc = "failed" => pc = "return" \/ Fresh
    /\ sock = "none" => Fresh
    /\ Starting => Fresh /\ sock # "open" /\ ~running
    /\ Starting \/ sock = "none" => \A w \in Workers : job[w] = None
    /\ Silent
    /\ sock # "open" => \A c \in Clients : conn[c] # "backlog"
    /\ \A c \in Clients : conn[c] = "serving" => \E w \in Workers : job[w] = c
    /\ running \/ pc \in {"listen", "accept", "drain", "return"} => sock # "none"

NoHandler == \A t \in Threads : frames[t] = <<>>

In(t, at) == \E s \in ToSet(Signals) : frames[t] = <<[signal |-> s, at |-> at]>>

(* As long as one signal was sent: it is pending, or in one handler.       *)
Alone ==
    /\ sent = 0 => NoHandler /\ pending = {} /\ sock # "invalid"
    /\ sent = 1 /\ pending # {} =>
          /\ NoHandler /\ sock # "invalid"
          /\ \E s \in ToSet(Signals) : pending = {s}
    /\ sent = 1 => \A t \in Threads :
          /\ \/ frames[t] = <<>>
             \/ (In(t, "lock") \/ In(t, "test")) /\ sock # "invalid"
             \/ In(t, "close") /\ sock \in {"open", "stale"}
             \/ In(t, "unlock")
          /\ frames[t] # <<>> => \A u \in Threads \ {t} : frames[u] = <<>>
    /\ proc = "aborted" => sent > 1

IInv == Typed /\ Ordered /\ Alone

-----------------------------------------------------------------------------

LEMMA OneFrame ==
  ASSUME NEW r
  PROVE  /\ Len(<<r>>) = 1 /\ Last(<<r>>) = r /\ Front(<<r>>) = <<>>
         /\ <<r>> # <<>> /\ Append(<<>>, r) = <<r>>
BY DEF Last, Front

LEMMA MovedFrame ==
  ASSUME NEW s, NEW x, NEW y
  PROVE  [<<[signal |-> s, at |-> x]>> EXCEPT ![1].at = y] = <<[signal |-> s, at |-> y]>>
OBVIOUS

LEMMA InitIInv == Init => IInv
<1> SUFFICES ASSUME Init PROVE IInv
  OBVIOUS
<1> QED BY DEF Init, IInv, Typed, Ordered, Alone, AllAnswered, Silent, Fresh, Starting, NoHandler

(* A step of main(), of the pool or of a client: no signal and no handler  *)
(* moves, and the socket is at most opened.                                *)
LEMMA AloneKept ==
  ASSUME IInv, UNCHANGED <<frames, pending, sent>>, proc' # "aborted" \/ proc' = proc,
         sock' \in {sock, "open", "stale"}
  PROVE  Alone'
BY DEF IInv, Alone, NoHandler, In

LEMMA StartKeeps == ASSUME IInv, Register \/ Preflight \/ Bind \/ Listen PROVE IInv'
<1> USE DEF Register, Preflight, Bind, Listen, Runs
<1>1. Alone'
  BY AloneKept
<1>2. Typed'
  BY DEF IInv, Typed
<1>3. Ordered'
  BY DEF IInv, Ordered, AllAnswered, Silent, Fresh, Starting
<1> QED BY <1>1, <1>2, <1>3 DEF IInv

LEMMA AcceptKeeps == ASSUME NEW c \in Clients, IInv, Accept(c) PROVE IInv'
<1> USE DEF Accept, Runs
<1>1. Alone'
  BY AloneKept
<1>2. Typed'
  BY DEF IInv, Typed
<1>3. Ordered'
  BY DEF IInv, Typed, Ordered, Silent, Fresh, Starting
<1> QED BY <1>1, <1>2, <1>3 DEF IInv

LEMMA AcceptFailsKeeps == ASSUME IInv, AcceptFails PROVE IInv'
<1> USE DEF AcceptFails, Runs
<1>1. Alone'
  BY AloneKept
<1>2. Typed'
  BY DEF IInv, Typed
<1>3. Ordered'
  BY DEF IInv, Typed, Ordered, Silent, Fresh, Starting
<1> QED BY <1>1, <1>2, <1>3 DEF IInv

LEMMA StopAcceptingKeeps == ASSUME IInv, StopAccepting PROVE IInv'
<1> USE DEF StopAccepting, Runs
<1>1. Alone'
  BY AloneKept
<1> QED BY <1>1 DEF IInv, Typed, Ordered, Silent, Fresh, Starting

(* Nothing is in the backlog of a socket that is gone, nothing queued, and *)
(* nobody serves.                                                          *)
LEMMA JoinWorkersKeeps == ASSUME IInv, JoinWorkers PROVE IInv'
<1> USE DEF JoinWorkers, Runs
<1>1. Alone'
  BY AloneKept
<1>2. AllAnswered
  BY ShutdownAssumption DEF IInv, Typed, Ordered, AllAnswered, Silent, Fresh, Starting
<1>3. Typed' /\ Ordered'
  BY <1>2 DEF IInv, Typed, Ordered, AllAnswered, Silent, Fresh, Starting
<1> QED BY <1>1, <1>3 DEF IInv

LEMMA ReturnKeeps == ASSUME IInv, Return PROVE IInv'
<1> USE DEF Return, Runs
<1>1. Alone'
  BY AloneKept
<1> QED BY <1>1 DEF IInv, Typed, Ordered, AllAnswered, Silent, Fresh, Starting

LEMMA ConnectKeeps == ASSUME NEW c \in Clients, IInv, Connect(c) PROVE IInv'
<1> USE DEF Connect
<1>1. Alone'
  BY AloneKept
<1>2. Typed' /\ Ordered'
  BY DEF IInv, Typed, Ordered, AllAnswered, Silent, Fresh, Starting
<1> QED BY <1>1, <1>2 DEF IInv

LEMMA SpeakKeeps == ASSUME NEW c \in Clients, IInv, Speak(c) PROVE IInv'
<1> USE DEF Speak
<1>1. Alone'
  BY AloneKept
<1>2. Typed' /\ Ordered'
  BY DEF IInv, Typed, Ordered, AllAnswered, Silent, Fresh, Starting
<1> QED BY <1>1, <1>2 DEF IInv

LEMMA ServeKeeps ==
  ASSUME NEW w \in Workers, NEW c \in Clients, IInv, Serve(w, c) PROVE IInv'
<1> USE DEF Serve, Runs
<1>1. Alone'
  BY AloneKept
<1>2. Typed'
  BY DEF IInv, Typed
<1>3. pc # "return" /\ proc = "running"
  BY DEF IInv, Ordered, AllAnswered, Silent, Fresh, Starting
<1>4. ASSUME NEW d \in Clients, conn'[d] = "serving"
      PROVE  \E v \in Workers : job'[v] = d
  <2>1. CASE d = c
    BY <2>1 DEF IInv, Typed
  <2>2. CASE d # c
    <3>1. conn[d] = "serving"
      BY <1>4, <2>2 DEF IInv, Typed
    <3>2. PICK v \in Workers : job[v] = d
      BY <3>1 DEF IInv, Ordered
    <3>3. v # w
      BY <3>2, ShutdownAssumption
    <3> QED BY <3>2, <3>3 DEF IInv, Typed
  <2> QED BY <2>1, <2>2
<1>5. Ordered'
  BY <1>3, <1>4 DEF IInv, Typed, Ordered, Silent, Fresh, Starting
<1> QED BY <1>1, <1>2, <1>5 DEF IInv

LEMMA HangUpKeeps ==
  ASSUME NEW w \in Workers, NEW c \in Clients, IInv, HangUp(w, c) PROVE IInv'
<1> USE DEF HangUp, Runs
<1>1. Alone'
  BY AloneKept
<1>2. Typed' /\ Ordered'
  BY DEF IInv, Typed, Ordered, AllAnswered, Silent, Fresh, Starting
<1> QED BY <1>1, <1>2 DEF IInv

LEMMA AnswerKeeps == ASSUME NEW w \in Workers, IInv, Answer(w) PROVE IInv'
<1> USE DEF Answer, Runs
<1>1. Alone'
  BY AloneKept
<1>2. job[w] \in Clients /\ pc # "return" /\ proc = "running"
  BY DEF IInv, Typed, Ordered
<1>3. Typed'
  BY <1>2 DEF IInv, Typed
<1>4. ASSUME NEW d \in Clients, conn'[d] = "serving"
      PROVE  \E v \in Workers : job'[v] = d
  <2>1. conn[d] = "serving" /\ d # job[w]
    BY <1>2, <1>4 DEF IInv, Typed
  <2>2. PICK v \in Workers : job[v] = d
    BY <2>1 DEF IInv, Ordered
  <2> QED BY <2>1, <2>2 DEF IInv, Typed
<1>5. Ordered'
  BY <1>2, <1>4 DEF IInv, Typed, Ordered, Silent, Fresh, Starting
<1> QED BY <1>1, <1>3, <1>5 DEF IInv

-----------------------------------------------------------------------------
(* Signals.                                                                *)

LEMMA SendKeeps == ASSUME NEW s \in ToSet(Signals), IInv, Send(s) PROVE IInv'
<1> USE DEF Send
<1>1. Typed' /\ Ordered'
  BY DEF IInv, Typed, Ordered, AllAnswered, Silent, Fresh, Starting
<1>2. Alone'
  <2>1. sent \in Nat /\ sent' = sent + 1 /\ proc' # "aborted"
    BY DEF IInv, Typed
  <2>2. sent' = 1 => NoHandler /\ sock # "invalid" /\ pending' \in {{}, {s}}
    BY <2>1 DEF IInv, Alone
  <2>3. proc = "running" /\ sent' # 0
    BY <2>1
  <2> QED BY <2>1, <2>2, <2>3 DEF Alone, NoHandler
<1> QED BY <1>1, <1>2 DEF IInv

LEMMA DeliverKeeps ==
  ASSUME NEW s \in ToSet(Signals), NEW t \in Threads, IInv, Deliver(s, t) PROVE IInv'
<1> USE DEF Deliver
<1>1. Typed' /\ Ordered'
  BY DEF IInv, Typed, Ordered, AllAnswered, Silent, Fresh, Starting
<1>2. Alone'
  <2>1. sent # 0 /\ proc' # "aborted"
    BY DEF IInv, Alone
  <2>2. ASSUME sent = 1
        PROVE  /\ pending' = {} /\ sock # "invalid"
               /\ frames'[t] = <<[signal |-> s, at |-> "lock"]>>
               /\ \A u \in Threads \ {t} : frames'[u] = <<>>
    BY <2>2, OneFrame DEF IInv, Typed, Alone, NoHandler
  <2> QED BY <2>1, <2>2 DEF Alone, In
<1> QED BY <1>1, <1>2 DEF IInv

(* A handler that is alone has one frame, and moving it moves that one.    *)
LEMMA MoveKeepsTyped ==
  ASSUME NEW t \in Threads, Typed,
         \/ \E at : MoveTo(t, at)
         \/ frames' = [frames EXCEPT ![t] = Front(@)],
         UNCHANGED <<job, sent>>, conn' \in [Clients -> {"none", "backlog", "queued",
                                        "serving", "answered", "hungup", "reset"}],
         sock' \in {"none", "open", "stale", "invalid"}
  PROVE  Typed'
BY DEF Typed, MoveTo

LEMMA InOnePlace ==
  ASSUME NEW t \in Threads, NEW at, In(t, at)
  PROVE  frames[t] # <<>> /\ \A other : In(t, other) => other = at
<1>1. ASSUME NEW other, In(t, other) PROVE frames[t][1].at = other
  BY <1>1 DEF In
<1> QED BY <1>1, OneFrame DEF In

LEMMA MovesAlone ==
  ASSUME NEW t \in Threads, IInv, sent = 1, NEW from, InHandler(t, from), NEW to, MoveTo(t, to)
  PROVE  /\ In(t, from) /\ In(t, to)'
         /\ \A u \in Threads \ {t} : frames[u] = <<>> /\ frames'[u] = <<>>
<1>1. PICK s \in ToSet(Signals), at \in {"lock", "test", "close", "unlock"} :
         frames[t] = <<[signal |-> s, at |-> at]>>
  BY DEF IInv, Alone, InHandler, In
<1>2. at = from
  BY <1>1, OneFrame DEF InHandler
<1>3. frames'[t] = <<[signal |-> s, at |-> to]>>
  <2>1. frames'[t] = [frames[t] EXCEPT ![Len(frames[t])].at = to]
    BY DEF MoveTo, IInv, Typed
  <2>2. Len(frames[t]) = 1
    BY <1>1, OneFrame
  <2> QED BY <1>1, <2>1, <2>2, MovedFrame
<1>4. \A u \in Threads \ {t} : frames[u] = <<>> /\ frames'[u] = <<>>
  BY <1>1, OneFrame DEF IInv, Alone, MoveTo, Typed
<1> QED BY <1>1, <1>2, <1>3, <1>4 DEF In

LEMMA LockKeeps == ASSUME NEW t \in Threads, IInv, Lock(t) PROVE IInv'
<1> USE DEF Lock
<1>1. Typed' /\ Ordered'
  BY MoveKeepsTyped DEF IInv, Typed, Ordered, AllAnswered, Silent, Fresh, Starting, InHandler
<1>2. Alone'
  <2>1. sent # 0 /\ proc' # "aborted"
    BY DEF IInv, Alone, NoHandler, InHandler
  <2>2. ASSUME sent = 1
        PROVE  /\ pending = {} /\ sock # "invalid"
               /\ In(t, "test")' /\ \A u \in Threads \ {t} : frames'[u] = <<>>
    <3>1. In(t, "lock") /\ In(t, "test")' /\ \A u \in Threads \ {t} : frames'[u] = <<>>
      BY <2>2, MovesAlone
    <3>2. ~In(t, "unlock") /\ ~In(t, "close") /\ frames[t] # <<>>
      BY <3>1, InOnePlace
    <3> QED BY <2>2, <3>1, <3>2 DEF IInv, Alone, NoHandler
  <2> QED BY <2>1, <2>2 DEF Alone
<1> QED BY <1>1, <1>2 DEF IInv

LEMMA TestRunningKeeps == ASSUME NEW t \in Threads, IInv, TestRunning(t) PROVE IInv'
<1> USE DEF TestRunning
<1>1. Typed' /\ Ordered'
  BY MoveKeepsTyped DEF IInv, Typed, Ordered, AllAnswered, Silent, Fresh, Starting, InHandler
<1>2. Alone'
  <2>1. sent # 0 /\ proc' # "aborted"
    BY DEF IInv, Alone, NoHandler, InHandler
  <2>2. ASSUME sent = 1
        PROVE  /\ pending = {}
               /\ (In(t, "close")' /\ sock \in {"open", "stale"}) \/ In(t, "unlock")'
               /\ \A u \in Threads \ {t} : frames'[u] = <<>>
    <3>1. /\ In(t, "test") /\ In(t, IF running THEN "close" ELSE "unlock")'
          /\ \A u \in Threads \ {t} : frames'[u] = <<>>
      BY <2>2, MovesAlone
    <3>2. ~In(t, "unlock") /\ ~In(t, "close") /\ frames[t] # <<>>
      BY <3>1, InOnePlace
    <3>3. pending = {} /\ sock # "invalid"
      BY <2>2, <3>1, <3>2 DEF IInv, Alone, NoHandler
    <3>4. running => sock \in {"open", "stale"}
      BY <3>3 DEF IInv, Typed, Ordered
    <3> QED BY <3>1, <3>3, <3>4
  <2> QED BY <2>1, <2>2 DEF Alone
<1> QED BY <1>1, <1>2 DEF IInv

LEMMA CloseSocketKeeps == ASSUME NEW t \in Threads, IInv, CloseSocket(t) PROVE IInv'
<1> USE DEF CloseSocket
<1>1. sent # 0 /\ proc = "running"
  BY DEF IInv, Alone, NoHandler, InHandler
<1>2. sent = 1 => /\ sock \in {"open", "stale"} /\ pending = {}
                  /\ \A u \in Threads \ {t} : frames[u] = <<>>
  <2> SUFFICES ASSUME sent = 1, ~ (sock \in {"open", "stale"} /\ pending = {}
                                    /\ \A u \in Threads \ {t} : frames[u] = <<>>)
               PROVE  FALSE
    OBVIOUS
  <2>1. In(t, "close")
    <3>1. PICK at \in {"lock", "test", "close", "unlock"} : In(t, at)
      BY DEF IInv, Alone, InHandler
    <3>2. Last(frames[t]).at = at
      BY <3>1, OneFrame DEF In
    <3> QED BY <3>1, <3>2 DEF InHandler
  <2>2. ~In(t, "unlock") /\ ~In(t, "lock") /\ ~In(t, "test") /\ frames[t] # <<>>
    BY <2>1, InOnePlace
  <2> QED BY <2>2 DEF IInv, Alone, NoHandler
<1>3. CASE Asserts /\ sock \notin {"open", "stale"}
  <2>1. sent > 1
    BY <1>1, <1>2, <1>3 DEF IInv, Typed
  <2> QED BY <1>3, <2>1 DEF IInv, Typed, Ordered, Alone, AllAnswered, Silent, Fresh, Starting
<1>4. CASE ~(Asserts /\ sock \notin {"open", "stale"})
  <2> USE <1>4
  <2>1. Typed'
    BY MoveKeepsTyped DEF IInv, Typed
  <2>2. Ordered'
    BY DEF IInv, Typed, Ordered, AllAnswered, Silent, Fresh, Starting
  <2>3. ASSUME sent = 1
        PROVE  In(t, "unlock")' /\ \A u \in Threads \ {t} : frames'[u] = <<>>
    BY <2>3, MovesAlone
  <2>4. Alone'
    BY <1>1, <1>2, <2>3 DEF Alone
  <2> QED BY <2>1, <2>2, <2>4 DEF IInv
<1> QED BY <1>3, <1>4

LEMMA UnlockKeeps == ASSUME NEW t \in Threads, IInv, Unlock(t) PROVE IInv'
<1> USE DEF Unlock
<1>1. Typed' /\ Ordered'
  BY MoveKeepsTyped DEF IInv, Typed, Ordered, AllAnswered, Silent, Fresh, Starting, InHandler
<1>2. Alone'
  <2>1. sent # 0 /\ proc' # "aborted"
    BY DEF IInv, Alone, NoHandler, InHandler
  <2>2. ASSUME sent = 1
        PROVE  pending = {} /\ \A u \in Threads : frames'[u] = <<>>
    <3>1. frames[t] # <<>>
      BY DEF InHandler
    <3>2. PICK r : frames[t] = <<r>>
      BY <2>2, <3>1 DEF IInv, Alone, In
    <3>3. frames'[t] = <<>>
      BY <3>2, OneFrame DEF IInv, Typed
    <3> QED BY <2>2, <3>1, <3>3 DEF IInv, Typed, Alone, NoHandler
  <2> QED BY <2>1, <2>2 DEF Alone
<1> QED BY <1>1, <1>2 DEF IInv

LEMMA NextIInv == IInv /\ [Next]_vars => IInv'
<1> SUFFICES ASSUME IInv, [Next]_vars PROVE IInv'
  OBVIOUS
<1>1. ASSUME MainStep PROVE IInv'
  BY <1>1, StartKeeps, AcceptKeeps, StopAcceptingKeeps, JoinWorkersKeeps,
     ReturnKeeps
  DEF MainStep
<1>2. ASSUME NEW w \in Workers, Worker(w) PROVE IInv'
  BY <1>2, ServeKeeps, HangUpKeeps, AnswerKeeps DEF Worker
<1>3. ASSUME NEW t \in Threads, Handler(t) PROVE IInv'
  BY <1>3, LockKeeps, TestRunningKeeps, CloseSocketKeeps, UnlockKeeps DEF Handler
<1>4. ASSUME NEW s \in ToSet(Signals), Send(s) \/ Delivery(s) PROVE IInv'
  BY <1>4, SendKeeps, DeliverKeeps DEF Delivery
<1>5. CASE UNCHANGED vars
  BY <1>5 DEF vars, IInv, Typed, Ordered, Alone, AllAnswered, Silent, Fresh, Starting, NoHandler, In
<1> QED BY <1>1, <1>2, <1>3, <1>4, <1>5, AcceptFailsKeeps, ConnectKeeps, SpeakKeeps DEF Next

LEMMA Invariance == Spec => []IInv
BY InitIInv, NextIInv, PTL DEF Spec

-----------------------------------------------------------------------------

(* A main() that returns from listen(), for a signal or for a failed       *)
(* accept(), has answered every request it could read, whatever signals    *)
(* were sent; and one signal never ends the process, by an assertion or    *)
(* otherwise, with a request in progress.                                  *)
THEOREM ShutdownDrains == Spec => []Drains
<1>1. IInv => ExitsDrained
  BY DEF IInv, Typed, Ordered, AllAnswered, Silent, Fresh, Starting, ExitsDrained
<1>2. IInv => NeverCutOff
  BY DEF IInv, Typed, Ordered, Alone, AllAnswered, Fresh, Starting, NeverCutOff
<1>3. IInv => Drains
  BY <1>1, <1>2 DEF Drains
<1> QED BY <1>3, Invariance, PTL
=============================================================================
