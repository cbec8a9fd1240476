----------------------- MODULE ReplayTransportProofs -----------------------
(***************************************************************************)
(* For any number of replays, crashes, trace files and probe names: what   *)
(* the forwarder leaves in the project and what the server compiles.       *)
(*                                                                         *)
(* The argument follows an attempt: what it uploads holds no probe         *)
(* (Uploading), what its request has unpacked is what was sent, all of it  *)
(* once the compiler runs, so that the probes found behind the compiler    *)
(* are its own (Handling), and the forwarder touches the project only with *)
(* those in its hands (Extracting).  Attempts meet in the project and      *)
(* nowhere else, and at most one of them is at work there (Sequential).    *)
(***************************************************************************)
EXTENDS ReplayTransport, TLAPS

Uploading(a) ==
    /\ cpc[a] \in {"idle", "connect"} =>
          hpc[a] = "none" /\ sent[a] = {} /\ body[a] = "open"
    /\ cpc[a] = "idle" => code[a] = {}
    /\ cpc[a] = "stream" => body[a] = "open"
    /\ sent[a] \subseteq entries[a]
    /\ body[a] = "complete" => sent[a] = entries[a]
    /\ \A f \in entries[a] : ~IsProbe(f)

Own(a) == {Probe(n, a) : n \in ProbeNames}

Handling(a) ==
    /\ hpc[a] # "done" => reply[a] = {}
    /\ hpc[a] = "unpack" => tempdir[a] \subseteq sent[a]
    /\ hpc[a] = "compile" => tempdir[a] = entries[a]
    /\ hpc[a] = "pack" =>
          /\ tempdir[a] \subseteq Files
          /\ produced[a] = {f \in tempdir[a] : IsProbe(f)}
    /\ hpc[a] \in {"none", "headers", "drain"} => tempdir[a] = NoDir
    /\ hpc[a] \in {"unpack", "compile", "pack"} => tempdir[a] # NoDir
    /\ hpc[a] = "done" => tempdir[a] = NoDir \/ a \in kept
    /\ a \in kept => hpc[a] = "done"
    /\ \A r, s \in reply[a] : r = s
    /\ \A r \in reply[a] : r.status = 200 => r.files = produced[a]
    /\ produced[a] \subseteq Own(a)

Answered(a) == hpc[a] = "done" /\ \E r \in reply[a] : r.status = 200

Extracting(a) ==
    /\ cpc[a] \in {"clean", "unpack"} \/ code[a] = {0} => Answered(a)
    /\ code[a] = {0} => cpc[a] = "exited"
    /\ cpc[a] = "clean" => left[a] = produced[a]
    /\ cpc[a] = "unpack" =>
          /\ left[a] \subseteq produced[a] /\ probes \subseteq produced[a]
          /\ produced[a] \ left[a] \subseteq probes

Sequential ==
    \A a, b \in Attempts : b < a /\ cpc[a] # "idle" => cpc[b] = "exited"

Attempt(a) == Uploading(a) /\ Handling(a) /\ Extracting(a)

IInv ==
    /\ TypeOK /\ Sequential
    /\ \A a \in Attempts : Attempt(a)
    /\ Fresh /\ NeverMixed /\ KeepsOld

-----------------------------------------------------------------------------

LEMMA AttemptIsNat == ASSUME NEW a \in Attempts PROVE a \in Nat /\ a # 0
BY TransportAssumption DEF Attempts

LEMMA OwnAreProbes ==
  ASSUME NEW a \in Attempts
  PROVE  /\ Own(a) \subseteq Probes
         /\ \A p \in Own(a) : IsProbe(p) /\ p.from = a
         /\ \A p, q \in Own(a) : p.name = q.name => p = q
BY AttemptIsNat DEF Own, Probes, Probe, IsProbe

LEMMA IsDir == \A dir : dir \subseteq Files => dir # NoDir
BY TransportAssumption

LEMMA Failures == \A c \in {1, 2, 3, 4, 5, 6, 137} : {c} # {0}
<1> SUFFICES ASSUME NEW c \in {1, 2, 3, 4, 5, 6, 137}, {c} = {0} PROVE FALSE
  OBVIOUS
<1>1. c \in {0}
  OBVIOUS
<1> QED BY <1>1

LEMMA InitIInv == Init => IInv
<1> SUFFICES ASSUME Init PROVE IInv
  OBVIOUS
<1> USE DEF Init
<1>1. TypeOK
  BY TransportAssumption DEF TypeOK, ClientStates
<1>2. Sequential /\ Fresh /\ NeverMixed /\ KeepsOld
  BY DEF Sequential, Fresh, NeverMixed, KeepsOld, Latest
<1>3. ASSUME NEW a \in Attempts PROVE Attempt(a)
  BY DEF Attempt, Uploading, Handling, Extracting
<1> QED BY <1>1, <1>2, <1>3 DEF IInv

(* A step of the request of a that has not been answered: what the others  *)
(* are, and what the forwarder has, stays as it was.                       *)
LEMMA HandlerStep ==
  ASSUME NEW a \in Attempts, IInv, UNCHANGED client,
         hpc[a] \notin {"none", "done"},
         \A u \in Attempts \ {a} :
            /\ hpc'[u] = hpc[u] /\ tempdir'[u] = tempdir[u]
            /\ reply'[u] = reply[u] /\ produced'[u] = produced[u]
            /\ u \in kept' <=> u \in kept,
         TypeOK', Handling(a)'
  PROVE  IInv'
<1> USE DEF client
<1>1. Sequential' /\ NeverMixed'
  BY DEF IInv, Sequential, NeverMixed
<1>2. Attempt(a)'
  <2>1. Uploading(a)'
    BY DEF IInv, Attempt, Uploading
  <2>2. Extracting(a)'
    BY DEF IInv, Attempt, Extracting, Answered
  <2> QED BY <2>1, <2>2 DEF Attempt
<1>3. ASSUME NEW u \in Attempts, u # a PROVE Attempt(u)'
  <2>1. Uploading(u)'
    BY <1>3 DEF IInv, Attempt, Uploading
  <2>2. Handling(u)'
    BY <1>3 DEF IInv, Attempt, Handling
  <2>3. Extracting(u)'
    BY <1>3 DEF IInv, Attempt, Extracting, Answered
  <2> QED BY <2>1, <2>2, <2>3 DEF Attempt
<1>4. Fresh'
  <2> SUFFICES ASSUME NEW u \in Attempts, Latest(u)', code'[u] = {0}
               PROVE  probes' = produced'[u] /\ probes' # {}
    BY DEF Fresh
  <2>1. u # a
    BY DEF IInv, Attempt, Extracting, Answered
  <2> QED BY <2>1 DEF IInv, Fresh, Latest
<1>5. KeepsOld'
  <2> SUFFICES ASSUME NEW u \in Attempts, Latest(u)', probes' # before'[u]
               PROVE  Answered(u)'
    BY DEF KeepsOld, Answered
  <2>1. Answered(u)
    BY DEF IInv, KeepsOld, Latest, Answered
  <2>2. u # a
    BY <2>1 DEF Answered
  <2> QED BY <2>1, <2>2 DEF Answered
<1> QED BY <1>1, <1>2, <1>3, <1>4, <1>5 DEF IInv

(* A step of the forwarder of a.  It is the only one at work, and touches  *)
(* the probes only in its last two states.                                 *)
LEMMA ForwarderStep ==
  ASSUME NEW a \in Attempts, IInv,
         cpc[a] \notin {"idle", "exited"}, cpc'[a] # "idle",
         \A u \in Attempts \ {a} :
            /\ cpc'[u] = cpc[u] /\ code'[u] = code[u] /\ entries'[u] = entries[u]
            /\ sent'[u] = sent[u] /\ body'[u] = body[u] /\ left'[u] = left[u]
            /\ hpc'[u] = hpc[u],
         UNCHANGED <<before, tempdir, kept, reply, produced>>,
         hpc[a] = "done" => hpc'[a] = "done",
         TypeOK', Uploading(a)', Handling(a)', Extracting(a)', NeverMixed',
         probes' = probes \/ cpc[a] \in {"clean", "unpack"},
         code'[a] = {0} => probes' = produced[a] /\ probes' # {}
  PROVE  IInv'
<1>1. ASSUME NEW u \in Attempts, u # a PROVE cpc[u] \in {"idle", "exited"}
  BY <1>1, AttemptIsNat DEF IInv, Sequential
<1>2. Sequential'
  <2> SUFFICES ASSUME NEW u \in Attempts, NEW v \in Attempts, v < u, cpc'[u] # "idle"
               PROVE  cpc'[v] = "exited"
    BY DEF Sequential
  <2>1. cpc[u] # "idle"
    OBVIOUS
  <2>2. cpc[v] = "exited"
    BY <2>1 DEF IInv, Sequential
  <2> QED BY <2>2
<1>3. ASSUME NEW u \in Attempts, u # a PROVE Attempt(u)'
  <2>1. Uploading(u)'
    BY <1>3 DEF IInv, Attempt, Uploading
  <2>2. Handling(u)'
    BY <1>3 DEF IInv, Attempt, Handling
  <2>3. Extracting(u)'
    BY <1>1, <1>3 DEF IInv, Attempt, Extracting, Answered
  <2> QED BY <2>1, <2>2, <2>3 DEF Attempt
<1>4. ASSUME NEW u \in Attempts, Latest(u)' PROVE u = a
  <2>1. u < a => FALSE
    BY <1>4 DEF Latest
  <2>2. a < u => FALSE
    <3> HAVE a < u
    <3>1. cpc[u] # "idle"
      BY <1>4, AttemptIsNat DEF Latest
    <3> QED BY <3>1 DEF IInv, Sequential
  <2> QED BY <2>1, <2>2, AttemptIsNat
<1>5. Latest(a)
  <2> SUFFICES ASSUME NEW u \in Attempts, u > a PROVE cpc[u] = "idle"
    BY DEF Latest
  <2> QED BY DEF IInv, Sequential
<1>6. Fresh'
  BY <1>4 DEF Fresh
<1>7. KeepsOld'
  <2> SUFFICES ASSUME probes' # before[a] PROVE Answered(a)'
    BY <1>4 DEF KeepsOld, Answered
  <2>1. CASE probes' = probes
    BY <2>1, <1>5 DEF IInv, KeepsOld, Answered
  <2>2. CASE cpc[a] \in {"clean", "unpack"}
    BY <2>2 DEF IInv, Attempt, Extracting, Answered
  <2> QED BY <2>1, <2>2
<1> QED BY <1>2, <1>3, <1>6, <1>7 DEF IInv, Attempt

-----------------------------------------------------------------------------
(* The handler.                                                            *)

NothingToRemove(a) == tempdir[a] = NoDir /\ UNCHANGED <<tempdir, kept>>

LEMMA Answers ==
  ASSUME NEW a \in Attempts, IInv, Active(a),
         NEW status \in {200, 400, 500}, NEW files \in SUBSET Probes,
         status = 200 => files = produced[a],
         Answer(a, status, files), UNCHANGED produced,
         RemoveAll(a) \/ NothingToRemove(a)
  PROVE  IInv'
<1> USE DEF Answer, RemoveAll, NothingToRemove
<1>1. TypeOK'
  BY DEF IInv, TypeOK, client
<1>2. Handling(a)'
  <2> DEFINE answer == [status |-> status, files |-> files]
  <2>1. /\ hpc'[a] = "done" /\ reply'[a] = {answer}
        /\ tempdir'[a] = NoDir \/ a \in kept'
        /\ answer.status = status /\ answer.files = files
    BY DEF IInv, TypeOK
  <2>2. produced'[a] = produced[a] /\ produced[a] \subseteq Own(a) /\ Own(a)' = Own(a)
    BY DEF IInv, Attempt, Handling, Own
  <2> HIDE DEF answer, Answer, RemoveAll, NothingToRemove
  <2>3. \A x \in reply'[a] : x = answer
    BY <2>1
  <2> QED BY <2>1, <2>2, <2>3 DEF Handling
<1>3. hpc[a] \notin {"none", "done"} /\ UNCHANGED client
  BY DEF Active
<1>4. \A u \in Attempts \ {a} :
         /\ hpc'[u] = hpc[u] /\ tempdir'[u] = tempdir[u]
         /\ reply'[u] = reply[u] /\ produced'[u] = produced[u]
         /\ u \in kept' <=> u \in kept
  BY DEF IInv, TypeOK
<1> HIDE DEF Answer, RemoveAll, NothingToRemove
<1> QED BY <1>1, <1>2, <1>3, <1>4, HandlerStep, Zenon

(* Before the directory is made, none can stay.                            *)
LEMMA AnswersWithoutDir ==
  ASSUME NEW a \in Attempts, IInv, hpc[a] \in {"headers", "drain"},
         Answer(a, 400, {}), UNCHANGED <<tempdir, kept, produced>>
  PROVE  IInv'
<1>1. tempdir[a] = NoDir /\ Active(a)
  BY DEF IInv, Attempt, Handling, Active
<1> QED BY <1>1, Answers DEF NothingToRemove

LEMMA HeadersKeeps == ASSUME NEW a \in Attempts, IInv, Headers(a) PROVE IInv'
<1> USE DEF Headers
<1>1. TypeOK'
  BY DEF IInv, TypeOK, client
<1>2. Handling(a)'
  <2>1. {} # NoDir
    BY IsDir
  <2> QED BY <2>1 DEF IInv, TypeOK, Attempt, Handling, client, Own
<1> QED BY <1>1, <1>2, HandlerStep DEF IInv, TypeOK

LEMMA ExtractKeeps == ASSUME NEW a \in Attempts, IInv, Extract(a) PROVE IInv'
<1> USE DEF Extract
<1>1. PICK f \in sent[a] \ tempdir[a] : tempdir' = [tempdir EXCEPT ![a] = @ \cup {f}]
  OBVIOUS
<1>2. tempdir[a] \subseteq sent[a] /\ sent[a] \subseteq Files
  BY DEF IInv, TypeOK, Attempt, Handling
<1>3. TypeOK'
  BY <1>1, <1>2 DEF IInv, TypeOK, client
<1>4. Handling(a)'
  <2>1. tempdir'[a] # NoDir
    BY <1>1, <1>2, IsDir DEF IInv, TypeOK
  <2> QED BY <1>1, <1>2, <2>1 DEF IInv, TypeOK, Attempt, Handling, client, Own
<1> QED BY <1>1, <1>3, <1>4, HandlerStep DEF IInv, TypeOK

LEMMA UnpackDoneKeeps == ASSUME NEW a \in Attempts, IInv, UnpackDone(a) PROVE IInv'
<1> USE DEF UnpackDone
<1>1. TypeOK'
  BY DEF IInv, TypeOK, client
<1>2. Handling(a)'
  BY DEF IInv, TypeOK, Attempt, Uploading, Handling, client, Own
<1> QED BY <1>1, <1>2, HandlerStep DEF IInv, TypeOK

LEMMA CompileKeeps == ASSUME NEW a \in Attempts, IInv, Compile(a) PROVE IInv'
<1> USE DEF Compile
<1>1. PICK names \in SUBSET ProbeNames :
         LET new == {Probe(n, a) : n \in names} IN
         /\ produced' = [produced EXCEPT ![a] = new]
         /\ tempdir' = [tempdir EXCEPT ![a] =
                           {f \in @ : ~(IsProbe(f) /\ f.name \in names)} \cup new]
  OBVIOUS
<1> DEFINE new == {Probe(n, a) : n \in names}
<1>2. new \subseteq Own(a)
  BY DEF Own
<1>3. \A p \in new : IsProbe(p) /\ p \in Probes
  BY <1>2, OwnAreProbes
<1>4. tempdir[a] = entries[a] /\ entries[a] \subseteq Files
  BY DEF IInv, TypeOK, Attempt, Handling
<1>5. \A f \in tempdir[a] : ~IsProbe(f)
  BY <1>4 DEF IInv, Attempt, Uploading
<1> HIDE DEF new
<1>6. /\ produced' = [produced EXCEPT ![a] = new]
      /\ tempdir' = [tempdir EXCEPT ![a] = tempdir[a] \cup new]
  BY <1>1, <1>5 DEF new
<1>7. TypeOK'
  BY <1>3, <1>4, <1>6 DEF IInv, TypeOK, client, Files
<1>8. Handling(a)'
  <2>1. tempdir'[a] = tempdir[a] \cup new /\ produced'[a] = new
    BY <1>6 DEF IInv, TypeOK
  <2>2. tempdir'[a] \subseteq Files
    BY <2>1, <1>3, <1>4 DEF Files
  <2>3. produced'[a] = {f \in tempdir'[a] : IsProbe(f)}
    BY <2>1, <1>3, <1>5
  <2>4. hpc'[a] = "pack" /\ reply'[a] = {}
    BY DEF IInv, TypeOK, Attempt, Handling
  <2>5. Own(a)' = Own(a)
    BY DEF Own
  <2>6. Files' = Files /\ \A f : IsProbe(f)' <=> IsProbe(f)
    BY DEF Files, IsProbe
  <2>7. tempdir'[a] # NoDir /\ a \notin kept'
    BY <2>2, IsDir DEF IInv, Attempt, Handling
  <2> QED BY <1>2, <2>1, <2>2, <2>3, <2>4, <2>7 DEF Handling, Own
<1> QED BY <1>6, <1>7, <1>8, HandlerStep DEF IInv, TypeOK

LEMMA PackKeeps == ASSUME NEW a \in Attempts, IInv, Pack(a) PROVE IInv'
<1> DEFINE found == {f \in tempdir[a] : IsProbe(f)}
<1>1. hpc[a] = "pack" /\ UNCHANGED produced /\ RemoveAll(a)
  BY DEF Pack
<1>2. found = produced[a] /\ found \in SUBSET Probes
  BY <1>1 DEF IInv, TypeOK, Attempt, Handling
<1> HIDE DEF found
<1>3. Answer(a, 200, found) \/ Answer(a, 500, {})
  BY DEF Pack, found
<1> QED BY <1>1, <1>2, <1>3, Answers DEF Active

LEMMA ExistsThrowsKeeps == ASSUME NEW a \in Attempts, IInv, ExistsThrows(a) PROVE IInv'
BY Answers DEF ExistsThrows, Active, RemoveAll

LEMMA HandlerKeeps == ASSUME NEW a \in Attempts, IInv, Handler(a) PROVE IInv'
<1>1. CASE Reject(a)
  BY <1>1, AnswersWithoutDir DEF Reject
<1>2. CASE MkdtempFails(a)
  BY <1>2, AnswersWithoutDir DEF MkdtempFails
<1>3. CASE UnpackFails(a)
  BY <1>3, Answers DEF UnpackFails, Active
<1>4. CASE SpawnFails(a)
  BY <1>4, Answers DEF SpawnFails, Active
<1>5. CASE CompilerFails(a)
  BY <1>5, Answers DEF CompilerFails, Active
<1>6. CASE NoProbes(a)
  BY <1>6, Answers DEF NoProbes, Active
<1> QED BY <1>1, <1>2, <1>3, <1>4, <1>5, <1>6, HeadersKeeps, ExtractKeeps, UnpackDoneKeeps,
        CompileKeeps, ExistsThrowsKeeps, PackKeeps DEF Handler

LEMMA CrashKeeps == ASSUME IInv, Crash PROVE IInv'
<1> USE DEF Crash
<1>1. TypeOK'
  <2>1. hpc' \in [Attempts -> {"none", "headers", "drain", "unpack", "compile",
                              "pack", "done", "dead"}]
    BY DEF IInv, TypeOK
  <2>2. crashes' \in 0 .. MaxCrashes
    BY TransportAssumption DEF IInv, TypeOK
  <2> QED BY <2>1, <2>2 DEF IInv, TypeOK, client
<1>2. ASSUME NEW a \in Attempts
      PROVE  /\ hpc[a] = "none" <=> hpc'[a] = "none"
             /\ hpc[a] = "done" <=> hpc'[a] = "done"
             /\ hpc'[a] \in {"none", "done", "dead"}
  BY DEF IInv, TypeOK, Active
<1>3. ASSUME NEW a \in Attempts PROVE Attempt(a)'
  <2>1. Uploading(a)'
    BY <1>2 DEF IInv, Attempt, Uploading, client
  <2>2. Handling(a)'
    BY <1>2 DEF IInv, Attempt, Handling
  <2>3. Extracting(a)'
    BY <1>2 DEF IInv, Attempt, Extracting, Answered, client
  <2> QED BY <2>1, <2>2, <2>3 DEF Attempt
<1>4. Sequential' /\ Fresh' /\ NeverMixed'
  BY DEF IInv, Sequential, Fresh, NeverMixed, Latest, client
<1>5. KeepsOld'
  BY <1>2 DEF IInv, KeepsOld, Latest, client
<1> QED BY <1>1, <1>3, <1>4, <1>5 DEF IInv

LEMMA RestartKeeps == ASSUME IInv, Restart PROVE IInv'
<1> USE DEF Restart
<1>1. TypeOK' /\ Sequential' /\ Fresh' /\ NeverMixed' /\ KeepsOld'
  BY DEF IInv, TypeOK, Sequential, Fresh, NeverMixed, KeepsOld, Latest, client
<1>2. ASSUME NEW a \in Attempts PROVE Attempt(a)'
  BY DEF IInv, Attempt, Uploading, Handling, Extracting, Answered, client
<1> QED BY <1>1, <1>2 DEF IInv

LEMMA StutterKeeps == ASSUME IInv, UNCHANGED vars PROVE IInv'
<1> USE DEF vars, client, server
<1>1. TypeOK' /\ Sequential' /\ Fresh' /\ NeverMixed' /\ KeepsOld'
  BY DEF IInv, TypeOK, Sequential, Fresh, NeverMixed, KeepsOld, Latest
<1>2. ASSUME NEW a \in Attempts PROVE Attempt(a)'
  BY DEF IInv, Attempt, Uploading, Handling, Extracting, Answered
<1> QED BY <1>1, <1>2 DEF IInv

-----------------------------------------------------------------------------
(* The forwarder.                                                          *)

LEMMA BeginKeeps == ASSUME NEW a \in Attempts, IInv, Begin(a) PROVE IInv'
<1> USE DEF Begin, server
<1>1. entries' = entries \/
      entries' = [entries EXCEPT ![a] = {f \in TraceSet \cup probes : Shipped(f)}]
  OBVIOUS
<1>2. cpc'[a] # "idle" /\ \A u \in Attempts \ {a} : cpc'[u] = cpc[u]
  BY DEF Exit, Goto, IInv, TypeOK
<1>3. TypeOK'
  <2>1. cpc' \in [Attempts -> ClientStates] /\ code' \in [Attempts -> SUBSET (0 .. 6 \cup {137})]
    BY DEF Exit, Goto, IInv, TypeOK, ClientStates
  <2>2. entries' \in [Attempts -> SUBSET Files]
    BY <1>1 DEF IInv, TypeOK, Files
  <2> QED BY <2>1, <2>2 DEF IInv, TypeOK
<1>4. code'[a] # {0} /\ cpc'[a] \notin {"clean", "unpack"}
  <2>1. code[a] = {} /\ cpc \in [Attempts -> ClientStates] /\ code \in [Attempts -> SUBSET (0 .. 6 \cup {137})]
    BY DEF IInv, TypeOK, Attempt, Uploading
  <2>2. ASSUME NEW c \in {1, 2}, Exit(a, c) PROVE code'[a] = {c} /\ cpc'[a] = "exited"
    BY <2>1, <2>2 DEF Exit
  <2>3. ASSUME Goto(a, "connect") PROVE code'[a] = {} /\ cpc'[a] = "connect"
    BY <2>1, <2>3 DEF Goto
  <2>4. {} # {0}
    OBVIOUS
  <2> QED BY <2>2, <2>3, <2>4, Failures
<1>5. Attempt(a)'
  <2>1. Uploading(a)'
    <3>1. \A f \in entries'[a] : ~IsProbe(f)
      BY <1>1 DEF IInv, TypeOK, Attempt, Uploading, Shipped
    <3>2. sent'[a] = {} /\ body'[a] = "open" /\ hpc'[a] = "none"
      BY DEF IInv, Attempt, Uploading
    <3> QED BY <1>2, <3>1, <3>2 DEF Uploading, IsProbe
  <2>2. Handling(a)'
    BY DEF IInv, Attempt, Uploading, Handling
  <2>3. Extracting(a)'
    BY <1>4 DEF Extracting
  <2> QED BY <2>1, <2>2, <2>3 DEF Attempt
<1>6. ASSUME NEW u \in Attempts, u # a PROVE Attempt(u)'
  <2>1. /\ cpc'[u] = cpc[u] /\ code'[u] = code[u] /\ entries'[u] = entries[u]
    BY <1>1, <1>6 DEF Exit, Goto, IInv, TypeOK
  <2> QED BY <2>1 DEF IInv, Attempt, Uploading, Handling, Extracting, Answered
<1>7. Sequential'
  <2> SUFFICES ASSUME NEW u \in Attempts, NEW v \in Attempts, v < u, cpc'[u] # "idle"
               PROVE  cpc'[v] = "exited"
    BY DEF Sequential
  <2>1. CASE u = a
    BY <2>1, <1>2, AttemptIsNat DEF Attempts
  <2>2. CASE u # a
    BY <2>2, <1>2, AttemptIsNat DEF IInv, Sequential
  <2> QED BY <2>1, <2>2
<1>8. ASSUME NEW u \in Attempts, Latest(u)' PROVE u = a
  <2>1. ~(u < a)
    BY <1>2, <1>8 DEF Latest
  <2>2. ~(a < u)
    BY <1>2, <1>8, AttemptIsNat DEF IInv, Sequential, Latest
  <2> QED BY <2>1, <2>2, AttemptIsNat
<1>9. Fresh' /\ NeverMixed' /\ KeepsOld'
  <2>1. before'[a] = probes'
    BY DEF IInv, TypeOK
  <2> QED BY <1>4, <1>8, <2>1 DEF Fresh, NeverMixed, KeepsOld, IInv
<1> QED BY <1>3, <1>5, <1>6, <1>7, <1>9 DEF IInv

(* The steps up to the answer leave the probes alone.                      *)
LEMMA ConnectKeeps == ASSUME NEW a \in Attempts, IInv, Connect(a) PROVE IInv'
<1> USE DEF Connect, Exit, Goto
<1>1. TypeOK'
  BY DEF IInv, TypeOK, ClientStates
<1>2. hpc[a] = "none" /\ cpc'[a] \in {"stream", "exited"}
  BY DEF IInv, TypeOK, Attempt, Uploading
<1>3. NeverMixed'
  BY DEF IInv, NeverMixed
<1>4. code'[a] # {0}
  <2>1. code[a] # {0}
    BY DEF IInv, Attempt, Extracting
  <2>2. code'[a] = code[a] \/ code'[a] = {3}
    BY DEF IInv, TypeOK
  <2> QED BY <2>1, <2>2, Failures
<1>5. Uploading(a)'
  BY DEF IInv, TypeOK, Attempt, Uploading
<1>6. Handling(a)'
  <2>1. Handling(a)
    BY DEF IInv, Attempt
  <2>2. hpc'[a] \in {"none", "headers"}
    BY <1>2 DEF IInv, TypeOK
  <2> QED BY <2>1, <2>2, <1>2 DEF Handling
<1>7. Extracting(a)'
  BY <1>2, <1>4 DEF Extracting
<1> QED BY <1>1, <1>2, <1>3, <1>4, <1>5, <1>6, <1>7, ForwarderStep DEF IInv, TypeOK

LEMMA SendKeeps == ASSUME NEW a \in Attempts, IInv, Send(a) PROVE IInv'
<1> USE DEF Send, Goto, server
<1>1. PICK more \in SUBSET entries[a] : sent' = [sent EXCEPT ![a] = @ \cup more]
  <2>1. CASE sent[a] = entries[a]
    <3>1. sent' = [sent EXCEPT ![a] = @ \cup {}]
      BY <2>1 DEF IInv, TypeOK
    <3> QED BY <3>1
  <2>2. CASE sent[a] # entries[a]
    BY <2>2
  <2> QED BY <2>1, <2>2
<1>2. TypeOK'
  BY <1>1 DEF IInv, TypeOK, ClientStates
<1>3. Uploading(a)'
  BY <1>1 DEF IInv, TypeOK, Attempt, Uploading
<1>4. Handling(a)'
  BY <1>1 DEF IInv, TypeOK, Attempt, Handling
<1>5. Extracting(a)'
  BY DEF IInv, TypeOK, Attempt, Extracting
<1>6. NeverMixed' /\ code'[a] # {0}
  <2>1. NeverMixed'
    BY DEF IInv, NeverMixed
  <2>2. code[a] # {0} /\ code'[a] = code[a]
    BY DEF IInv, Attempt, Extracting
  <2> QED BY <2>1, <2>2
<1> QED BY <1>1, <1>2, <1>3, <1>4, <1>5, <1>6, ForwarderStep DEF IInv, TypeOK

LEMMA PostFailsKeeps == ASSUME NEW a \in Attempts, IInv, PostFails(a) PROVE IInv'
<1> USE DEF PostFails, Exit, server
<1>1. TypeOK'
  BY DEF IInv, TypeOK, ClientStates
<1>2. Uploading(a)'
  <2>1. cpc'[a] = "exited" /\ (body'[a] = "complete" => body[a] = "complete")
    BY DEF IInv, TypeOK
  <2>2. Uploading(a)
    BY DEF IInv, Attempt
  <2> QED BY <2>1, <2>2 DEF Uploading
<1>3. NeverMixed' /\ code'[a] # {0}
  <2>1. NeverMixed'
    BY DEF IInv, NeverMixed
  <2>2. code'[a] = {3}
    BY DEF IInv, TypeOK
  <2> QED BY <2>1, <2>2, Failures
<1>4. Handling(a)'
  BY DEF IInv, Attempt, Handling
<1>5. Extracting(a)'
  <2>1. cpc'[a] = "exited"
    BY DEF IInv, TypeOK
  <2> QED BY <1>3, <2>1 DEF Extracting
<1>6. /\ cpc[a] \notin {"idle", "exited"} /\ cpc[a] \notin {"clean", "unpack"}
      /\ cpc'[a] = "exited"
  BY DEF IInv, TypeOK
<1>7. \A u \in Attempts \ {a} : cpc'[u] = cpc[u] /\ code'[u] = code[u] /\ body'[u] = body[u]
  BY DEF IInv, TypeOK
<1>8. UNCHANGED <<entries, sent, left, hpc, probes, before, tempdir, kept, reply, produced>>
  OBVIOUS
<1> HIDE DEF PostFails, Exit, server
<1> QED BY <1>1, <1>2, <1>3, <1>4, <1>5, <1>6, <1>7, <1>8, ForwarderStep

LEMMA ReceiveKeeps == ASSUME NEW a \in Attempts, IInv, Receive(a) PROVE IInv'
<1> USE DEF Receive, server
<1>1. PICK r \in reply[a] :
         IF r.status # 200
         THEN Exit(a, 4) /\ UNCHANGED left
         ELSE Goto(a, "clean") /\ left' = [left EXCEPT ![a] = r.files]
  OBVIOUS
<1>2. r \in [status : {200, 400, 500}, files : SUBSET Probes] /\ hpc[a] = "done"
  BY DEF IInv, TypeOK, Attempt, Handling
<1>3. code'[a] # {0}
  <2>1. CASE r.status # 200
    <3>1. Exit(a, 4)
      BY <1>1, <2>1
    <3>2. code'[a] = {4}
      BY <3>1 DEF IInv, TypeOK, Exit
    <3> QED BY <3>2, Failures
  <2>2. CASE r.status = 200
    <3>1. code'[a] = code[a] /\ cpc[a] = "await"
      BY <1>1, <2>2 DEF Goto
    <3> QED BY <3>1 DEF IInv, Attempt, Extracting
  <2> QED BY <2>1, <2>2
<1>4. CASE r.status # 200
  <2> USE <1>1, <1>4 DEF Exit
  <2>1. TypeOK'
    BY DEF IInv, TypeOK, ClientStates
  <2>2. Uploading(a)' /\ Handling(a)'
    BY DEF IInv, TypeOK, Attempt, Uploading, Handling
  <2>3. Extracting(a)' /\ NeverMixed'
    BY <1>3 DEF IInv, TypeOK, Extracting, NeverMixed
  <2> QED BY <2>1, <2>2, <2>3, <1>3, ForwarderStep DEF IInv, TypeOK
<1>5. CASE r.status = 200
  <2> USE <1>1, <1>5 DEF Goto
  <2>1. TypeOK'
    BY <1>2 DEF IInv, TypeOK, ClientStates
  <2>2. Uploading(a)' /\ Handling(a)'
    BY DEF IInv, TypeOK, Attempt, Uploading, Handling
  <2>3. Extracting(a)' /\ NeverMixed'
    BY <1>2, <1>3 DEF IInv, TypeOK, Attempt, Handling, Extracting, Answered, NeverMixed
  <2> QED BY <2>1, <2>2, <2>3, <1>3, ForwarderStep DEF IInv, TypeOK
<1> QED BY <1>4, <1>5

(* What an extracted probe does to the others: nothing, when all are of    *)
(* one replay.                                                             *)
LEMMA PutAmong ==
  ASSUME NEW a \in Attempts, probes \subseteq Own(a), NEW p \in Own(a)
  PROVE  Put(p) = probes \cup {p}
BY OwnAreProbes DEF Put

LEMMA OneReplay ==
  ASSUME NEW a \in Attempts, NEW S, S \subseteq Own(a)
  PROVE  \A p, q \in S : p.from = q.from
BY OwnAreProbes

(* What an interruption leaves is of one replay, too.                      *)
LEMMA InterruptedIsOfOne ==
  ASSUME NEW a \in Attempts, IInv, NEW S \in Interrupted(a)
  PROVE  /\ S \subseteq Probes
         /\ \A p, q \in S : p.from = q.from
         /\ S = probes \/ cpc[a] \in {"clean", "unpack"}
<1>1. CASE cpc[a] = "clean"
  BY <1>1 DEF Interrupted, IInv, TypeOK, NeverMixed
<1>2. CASE cpc[a] = "unpack"
  <2>1. probes \subseteq Own(a) /\ left[a] \subseteq Own(a)
    BY <1>2 DEF IInv, Attempt, Handling, Extracting
  <2>2. S \in {probes} \cup {Put(p) : p \in {q \in left[a] : q.name \notin OddNames}}
    BY <1>2 DEF Interrupted
  <2>3. S \subseteq Own(a)
    <3>1. CASE S = probes
      BY <3>1, <2>1
    <3>2. CASE S # probes
      <4>1. PICK p \in left[a] : S = Put(p)
        BY <2>2, <3>2
      <4> QED BY <4>1, <2>1, PutAmong
    <3> QED BY <3>1, <3>2
  <2> QED BY <1>2, <2>3, OneReplay, OwnAreProbes
<1>3. CASE cpc[a] \notin {"clean", "unpack"}
  <2>1. S = probes
    BY <1>3 DEF Interrupted
  <2> QED BY <2>1 DEF IInv, TypeOK, NeverMixed
<1> QED BY <1>1, <1>2, <1>3

(* An end with another status than 0, wherever it is.                      *)
LEMMA EndsBadly ==
  ASSUME NEW a \in Attempts, IInv, cpc[a] \notin {"idle", "exited"},
         NEW c \in {1, 2, 3, 4, 5, 6, 137}, Exit(a, c),
         probes' \in Interrupted(a),
         body' = body \/ body' = [body EXCEPT ![a] = IF @ = "open" THEN "broken" ELSE @],
         UNCHANGED <<entries, sent, left, before, server>>
  PROVE  IInv'
<1> USE DEF Exit, server
<1>1. TypeOK'
  BY InterruptedIsOfOne DEF IInv, TypeOK, ClientStates
<1>2. Uploading(a)'
  BY DEF IInv, TypeOK, Attempt, Uploading
<1>3. cpc'[a] = "exited" /\ code'[a] # {0}
  <2>1. cpc'[a] = "exited" /\ code'[a] = {c}
    BY DEF IInv, TypeOK
  <2> QED BY <2>1, Failures
<1>4. Handling(a)'
  BY DEF IInv, Attempt, Handling
<1>5. Extracting(a)'
  BY <1>3 DEF Extracting
<1>6. NeverMixed'
  BY InterruptedIsOfOne DEF NeverMixed
<1>7. probes' = probes \/ cpc[a] \in {"clean", "unpack"}
  BY InterruptedIsOfOne
<1>8. \A u \in Attempts \ {a} :
         cpc'[u] = cpc[u] /\ code'[u] = code[u] /\ body'[u] = body[u]
  BY DEF IInv, TypeOK
<1>9. cpc'[a] # "idle"
  BY DEF IInv, TypeOK
<1> QED BY <1>1, <1>2, <1>3, <1>4, <1>5, <1>6, <1>7, <1>8, <1>9, ForwarderStep

LEMMA CleanKeeps == ASSUME NEW a \in Attempts, IInv, Clean(a) PROVE IInv'
<1> USE DEF Clean, server
<1>1. CASE probes' \in Interrupted(a) /\ Exit(a, 6)
  BY <1>1, EndsBadly
<1>2. CASE probes' = {} /\ Goto(a, "unpack")
  <2> USE <1>2 DEF Goto
  <2>1. TypeOK'
    BY DEF IInv, TypeOK, ClientStates
  <2>2. Uploading(a)' /\ Handling(a)' /\ NeverMixed'
    BY DEF IInv, TypeOK, Attempt, Uploading, Handling, NeverMixed
  <2>3. Extracting(a)' /\ code'[a] # {0}
    BY DEF IInv, TypeOK, Attempt, Extracting, Answered
  <2> QED BY <2>1, <2>2, <2>3, ForwarderStep DEF IInv, TypeOK
<1> QED BY <1>1, <1>2

LEMMA UnpackKeeps == ASSUME NEW a \in Attempts, IInv, Unpack(a) PROVE IInv'
<1> USE DEF Unpack, server
<1>1. probes \in Interrupted(a) /\ cpc[a] = "unpack"
  BY DEF Interrupted
<1>2. CASE Exit(a, 6) /\ UNCHANGED <<probes, left>>
  BY <1>1, <1>2, EndsBadly
<1>3. ASSUME NEW p \in left[a], probes' = Put(p),
             left' = [left EXCEPT ![a] = @ \ {p}], UNCHANGED <<cpc, code>>
      PROVE  IInv'
  <2>1. /\ left[a] \subseteq produced[a] /\ probes \subseteq produced[a]
        /\ produced[a] \ left[a] \subseteq probes /\ produced[a] \subseteq Own(a)
        /\ Answered(a) /\ code[a] # {0}
    BY <1>1 DEF IInv, Attempt, Handling, Extracting
  <2>2. probes' = probes \cup {p} /\ probes' \subseteq Own(a)
    BY <1>3, <2>1, PutAmong
  <2>3. left'[a] = left[a] \ {p}
    BY <1>3 DEF IInv, TypeOK
  <2>4. TypeOK'
    BY <1>3, <2>2, OwnAreProbes DEF IInv, TypeOK
  <2>5. Uploading(a)' /\ Handling(a)'
    BY <1>3 DEF IInv, TypeOK, Attempt, Uploading, Handling
  <2>6. NeverMixed'
    BY <2>2, OneReplay DEF NeverMixed
  <2>7. Extracting(a)'
    BY <1>1, <1>3, <2>1, <2>2, <2>3 DEF Extracting, Answered
  <2> QED BY <1>1, <1>3, <2>1, <2>4, <2>5, <2>6, <2>7, ForwarderStep DEF IInv, TypeOK
<1> QED BY <1>2, <1>3

LEMMA UnpackDiskFailsKeeps ==
  ASSUME NEW a \in Attempts, IInv, UnpackDiskFails(a) PROVE IInv'
BY EndsBadly DEF UnpackDiskFails

LEMMA ReturnKeeps == ASSUME NEW a \in Attempts, IInv, Return(a) PROVE IInv'
<1> USE DEF Return, server
<1>1. /\ probes = produced[a] /\ Answered(a) /\ cpc[a] = "unpack"
  BY DEF IInv, Attempt, Extracting
<1>2. probes \in Interrupted(a)
  BY DEF Interrupted
<1>3. CASE \A r \in reply[a] : r.files = {}
  BY <1>2, <1>3, EndsBadly
<1>4. CASE ~\A r \in reply[a] : r.files = {}
  <2>1. Exit(a, 0)
    BY <1>4
  <2>2. probes # {}
    BY <1>1, <1>4 DEF Answered, IInv, Attempt, Handling
  <2> USE <2>1 DEF Exit
  <2>3. TypeOK'
    BY DEF IInv, TypeOK, ClientStates
  <2>4. Uploading(a)'
    BY DEF IInv, TypeOK, Attempt, Uploading
  <2>5. Handling(a)'
    BY DEF IInv, Attempt, Handling
  <2>6. Extracting(a)'
    BY <1>1 DEF IInv, TypeOK, Extracting, Answered
  <2>7. NeverMixed'
    BY DEF IInv, NeverMixed
  <2> QED BY <1>1, <2>2, <2>3, <2>4, <2>5, <2>6, <2>7, ForwarderStep DEF IInv, TypeOK
<1> QED BY <1>3, <1>4

LEMMA KilledKeeps == ASSUME NEW a \in Attempts, IInv, Killed(a) PROVE IInv'
BY EndsBadly DEF Killed

LEMMA NextIInv == IInv /\ [Next]_vars => IInv'
<1> SUFFICES ASSUME IInv, [Next]_vars PROVE IInv'
  OBVIOUS
<1>1. ASSUME NEW a \in Attempts, Forwarder(a) PROVE IInv'
  BY <1>1, BeginKeeps, ConnectKeeps, SendKeeps, PostFailsKeeps, ReceiveKeeps, CleanKeeps,
     UnpackKeeps, UnpackDiskFailsKeeps, ReturnKeeps DEF Forwarder
<1> QED BY <1>1, KilledKeeps, HandlerKeeps, CrashKeeps, RestartKeeps, StutterKeeps DEF Next

LEMMA Invariance == Spec => []IInv
BY InitIInv, NextIInv, PTL DEF Spec

-----------------------------------------------------------------------------

(* A successful replay leaves its own probes in the project, all of them   *)
(* and nothing else, whatever was abandoned or killed before it.           *)
THEOREM SuccessIsFresh == Spec => []Fresh
<1>1. IInv => Fresh
  BY DEF IInv
<1> QED BY <1>1, Invariance, PTL

(* The probes in the project are of one replay in every state, and those   *)
(* of the replay before until the server has answered with an archive.     *)
THEOREM ProbesAreOldOrNew == Spec => []OldOrNew
<1>1. IInv => OldOrNew
  BY DEF IInv, OldOrNew
<1> QED BY <1>1, Invariance, PTL

(* The compiler runs on the whole of what the forwarder scanned, and a     *)
(* temporary directory outlives its request only when the server died,     *)
(* remove_all failed, or an exception went past it.                        *)
THEOREM CompilesWholeProjects == Spec => []DirectoriesRight
<1>1. IInv => CompilesWhole
  BY DEF IInv, Attempt, Handling, CompilesWhole
<1>2. IInv => TempdirsAccounted
  BY DEF IInv, TypeOK, Attempt, Handling, TempdirsAccounted, Active
<1>3. IInv => DirectoriesRight
  BY <1>1, <1>2 DEF DirectoriesRight
<1> QED BY <1>3, Invariance, PTL
=============================================================================
