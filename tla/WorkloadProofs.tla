--------------------------- MODULE WorkloadProofs ---------------------------
(***************************************************************************)
(* The three safety properties of the tools that share a workload          *)
(* directory, for any directory they find, any command lines, any number   *)
(* of runs of nbcc.py, and any caller of the SDK and answer of a worker.   *)
(* Each has an inductive invariant of its own: what the runs know of their *)
(* configuration files, what the manifest still knows of the files, and    *)
(* what the client knows of the files, the post and the answer.            *)
(***************************************************************************)
EXTENDS Workload, SequenceTheorems, FiniteSetTheorems, TLAPS

-----------------------------------------------------------------------------
(* The configuration of a run.                                             *)

NbccTyped ==
    /\ run = [r \in Runs |-> run[r]]
    /\ line = [r \in Runs |-> line[r]]
    /\ config = [r \in Runs |-> config[r]]

(* A configuration file is empty or what its name says.                    *)
FilesWhole == \A y \in DOMAIN ymls : ymls[y] \subseteq {y}

(* From the moment a run has written its file it is whole, or another run  *)
(* has truncated it, and what the program has read is what was in it.      *)
Knows(r) ==
    /\ run[r] = "opened" => Yaml(r) \in DOMAIN ymls
    /\ run[r] \in {"written", "program"} =>
          Yaml(r) \in DOMAIN ymls /\ (ymls[Yaml(r)] = {Yaml(r)} \/ r \in robbed)
    /\ Started(r) => config[r] = Yaml(r) \/ (config[r] = Defaults /\ r \in robbed)

NbccInv == NbccTyped /\ FilesWhole /\ \A r \in Runs : Knows(r)

LEMMA NbccInitInv == Init => NbccInv
<1> SUFFICES ASSUME Init PROVE NbccInv
  OBVIOUS
<1>1. NbccTyped /\ FilesWhole
  BY DEF Init, NbccInit, NbccTyped, FilesWhole
<1>2. \A r \in Runs : run[r] = "idle"
  BY DEF Init, NbccInit
<1> QED BY <1>1, <1>2 DEF NbccInv, Knows, Started

(* A run moves on; it leaves the file of any other whole, or has robbed    *)
(* that run of it.                                                         *)
LEMMA RunMoves ==
  ASSUME NbccInv, NEW r \in Runs, NbccTyped', FilesWhole',
         \A q \in Runs \ {r} :
            run'[q] = run[q] /\ line'[q] = line[q] /\ config'[q] = config[q],
         \A y \in DOMAIN ymls :
            /\ y \in DOMAIN ymls'
            /\ \/ ymls'[y] = ymls[y] \/ ymls'[y] = {y}
               \/ \A q \in Runs \ {r} :
                     run[q] \in {"written", "program"} /\ Yaml(q) = y => q \in robbed',
         robbed \subseteq robbed',
         Knows(r)'
  PROVE  NbccInv'
<1>1. \A q \in Runs \ {r} : Yaml(q)' = Yaml(q)
  BY DEF Yaml
<1>2. ASSUME NEW q \in Runs, q # r PROVE Knows(q)'
  <2>1. Knows(q)
    BY DEF NbccInv
  <2>2. run[q] = "opened" => Yaml(q) \in DOMAIN ymls'
    BY <2>1 DEF Knows
  <2>3. run[q] \in {"written", "program"} =>
           Yaml(q) \in DOMAIN ymls' /\ (ymls'[Yaml(q)] = {Yaml(q)} \/ q \in robbed')
    BY <1>2, <2>1 DEF Knows
  <2>4. Started(q)' => config[q] = Yaml(q) \/ (config[q] = Defaults /\ q \in robbed')
    BY <1>2, <2>1 DEF Knows, Started
  <2> QED BY <1>1, <1>2, <2>2, <2>3, <2>4 DEF Knows
<1> QED BY <1>2 DEF NbccInv

LEMMA EndMoves ==
  ASSUME NbccInv, NEW r \in Runs, End(r), UNCHANGED <<ymls, robbed>>
  PROVE  NbccInv'
<1>1. NbccTyped'
  BY DEF NbccInv, NbccTyped, End, Goto
<1>2. run'[r] = "over"
  BY DEF NbccInv, NbccTyped, End, Goto
<1>3. \A q \in Runs \ {r} :
         run'[q] = run[q] /\ line'[q] = line[q] /\ config'[q] = config[q]
  BY DEF NbccInv, NbccTyped, End, Goto
<1>4. FilesWhole'
  BY DEF NbccInv, FilesWhole
<1>5. Knows(r)'
  BY <1>2 DEF Knows, Started
<1> QED BY <1>1, <1>3, <1>4, <1>5, RunMoves

LEMMA GotoMoves ==
  ASSUME NbccInv, NEW r \in Runs, NEW where, Goto(r, where), UNCHANGED <<line, config>>
  PROVE  /\ NbccTyped' /\ run'[r] = where
         /\ \A q \in Runs \ {r} :
               run'[q] = run[q] /\ line'[q] = line[q] /\ config'[q] = config[q]
         /\ Yaml(r)' = Yaml(r)
BY DEF NbccInv, NbccTyped, Goto, Yaml

LEMMA ParseMoves ==
  ASSUME NbccInv, NEW r \in Runs, NEW cl, Parse(r, cl)
  PROVE  NbccInv'
<1>1. UNCHANGED <<ymls, robbed>>
  BY DEF Parse
<1>2. CASE End(r)
  BY <1>1, <1>2, EndMoves
<1>3. CASE ~End(r)
  <2>1. run' = [run EXCEPT ![r] = "parsed"] /\ line' = [line EXCEPT ![r] = cl] /\ UNCHANGED config
    BY <1>3 DEF Parse, Goto
  <2>2. NbccTyped' /\ run'[r] = "parsed"
    BY <2>1 DEF NbccInv, NbccTyped
  <2>3. \A q \in Runs \ {r} : run'[q] = run[q] /\ line'[q] = line[q] /\ config'[q] = config[q]
    BY <2>1 DEF NbccInv, NbccTyped
  <2>4. FilesWhole'
    BY <1>1 DEF NbccInv, FilesWhole
  <2>5. Knows(r)'
    BY <2>2 DEF Knows, Started
  <2> QED BY <1>1, <2>2, <2>3, <2>4, <2>5, RunMoves
<1> QED BY <1>2, <1>3

LEMMA OpenYmlMoves == ASSUME NbccInv, NEW r \in Runs, OpenYml(r) PROVE NbccInv'
<1>1. /\ ymls' = Overlay(Only(Yaml(r), {}), ymls)
      /\ robbed' = robbed \cup {q \in Runs : run[q] \in {"written", "program"} /\ Yaml(q) = Yaml(r)}
  BY DEF OpenYml
<1>2. Yaml(r) \in DOMAIN ymls' /\ ymls'[Yaml(r)] = {}
  BY <1>1 DEF Overlay, Only
<1>3. \A y \in DOMAIN ymls : y \in DOMAIN ymls' /\ (y # Yaml(r) => ymls'[y] = ymls[y])
  BY <1>1 DEF Overlay, Only
<1>4. \A y \in DOMAIN ymls' : y # Yaml(r) => y \in DOMAIN ymls /\ ymls'[y] = ymls[y]
  BY <1>1 DEF Overlay, Only
<1>5. FilesWhole'
  BY <1>2, <1>4 DEF NbccInv, FilesWhole
<1>6. Goto(r, "opened") /\ UNCHANGED <<line, config>>
  BY DEF OpenYml
<1>7. NbccTyped' /\ run'[r] = "opened" /\ Yaml(r)' = Yaml(r)
      /\ \A q \in Runs \ {r} :
            run'[q] = run[q] /\ line'[q] = line[q] /\ config'[q] = config[q]
  BY <1>6, GotoMoves
<1>8. Knows(r)'
  BY <1>2, <1>7 DEF Knows, Started
<1>9. \A q \in Runs : run[q] \in {"written", "program"} /\ Yaml(q) = Yaml(r) => q \in robbed'
  BY <1>1
<1>10. robbed \subseteq robbed'
  BY <1>1
<1> QED BY <1>3, <1>5, <1>7, <1>8, <1>9, <1>10, RunMoves

LEMMA WriteYmlMoves == ASSUME NbccInv, NEW r \in Runs, WriteYml(r) PROVE NbccInv'
<1>1. ymls' = [ymls EXCEPT ![Yaml(r)] = {Yaml(r)}] /\ run[r] = "opened" /\ UNCHANGED robbed
  BY DEF WriteYml, Yaml
<1>2. Yaml(r) \in DOMAIN ymls
  BY <1>1 DEF NbccInv, Knows
<1>3. Yaml(r) \in DOMAIN ymls' /\ ymls'[Yaml(r)] = {Yaml(r)}
  BY <1>1, <1>2
<1>4. Goto(r, "written") /\ UNCHANGED <<line, config>>
  BY DEF WriteYml
<1>5. NbccTyped' /\ run'[r] = "written" /\ Yaml(r)' = Yaml(r)
      /\ \A q \in Runs \ {r} :
            run'[q] = run[q] /\ line'[q] = line[q] /\ config'[q] = config[q]
  BY <1>4, GotoMoves
<1>6. Knows(r)'
  BY <1>3, <1>5 DEF Knows, Started
<1>7. \A y \in DOMAIN ymls : y \in DOMAIN ymls' /\ (ymls'[y] = ymls[y] \/ ymls'[y] = {y})
  BY <1>1
<1>8. FilesWhole'
  BY <1>1 DEF NbccInv, FilesWhole
<1> QED BY <1>1, <1>5, <1>6, <1>7, <1>8, RunMoves

LEMMA ExecMoves == ASSUME NbccInv, NEW r \in Runs, Exec(r) PROVE NbccInv'
<1>1. run[r] = "written" /\ UNCHANGED <<ymls, robbed>>
  BY DEF Exec
<1>2. CASE End(r)
  BY <1>1, <1>2, EndMoves
<1>3. ASSUME NEW where \in {"program", "driver"}, Goto(r, where), UNCHANGED <<line, config>>
      PROVE  NbccInv'
  <2>1. NbccTyped' /\ run'[r] = where /\ Yaml(r)' = Yaml(r)
        /\ \A q \in Runs \ {r} :
              run'[q] = run[q] /\ line'[q] = line[q] /\ config'[q] = config[q]
    BY <1>3, GotoMoves
  <2>2. Knows(r)'
    BY <1>1, <2>1 DEF NbccInv, Knows, Started
  <2>3. FilesWhole'
    BY <1>1 DEF NbccInv, FilesWhole
  <2> QED BY <1>1, <2>1, <2>2, <2>3, RunMoves
<1> QED BY <1>2, <1>3 DEF Exec

LEMMA ProgramStartsMoves == ASSUME NbccInv, NEW r \in Runs, ProgramStarts(r) PROVE NbccInv'
<1>1. run[r] = "program" /\ UNCHANGED <<line, ymls, robbed>>
  BY DEF ProgramStarts
<1>2. Yaml(r) \in DOMAIN ymls /\ (ymls[Yaml(r)] = {Yaml(r)} \/ (ymls[Yaml(r)] = {} /\ r \in robbed))
  BY <1>1 DEF NbccInv, FilesWhole, Knows
<1>3. PICK conf : /\ conf = Contents(ymls[Yaml(r)])
                  /\ config' = [config EXCEPT ![r] = conf]
  BY DEF ProgramStarts
<1>4. conf = Yaml(r) \/ (conf = Defaults /\ r \in robbed)
  BY <1>2, <1>3 DEF Contents
<1>5. PICK where \in {"recording", "replaying", "elsewhere"} : run' = [run EXCEPT ![r] = where]
  BY DEF ProgramStarts, Goto
<1>6. NbccTyped' /\ config'[r] = conf /\ run'[r] = where /\ line' = line
  BY <1>1, <1>3, <1>5 DEF NbccInv, NbccTyped
<1>7. \A q \in Runs \ {r} : run'[q] = run[q] /\ line'[q] = line[q] /\ config'[q] = config[q]
  BY <1>1, <1>3, <1>5 DEF NbccInv, NbccTyped
<1>8. Yaml(r)' = Yaml(r)
  BY <1>6 DEF Yaml
<1>9. Knows(r)'
  BY <1>1, <1>4, <1>6, <1>8 DEF Knows
<1>10. FilesWhole'
  BY <1>1 DEF NbccInv, FilesWhole
<1> QED BY <1>1, <1>6, <1>7, <1>9, <1>10, RunMoves

LEMMA NbccNextInv == NbccInv /\ [Next]_vars => NbccInv'
<1> SUFFICES ASSUME NbccInv, [Next]_vars PROVE NbccInv'
  OBVIOUS
<1>1. ASSUME NEW r \in Runs, \E cl \in CommandLines : Parse(r, cl) PROVE NbccInv'
  BY <1>1, ParseMoves
<1>2. ASSUME NEW r \in Runs,
             \/ EndsElsewhere(r) \/ RecordStop(r) \/ ReplayInProgram(r) \/ ReplayInDriver(r)
             \/ Kill(r)
      PROVE  NbccInv'
  BY <1>2, EndMoves DEF EndsElsewhere, RecordStop, ReplayInProgram, ReplayInDriver, Kill
<1>3. ASSUME UNCHANGED nbcc PROVE NbccInv'
  BY <1>3 DEF nbcc, NbccInv, NbccTyped, FilesWhole, Knows, Started, Yaml
<1>4. ASSUME NEW r \in Runs, RecordStart(r) PROVE NbccInv'
  BY <1>3, <1>4 DEF RecordStart
<1> QED BY <1>1, <1>2, <1>3, <1>4, OpenYmlMoves, WriteYmlMoves, ExecMoves, ProgramStartsMoves
        DEF Next, Nbcc, Submission, Disturb, Check, vars

(* What a run of the program has read of its configuration is what the     *)
(* options of its own command line say, whatever runs with other options   *)
(* do and wherever runs are killed; or it is nothing, and then a run with  *)
(* the same options has truncated the file in between (nbcc.py:196-203).   *)
THEOREM RunsReadTheirOwn == Spec => []ReadsOwnConfig
<1>1. ASSUME NbccInv PROVE ReadsOwnConfig
  <2>1. \A r \in Runs : Started(r) =>
           config[r] = BuildYaml(Args(line[r])) \/ (config[r] = Defaults /\ r \in robbed)
    BY <1>1 DEF NbccInv, Knows, Yaml
  <2>2. \A args : /\ BuildYaml(args).cache_parameters = Cache(args)
                  /\ BuildYaml(args).compiler = Set(args, CompilerOptions)
                  /\ BuildYaml(args).program
                        = NonEmpty(args, {"name", "version", "description"})
    BY DEF BuildYaml
  <2> QED BY <2>1, <2>2 DEF ReadsOwnConfig, OwnConfig
<1> QED BY <1>1, NbccInitInv, NbccNextInv, PTL DEF Spec

-----------------------------------------------------------------------------
(* The verdict.                                                            *)

Dated(file) == file \in [data : {file.data}, mtime : Int, inode : Int]

(* Nothing is younger than the clock, and of a file that was there at the  *)
(* snapshot and is there now stat() tells whether it was touched.          *)
Remembers(before) ==
    /\ \A n \in DOMAIN before :
          Dated(before[n]) /\ before[n].mtime <= clock /\ before[n].inode <= clock
    /\ \A n \in DOMAIN before \cap DOMAIN files :
          IF n \in touched
          THEN files[n].mtime > before[n].mtime \/ files[n].inode > before[n].inode
          ELSE files[n] = before[n]

DirInv ==
    /\ clock \in Int
    /\ \A n \in DOMAIN files :
          Dated(files[n]) /\ files[n].mtime <= clock /\ files[n].inode <= clock
    /\ \A b, c \in manifest : b = c
    /\ \A before \in manifest : Remembers(before)

LEMMA DirInitInv == Init => DirInv
<1> SUFFICES ASSUME Init PROVE DirInv
  OBVIOUS
<1>1. files \in Initial /\ clock = 1 /\ manifest = {}
  BY DEF Init
<1>2. ASSUME NEW n \in DOMAIN files
      PROVE  files[n] \in [data : {files[n].data}, mtime : {0, 1}, inode : {0, 1}]
  BY <1>1, WorkloadAssumption
<1>3. \A n \in DOMAIN files : Dated(files[n]) /\ files[n].mtime <= clock /\ files[n].inode <= clock
  BY <1>1, <1>2 DEF Dated
<1> QED BY <1>1, <1>3 DEF DirInv

(* The files after a write: those that were written are new or younger.    *)
LEMMA WrittenFiles ==
  ASSUME NEW new, Write(new)
  PROVE  /\ clock' = clock + 1
         /\ DOMAIN files' = DOMAIN new \cup DOMAIN files
         /\ \A n \in DOMAIN new :
               files'[n] = [data |-> new[n], mtime |-> clock',
                            inode |-> IF n \in DOMAIN files THEN files[n].inode ELSE clock']
         /\ \A n \in DOMAIN files \ DOMAIN new : files'[n] = files[n]
BY DEF Write, Overlay

LEMMA WriteKeepsDir == ASSUME DirInv, NEW new, Write(new) PROVE DirInv'
<1>1. /\ clock' = clock + 1 /\ manifest' = manifest
      /\ touched' = IF manifest = {} THEN {} ELSE touched \cup DOMAIN new
  BY DEF Write, Touch
<1>2. ASSUME NEW n \in DOMAIN files'
      PROVE  Dated(files'[n]) /\ files'[n].mtime <= clock' /\ files'[n].inode <= clock'
  <2>1. CASE n \in DOMAIN new
    <3> DEFINE was == IF n \in DOMAIN files THEN files[n].inode ELSE clock'
    <3>1. files'[n] = [data |-> new[n], mtime |-> clock', inode |-> was]
      BY <2>1, WrittenFiles
    <3>2. clock \in Int /\ was \in Int /\ was <= clock'
      BY <1>1 DEF DirInv, Dated
    <3> HIDE DEF was
    <3> QED BY <3>1, <3>2, <1>1 DEF Dated
  <2>2. CASE n \notin DOMAIN new
    <3>1. n \in DOMAIN files /\ files'[n] = files[n]
      BY <2>2, <1>2, WrittenFiles
    <3> QED BY <3>1, <1>1 DEF DirInv, Dated
  <2> QED BY <2>1, <2>2
<1>3. ASSUME NEW before \in manifest PROVE Remembers(before)'
  <2>1. Remembers(before) /\ touched' = touched \cup DOMAIN new
    BY <1>1, <1>3 DEF DirInv
  <2>2. \A n \in DOMAIN before :
           Dated(before[n]) /\ before[n].mtime <= clock' /\ before[n].inode <= clock'
    BY <1>1, <2>1 DEF Remembers, Dated, DirInv
  <2>3. ASSUME NEW n \in DOMAIN before \cap DOMAIN files'
        PROVE  IF n \in touched'
               THEN files'[n].mtime > before[n].mtime \/ files'[n].inode > before[n].inode
               ELSE files'[n] = before[n]
    <3>1. CASE n \in DOMAIN new
      <4>1. files'[n].mtime = clock'
        <5> DEFINE was == IF n \in DOMAIN files THEN files[n].inode ELSE clock'
        <5>1. files'[n] = [data |-> new[n], mtime |-> clock', inode |-> was]
          BY <3>1, WrittenFiles
        <5> HIDE DEF was
        <5> QED BY <5>1
      <4>2. before[n].mtime <= clock /\ before[n].mtime \in Int
        BY <2>1 DEF Remembers, Dated
      <4> QED BY <3>1, <4>1, <4>2, <1>1, <2>1 DEF DirInv
    <3>2. CASE n \notin DOMAIN new
      BY <2>1, <3>2, WrittenFiles DEF Remembers
    <3> QED BY <3>1, <3>2
  <2> QED BY <2>2, <2>3 DEF Remembers
<1> QED BY <1>1, <1>2, <1>3 DEF DirInv

LEMMA EraseKeepsDir == ASSUME DirInv, NEW ns, Erase(ns) PROVE DirInv'
<1>1. /\ clock' = clock + 1 /\ manifest' = manifest
      /\ touched' = IF manifest = {} THEN {} ELSE touched \cup ns
      /\ DOMAIN files' = DOMAIN files \ ns
      /\ \A n \in DOMAIN files' : files'[n] = files[n]
  BY DEF Erase, Touch, Restrict
<1>2. \A n \in DOMAIN files' :
         Dated(files'[n]) /\ files'[n].mtime <= clock' /\ files'[n].inode <= clock'
  BY <1>1 DEF DirInv, Dated
<1>3. ASSUME NEW before \in manifest PROVE Remembers(before)'
  BY <1>1, <1>3 DEF DirInv, Remembers, Dated
<1> QED BY <1>1, <1>2, <1>3 DEF DirInv

LEMMA CopyOverKeepsDir == ASSUME DirInv, NEW n, CopyOver(n) PROVE DirInv'
<1>1. /\ clock' = clock + 1 /\ manifest' = manifest /\ n \in DOMAIN files
      /\ touched' = IF manifest = {} THEN {} ELSE touched \cup {n}
      /\ DOMAIN files' = DOMAIN files
      /\ \A m \in DOMAIN files \ {n} : files'[m] = files[m]
  BY DEF CopyOver, Touch
<1>2. files'[n] = [files[n] EXCEPT !.inode = clock']
  BY <1>1 DEF CopyOver
<1>3. files'[n].inode = clock' /\ files'[n].mtime = files[n].mtime /\ Dated(files'[n])
  BY <1>1, <1>2 DEF DirInv, Dated
<1>4. \A m \in DOMAIN files' :
         Dated(files'[m]) /\ files'[m].mtime <= clock' /\ files'[m].inode <= clock'
  <2> SUFFICES ASSUME NEW m \in DOMAIN files
               PROVE  Dated(files'[m]) /\ files'[m].mtime <= clock' /\ files'[m].inode <= clock'
    BY <1>1
  <2>1. Dated(files[m]) /\ files[m].mtime <= clock /\ files[m].inode <= clock /\ clock \in Int
    BY DEF DirInv
  <2>2. CASE m = n
    BY <2>1, <2>2, <1>1, <1>3 DEF Dated
  <2>3. CASE m # n
    BY <2>1, <2>3, <1>1 DEF Dated
  <2> QED BY <2>2, <2>3
<1>5. ASSUME NEW before \in manifest PROVE Remembers(before)'
  <2>1. Remembers(before) /\ touched' = touched \cup {n}
    BY <1>1, <1>5 DEF DirInv
  <2>2. \A m \in DOMAIN before :
           Dated(before[m]) /\ before[m].mtime <= clock' /\ before[m].inode <= clock'
    BY <1>1, <2>1 DEF Remembers, Dated, DirInv
  <2>3. ASSUME NEW m \in DOMAIN before \cap DOMAIN files'
        PROVE  IF m \in touched'
               THEN files'[m].mtime > before[m].mtime \/ files'[m].inode > before[m].inode
               ELSE files'[m] = before[m]
    <3>1. CASE m = n
      <4>1. before[n].inode <= clock /\ before[n].inode \in Int /\ clock \in Int
        BY <2>1, <2>3, <3>1 DEF Remembers, Dated, DirInv
      <4> QED BY <3>1, <4>1, <1>1, <1>3, <2>1
    <3>2. CASE m # n
      BY <1>1, <2>1, <3>2 DEF Remembers
    <3> QED BY <3>1, <3>2
  <2> QED BY <2>2, <2>3 DEF Remembers
<1> QED BY <1>1, <1>4, <1>5 DEF DirInv

LEMMA CheckKeepsDir == ASSUME DirInv, Check PROVE DirInv'
<1>1. CASE Snapshot
  BY <1>1 DEF Snapshot, DirInv, Remembers
<1>2. CASE Verify
  BY <1>2 DEF Verify, DirInv
<1> QED BY <1>1, <1>2 DEF Check

LEMMA DirNextInv == DirInv /\ [Next]_vars => DirInv'
<1> SUFFICES ASSUME DirInv, [Next]_vars PROVE DirInv'
  OBVIOUS
<1>1. ASSUME UNCHANGED dir PROVE DirInv'
  BY <1>1 DEF dir, DirInv, Remembers
<1>2. CASE Nbcc
  <2>1. UNCHANGED dir \/ \E new : Write(new)
    BY <1>2 DEF Nbcc, Parse, OpenYml, WriteYml, Exec, ProgramStarts, EndsElsewhere, RecordStart,
                RecordStop, ReplayInProgram, ReplayInDriver, Kill
  <2> QED BY <2>1, <1>1, WriteKeepsDir
<1>3. CASE Submission
  <2>1. UNCHANGED dir \/ (\E new : Write(new)) \/ \E ns : Erase(ns)
    BY <1>3 DEF Submission, Call, Provision, Poll, GiveUp, Pack, Reply, Clean, Unpack,
                UnpackRaises, Return, KillClient
  <2> QED BY <2>1, <1>1, WriteKeepsDir, EraseKeepsDir
<1>4. CASE Disturb
  BY <1>4, WriteKeepsDir, EraseKeepsDir, CopyOverKeepsDir DEF Disturb
<1>5. CASE UNCHANGED vars
  BY <1>5, <1>1 DEF vars
<1> QED BY <1>2, <1>3, <1>4, <1>5, CheckKeepsDir DEF Next

(* What verify reports is what happened.                                   *)
LEMMA VerifyIsRight ==
  ASSUME DirInv, Verify
  PROVE  \A before \in manifest : verdict' = IF Harm(before) THEN "fail" ELSE "pass"
<1> SUFFICES ASSUME NEW before \in manifest
             PROVE  verdict' = IF Harm(before) THEN "fail" ELSE "pass"
  OBVIOUS
<1>1. verdict' = IF Deleted(before) \cup Regenerated(before) \cup Added(before) = {}
                 THEN "pass" ELSE "fail"
  BY DEF Verify, DirInv
<1>2. Remembers(before)
  BY DEF DirInv
<1>3. \A n \in DOMAIN before \cap DOMAIN files :
         Untouched(before[n], files[n]) <=> n \notin touched
  <2> SUFFICES ASSUME NEW n \in DOMAIN before \cap DOMAIN files
               PROVE  Untouched(before[n], files[n]) <=> n \notin touched
    OBVIOUS
  <2>1. Dated(before[n]) /\ Dated(files[n])
    BY <1>2 DEF Remembers, DirInv
  <2> QED BY <1>2, <2>1 DEF Remembers, Untouched, Dated
<1>4. Deleted(before) = {} <=> DOMAIN before \subseteq DOMAIN files
  BY DEF Deleted
<1>5. Added(before) = {} <=>
         ~\E n \in DOMAIN files \ DOMAIN before : IsJunkOutputCapture(n) \/ ~IsProbeOutput(n)
  BY DEF Added
<1>6. DOMAIN before \subseteq DOMAIN files =>
         (Regenerated(before) = {} <=> ~\E n \in DOMAIN before : IsArtifact(n) /\ n \in touched)
  BY <1>3 DEF Regenerated
<1> QED BY <1>1, <1>4, <1>5, <1>6 DEF Harm

(* When verify says PASS no artifact of the recording was written, copied  *)
(* over or removed since the snapshot, whatever its bytes are now, and     *)
(* what is new are probes; when it says FAIL, it was not so                *)
(* (verify_replay_integrity.py:112-173).                                   *)
THEOREM VerdictIsRight == Spec => VerdictRight
<1> DEFINE Right ==
       /\ verdict' = "pass" => verdict = "pass" \/ \A before \in manifest : ~Harm(before)
       /\ verdict' = "fail" => verdict = "fail" \/ \A before \in manifest : Harm(before)
<1>1. DirInv /\ [Next]_vars => [Right]_vars
  <2> SUFFICES ASSUME DirInv, Next PROVE Right
    OBVIOUS
  <2>1. CASE Verify
    BY <2>1, VerifyIsRight
  <2>2. CASE UNCHANGED verdict
    BY <2>2
  <2> QED BY <2>1, <2>2 DEF Next, Nbcc, Submission, Disturb, Check, Snapshot
<1>2. Spec => [][Right]_vars
  BY <1>1, DirInitInv, DirNextInv, PTL DEF Spec
<1> QED BY <1>2 DEF VerdictRight

-----------------------------------------------------------------------------
(* The submission.                                                         *)

Assignment == [origin |-> Worker, path |-> "run"]
Sendable == {<<n, files[n].data>> : n \in DOMAIN files \ Probes}

(* The settings around a call, with what the control plane puts first.     *)
Asking ==
    /\ caller \in [job : BOOLEAN, endpoint : Seq(Endpoints \cup {Assignment}),
                   token : Seq(Tokens \cup {Ticket})]
    /\ caller.endpoint # <<>> /\ caller.token # <<>>

ToWorker(p) == p.url = Assignment /\ p.token = Ticket

(* What the client knows at each of its stages: the place the job was      *)
(* given, that what was posted is what can be sent still, and of the       *)
(* answer which files are in their place.                                  *)
SubmitInv ==
    /\ stage \in {"start", "queued", "assigned"} => Asking
    /\ stage \in {"start", "queued"} => caller.job
    /\ stage = "assigned" /\ caller.job =>
          caller.endpoint[1] = Assignment /\ caller.token[1] = Ticket
    /\ stage \in {"packed", "replied", "cleaned"} =>
          \A p \in posted : p.files = Sendable /\ (caller.job => ToWorker(p))
    /\ stage \in {"replied", "cleaned"} => left \subseteq answer /\ \A n \in answer : IsProbeOutput(n)
    /\ stage = "replied" => left = answer
    /\ stage = "cleaned" =>
          /\ \A n \in answer \ left : n \in DOMAIN files /\ files[n].data = <<"answered", posted>>
          /\ Probes \ answer \subseteq Stuck

(* The worker and the ticket of a job come before whatever else is set.    *)
LEMMA FirstIsTaken ==
  ASSUME NEW S, NEW said \in Seq(S), said # <<>>, said[1] # Nothing
  PROVE  FirstSet(said) = 1
<1> DEFINE I == {i \in 1 .. Len(said) : said[i] # Nothing}
<1>1. 1 \in I /\ \A i \in I : i \in Int /\ 1 <= i
  OBVIOUS
<1>2. Min(I) = 1
  BY <1>1 DEF Min
<1> QED BY <1>1, <1>2 DEF FirstSet, SelectInSeq

LEMMA PutFirst ==
  ASSUME NEW S, NEW v, NEW said \in Seq(S), said # <<>>
  PROVE  /\ [said EXCEPT ![1] = v] \in Seq(S \cup {v})
         /\ [said EXCEPT ![1] = v] # <<>>
         /\ [said EXCEPT ![1] = v][1] = v
<1>1. 1 \in 1 .. Len(said) /\ Len(said) \in Nat
  OBVIOUS
<1>2. DOMAIN [said EXCEPT ![1] = v] = 1 .. Len(said)
  OBVIOUS
<1>3. \A i \in 1 .. Len(said) : [said EXCEPT ![1] = v][i] \in S \cup {v}
  OBVIOUS
<1>4. [said EXCEPT ![1] = v] \in [1 .. Len(said) -> S \cup {v}]
  BY <1>2, <1>3
<1> QED BY <1>1, <1>2, <1>4

LEMMA AssignedAsks ==
  ASSUME Asking, Assigned
  PROVE  /\ Asking' /\ caller'.job = caller.job
         /\ caller'.endpoint[1] = Assignment /\ caller'.token[1] = Ticket
<1> DEFINE E == [caller.endpoint EXCEPT ![1] = Assignment]
           T == [caller.token EXCEPT ![1] = Ticket]
<1>1. caller' = [caller EXCEPT !.endpoint = E, !.token = T]
  BY DEF Assigned, Asking, Assignment
<1>2. /\ E \in Seq(Endpoints \cup {Assignment}) /\ E # <<>> /\ E[1] = Assignment
  <2>1. (Endpoints \cup {Assignment}) \cup {Assignment} = Endpoints \cup {Assignment}
    OBVIOUS
  <2> QED BY <2>1, PutFirst DEF Asking
<1>3. T \in Seq(Tokens \cup {Ticket}) /\ T # <<>> /\ T[1] = Ticket
  <2>1. (Tokens \cup {Ticket}) \cup {Ticket} = Tokens \cup {Ticket}
    OBVIOUS
  <2> QED BY <2>1, PutFirst DEF Asking
<1> HIDE DEF E, T
<1>4. caller' = [job |-> caller.job, endpoint |-> E, token |-> T]
  BY <1>1 DEF Asking
<1> QED BY <1>2, <1>3, <1>4 DEF Asking

LEMMA PackedIsAddressed ==
  ASSUME SubmitInv, Pack, caller.job, NEW p \in posted'
  PROVE  ToWorker(p)
<1>1. Asking /\ caller.endpoint[1] = Assignment /\ caller.token[1] = Ticket
  BY DEF SubmitInv, Pack
<1>2. FirstSet(caller.endpoint) = 1 /\ FirstSet(caller.token) = 1
  BY <1>1, FirstIsTaken, FogAssumption DEF Asking, Assignment
<1>3. ResolveEndpoint(caller.endpoint) = Assignment /\ ResolveToken(caller.token) = Ticket
  BY <1>1, <1>2 DEF ResolveEndpoint, ResolveToken
<1>4. TargetUrl(Assignment) = Assignment
  BY DEF TargetUrl, Assignment
<1>5. p = [url |-> TargetUrl(ResolveEndpoint(caller.endpoint)),
           token |-> ResolveToken(caller.token), files |-> Sendable]
  BY DEF Pack, Sendable
<1> QED BY <1>3, <1>4, <1>5 DEF ToWorker

LEMMA CleanKeepsSubmit == ASSUME SubmitInv, Clean PROVE SubmitInv'
<1>1. /\ stage = "replied" /\ stage' = "cleaned"
      /\ UNCHANGED <<caller, posted, left, answer>>
      /\ DOMAIN files' = DOMAIN files \ (Probes \ Stuck)
      /\ \A n \in DOMAIN files' : files'[n] = files[n]
  BY DEF Clean, Enter, Erase, Restrict
<1>2. Probes' \subseteq Stuck /\ (DOMAIN files \ Probes)' = DOMAIN files \ Probes
  BY <1>1 DEF Probes
<1>3. Sendable' = Sendable
  BY <1>1, <1>2 DEF Sendable
<1> QED BY <1>1, <1>2, <1>3 DEF SubmitInv, ToWorker

LEMMA UnpackKeepsSubmit == ASSUME SubmitInv, Unpack PROVE SubmitInv'
<1>1. PICK n \in left : Write(Only(n, <<"answered", posted>>)) /\ left' = left \ {n}
  BY DEF Unpack
<1>2. /\ stage = "cleaned" /\ stage' = "cleaned" /\ UNCHANGED <<caller, posted, answer>>
  BY DEF Unpack
<1> DEFINE new == Only(n, <<"answered", posted>>)
           was == IF n \in DOMAIN files THEN files[n].inode ELSE clock'
<1>3. DOMAIN new = {n} /\ new[n] = <<"answered", posted>> /\ Write(new)
  BY <1>1 DEF Only
<1> HIDE DEF new
<1>4. DOMAIN files' = DOMAIN files \cup {n} /\ \A m \in DOMAIN files \ {n} : files'[m] = files[m]
  BY <1>3, WrittenFiles
<1>5. files'[n].data = <<"answered", posted>>
  <2>1. files'[n] = [data |-> <<"answered", posted>>, mtime |-> clock', inode |-> was]
    <3>1. n \in DOMAIN new /\ new[n] = <<"answered", posted>> /\ Write(new)
      BY <1>3
    <3>2. files'[n] = [data |-> new[n], mtime |-> clock', inode |-> was]
      BY <3>1, WrittenFiles
    <3> HIDE DEF was
    <3> QED BY <3>1, <3>2
  <2> HIDE DEF was
  <2> QED BY <2>1
<1>6. n \in answer /\ IsProbeOutput(n) /\ left \subseteq answer
  BY <1>1, <1>2 DEF SubmitInv
<1>7. Probes' = Probes \cup {n} /\ (DOMAIN files \ Probes)' = DOMAIN files \ Probes
  BY <1>4, <1>6 DEF Probes
<1>8. Sendable' = Sendable
  BY <1>4, <1>7 DEF Sendable, Probes
<1>9. /\ \A p \in posted : p.files = Sendable /\ (caller.job => ToWorker(p))
      /\ \A m \in answer : IsProbeOutput(m)
      /\ \A m \in answer \ left : m \in DOMAIN files /\ files[m].data = <<"answered", posted>>
      /\ Probes \ answer \subseteq Stuck
  BY <1>2 DEF SubmitInv
<1>10. \A m \in answer \ left' : m \in DOMAIN files' /\ files'[m].data = <<"answered", posted>>
  BY <1>1, <1>4, <1>5, <1>9
<1> QED BY <1>1, <1>2, <1>6, <1>7, <1>8, <1>9, <1>10 DEF SubmitInv, ToWorker

LEMMA SubmissionKeepsSubmit == ASSUME SubmitInv, Submission PROVE SubmitInv'
<1>1. ASSUME stage' \in {"idle", "returned", "failed"} PROVE SubmitInv'
  BY <1>1 DEF SubmitInv
<1>2. ASSUME NEW c \in Callers, Call(c) PROVE SubmitInv'
  <2>1. caller' = c /\ stage' = IF c.job THEN "start" ELSE "assigned"
    BY <1>2 DEF Call, Enter
  <2>2. c.job \in BOOLEAN /\ Asking'
    <3>1. c \in [job : BOOLEAN, endpoint : Seq(Endpoints), token : Seq(Tokens)]
          /\ c.endpoint # <<>> /\ c.token # <<>>
      BY FogAssumption
    <3>2. c \in [job : BOOLEAN, endpoint : Seq(Endpoints \cup {Assignment}),
                 token : Seq(Tokens \cup {Ticket})]
      BY <3>1
    <3> QED BY <2>1, <3>1, <3>2 DEF Asking
  <2> QED BY <2>1, <2>2 DEF SubmitInv
<1>3. ASSUME Provision \/ Poll PROVE SubmitInv'
  <2>1. CASE stage' = "failed"
    BY <2>1, <1>1
  <2>2. CASE stage' = "queued" /\ UNCHANGED caller
    BY <1>3, <2>2 DEF SubmitInv, Asking, Provision, Poll
  <2>3. CASE stage' = "assigned" /\ Assigned
    <3>1. Asking /\ caller.job
      BY <1>3 DEF SubmitInv, Provision, Poll
    <3> QED BY <2>3, <3>1, AssignedAsks DEF SubmitInv
  <2> QED BY <1>3, <2>1, <2>2, <2>3 DEF Provision, Poll, Enter, Finish
<1>4. ASSUME Pack PROVE SubmitInv'
  <2>1. stage' = "packed" /\ UNCHANGED <<dir, caller>>
    BY <1>4 DEF Pack, Enter
  <2>2. \A p \in posted' : p.files = Sendable
    BY <1>4 DEF Pack, Sendable
  <2>3. Sendable' = Sendable
    BY <2>1 DEF Sendable, Probes, dir
  <2>4. caller.job => \A p \in posted' : ToWorker(p)
    BY <1>4, PackedIsAddressed
  <2> QED BY <2>1, <2>2, <2>3, <2>4 DEF SubmitInv, ToWorker
<1>5. ASSUME Reply PROVE SubmitInv'
  <2>1. CASE stage' = "failed"
    BY <2>1, <1>1
  <2>2. CASE stage' = "replied" /\ UNCHANGED <<caller, posted, dir>>
             /\ \E probes \in Replies : left' = probes /\ answer' = probes
    <3>1. Sendable' = Sendable
      BY <2>2 DEF Sendable, Probes, dir
    <3>2. \A n \in answer' : IsProbeOutput(n)
      BY <2>2, FogAssumption
    <3>3. \A p \in posted : p.files = Sendable /\ (caller.job => ToWorker(p))
      BY <1>5 DEF SubmitInv, Reply
    <3> QED BY <2>2, <3>1, <3>2, <3>3 DEF SubmitInv, ToWorker
  <2> QED BY <1>5, <2>1, <2>2 DEF Reply, Enter, Finish
<1>6. ASSUME GiveUp \/ UnpackRaises \/ Return \/ KillClient PROVE SubmitInv'
  BY <1>6, <1>1 DEF GiveUp, UnpackRaises, Return, KillClient, Finish, Enter
<1> QED BY <1>2, <1>3, <1>4, <1>5, <1>6, CleanKeepsSubmit, UnpackKeepsSubmit DEF Submission

LEMMA SubmitNextInv == SubmitInv /\ [Next]_vars => SubmitInv'
<1> SUFFICES ASSUME SubmitInv, [Next]_vars PROVE SubmitInv'
  OBVIOUS
<1>1. CASE Nbcc \/ Disturb \/ Check
  <2>1. stage \in {"idle", "returned", "failed"} /\ stage' = stage
    BY <1>1 DEF Nbcc, Disturb, Check, Submitting, Ended, fog
  <2> QED BY <2>1 DEF SubmitInv
<1>2. CASE UNCHANGED vars
  BY <1>2 DEF vars, dir, fog, SubmitInv, Asking, Sendable, Probes, ToWorker
<1> QED BY <1>1, <1>2, SubmissionKeepsSubmit DEF Next

(* When submit() returns, what it has posted is the recording that is on   *)
(* disk, to the worker and with the ticket of the job if there is one, the *)
(* probes are those of the reply to it, all of them, and there is no other *)
(* probe but old ones that cannot be removed (client.py:102-128, fog.py:   *)
(* 68-84).                                                                 *)
THEOREM SubmitDeliversReply == Spec => SubmitDelivers
<1> DEFINE Returns == stage' = "returned" /\ stage # "returned"
           Delivers == Returns => \A p \in posted : Delivered(p)
<1>1. SubmitInv /\ [Next]_vars => [Delivers]_vars
  <2> SUFFICES ASSUME SubmitInv, Next, Returns, NEW p \in posted PROVE Delivered(p)
    OBVIOUS
  <2>1. Return
    BY DEF Next, Nbcc, Submission, Disturb, Check, Call, Provision, Poll, GiveUp, Pack, Reply,
           Clean, Unpack, UnpackRaises, KillClient, Finish, Enter, fog
  <2>2. stage = "cleaned" /\ left = {} /\ answer # {}
    BY <2>1 DEF Return, Finish, Enter
  <2>3. /\ p.files = Sendable /\ (caller.job => ToWorker(p))
        /\ \A n \in answer : IsProbeOutput(n) /\ n \in DOMAIN files
                             /\ files[n].data = <<"answered", posted>>
        /\ Probes \ answer \subseteq Stuck
    BY <2>2 DEF SubmitInv
  <2> QED BY <2>2, <2>3 DEF Delivered, Sendable, ToWorker, Assignment, Probes
<1>2. Init => SubmitInv
  BY DEF Init, FogInit, SubmitInv
<1>3. Spec => [][Delivers]_vars
  BY <1>1, <1>2, SubmitNextInv, PTL DEF Spec
<1> QED BY <1>3 DEF SubmitDelivers

-----------------------------------------------------------------------------
(* The types.                                                              *)

LEMMA FormatsAreTraces == \A conf : Formats(conf) \subseteq {".fhex", ".fhetch"}
BY DEF Formats

LEMMA NbccWritesNames ==
  ASSUME Nbcc
  PROVE  UNCHANGED dir \/ \E new : DOMAIN new \subseteq Names /\ Write(new)
<1>1. \A conf : {TraceFile(e) : e \in Formats(conf)} \subseteq Names
  BY FormatsAreTraces, WorkloadAssumption
<1>2. Capture \in Names /\ Answer("ra") \in Names
  BY WorkloadAssumption
<1>3. \A f, g : DOMAIN Overlay(f, g) = DOMAIN f \cup DOMAIN g
  BY DEF Overlay
<1>4. ASSUME NEW r \in Runs, RecordStart(r) \/ RecordStop(r)
      PROVE  \E new : DOMAIN new \subseteq Names /\ Write(new)
  <2> DEFINE traces(w) == [n \in {TraceFile(e) : e \in Formats(config[r])} |-> Recording(r, w)]
             begun == traces(FALSE)
             done == traces(TRUE)
             input == Only(Capture, <<"input", r>>)
  <2>1. DOMAIN begun \subseteq Names /\ DOMAIN done \subseteq Names
    BY <1>1
  <2>2. DOMAIN input = {Capture}
    BY DEF Only
  <2>3. Write(begun) \/ Write(Overlay(done, input))
    BY <1>4 DEF RecordStart, RecordStop
  <2> HIDE DEF begun, done, input
  <2>4. DOMAIN Overlay(done, input) \subseteq Names
    BY <2>1, <2>2, <1>2, <1>3
  <2> QED BY <2>1, <2>3, <2>4
<1>5. ASSUME NEW r \in Runs, ReplayInProgram(r) \/ ReplayInDriver(r)
      PROVE  \E new : DOMAIN new \subseteq Names /\ Write(new)
  <2> DEFINE input == Only(Capture, <<"input", r>>)
             probe == Only(Answer("ra"), <<"replayed", r>>)
  <2>1. DOMAIN probe = {Answer("ra")} /\ DOMAIN input = {Capture}
    BY DEF Only
  <2>2. Write(probe) \/ Write(Overlay(input, probe))
    BY <1>5 DEF ReplayInProgram, ReplayInDriver
  <2> HIDE DEF input, probe
  <2>3. DOMAIN Overlay(input, probe) = {Capture} \cup {Answer("ra")}
    BY <2>1, <1>3
  <2> QED BY <2>1, <2>2, <2>3, <1>2
<1>6. ASSUME NEW r \in Runs,
             (\E cl \in CommandLines : Parse(r, cl)) \/ OpenYml(r) \/ WriteYml(r) \/ Exec(r)
             \/ ProgramStarts(r) \/ EndsElsewhere(r) \/ Kill(r)
      PROVE  UNCHANGED dir
  BY <1>6 DEF Parse, OpenYml, WriteYml, Exec, ProgramStarts, EndsElsewhere, Kill
<1> QED BY <1>4, <1>5, <1>6 DEF Nbcc

FilesTyped == DOMAIN files \subseteq Names /\ touched \subseteq Names

LEMMA WriteNames ==
  ASSUME FilesTyped, NEW new, DOMAIN new \subseteq Names, Write(new)
  PROVE  FilesTyped'
BY WrittenFiles DEF FilesTyped, Write, Touch

LEMMA EraseNames == ASSUME FilesTyped, NEW ns, ns \subseteq Names, Erase(ns) PROVE FilesTyped'
BY DEF FilesTyped, Erase, Touch, Restrict

ClientTyped ==
    /\ stage \in Stages /\ waited \in Nat
    /\ left \subseteq answer /\ answer \subseteq Names

LEMMA SubmissionTyped ==
  ASSUME FilesTyped, ClientTyped, Submission
  PROVE  FilesTyped' /\ ClientTyped'
<1>1. ASSUME Call(caller') \/ Provision \/ Poll \/ GiveUp \/ Pack \/ Reply \/ UnpackRaises
             \/ Return \/ KillClient
      PROVE  FilesTyped' /\ ClientTyped'
  <2>1. FilesTyped'
    BY <1>1 DEF FilesTyped, dir, Call, Provision, Poll, GiveUp, Pack, Reply, UnpackRaises,
                Return, KillClient
  <2>2. stage' \in Stages
    BY <1>1 DEF Stages, Call, Provision, Poll, GiveUp, Pack, Reply, UnpackRaises, Return,
                KillClient, Finish, Enter
  <2>3. waited' \in Nat
    BY <1>1, FogAssumption DEF ClientTyped, Call, Provision, Poll, GiveUp, Pack, Reply,
       UnpackRaises, Return, KillClient, Finish, Counted
  <2>4. left' \subseteq answer' /\ answer' \subseteq Names
    BY <1>1, WorkloadAssumption DEF ClientTyped, Call, Provision, Poll, GiveUp, Pack, Reply,
       UnpackRaises, Return, KillClient, Finish
  <2> QED BY <2>1, <2>2, <2>3, <2>4 DEF ClientTyped
<1>2. ASSUME NEW c, Call(c) PROVE Call(caller')
  BY <1>2 DEF Call
<1>3. CASE Clean
  <2>1. FilesTyped'
    BY <1>3, EraseNames DEF Clean, Probes, FilesTyped
  <2> QED BY <1>3, <2>1 DEF Clean, Enter, ClientTyped, Stages
<1>4. CASE Unpack
  <2>1. PICK n \in left : Write(Only(n, <<"answered", posted>>)) /\ left' = left \ {n}
    BY <1>4 DEF Unpack
  <2>2. DOMAIN Only(n, <<"answered", posted>>) \subseteq Names
    BY <2>1 DEF Only, ClientTyped
  <2>3. FilesTyped'
    BY <2>1, <2>2, WriteNames
  <2> QED BY <1>4, <2>1, <2>3 DEF Unpack, ClientTyped
<1> QED BY <1>1, <1>2, <1>3, <1>4 DEF Submission

DriverTyped ==
    /\ run = [r \in Runs |-> run[r]]
    /\ \A r \in Runs : run[r] \in Live \cup {"idle", "driver", "over"}
    /\ \A b, c \in manifest : b = c
    /\ verdict \in {"none", "pass", "fail"}

LEMMA NbccTypes == ASSUME DriverTyped, Nbcc PROVE DriverTyped'
<1>1. manifest' = manifest /\ verdict' = verdict
  BY DEF Nbcc, Parse, OpenYml, WriteYml, Exec, ProgramStarts, EndsElsewhere, RecordStart,
         RecordStop, ReplayInProgram, ReplayInDriver, Kill, dir, Write, Touch
<1>2. run' = run \/ \E r \in Runs, where \in Live \cup {"driver", "over"} : Goto(r, where)
  BY DEF Nbcc, Parse, OpenYml, WriteYml, Exec, ProgramStarts, EndsElsewhere, RecordStart,
         RecordStop, ReplayInProgram, ReplayInDriver, Kill, nbcc, End, Live
<1> QED BY <1>1, <1>2 DEF DriverTyped, Goto

TypesInv == DirInv /\ FilesTyped /\ ClientTyped /\ DriverTyped

LEMMA TypesNextInv == TypesInv /\ [Next]_vars => TypesInv'
<1> SUFFICES ASSUME TypesInv, [Next]_vars PROVE TypesInv'
  OBVIOUS
<1>1. DirInv'
  BY DirNextInv DEF TypesInv
<1>2. CASE Nbcc
  <2>1. FilesTyped'
    BY <1>2, NbccWritesNames, WriteNames DEF TypesInv, FilesTyped, dir
  <2>2. ClientTyped'
    BY <1>2 DEF Nbcc, fog, TypesInv, ClientTyped
  <2> QED BY <1>1, <1>2, <2>1, <2>2, NbccTypes DEF TypesInv
<1>3. CASE Submission
  <2>1. DriverTyped'
    BY <1>3 DEF Submission, nbcc, TypesInv, DriverTyped, Call, Provision, Poll, GiveUp, Pack,
                Reply, Clean, Unpack, UnpackRaises, Return, KillClient, dir, Erase, Write, Touch
  <2> QED BY <1>1, <1>3, <2>1, SubmissionTyped DEF TypesInv
<1>4. CASE Disturb
  <2>1. PICK n \in Suspects : \/ \E v : Write(Only(n, v))
                              \/ n \in DOMAIN files /\ Erase({n})
                              \/ CopyOver(n)
    BY <1>4 DEF Disturb
  <2>2. n \in Names /\ \A v : DOMAIN Only(n, v) \subseteq Names
    BY WorkloadAssumption DEF Only
  <2>3. CopyOver(n) => FilesTyped'
    BY DEF CopyOver, Touch, TypesInv, FilesTyped
  <2>4. FilesTyped'
    BY <2>1, <2>2, <2>3, WriteNames, EraseNames DEF TypesInv
  <2>5. DriverTyped' /\ ClientTyped'
    BY <1>4 DEF Disturb, nbcc, fog, TypesInv, DriverTyped, ClientTyped, Write, Erase, CopyOver,
                Touch
  <2> QED BY <1>1, <2>4, <2>5 DEF TypesInv
<1>5. CASE Check
  <2>1. UNCHANGED <<files, run>> /\ UNCHANGED fog
    BY <1>5 DEF Check, Snapshot, Verify, nbcc
  <2>2. /\ touched' = {} /\ \A b, c \in manifest' : b = c
        /\ verdict' \in {"none", "pass", "fail"}
    BY <1>5 DEF Check, Snapshot, Verify, TypesInv, DriverTyped
  <2> QED BY <1>1, <2>1, <2>2 DEF TypesInv, FilesTyped, ClientTyped, DriverTyped, fog
<1>6. CASE UNCHANGED vars
  BY <1>1, <1>6 DEF vars, dir, nbcc, fog, TypesInv, FilesTyped, ClientTyped, DriverTyped
<1> QED BY <1>2, <1>3, <1>4, <1>5, <1>6 DEF Next

(* The variables hold what their declarations say, for any directory the   *)
(* tools find.                                                             *)
THEOREM WorkloadTypes == Spec => []TypeOK
<1>1. Init => TypesInv
  <2> SUFFICES ASSUME Init PROVE TypesInv
    OBVIOUS
  <2>1. FilesTyped
    BY WorkloadAssumption DEF Init, FilesTyped
  <2>2. ClientTyped
    BY DEF Init, FogInit, ClientTyped, Stages
  <2>3. DriverTyped
    BY DEF Init, NbccInit, DriverTyped
  <2> QED BY <2>1, <2>2, <2>3, DirInitInv DEF TypesInv
<1>2. TypesInv => TypeOK
  <2> SUFFICES ASSUME TypesInv PROVE TypeOK
    OBVIOUS
  <2>1. manifest = {} \/ \E before : manifest = {before}
    <3>1. \A b, c \in manifest : b = c
      BY DEF TypesInv, DriverTyped
    <3> QED BY <3>1
  <2>2. Cardinality(manifest) \in {0, 1}
    BY <2>1, FS_EmptySet, FS_Singleton
  <2>3. Cardinality(manifest) <= 1
    BY <2>2
  <2> QED BY <2>3 DEF TypesInv, DirInv, FilesTyped, ClientTyped, DriverTyped, TypeOK
<1> QED BY <1>1, <1>2, TypesNextInv, PTL DEF Spec
=============================================================================
